------------------------------- MODULE Paths -------------------------------
(***************************************************************************)
(* Object keys and prefixes as the gateway compares them.  A string is the *)
(* sequence of its characters, a character is a number, and the order of   *)
(* the numbers is the order of the bytes.                                  *)
(***************************************************************************)
EXTENDS Naturals, Sequences

CONSTANT Slash  \* the character that separates the segments of a key

ASSUME SlashAssumption == Slash \in Nat

StartsWith(s, p) == Len(p) <= Len(s) /\ SubSeq(s, 1, Len(p)) = p

EndsInSlash(s) == s # <<>> /\ s[Len(s)] = Slash

\* access_keys::prefix_allows: a prefix authorises a key only up to the end of
\* a segment.
PrefixAllows(p, k) ==
  /\ StartsWith(k, p)
  /\ EndsInSlash(p) \/ Len(k) = Len(p) \/ k[Len(p) + 1] = Slash

\* A set of prefixes as a key's scope: none is the whole bucket.
ScopeAllows(ps, k) == ps = {} \/ \E p \in ps : PrefixAllows(p, k)

\* s sorts before t.
Before(s, t) ==
  \/ StartsWith(t, s) /\ s # t
  \/ \E i \in 1..Len(s) :
       /\ i <= Len(t)
       /\ SubSeq(s, 1, i - 1) = SubSeq(t, 1, i - 1)
       /\ s[i] < t[i]

\* objects::prefix_upper_bound.  Every character has a successor here, so only
\* the last one is ever incremented.
UpperBound(p) == [p EXCEPT ![Len(p)] = @ + 1]
=============================================================================
