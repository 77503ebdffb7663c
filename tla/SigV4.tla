------------------------------- MODULE SigV4 -------------------------------
(***************************************************************************)
(* Signature Version 4 as the gateway verifies it (s3/sigv4.rs) on a       *)
(* request of module Routing.  Its credentials w.auth are                  *)
(*   form       "none", "header" or "presigned"                            *)
(*   key        the access key id presented                                *)
(*   covers     the signed headers: "source" and "payload" are headers     *)
(*   at         the moment of signing                                      *)
(*   expires    X-Amz-Expires, a parameter of the query, or None           *)
(*   payload    x-amz-content-sha256                                       *)
(*   meant      history: the request that the client signed, its           *)
(*              credentials but for the signature included                 *)
(*   signature  what Signature made of the request the client signed       *)
(* Signature is injective: hashes do not collide.  The form is not part of *)
(* what is signed: it says only where the gateway found the signature, and *)
(* so by which rule it judges the time.                                    *)
(***************************************************************************)
EXTENDS Routing

CONSTANTS
  Skew,       \* CLOCK_SKEW_SECS
  MaxWindow   \* MAX_PRESIGNED_EXPIRY_SECS

ASSUME WindowAssumption == Skew \in Nat /\ MaxWindow \in Nat

\* Mutant of CanonicalRequest: the query is left out.
CanonicalRequestBare(w) ==
  [method |-> w.method, bucket |-> w.bucket, name |-> w.name,
   source |-> IF "source" \in w.auth.covers THEN w.source ELSE None,
   covers |-> w.auth.covers,
   payload |-> IF w.auth.form = "presigned" THEN "UNSIGNED-PAYLOAD" ELSE w.auth.payload]

\* canonical_request: the method, the path as it arrived, the query in sorted
\* order but for the signature itself, the signed headers, and the payload's
\* hash, which a presigned request does not have.
CanonicalRequest(w) ==
  [method |-> w.method, bucket |-> w.bucket, name |-> w.name, params |-> w.params,
   source |-> IF "source" \in w.auth.covers THEN w.source ELSE None,
   covers |-> w.auth.covers,
   payload |-> IF w.auth.form = "presigned" THEN "UNSIGNED-PAYLOAD" ELSE w.auth.payload]

\* signing_key, string_to_sign and signature.
Signature(secret, w) == <<secret, w.auth.at, w.auth.expires, CanonicalRequest(w)>>

\* check_expiry of a request that arrives presigned (parse_query refuses one without
\* X-Amz-Expires), the skew rule for any other.
InTime(w, now) ==
  IF w.auth.form = "presigned"
  THEN /\ w.auth.expires # None /\ w.auth.expires <= MaxWindow
       /\ now >= w.auth.at /\ now - w.auth.at <= w.auth.expires
  ELSE now - w.auth.at <= Skew /\ w.auth.at - now <= Skew

\* payload_hash_of, check_expiry and verify, in this order: what is wrong, or None.
Fault(w, secret, now) ==
  IF w.auth.form = "header" /\ w.auth.payload = "STREAMING" THEN "NotImplemented"
  ELSE IF ~InTime(w, now)
    THEN IF w.auth.form = "presigned" THEN "AccessDenied" ELSE "RequestTimeTooSkewed"
  ELSE IF w.auth.signature # Signature(secret, w) THEN "SignatureDoesNotMatch"
  ELSE None
=============================================================================
