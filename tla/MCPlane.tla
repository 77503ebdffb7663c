------------------------------ MODULE MCPlane ------------------------------
(* Two calls or requests at once, over an empty installation or one with   *)
(* two administrators: the second owns a bucket with an object and a key   *)
(* that is confined to two names.                                           *)
EXTENDS Gateway, TLC

MCUsers == {"u1", "u2", "u3"}
MCPools == {"p1", "p2"}
MCBuckets == {"b1", "b2"}
MCNameOf == [b \in MCBuckets |-> "media"]
MCNames == {"a", "b", "z", "up"}
MCBadNames == {"up"}
MCKeys == {"k1", "k2"}
MCActions == {"read", "write", "delete"}
MCPrefixes == {{"a", "b"}}
MCScopings == {{}, MCPrefixes}
MCGrants == {{"read", "write"}}
MCSymmetry == Permutations(Calls) \cup Permutations(Requests)

Nobody(rowsOf) == [r \in rowsOf |-> None]

Empty == [user |-> Nobody(MCUsers), pool |-> Nobody(MCPools), bucket |-> Nobody(MCBuckets),
          rows |-> {}, key |-> Nobody(MCKeys)]

Tenant ==
  [user |-> [u \in MCUsers |-> IF u = "u3" THEN None ELSE [role |-> "admin", temporary |-> FALSE]],
   pool |-> [p \in MCPools |-> IF p = "p1" THEN "ready" ELSE None],
   bucket |-> [b \in MCBuckets |-> IF b = "b2" THEN None ELSE
                [owner |-> "u2", pool |-> "p1", max |-> 2, used |-> 1, held |-> 0, count |-> 1]],
   rows |-> {<<"b1", "a">>},
   key |-> [k \in MCKeys |-> IF k = "k2" THEN None ELSE
             [owner |-> "u2", status |-> "active", expires |-> 0, acts |-> MCActions,
              prefixes |-> MCPrefixes \X {None}, from |-> None]]]

MCDatabases == {Empty, Tenant}

NoPart == [permissions |-> None, prefixes |-> None, label |-> None, expires |-> None, status |-> None]

MCPatches == {
  [NoPart EXCEPT !.permissions = {"write"}, !.label = "unknown"],
  [NoPart EXCEPT !.prefixes = MCPrefixes, !.status = "active"],
  [NoPart EXCEPT !.prefixes = {}, !.label = "S3"],
  [NoPart EXCEPT !.permissions = {"read", "write"}, !.expires = 1, !.status = "disabled"] }

\* Requests: what the client signs, and what arrives.
Plain(method, name, params) ==
  [method |-> method, bucket |-> "media", name |-> name, params |-> params, body |-> {},
   source |-> None, html |-> FALSE]

SignedAs(meant, w, form, expires) ==
  LET bare == [form |-> form, key |-> "k1", covers |-> {"source", "payload"}, at |-> 0,
               expires |-> expires, payload |-> "HASH"]
      full == [bare EXCEPT !.payload = IF form = "presigned" THEN "UNSIGNED-PAYLOAD" ELSE @]
      was == [f \in DOMAIN meant \cup {"auth"} |-> IF f = "auth" THEN full ELSE meant[f]]
      auth == [f \in DOMAIN bare \cup {"signature", "meant"} |->
                IF f = "signature" THEN Signature("k1", was) ELSE IF f = "meant" THEN was ELSE full[f]]
  IN [f \in DOMAIN w \cup {"auth"} |-> IF f = "auth" THEN auth ELSE w[f]]

AsSigned(w) == SignedAs(w, w, "header", None)

\* A link that is good for a moment only, whose signature comes in the header.
InHeader(w) == [w EXCEPT !.auth.form = "header"]

\* A link whose moment of signing was moved on after it was signed.
Shifted(w) == [w EXCEPT !.auth.at = @ + 1]

Unsigned(w) == [f \in DOMAIN w \cup {"auth"} |-> IF f = "auth" THEN [form |-> "none"] ELSE w[f]]

Copy(name, source) == [Plain("PUT", name, {}) EXCEPT !.source = <<"media", source>>]

MCWires == {
  Unsigned([Plain("GET", "a", {}) EXCEPT !.html = TRUE]),
  Unsigned(Plain("GET", "a", {})),
  AsSigned([Plain("GET", None, {}) EXCEPT !.bucket = None]),
  AsSigned(Plain("PUT", None, {})),
  AsSigned(Plain("GET", None, {"list-type"})),
  AsSigned(Plain("GET", None, {})),
  SignedAs(Plain("GET", "a", {}), Plain("GET", "a", {}), "presigned", 1),
  Shifted(SignedAs(Plain("GET", "a", {}), Plain("GET", "a", {}), "presigned", 1)),
  InHeader(SignedAs(Plain("GET", "a", {}), Plain("GET", "a", {}), "presigned", 0)),
  SignedAs(Plain("GET", "a", {}), Plain("GET", "a", {"uploadId"}), "header", None),
  AsSigned(Plain("PUT", "a", {})),
  AsSigned(Plain("PUT", "b", {})),
  AsSigned(Plain("PUT", "z", {})),
  AsSigned(Plain("PUT", "up", {})),
  AsSigned(Copy("b", "a")),
  AsSigned(Copy("a", "z")),
  AsSigned(Copy("a", "up")),
  AsSigned(Plain("DELETE", "a", {})),
  AsSigned(Plain("DELETE", "a", {"uploadId"})),
  AsSigned([Plain("POST", None, {"delete"}) EXCEPT !.body = {"b", "z"}]) }
=============================================================================
