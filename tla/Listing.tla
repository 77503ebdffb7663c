------------------------------ MODULE Listing ------------------------------
(***************************************************************************)
(* ListObjectsV2 (src/controllers/s3/listing.rs) over the object rows      *)
(* (objects::list_page).  A listing is a client that asks for a first page *)
(* and follows the continuation tokens it is given; other requests put and *)
(* delete objects between two pages.  A page is one query.                 *)
(***************************************************************************)
EXTENDS Paths, FiniteSetsExt

CONSTANTS
  KeySpace,      \* the keys a bucket may hold
  PrefixesAsked,      \* the prefixes clients list
  Scopes,        \* the scopes access keys have
  MaxAsked,         \* the max-keys clients send
  MaxKeysLimit,  \* MAX_KEYS_LIMIT
  Delimiters,    \* the delimiters clients send, Nothing among them or not
  Nothing,       \* a query parameter that was not sent
  MaxWrites      \* bound on the puts and deletes between pages

ASSUME KeysAssumption == IsFiniteSet(KeySpace) /\ KeySpace \subseteq Seq(Nat)
ASSUME PrefixesAssumption == PrefixesAsked \subseteq Seq(Nat) /\ Scopes \subseteq SUBSET Seq(Nat)
ASSUME AskedAssumption == MaxAsked \subseteq Nat
ASSUME LimitAssumption == MaxKeysLimit \in Nat \ {0}
ASSUME MaxWritesAssumption == MaxWrites \in Nat
ASSUME NothingAssumption == Nothing \notin KeySpace \cup Nat

VARIABLES
  rows,    \* the keys of the bucket's object rows
  scope,   \* the prefixes of the access key that lists
  ask,     \* the query parameters that every page repeats, or Nothing
  after,   \* where the next page resumes: the token's key, or start-after
  state,   \* "fresh", "paging", "done" or "denied"
  listed,  \* the Contents of all pages so far
  groups,  \* the CommonPrefixes of all pages so far
  kept,    \* history: the rows present since the listing began
  writes   \* how many puts and deletes there have been

lvars == <<rows, scope, ask, after, state, listed, groups, kept, writes>>

Query == [prefix : PrefixesAsked, delimiter : Delimiters, max : MaxAsked \cup {Nothing},
          start : KeySpace \cup {Nothing}]

----------------------------------------------------------------------------
(* One page. *)

Smaller(m, n) == IF m < n THEN m ELSE n

\* Mutant of Limit: a client that asks for no keys gets none.
LimitUnclamped(q) == IF q.max = Nothing THEN MaxKeysLimit ELSE Smaller(q.max, MaxKeysLimit)

\* max-keys, clamped to 1..MAX_KEYS_LIMIT.
Limit(q) ==
  IF q.max = Nothing THEN MaxKeysLimit
  ELSE IF q.max = 0 THEN 1 ELSE Smaller(q.max, MaxKeysLimit)

\* Mutant of InRange: the row the last page ended with is read again.
InRangeInclusive(k, q, a) ==
  /\ q.prefix # <<>> => k = q.prefix \/ Before(q.prefix, k)
  /\ q.prefix # <<>> => Before(k, UpperBound(q.prefix))
  /\ a # Nothing => a = k \/ Before(a, k)

\* The WHERE of list_page.
InRange(k, q, a) ==
  /\ q.prefix # <<>> => k = q.prefix \/ Before(q.prefix, k)
  /\ q.prefix # <<>> => Before(k, UpperBound(q.prefix))
  /\ a # Nothing => Before(a, k)

\* Some keys, the least first.
KeysInOrder(S) ==
  [i \in 1..Cardinality(S) |->
    CHOOSE k \in S : Cardinality({j \in S : Before(j, k)}) = i - 1]

\* The rows of a query in key order.
Found(q, a) == KeysInOrder({k \in rows : InRange(k, q, a)})

\* Mutant of ListPage: no lookahead row.
ListPageWithoutLookahead(q, a) ==
  SubSeq(Found(q, a), 1, Smaller(Len(Found(q, a)), Limit(q)))

\* list_page: rows in key order, one more than the limit.
ListPage(q, a) ==
  SubSeq(Found(q, a), 1, Smaller(Len(Found(q, a)), Limit(q) + 1))

\* The group a key rolls up into: up to the first delimiter after the prefix.
DelimitersAfter(k, q) == {i \in Len(q.prefix) + 1..Len(k) : k[i] = q.delimiter}

RollsUp(k, q) == q.delimiter # Nothing /\ DelimitersAfter(k, q) # {}

Group(k, q) ==
  SubSeq(k, 1, CHOOSE i \in DelimitersAfter(k, q) : \A j \in DelimitersAfter(k, q) : i <= j)

\* The rows that roll up, by their place in the page's rows.
Rolled(found, q) == {i \in DOMAIN found : RollsUp(found[i], q)}

\* The rows that are entries: a row that does not roll up, and one that does not
\* roll up into the group last emitted.
Entries(found, q) ==
  {i \in DOMAIN found : i \in Rolled(found, q) =>
     LET earlier == {j \in Rolled(found, q) : j < i} IN
     earlier # {} => Group(found[Max(earlier)], q) # Group(found[i], q)}

\* The rows roll_up's loop consumes before the page is full.
Consumed(found, q) ==
  {i \in DOMAIN found : Cardinality({j \in Entries(found, q) : j < i}) < Limit(q)}

\* Mutant of Resume: the first key that was not consumed.
ResumeAtNext(found, q, n) == IF n < Len(found) THEN found[n + 1] ELSE Nothing

\* Mutant of Resume: the entry the last row consumed is in.
ResumeAtEntry(found, q, n) ==
  IF n = 0 THEN Nothing ELSE IF RollsUp(found[n], q) THEN Group(found[n], q) ELSE found[n]

\* The token: the last row consumed.
Resume(found, q, n) == IF n = 0 THEN Nothing ELSE found[n]

\* Some places in a page's rows, the first one first, and the rows there.
Ascending(places) ==
  [i \in 1..Cardinality(places) |->
    CHOOSE x \in places : Cardinality({y \in places : y < x}) = i - 1]

RowsAt(found, places) ==
  [i \in 1..Cardinality(places) |-> found[Ascending(places)[i]]]

\* roll_up: the page of some rows.  It is truncated when a row is left over.
RollUp(found, q) ==
  LET n == Cardinality(Consumed(found, q))
      rolled == RowsAt(found, 1..n \cap Rolled(found, q) \cap Entries(found, q)) IN
  [contents |-> RowsAt(found, 1..n \ Rolled(found, q)),
   groups |-> [i \in DOMAIN rolled |-> Group(rolled[i], q)],
   truncated |-> n < Len(found),
   last |-> Resume(found, q, n)]

\* Mutant of MayList: a prefix above one of the scope's may be listed too.
MayListAbove(ps, prefix) ==
  ps = {} \/ \E p \in ps : PrefixAllows(p, prefix) \/ StartsWith(p, prefix)

\* may_list: the scope is checked against the prefix asked for, not the rows.
MayList(ps, prefix) == ps = {} \/ \E p \in ps : PrefixAllows(p, prefix)

----------------------------------------------------------------------------
(* A listing. *)

LInit ==
  /\ rows \in SUBSET KeySpace
  /\ scope \in Scopes
  /\ ask = Nothing /\ after = Nothing
  /\ state = "fresh"
  /\ listed = <<>> /\ groups = <<>>
  /\ kept = rows
  /\ writes = 0

\* The client decides what to list; start-after counts for the first page only.
Ask(q) ==
  /\ state = "fresh"
  /\ ask' = q /\ after' = q.start
  /\ state' = IF MayList(scope, q.prefix) THEN "paging" ELSE "denied"
  /\ kept' = rows
  /\ UNCHANGED <<rows, scope, listed, groups, writes>>

\* list_objects_v2_inner: a token is the last key consumed, and only a truncated
\* page has one.
Page ==
  /\ state = "paging"
  /\ \E found \in {ListPage(ask, after)} : \E page \in {RollUp(found, ask)} :
       /\ listed' = listed \o page.contents
       /\ groups' = groups \o page.groups
       /\ IF page.truncated
            THEN after' = page.last /\ UNCHANGED state
            ELSE state' = "done" /\ UNCHANGED after
  /\ UNCHANGED <<rows, scope, ask, kept, writes>>

Write(k, there) ==
  /\ state = "paging" /\ writes < MaxWrites
  /\ rows' = IF there THEN rows \cup {k} ELSE rows \ {k}
  /\ rows' # rows
  /\ kept' = kept \cap rows'
  /\ writes' = writes + 1
  /\ UNCHANGED <<scope, ask, after, state, listed, groups>>

Finished == state \in {"done", "denied"} /\ UNCHANGED lvars

LNext ==
  \/ \E q \in Query : Ask(q)
  \/ Page
  \/ \E k \in KeySpace : Write(k, TRUE) \/ Write(k, FALSE)
  \/ Finished

\* A client that was given a token asks for the next page.
ListingSpec == LInit /\ [][LNext]_lvars /\ WF_lvars(Page)

----------------------------------------------------------------------------
(* Properties. *)

ListingTypeOK ==
  /\ rows \subseteq KeySpace /\ scope \in Scopes
  /\ ask \in Query \cup {Nothing}
  /\ after \in KeySpace \cup {Nothing}
  /\ state \in {"fresh", "paging", "done", "denied"}
  /\ listed \in Seq(KeySpace) /\ groups \in Seq(Seq(Nat))
  /\ kept \subseteq rows
  /\ writes \in 0..MaxWrites

\* No key is listed twice and the keys come in order, over all pages and
\* whatever is written between them.
ListedInOrder ==
  \A i, j \in 1..Len(listed) : i < j => Before(listed[i], listed[j])

\* What the client has been shown of a key: the key, or the group it is in.
Shown(k) ==
  IF RollsUp(k, ask) THEN \E i \in 1..Len(groups) : groups[i] = Group(k, ask)
                     ELSE \E i \in 1..Len(listed) : listed[i] = k

Wanted == {k \in kept : InRange(k, ask, ask.start)}

\* When a page says where to resume, no row that stayed is behind that point
\* without having been shown: no page skips, whatever the order of groups and
\* keys, and writes elsewhere in the bucket do not shift a page.
NothingSkipped ==
  (state = "paging" /\ after # Nothing) =>
    \A k \in Wanted : ~Before(after, k) => Shown(k)

\* A listing without a delimiter that says it is complete has shown every key
\* that stayed.
FlatListingComplete ==
  (state = "done" /\ ask.delimiter = Nothing) => \A k \in Wanted : Shown(k)

\* A query whose prefix is one of the scope's that does not end its segment: may_list
\* allows it, and the rows that begin with it need not be on a segment boundary.
AsksMidSegment == ask.prefix \in scope /\ ~EndsInSlash(ask.prefix)

\* Every key and every group that a scoped access key is shown is one its scope
\* authorises, though only the prefix is checked and never a row.  It takes a
\* prefix that ends in a slash, or lies below one of the scope's: for a query
\* that asks mid-segment (a scope of `team`, listed as `team`) nothing is said
\* here, and the code shows `teamsecret` too.
ListedWithinScope ==
  (state # "fresh" /\ scope # {} /\ ~AsksMidSegment) =>
    /\ \A i \in 1..Len(listed) : ScopeAllows(scope, listed[i])
    /\ \A i \in 1..Len(groups) : ScopeAllows(scope, groups[i])

\* A listing that is not truncated has shown everything: a client that follows
\* the tokens to the end has seen every key that stayed, alone or in its group.
\* "The lookahead is how IsTruncated is decided" (models/objects.rs:317).
ListingComplete == state = "done" => \A k \in Wanted : Shown(k)

\* A client that follows the tokens comes to an end, even one that asks for no
\* keys at all.
PagingEnds == (state = "paging") ~> (state = "done")
=============================================================================
