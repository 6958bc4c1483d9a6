----------------------------- MODULE GrantPages -----------------------------
(***************************************************************************)
(* Queries that return a collection page by page: GranteeGrants,           *)
(* GranterGrants, Grants, Allowances and AllowancesByGranter of the        *)
(* indexer, DkimPubKeys of x/dkim, VKeys of x/zk and AudienceAll of x/jwk. *)
(* A client takes one page after the other with the key that the last one  *)
(* gave it, while entries come and go.                                     *)
(*                                                                         *)
(* The keys of a collection are the positions 1..N, in the order of their  *)
(* encodings; those of one group (a grantee, a granter, a domain) follow   *)
(* one another. The encoding of a key as the part of a longer one has a    *)
(* byte more, and so lies right after the key itself and before the next:  *)
(* position i stands at 2 * i, and its non-terminal encoding at 2 * i + 1. *)
(***************************************************************************)
EXTENDS Integers, FiniteSets

CONSTANTS
  N,
  GroupOf,     \* [1..N -> groups]: the prefix of each key
  TagOf,       \* [1..N -> tags]: what a filter looks at: the kind of message, the Poseidon hash
  Any,         \* a request that does not name a group or a tag
  Requests,    \* query, group and tag
  LengthOf,    \* [1..N -> Nat]: bytes of the non-terminal encoding of each key
  Limit,
  MaxAudiencePage,  \* the largest page of AudienceAll: 100
  NoRequest         \* the client has no query under way

Queries ==
  {"GranteeGrants", "GranterGrants", "Grants", "Allowances", "AllowancesByGranter",
   "DkimPubKeys", "VKeys", "AudienceAll"}

ASSUME NAssumption == N \in Nat /\ Limit \in Nat \ {0}
ASSUME RequestsAssumption == \A req \in Requests : req.query \in Queries
\* The names that governance enters are names of DNS records, of at most 253
\* bytes: no key of x/dkim comes near the 1024 bytes that its query reserves.
ASSUME LengthsAssumption == \A i \in 1..N : LengthOf[i] \in 0..1024
ASSUME OrderAssumption ==
  \A i, j, k \in 1..N : i < j /\ j < k /\ GroupOf[i] = GroupOf[k] => GroupOf[j] = GroupOf[i]

VARIABLES
  entries,    \* the positions that are taken
  request,    \* the request of the client, or NoRequest
  cursor,     \* the key it sends: 0 for none
  finished,   \* the last page had no next key, or failed
  failed,     \* its next key did not fit
  seen,       \* what its pages have returned
  again,      \* what they have returned more than once
  steady      \* what was there since its first page

pagesVars == <<entries, request, cursor, finished, failed, seen, again, steady>>
-----------------------------------------------------------------------------
Terminal(i) == 2 * i
NonTerminal(i) == 2 * i + 1
InGroup(i, req) == req.group \in {Any, GroupOf[i]}
HasTag(i, req) == req.tag \in {Any, TagOf[i]}

FirstOf(S, n) == {i \in S : Cardinality({j \in S : j < i}) < n}
After(S, found) == {i \in S : \A j \in found : j < i}

\* The bytes that a query reserves for its next key; 0 where it does not.
BufferOf(name) ==
  CASE name = "GranteeGrants" -> 128
    [] name = "DkimPubKeys"   -> 1024
    [] OTHER                  -> 0

\* A page: what it returns, and its next key: encoded by Encode, or 0.
PageOf(found, rest, Encode(_)) ==
  [found |-> found, next |-> IF rest = {} THEN 0 ELSE Encode(CHOOSE i \in rest : \A j \in rest : i <= j)]

\* The encoder indexes the buffer past its end when the key is longer: the query
\* panics, which the server answers with an error.
Overflows(name, next) ==
  BufferOf(name) # 0 /\ next # 0 /\ LengthOf[next \div 2] > BufferOf(name)

\* GranteeGrants without a key: the references of the grantee.
GranteeGrantsFirst(req) ==
  LET S == {i \in entries : InGroup(i, req)}
      found == FirstOf(S, Limit)
  IN PageOf(found, After(S, found), NonTerminal)

\* Mutant: the grantee is not compared.
GranteeGrantsWithRawIteration_AnyGrantee(req, key) ==
  LET S == {i \in entries : Terminal(i) >= key}
      found == FirstOf(S, Limit)
  IN PageOf(found, After(S, found), NonTerminal)

\* GranteeGrants with a key: the references of every grantee from that key on,
\* past those of others, to the one after the last that fits the page.
GranteeGrantsWithRawIteration(req, key) ==
  LET S == {i \in entries : Terminal(i) >= key}
      own == {i \in S : InGroup(i, req)}
      found == FirstOf(own, Limit)
      rest == IF Cardinality(found) < Limit THEN {} ELSE After(S, found)
  IN PageOf(found, rest, NonTerminal)

\* CollectionPaginate of the SDK, on a prefix; Paginate does the same on a store.
CollectionPaginate(req, key) ==
  LET S == {i \in entries : InGroup(i, req) /\ Terminal(i) >= key}
      found == FirstOf(S, Limit)
  IN PageOf(found, After(S, found), Terminal)

\* Mutant: the page starts after the key it is given.
DkimPubKeys_Greater(req, key) ==
  LET S == {i \in entries : InGroup(i, req) /\ NonTerminal(i) > key /\ HasTag(i, req)}
      found == FirstOf(S, Limit)
  IN PageOf(found, After(S, found), NonTerminal)

\* Mutant: a page that finds nothing gives its own key as the next one.
DkimPubKeys_SameKey(req, key) ==
  LET S == {i \in entries : InGroup(i, req) /\ NonTerminal(i) >= key /\ HasTag(i, req)}
      found == FirstOf(S, Limit)
  IN IF found = {} THEN [found |-> {}, next |-> key] ELSE PageOf(found, After(S, found), NonTerminal)

\* DkimPubKeys: on from the first key whose encoding is not less; the hash is a
\* filter, and does not count.
DkimPubKeys(req, key) ==
  LET S == {i \in entries : InGroup(i, req) /\ NonTerminal(i) >= key /\ HasTag(i, req)}
      found == FirstOf(S, Limit)
  IN PageOf(found, After(S, found), NonTerminal)

\* The queries that leave the paging to the SDK. Grants does not look at the
\* kind of message of the request.
Grants(req, key) == CollectionPaginate(req, key)
GranterGrants(req, key) == CollectionPaginate(req, key)
Allowances(req, key) == CollectionPaginate(req, key)
AllowancesByGranter(req, key) == CollectionPaginate(req, key)
VKeys(req, key) == CollectionPaginate(req, key)
AudienceAll(req, key) == CollectionPaginate(req, key)

PageAnswer(req, key) ==
  CASE req.query = "GranteeGrants" /\ key = 0 -> GranteeGrantsFirst(req)
    [] req.query = "GranteeGrants" /\ key > 0 -> GranteeGrantsWithRawIteration(req, key)
    [] req.query = "GranterGrants" -> GranterGrants(req, key)
    [] req.query = "Grants" -> Grants(req, key)
    [] req.query = "Allowances" -> Allowances(req, key)
    [] req.query = "AllowancesByGranter" -> AllowancesByGranter(req, key)
    [] req.query = "DkimPubKeys" -> DkimPubKeys(req, key)
    [] req.query = "VKeys" -> VKeys(req, key)
    [] req.query = "AudienceAll" -> AudienceAll(req, key)
-----------------------------------------------------------------------------
PagesInit ==
  /\ entries \in SUBSET (1..N)
  /\ request = NoRequest /\ cursor = 0 /\ finished = FALSE /\ failed = FALSE
  /\ seen = {} /\ again = {} /\ steady = {}

Begin(req) ==
  /\ request = NoRequest
  /\ req.query = "AudienceAll" => Limit <= MaxAudiencePage
  /\ request' = req /\ steady' = entries
  /\ UNCHANGED <<entries, cursor, finished, failed, seen, again>>

NextPage ==
  /\ request # NoRequest /\ ~finished
  /\ LET page == PageAnswer(request, cursor)
         fails == Overflows(request.query, page.next)
         found == IF fails THEN {} ELSE page.found
     IN /\ seen' = seen \cup found
        /\ again' = again \cup (seen \cap found)
        /\ cursor' = IF fails THEN cursor ELSE page.next
        /\ finished' = (fails \/ page.next = 0)
        /\ failed' = fails
  /\ UNCHANGED <<entries, request, steady>>

Put(i) ==
  /\ i \notin entries /\ ~finished
  /\ entries' = entries \cup {i}
  /\ UNCHANGED <<request, cursor, finished, failed, seen, again, steady>>

Delete(i) ==
  /\ i \in entries /\ ~finished
  /\ entries' = entries \ {i}
  /\ steady' = steady \ {i}
  /\ UNCHANGED <<request, cursor, finished, failed, seen, again>>

PagesNext ==
  \/ \E req \in Requests : Begin(req)
  \/ NextPage
  \/ \E i \in 1..N : Put(i) \/ Delete(i)

PagesSpec == PagesInit /\ [][PagesNext]_pagesVars

\* A client that goes on asking while there is a next key: the answer to a
\* query does not wait for anything.
PagesFairSpec == PagesSpec /\ WF_pagesVars(NextPage)
-----------------------------------------------------------------------------
\* Positions, pages and what the client has.
PagesTypeOK ==
  /\ entries \subseteq 1..N /\ steady \subseteq entries
  /\ request \in Requests \cup {NoRequest} /\ cursor \in 0..(2 * N + 1)
  /\ seen \subseteq 1..N /\ again \subseteq seen

Asked(i) == InGroup(i, request) /\ HasTag(i, request)

\* No page returns an entry that an earlier one has returned, nor one of
\* another grantee, granter or domain, or with another hash, whatever was
\* added or removed between the pages (the cursor only moves forward).
PagesSound ==
  request # NoRequest => again = {} /\ \A i \in seen : InGroup(i, request) /\ (request.query = "DkimPubKeys" => HasTag(i, request))

\* A client of any query but GranteeGrants that goes on until there is no
\* next key has every entry that was there all the time, and no page of those
\* queries fails.
PagesComplete ==
  finished /\ request.query # "GranteeGrants" => ~ failed /\ {i \in steady : Asked(i)} \subseteq seen

\* A client that follows the next keys comes to an end, although entries that
\* come and go all the time keep it from ever seeing a still collection: each
\* page starts after what the last one returned (DkimPubKeys, GranteeGrants).
PagesEnd == request # NoRequest ~> finished

\* PagesComplete of GranteeGrants, whose second page should hold the remaining grants.
GranteePagesComplete ==
  finished /\ ~ failed /\ request.query = "GranteeGrants" => {i \in steady : Asked(i)} \subseteq seen

\* GranteeGrants answers: the key of the next page fits the 128 bytes that
\* authz_querier.go:389 reserves. The grant of MsgExecuteContract between two
\* accounts with addresses of 32 bytes needs 136.
NextKeysFit == ~ failed

\* The request of Grants may name a kind of message, and is to return only
\* grants of that kind. The querier does not look at it.
GrantsMatchType ==
  request # NoRequest /\ request.query = "Grants" => \A i \in seen : HasTag(i, request)
=============================================================================
