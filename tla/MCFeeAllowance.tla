--------------------------- MODULE MCFeeAllowance ---------------------------
(* Fee allowances for TLC: nested in each other in the ways the types allow, *)
(* with limits that two fees use up, periods of two blocks and of none, and  *)
(* lists of one expiration, of several, of none inside and nested too deep.  *)
EXTENDS FeeAllowance, TLC

CONSTANTS treasury, stranger, c1, c2

MCLeaves == 1..3
MCGrantees == {treasury, stranger}
MCContracts == {c1, c2}
Basic(id, limit, end) ==
  [kind |-> "leaf", id |-> id, limit |-> limit, expiration |-> end, period |-> NoPeriod]
Periodic(id, limit, end, length, grant) ==
  [kind |-> "leaf", id |-> id, limit |-> limit, expiration |-> end,
   period |-> [length |-> length, grant |-> grant, can |-> grant, reset |-> 2]]
Authz(grantee, a) == [kind |-> "authz", grantee |-> grantee, inner |-> a]
OnContracts(cs, a) == [kind |-> "contracts", contracts |-> cs, inner |-> a]
Multi(as) == [kind |-> "multi", inner |-> as]

MCProposals ==
  {Authz(treasury, OnContracts({c1}, Basic(1, 3, 2))),
   OnContracts({c1, c2}, Periodic(1, 3, Never, 2, 1)),
   Multi(<<Basic(1, 1, 2), Authz(treasury, Basic(2, 2, 2)), Basic(3, 2, 2)>>),
   Multi(<<OnContracts({c1}, Periodic(1, Unlimited, 3, 2, 2)), Basic(2, 3, 3)>>),
   Authz(treasury, Multi(<<OnContracts({c1}, Basic(1, 2, Never)), Multi(<<OnContracts({c2}, Basic(2, 1, Never))>>), Basic(3, 1, Never)>>)),
   Multi(<<Multi(<<Basic(1, 2, 3), OnContracts({c1}, Basic(2, 1, 3))>>), Periodic(3, 3, 3, 0, 2)>>),
   Multi(<<Basic(1, 1, 1), Basic(2, 3, 3)>>),
   Multi(<<Basic(1, 1, 3), Multi(<<>>)>>),
   Multi(<<Multi(<<Multi(<<Basic(1, 1, 3)>>)>>)>>)}

Wasm(c) == [type |-> "wasm", contract |-> c]
Exec(grantee, msgs) == [type |-> "exec", grantee |-> grantee, msgs |-> msgs]
Other == [type |-> "other"]
MCMsgs ==
  {<<Other>>, <<Wasm(c1)>>, <<Wasm(c2), Wasm(c1)>>,
   <<Wasm(c2), Wasm(c2)>>,
   <<Exec(treasury, <<Wasm(c1)>>)>>, <<Exec(treasury, <<Wasm(c2)>>), Exec(treasury, <<Wasm(c2)>>)>>,
   <<Exec(treasury, <<Wasm(c1)>>), Other>>, <<Exec(stranger, <<Wasm(c1)>>)>>}
MCTxs == [fee : {1, 2}, msgs : MCMsgs]
=============================================================================
