--------------------------- MODULE MCVKeyRegistry ---------------------------
(* x/zk for TLC: one user and governance; a Circom key, a Circom key of    *)
(* twice the size and a gnark key; genesis files without a key, with the   *)
(* default key, with a user's key under the default key's id, and such as  *)
(* only a check that no start of a chain makes would refuse: an id twice,  *)
(* a name twice, a Circom key that is said to be one of gnark.             *)
EXTENDS VKeyRegistry, TLC

CONSTANTS u1, zkEmail, other, circom, large, gnarkKey

MCUsers == {u1}
MCNames == {zkEmail, other}
MCKeyBytes == {circom, large, gnarkKey}
MCParsesAs == (circom :> {"groth16"}) @@ (large :> {"groth16"}) @@ (gnarkKey :> {"gnark"})
MCSizeOf == (circom :> 1) @@ (large :> 2) @@ (gnarkKey :> 1)

MCParams(size, chunk, gas, limit) ==
  [maxVkeySize |-> size, chunkSize |-> chunk, chunkGas |-> gas, limit |-> [l \in Limits |-> limit]]
MCDefaultParams == MCParams(2, 1, 1, 1)

\* Both sizes of key allowed or only the small one, limits not set, a gas
\* price at which two chunks overflow, and parameters to be refused.
MCParamInputs ==
  {MCParams(2, 1, 1, 0), MCParams(1, 2, 15, 2), MCParams(2, 1, 15, 1), MCParams(4, 1, 1, 1),
   MCParams(2, 1, 1, 3), NoParams}
FewParams == {MCParams(2, 1, 1, 0)}
HugeChunks == {MCParams(2, 1, 1, 1), MCParams(2, 15, 1, 1)}

Entry(id, name, owner) ==
  [id |-> id, vkey |-> [name |-> name, key |-> circom, authority |-> owner, system |-> "groth16"]]
EmptyFile == <<>>
DefaultFile == <<[id |-> 1, vkey |-> DefaultVKey]>>
UsersFile == <<Entry(1, other, u1)>>
Unvetted ==
  {<<Entry(0, other, u1), Entry(0, zkEmail, Unset)>>,
   <<Entry(0, zkEmail, Unset), Entry(2, other, u1), Entry(1, other, Unset)>>,
   <<[Entry(0, other, u1) EXCEPT !.vkey.system = "gnark"]>>}
MCGenesisFiles == {EmptyFile, DefaultFile, UsersFile} \cup Unvetted
DefaultGenesis == {DefaultFile}
=============================================================================
