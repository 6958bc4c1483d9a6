--------------------------- MODULE MCDkimRegistry ---------------------------
(* x/dkim for TLC: a domain with two selectors and another with one; two   *)
(* keys of the same modulus, of which one is larger in its PKIX encoding   *)
(* than a low limit allows, and a weak one that only a genesis file may    *)
(* hold; messages of one record, and of two for the same selector.         *)
EXTENDS DkimRegistry, TLC

CONSTANTS u1, d1, d2, s1, s2, k1, k2, weak, pkix, pkcs1

MCUsers == {u1}
MCSlots == {<<d1, s1>>, <<d1, s2>>, <<d2, s1>>}
MCRsaKeys == {k1, k2, weak}
MCEncodings == {pkix, pkcs1}
MCSizeOf == [x \in MCRsaKeys \X MCEncodings |-> IF x = <<k2, pkix>> THEN 2 ELSE 1]
MCStrongKeys == {k1, k2}
MCHashOf == [rsa \in MCRsaKeys |-> IF rsa = weak THEN 2 ELSE 1]
Junk == 3

Rec(slot, rsa, encoding, hash) ==
  [slot |-> slot, key |-> [rsa |-> rsa, encoding |-> encoding, hash |-> hash]]
MCBatches ==
  {<<Rec(slot, rsa, encoding, Junk)>> : slot \in MCSlots, rsa \in MCStrongKeys, encoding \in MCEncodings}
    \cup {<<Rec(<<d1, s1>>, k1, pkix, 2), Rec(<<d1, s1>>, k2, pkcs1, 2)>>, <<Rec(<<d2, s1>>, weak, pkix, 2)>>}

MCIndices(min, last) ==
  [minLength |-> min, emailHash |-> 0, dkimHash |-> 1,
   range |-> [r \in Ranges |-> [start |-> 1, end |-> last]]]
MCDefaultParams == [vkey |-> 1, maxSize |-> 2, indices |-> MCIndices(3, 3)]

\* The defaults, a low size limit, no size limit, ranges that end past the
\* least number of inputs, and no positions.
MCParamInputs ==
  {MCDefaultParams,
   [MCDefaultParams EXCEPT !.maxSize = 1],
   [MCDefaultParams EXCEPT !.maxSize = 0],
   [MCDefaultParams EXCEPT !.indices = MCIndices(2, 3)],
   [MCDefaultParams EXCEPT !.indices = NoIndices]}

SizedParams == {p \in MCParamInputs : p.maxSize > 0}

MCGenesisFiles == {<<>>, <<Rec(<<d1, s1>>, k1, pkix, 1), Rec(<<d2, s1>>, weak, pkix, 2)>>}
=============================================================================
