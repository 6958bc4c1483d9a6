------------------------- MODULE MCAudienceRegistry -------------------------
(* x/jwk for TLC: two users and two names, so that a claim can be taken    *)
(* over and an audience renamed; one key that is accepted, one that is     *)
(* symmetric, and for one run one of ES256K with the wrong key type.       *)
EXTENDS AudienceRegistry, TLC

CONSTANTS u1, u2, app, web

MCUsers == {u1, u2}
MCAuds == {app, web}

Key(alg, kty) == [alg |-> alg, kty |-> kty, private |-> FALSE, oversized |-> FALSE]
rs256 == Key("RS", "RSA")
hs256 == Key("HS", "oct")
secp256k1 == Key("ES256K", "RSA")
MCKeys == {rs256, hs256}
MismatchedKeys == {rs256, secp256k1}

MCSubjects == {u1, u2}
MCTokens == {[aud |-> app, sub |-> u1, signedWith |-> rs256, nbf |-> 1, exp |-> 2],
             [aud |-> app, sub |-> u1, signedWith |-> rs256, nbf |-> 0, exp |-> 4]}

\* Zero, the least, the greatest and -1 as an int64.
MCOffsetInputs == {0, 1, 3, 7}

\* The last two files would not pass Validate: a symmetric key, a name twice.
Entry(aud, admin, key) == [aud |-> aud, audience |-> [admin |-> admin, key |-> key]]
MCGenesisFiles ==
  {<< >>,
   <<Entry(app, u1, rs256)>>,
   <<Entry(app, u2, NoKey)>>,
   <<Entry(web, u1, hs256)>>,
   <<Entry(app, u1, NoKey), Entry(app, u2, rs256)>>}
NoAudience == {<< >>}
=============================================================================
