----------------------------- MODULE MCReplicas -----------------------------
(***************************************************************************)
(* Two nodes whose clocks disagree, three blocks, the upgrade in the       *)
(* second.  Each log has a block for several checks of the queries.        *)
(***************************************************************************)
EXTENDS Replicas

CONSTANTS n1, n2

MCClock == [n \in Nodes |-> IF n = n1 THEN 1 ELSE 3]

MCFromVersion == [dkim |-> 1, globalfee |-> 2, jwk |-> 3, xion |-> 1, zk |-> 2]

Until(t) == [parses |-> TRUE, notBefore |-> 1, notAfter |-> t]

Garbled == [parses |-> FALSE, notBefore |-> 0, notAfter |-> 0]

\* A registration in the packed format with a certificate that ends at time 1.
Data == [decodes |-> TRUE, parser |-> "ok", authDataLen |-> 164, alg |-> "ES256",
         format |-> "packed", attStatement |-> [fmt |-> "", x5c |-> <<Until(3), Until(1)>>],
         challenge |-> "c1", origin |-> "https://a", id |-> "i1", key |-> "k1",
         credentialSize |-> 900]

Register(addr, data) ==
  [path |-> "register", addr |-> addr, rp |-> "https://a", challenge |-> "c1",
   size |-> 1200, data |-> data]

\* An assertion by the key of a registration.
Assertion == [decodes |-> TRUE, parser |-> "ok", authDataLen |-> 37, challenge |-> "c2",
              origin |-> "https://a", id |-> "i1", signedBy |-> "k1", userHandle |-> ""]

Authenticate(addr, data) ==
  [path |-> "authenticate", addr |-> addr, rp |-> "https://a", challenge |-> "c2",
   size |-> 600, data |-> data]

None1 == [Data EXCEPT !.format = "none", !.attStatement.x5c = <<Garbled>>]
None2 == [Data EXCEPT !.attStatement = [fmt |-> "none", x5c |-> <<Garbled>>],
                      !.id = "i2", !.key = "k2"]
Bare  == [Data EXCEPT !.format = "none", !.attStatement = Nothing, !.id = "i2", !.key = "k2"]

MCRequestOf == [
  expiring     |-> Register("w1", Data),
  none         |-> Register("w1", None1),
  bare         |-> Register("w1", Bare),
  other        |-> Register("w2", Bare),
  large        |-> [Register("w1", Data) EXCEPT !.size = MaxWebAuthDataSize + 1],
  largeResult  |-> Register("w1", [None2 EXCEPT !.credentialSize = MaxWebAuthDataSize + 1]),
  short        |-> Register("w1", [Data EXCEPT !.authDataLen = 36]),
  panics       |-> Register("w1", [Bare EXCEPT !.parser = "panic"]),
  badParty     |-> [Register("w1", Bare) EXCEPT !.rp = BadUrl],
  unlisted     |-> [Register("w1", Data) EXCEPT !.path = "unlisted"],
  login        |-> Authenticate("w1", Assertion),
  loginHandle  |-> Authenticate("w1", [Assertion EXCEPT !.userHandle = "w1"]),
  loginReplay  |-> Authenticate("w1", [Assertion EXCEPT !.challenge = "c1"]),
  loginOther   |-> Authenticate("w1", [Assertion EXCEPT !.id = "i2", !.signedBy = "k2"]),
  loginStolen  |-> Authenticate("w2", [Assertion EXCEPT !.id = "i2", !.signedBy = "k2"])]

B(t, tx) == [time |-> t, tx |-> tx]

MCLogs == {
  <<B(1, "expiring"), B(1, "login"), B(2, "loginReplay")>>,
  <<B(2, "expiring"), B(2, "none"), B(3, "loginHandle")>>,
  <<B(1, "large"), B(1, "largeResult"), B(1, "loginOther")>>,
  <<B(1, "short"), B(1, "unlisted"), B(1, "panics")>>,
  <<B(1, "bare"), B(1, "badParty"), B(2, "loginStolen")>> }

MCRequests == {"other", "login"}
=============================================================================
