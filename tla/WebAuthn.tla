------------------------------ MODULE WebAuthn ------------------------------
(***************************************************************************)
(* The verification queries of x/xion for WebAuthn: what                   *)
(* WebAuthNVerifyRegister and WebAuthNVerifyAuthenticate answer.           *)
(*                                                                         *)
(* A request names the contract (addr), the relying party (rp), the        *)
(* challenge, and data of some size.  The data of a registration carries   *)
(* the attestation: its format and, when there is one, a statement with    *)
(* its own format entry and a chain of certificates.  A stored credential  *)
(* is what a registration returned.  The go-webauthn library is external:  *)
(* Verify and ValidateLogin are what it checks of the fields kept here.    *)
(***************************************************************************)
EXTENDS Naturals, Sequences

MaxWebAuthDataSize == 64 * 1024

minAuthDataLength == 37

attestationFormatNone == "none"

Nothing == [nothing |-> TRUE]

Failed == [ok |-> FALSE]

Answered(v) == [ok |-> TRUE, value |-> v]

BadUrl == "://"

-----------------------------------------------------------------------------
\* The library reads the first 37 bytes without looking at the length.  The
\* branch for extensions in the code refuses nothing.
validateAttestation(rawAuthDataLen) == minAuthDataLength <= rawAuthDataLen

validateCredentialCreation(data) ==
  data.decodes /\ validateAttestation(data.authDataLen)

validateCredentialRequest(data) ==
  data.decodes /\ validateAttestation(data.authDataLen)

\* The library's parser: it may refuse data the checks above let through, or
\* panic, which the handler recovers and answers as an error.
Parses(data) == data.parser = "ok"

ValidAt(cert, t) == cert.parses /\ cert.notBefore <= t /\ t <= cert.notAfter

validateCertificatesWithBlockTime(data, blockTime) ==
  \/ data.attStatement = Nothing
  \/ data.format = attestationFormatNone
  \/ data.attStatement.fmt = attestationFormatNone
  \/ \A i \in DOMAIN data.attStatement.x5c :
        ValidAt(data.attStatement.x5c[i], blockTime)

-----------------------------------------------------------------------------
\* The checks of both ceremonies on the client data: external.
ClientDataMatches(request) ==
  /\ request.data.challenge = request.challenge
  /\ request.data.origin = request.rp

\* ParsedCredentialCreationData.Verify: external.  A statement that is left
\* in place is verified against the clock of the node.
Verify(request, data, clock) ==
  /\ ClientDataMatches(request)
  /\ data.alg \in {"ES256K", "ES256", "EdDSA", "RS256"}
  /\ IF data.format = attestationFormatNone
       THEN data.attStatement = Nothing
       ELSE /\ data.attStatement # Nothing
            /\ \A i \in DOMAIN data.attStatement.x5c :
                  ValidAt(data.attStatement.x5c[i], clock)

\* Mutant: the statement stays for the library to verify.
WithoutStatement_Kept(data) == data

\* The attestation is dropped before the library sees it.
WithoutStatement(data) ==
  [data EXCEPT !.attStatement = Nothing, !.format = attestationFormatNone]

NewCredential(data) ==
  [id |-> data.id, key |-> data.key, size |-> data.credentialSize]

\* Certificates are checked with the block time, then dropped.
CreateCredential(request, blockTime, clock) ==
  IF /\ validateCertificatesWithBlockTime(request.data, blockTime)
     /\ Verify(request, WithoutStatement(request.data), clock)
    THEN Answered(NewCredential(request.data))
    ELSE Failed

WebAuthNVerifyRegister(request, blockTime, clock) ==
  IF /\ request.size <= MaxWebAuthDataSize
     /\ request.rp # BadUrl
     /\ validateCredentialCreation(request.data)
     /\ Parses(request.data)
    THEN CreateCredential(request, blockTime, clock)
    ELSE Failed

-----------------------------------------------------------------------------
\* An empty user handle is accepted.
HandleMatches(request) == request.data.userHandle \in {"", request.addr}

\* WebAuthn.ValidateLogin for the one credential the session allows:
\* external.
ValidateLogin(request, credential) ==
  /\ request.data.id = credential.id
  /\ HandleMatches(request)
  /\ ClientDataMatches(request)
  /\ request.data.signedBy = credential.key

\* The response carries no field.
AuthenticateResponse == [empty |-> TRUE]

WebAuthNVerifyAuthenticate(request, credential) ==
  IF /\ request.size <= MaxWebAuthDataSize
     /\ credential # Nothing
     /\ credential.size <= MaxWebAuthDataSize
     /\ request.rp # BadUrl
     /\ validateCredentialRequest(request.data)
     /\ Parses(request.data)
     /\ ValidateLogin(request, credential)
    THEN Answered(AuthenticateResponse)
    ELSE Failed
=============================================================================
