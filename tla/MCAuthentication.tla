-------------------------- MODULE MCAuthentication --------------------------
(* x/dkim with x/zk for TLC: one user and governance; two DKIM keys of one *)
(* domain; the default circuit, a gnark and an UltraHonk key. A list of    *)
(* public inputs is email hash, key hash, host, domain, transaction,       *)
(* subject.                                                                *)
EXTENDS Authentication, TLC

CONSTANTS u1, d1, s1, s2, k1, k2, pkix, zkEmail, other, circuit, gnarkKey, honkKey

MCUsers == {u1}
MCSlots == {<<d1, s1>>, <<d1, s2>>}
MCRsaKeys == {k1, k2}
MCSizeOf == [x \in MCRsaKeys \X {pkix} |-> 1]
MCHashOf == (k1 :> 1) @@ (k2 :> 2)
Rec(slot, rsa) == [slot |-> slot, key |-> [rsa |-> rsa, encoding |-> pkix, hash |-> MCHashOf[rsa]]]
MCBatches == {<<Rec(<<d1, s1>>, k1)>>}
MCGenesisFiles == {<<Rec(<<d1, s1>>, k1), Rec(<<d1, s2>>, k2)>>}

At(n) == [start |-> n, end |-> n + 1]
MCIndices ==
  [minLength |-> 6, emailHash |-> 0, dkimHash |-> 1,
   range |-> ("email_host" :> At(2)) @@ ("dkim_domain" :> At(3)) @@ ("tx_bytes" :> At(4))
               @@ ("email_subject" :> At(5))]
MCDefaultParams == [vkey |-> 1, maxSize |-> 1, indices |-> MCIndices]
\* The second may only stand in a genesis file: it reads past the shortest list
\* that it allows.
MCParamInputs == {MCDefaultParams, [MCDefaultParams EXCEPT !.vkey = 2, !.indices.minLength = 5]}

DefaultsOnly == {MCDefaultParams}

MCNames == {zkEmail, other}
MCKeyBytes == {circuit, gnarkKey, honkKey}
MCParsesAs == (circuit :> {"groth16"}) @@ (gnarkKey :> {"gnark"}) @@ (honkKey :> {"ultrahonk"})
MCZkSizeOf == [key \in MCKeyBytes |-> 1]
MCZkParams(limit) ==
  [maxVkeySize |-> 1, chunkSize |-> 1, chunkGas |-> 1, limit |-> [l \in {"groth16", "gnark", "ultrahonk"} |-> limit]]
MCZkDefaultParams == MCZkParams(6)
MCZkParamInputs == {MCZkParams(0)}
Entry(id, name, owner) ==
  [id |-> id, vkey |-> [name |-> name, key |-> circuit, authority |-> owner, system |-> "unspecified"]]
\* The default key in its place, and its name under another id.
MCZkGenesisFiles == {<<Entry(1, zkEmail, Unset)>>, <<Entry(0, zkEmail, u1), Entry(2, other, u1)>>}
EmptyFiles == {<<>>}

MCDomainText == d1 :> <<1>>
Tag == [mime |-> "plain", words |-> <<"prefix", "tag">>]
MCSubjectOf ==
  (<<>> :> <<>>) @@ (<<1>> :> <<Tag>>)
    @@ (<<2>> :> <<[mime |-> "plain", words |-> <<"word">>], [mime |-> "utf8_base64", words |-> <<"tag">>]>>)
    @@ (<<1, 1>> :> <<[mime |-> "plain", words |-> <<"word", "tag">>]>>)

Dec(v) == [form |-> "decimal", val |-> v]
Decs(list) == [i \in DOMAIN list |-> Dec(list[i])]
Groth16(key, list) ==
  [system |-> "groth16", circuit |-> key, statement |-> [i \in DOMAIN list |-> list[i] % Field], size |-> 1]
Email(key, list) ==
  [proof |-> Groth16(key, list), inputs |-> Decs(list), emailHash |-> Dec(list[1]),
   txBytes |-> TextOf(Decs(<<list[5]>>)), hosts |-> {<<>>, <<1>>}]

\* An email for each DKIM key; the first one with its hash above and below the
\* field and in hexadecimal, with its domain left out, and with 0 for the hash
\* of its key; a host that is not
\* allowed, a word before the tag, a subject with a MIME word, and a list that
\* is too short.
First == <<3, 1, 1, 1, 2, 1>>
Replace(i, v) == [First EXCEPT ![i] = v]
MCRequests ==
  {Email(circuit, First), Email(circuit, Replace(2, 2)), Email(circuit, Replace(1, 3 + Field)),
   Email(circuit, Replace(1, 3 - Field)),
   [Email(circuit, First) EXCEPT !.inputs[1].form = "hex", !.emailHash.form = "hex"],
   Email(circuit, Replace(4, 0)), Email(circuit, Replace(2, 0)), Email(circuit, Replace(3, 2)), Email(circuit, Replace(6, 4)),
   Email(circuit, Replace(6, 2)), [Email(circuit, First) EXCEPT !.inputs = SubSeq(@, 1, 5)]}

Ask(system, name, id, key) ==
  [system |-> system, name |-> name, id |-> id, inputs |-> <<Dec(1), Dec(0)>>,
   proof |-> [system |-> system, circuit |-> key, statement |-> <<1, 0>>, size |-> 1]]
MCQueries ==
  {Ask("groth16", zkEmail, 0, circuit), Ask("groth16", other, 1, gnarkKey), Ask("groth16", NoName, 2, circuit),
   Ask("gnark", NoName, 1, gnarkKey), Ask("gnark", other, 1, gnarkKey),
   Ask("ultrahonk", NoName, 2, honkKey), Ask("ultrahonk", zkEmail, 2, honkKey)}

\* No guard and no property reads who signed the step before, or which key it
\* showed: states that differ only there are one. The steps are all checked.
AuthView == <<vars, dkimVars>>
=============================================================================
