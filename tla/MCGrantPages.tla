---------------------------- MODULE MCGrantPages ----------------------------
(* Pages for TLC: six keys of three groups, two tags, pages of two entries.  *)
EXTENDS GrantPages

CONSTANTS a, b, c, t1, t2

MCGroupOf == <<a, b, b, b, b, c>>
\* Two accounts of 32 bytes and MsgExecuteContract, or shorter ones.
MCLengthOf == <<100, 112, 112, 136, 112, 136>>
MCTagOf == <<t1, t1, t2, t1, t2, t1>>
Req(query, group, tag) == [query |-> query, group |-> group, tag |-> tag]
Sound ==
  {Req("GranteeGrants", b, Any), Req("GranterGrants", b, Any), Req("Grants", Any, Any),
   Req("Allowances", b, Any), Req("AllowancesByGranter", c, Any),
   Req("VKeys", Any, Any), Req("AudienceAll", Any, Any),
   Req("DkimPubKeys", Any, Any), Req("DkimPubKeys", b, t2), Req("DkimPubKeys", Any, t1)}
Documented == {Req("GranteeGrants", b, Any), Req("Grants", b, t2)}
=============================================================================
