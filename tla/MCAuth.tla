-------------------------------- MODULE MCAuth --------------------------------
(***************************************************************************)
(* A small instance of Auth for TLC: two servers, one of which is reached  *)
(* under a name that it does not accept, and two lists of scopes.          *)
(***************************************************************************)
EXTENDS Auth

CONSTANTS s1, s2, l1, l2, v1, v2, read, write, aud1, aud2

MCContentOf == (l1 :> <<read>>) @@ (l2 :> <<write, read>>)
MCAudienceOf == (v1 :> "dss") @@ (v2 :> "uss")
MCAudiencesOf == (v1 :> {"dss"}) @@ (v2 :> {"dss"})
MCAudScope == [dss |-> aud1, uss |-> aud2]
MCEndpoints == {<<{read}>>, <<{read, write}, {write}>>}
MCAdapters == {"NoAuth", "DummyOAuth", "ServiceAccount", "UsernamePassword", "SignedRequest",
               "ClientIdClientSecret"}
Symmetry == Permutations(Sessions)
=============================================================================
