-------------------------- MODULE MCGatewayPolicies --------------------------
(* GatewayPolicies for TLC: two listeners that share a secret, one of them *)
(* a wildcard; zones above and at the hosts, and one they both lie below.  *)

EXTENDS GatewayPolicies

MCListeners == <<"web", "api">>
MCHost == [web |-> <<"*", "a", "com">>, api |-> <<"api", "b", "a", "com">>]
MCSecret == [web |-> "cert", api |-> "cert"]
MCWildcard == {"web"}
MCPublicSuffixes == {<<"com">>}
MCUseless == {<<"com">>, <<"api", "b", "a", "com">>}
MCUseful == MCUseless \cup {<<"a", "com">>}
MCZoneSets == {MCUseless, MCUseful, MCUseful \cup {<<"b", "a", "com">>}}
MCRouteSets == {{}, {"api"}, {"web", "api"}}

Crew(ps, zs, rs, ks, e, f) ==
  [policies |-> ps, zones |-> zs, routes |-> rs, kinds |-> ks, edits |-> e, faults |-> f]
Both == {"web", "api"}
Every == {"create", "delete", "retarget", "health", "valid", "gateway", "listeners", "routes", "ready",
          "cluster", "zone"}
MCCrews ==
  {Crew({"d1", "d2"}, MCUseful, Both, {"create", "delete", "retarget", "gateway"}, 2, 0),
   Crew({"d1", "d2"}, MCUseful, Both, {"delete"}, 1, 1),
   Crew({"d1"}, MCUseful, Both, Every, 2, 0),
   Crew({"d1", "t1"}, MCUseful, Both, {"delete", "listeners"}, 1, 0),
   Crew({"d1", "t1"}, MCUseful, Both, {}, 0, 1),
   Crew({"d1"}, MCUseful, Both, Every, 1, 1),
   Crew({"d1"}, MCUseless, {}, Every, 2, 0),
   Crew({"t1"}, MCUseful, {}, Every, 2, 0),
   Crew({"t1"}, MCUseful, {}, Every, 1, 1)}

==============================================================================
