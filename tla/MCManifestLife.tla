--------------------------- MODULE MCManifestLife ---------------------------
(* An instance of ManifestLife for TLC. *)
EXTENDS ManifestLife

Whoami == [kind |-> "commands", name |-> "whoami"]
Cross  == [kind |-> "commands", name |-> "cross-tenant"]
Dcr    == [kind |-> "families", name |-> "dcr"]

MCBootstrapCovered  == {Whoami}
MCBootstrapManual   == {Cross}
MCBootstrapFollowup == {Dcr}
MCNone              == {}

Ask(v, sel, p) == [viewpoint |-> v, selectors |-> sel, profile |-> p, demo |-> FALSE]

MCRequests ==
  {Ask(v, sel, p) : v \in {All, "dev"},
                    sel \in {{}, {Whoami}, {Dcr}},
                    p \in {NoProfile, "release-candidate"}}
=============================================================================
