-------------------------- MODULE MCLiveValidation --------------------------
(* Every check on its own, and the groups that are compared with each      *)
(* other, in one run; and a few plans in two runs that follow each other.  *)
EXTENDS LiveValidation

EveryCheck ==
    {Command(c) : c \in OwnContext \cup ConsistentWithWhoAmI \cup {"whoami", "resource-trusts"}}
    \cup {Family(f) : f \in {"credential-path", "compute-control", "escalation-path"}}

MCOnce ==
    {<<t>> : t \in EveryCheck}
    \cup {<<Command("whoami"), Command("permissions"), Command("privesc")>>,
          <<Command("automation"), Command("permissions"), Family("automation")>>,
          <<Command("permissions"), Command("rbac"), Command("logic-apps"), Family("logic-apps")>>}

MCCampaigns ==
    {<<p>> : p \in MCOnce}
    \cup {<<p, <<Command("resource-trusts")>>>> :
             p \in {<<Command("resource-trusts")>>, <<Command("keyvault")>>}}
    \cup {<<<<Command("permissions"), Command("role-trusts"), Family("escalation-path")>>,
            <<Family("escalation-path")>>>>}
=============================================================================
