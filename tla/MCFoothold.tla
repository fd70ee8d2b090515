----------------------------- MODULE MCFoothold -----------------------------
(* One identity, an application it may own, two service principals, the    *)
(* client of the application, and a tenant with three kinds of policies.   *)
EXTENDS Foothold, TLC

Grant(role, scope) == [role |-> role, scope |-> scope]
Trust(type, source, target, backing) ==
    [type |-> type, source |-> source, target |-> target, backing |-> backing, column |-> type]

MCCanary == [app |-> "app", sp |-> "sp", client |-> "client"]

Reader == {Grant("Reader", "sub")}

MCMine ==
    {Reader, {Grant("Owner", "sub")}, {Grant("Contributor", "rg")},
     {Grant("Contributor", "elsewhere"), Grant("Reader", "sub")},
     {Grant("Contributor", "sub"), Grant("Owner", "resource")},
     {Grant("Automation Contributor", "resource")},
     {Grant("Automation Contributor", "resource"), Grant("Owner", "sub")},
     {Grant("Owner", "root")}}

MCTheirs == {{}, Reader, {Grant("Owner", "rg")}, {Grant("Contributor", "sub")}}

Federation == Trust("federated-credential", "app", "sp", NoOne)

MCTrusts ==
    {{}, {Trust("service-principal-owner", "me", "sp", NoOne)},
     {Trust("app-owner", "me", "app", "sp")},
     {Trust("app-owner", "me", "app", NoOne), Federation},
     {Trust("app-owner", "mi", "app", NoOne), Federation}}

(* The trusts of the canary, short of one of them, and with one more.      *)
CanaryTrusts ==
    {Federation, Trust("app-owner", "me", "app", "sp"),
     Trust("service-principal-owner", "me", "sp", NoOne),
     Trust("app-to-service-principal", "client", "sp", NoOne)}

MCCanaries ==
    {CanaryTrusts, CanaryTrusts \cup {Trust("service-principal-owner", "mi", "mi", NoOne)}}
    \cup {CanaryTrusts \ {t} : t \in CanaryTrusts}

(* ----- tenants --------------------------------------------------------------- *)

Policy(collector, id, state, controls) ==
    [collector |-> collector, id |-> id, state |-> state, controls |-> controls]

MCControls ==
    {{}, {"guests:everyone"}, {"guests:admins", "register-apps"}, {"user-consent"},
     {"guests:admins"}, {"guests:everyone", "user-consent", "risky-consent"}}

MCConditional ==
    {{}, {Policy("conditional-access", "a", "report-only", {})},
     {Policy("conditional-access", "a", "report-only", {}),
      Policy("conditional-access", "b", "enabled", {"mfa"})}}

MCTenants ==
    {[policies |-> {Policy("security-defaults", "defaults", d, {}),
                    Policy("authorization-policy", "default", "configured", c)} \cup a,
      externals |-> <<"x", "y">>] :
        d \in {"enabled", "disabled"}, c \in MCControls, a \in MCConditional}

PlainTenant ==
    [policies |-> {Policy("security-defaults", "defaults", "enabled", {}),
                   Policy("authorization-policy", "default", "configured", {})},
     externals |-> <<>>]

(* ----- labs and plans --------------------------------------------------------- *)

Lab(mine, sp, mi, trusts, identity) ==
    [grants |-> ("me" :> mine @@ "sp" :> sp @@ "mi" :> mi), trusts |-> trusts,
     identity |-> identity, state |-> "drawn", tenant |-> PlainTenant, blind |-> {}]

MCLabs ==
    {Lab(m, s, i, t, d) : m \in MCMine, s \in MCTheirs, i \in {{}, {Grant("Reader", "rg")}},
                          t \in MCTrusts, d \in {NoOne, "mi"}}

TenantLab(trusts, tenant, blind) ==
    [Lab(Reader, {}, {}, trusts, NoOne) EXCEPT !.tenant = tenant, !.blind = blind]

Escalation == <<"permissions", "role-trusts", "escalation-path">>

MCPlans ==
    {<<"permissions", "principals", "privesc", "rbac", "whoami">>, Escalation,
     <<"resource", "permissions", "rbac", "automation">>,
     <<"resource", "permissions", "rbac", "logic-apps">>}

Runs(labs, plans) == {[lab |-> l, plan |-> p] : l \in labs, p \in plans}

MCScenarios ==
    Runs(MCLabs, MCPlans)
    \cup Runs({[Lab(m, {Grant("Owner", "rg")}, {}, t, NoOne) EXCEPT !.blind = b] :
                  m \in MCMine, t \in MCTrusts, b \in {{"census"}, {"app-owner"}, {"federated-credential"}}},
              {Escalation})
    \cup Runs({TenantLab({}, t, b) : t \in MCTenants, b \in SUBSET PolicyCollectors}, {<<"auth-policies">>})
    \cup Runs({TenantLab({}, t, b) : t \in MCTenants,
                                     b \in SUBSET {"authorization-policy", "external-principals"}},
              {<<"cross-tenant">>, <<"auth-policies", "cross-tenant">>})
    \cup Runs({TenantLab(t, PlainTenant, b) : t \in MCCanaries, b \in SUBSET Collectors("role-trusts")},
              {<<"role-trusts">>})

MCEdits(lab) ==
    {[lab EXCEPT !.grants["me"] = m] : m \in {Reader, {Grant("Owner", "sub")}}}
    \cup {[lab EXCEPT !.trusts = {}], [lab EXCEPT !.identity = NoOne], [lab EXCEPT !.state = "redrawn"],
          [lab EXCEPT !.blind = @ \cup {"conditional-access", "federated-credential"}]}
    \cup {[lab EXCEPT !.tenant.policies = p] : p \in {PlainTenant.policies}}
=============================================================================
