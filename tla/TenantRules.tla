----------------------------- MODULE TenantRules -----------------------------
(***************************************************************************)
(* auth-policies, cross-tenant and role-trusts read the tenant's directory *)
(* through Microsoft Graph, in parts a viewpoint may or may not read.  The *)
(* capture asks for the same parts and records what it could read, and for *)
(* what it could not the issue the tool has to report (the collector); the *)
(* validator compares rows and issues, and the findings about the tenant.  *)
(*                                                                         *)
(* Definitions only; the commands, the captures and the validation are in  *)
(* Foothold.  blind is the set of collectors that answer with a refusal or *)
(* with not found.  A policy keeps its state and those of its controls a   *)
(* finding or a priority is about; the columns of a trust that follow from *)
(* its type are one column.                                                *)
(***************************************************************************)
EXTENDS Naturals, Sequences, FiniteSets, SequencesExt

CONSTANT SampleLimit    \* crossTenantExternalSPSampleLimit

TenantCommands == {"auth-policies", "cross-tenant", "role-trusts"}

PolicyCollectors == {"security-defaults", "authorization-policy", "conditional-access"}
TrustCollectors == {"app-owner", "federated-credential", "service-principal-owner",
                    "app-to-service-principal"}

Collectors(command) ==
    CASE command = "auth-policies" -> PolicyCollectors
      [] command = "cross-tenant"  -> PolicyCollectors \cup {"external-principals"}
      [] command = "role-trusts"   -> TrustCollectors \cup {"census"}

(* ----- the captures --------------------------------------------------------- *)

VisiblePolicies(tenant, blind) == {p \in tenant.policies : p.collector \notin blind}

AuthPoliciesContext(tenant, blind) ==
    [policies |-> VisiblePolicies(tenant, blind),
     issues |-> blind \cap Collectors("auth-policies")]

(* crossTenantPolicyRowsFromAuthPolicyTruth                                *)
crossTenantPolicyRows(policies) ==
    {[signal |-> "policy", id |-> p.id,
      priority |-> IF "guests:everyone" \in p.controls THEN "high"
                   ELSE IF p.controls \cap {"register-apps", "user-consent"} # {} THEN "medium"
                   ELSE "low"] :
        p \in {q \in policies :
                  /\ q.collector = "authorization-policy"
                  /\ q.controls \cap {"guests:everyone", "guests:admins", "register-apps",
                                      "user-consent"} # {}}}

ExternalRow(id) == [signal |-> "external-sp", id |-> id, priority |-> "low"]

(* Service principals of other tenants, by name: only the first few count. *)
CrossTenantContext(tenant, blind) ==
    [rows |-> crossTenantPolicyRows(VisiblePolicies(tenant, blind))
              \cup {ExternalRow(tenant.externals[i]) :
                       i \in {j \in DOMAIN tenant.externals :
                                 "external-principals" \notin blind /\ j <= SampleLimit}},
     issues |-> blind \cap Collectors("cross-tenant")]

(* The trusts of the canary: who owns the application and its principal,   *)
(* the credential that federates it, the assignment of its client.         *)
CanaryTrust(canary, t) ==
    CASE t.type = "app-owner"               -> t.target = canary.app
      [] t.type = "federated-credential"    -> t.source = canary.app /\ t.target = canary.sp
      [] t.type = "service-principal-owner" -> t.target = canary.sp
      [] OTHER                              -> t.source = canary.client /\ t.target = canary.sp

VisibleTrusts(trusts, blind) ==
    {t \in trusts : "census" \notin blind /\ t.type \notin blind}

RoleTrustsContext(canary, trusts, blind) ==
    [zero |-> "census" \in blind,
     trusts |-> {t \in VisibleTrusts(trusts, blind) : CanaryTrust(canary, t)},
     issues |-> IF "census" \in blind THEN {"census"} ELSE blind \cap TrustCollectors]

(* A part that can be read and does not show the canary fails the capture. *)
CanaryMissing(context) ==
    ~context.zero /\ \E c \in TrustCollectors \ context.issues : ~ \E t \in context.trusts : t.type = c

(* ----- the validators -------------------------------------------------------- *)

authPolicyExpectedFindingIDs(context) ==
    LET off == \E p \in context.policies : p.collector = "security-defaults" /\ p.state = "disabled"
        enforced == \E p \in context.policies :
                        p.collector = "conditional-access" /\ p.state = "enabled"
        controls == UNION {p.controls : p \in {q \in context.policies :
                                                  q.collector = "authorization-policy"}}
    IN  {f \in {"defaults-disabled"} : off}
        \cup ({"register-apps", "guests:everyone", "risky-consent"} \cap controls)
        \cup {f \in {"user-consent"} \cap controls : "risky-consent" \notin controls}
        \cup {f \in {"no-enforcement"} :
                 off /\ ~enforced /\ "conditional-access" \notin context.issues}

(* The issues a payload reports against those the context calls for.       *)
IssueFindings(payload, context) ==
    {f \in {"missing-issue"} : ~ context.issues \subseteq payload.issues}
    \cup {f \in {"unexpected-issue"} : ~ payload.issues \subseteq context.issues}

(* Rows are found by collector and id.                                     *)
AuthPoliciesFindings(payload, context) ==
    LET row(p) == {r \in payload.rows : r.collector = p.collector /\ r.id = p.id}
        expected == authPolicyExpectedFindingIDs(context)
    IN  {f \in {"count-drift"} : Cardinality(payload.rows) # Cardinality(context.policies)}
        \cup {f \in {"policy-missing"} : \E p \in context.policies : row(p) = {}}
        \cup {f \in {"policy-drift"} : \E p \in context.policies : row(p) # {} /\ p \notin row(p)}
        \cup IssueFindings(payload, context)
        \cup {f \in {"missing-finding"} : ~ expected \subseteq payload.findings}
        \cup {f \in {"unexpected-finding"} : ~ payload.findings \subseteq expected}

CrossTenantFindings(payload, context) ==
    LET row(p) == {r \in payload.rows : r.signal = p.signal /\ r.id = p.id}
    IN  {f \in {"row-missing"} : \E p \in context.rows : row(p) = {}}
        \cup {f \in {"priority-drift"} : \E p \in context.rows : row(p) # {} /\ p \notin row(p)}
        \cup IssueFindings(payload, context)

(* Issues that are called for are only asked for when nothing can be read. *)
RoleTrustsFindings(payload, context) ==
    LET row(t) == {r \in ToSet(payload.rows) :
                      r.type = t.type /\ r.source = t.source /\ r.target = t.target}
    IN  IF context.zero
        THEN {f \in {"expected-empty-drift"} : payload.rows # <<>>}
             \cup {f \in {"missing-issue"} : ~ context.issues \subseteq payload.issues}
        ELSE {f \in {"trust-missing"} : \E t \in context.trusts : row(t) = {}}
             \cup {f \in {"trust-drift"} :
                      \E t \in context.trusts : row(t) # {} /\ t.column \notin {r.column : r \in row(t)}}
             \cup {f \in {"unexpected-issue"} : ~ payload.issues \subseteq context.issues}
=============================================================================
