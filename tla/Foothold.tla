------------------------------ MODULE Foothold ------------------------------
(***************************************************************************)
(* The commands of one viewpoint that speak of the signed-in identity and  *)
(* of its tenant, in the order of a plan, and the validation of their      *)
(* payloads: against each other (FootholdRules), or against what the       *)
(* runner captured of the directory after the command (TenantRules).  The  *)
(* tool asks Azure for each command anew, so that a right granted or       *)
(* revoked between two commands, or before a capture, parts them.          *)
(*                                                                         *)
(* HO-Azure is external: a right tool is modelled by what its payload must *)
(* say of Azure, a slip is one error in one payload.  What happens when a  *)
(* payload is missing is in LiveValidation.                                *)
(***************************************************************************)
EXTENDS FootholdRules, TenantRules

CONSTANTS
    Principals,     \* whoever may hold a role
    Me,             \* the identity the viewpoint is signed in with
    Canary,         \* the application, principal and client of role-trusts
    Scenarios,      \* a lab (rights, trusts, tenant) and the commands to run
    Tenants,        \* the tenants a viewpoint may be in
    Edits(_)        \* what an operator may make of a lab

ASSUME PrincipalsAssumption ==
    Me \in Principals /\ NoOne \notin Principals /\ IsFiniteSet(Principals)

Families == {"automation", "logic-apps"}
Persistence(check) == check \in Families
None == "none"

(* The payloads of its viewpoint a payload is validated against.           *)
Siblings(check) ==
    CASE check = "escalation-path" -> {"permissions", "role-trusts"}
      [] check \in Families -> {"resource", "permissions", "rbac"}
      [] check = "whoami" -> {"principals", "permissions", "rbac", "privesc"}
      [] OTHER -> {}

Commands == {"whoami", "principals", "permissions", "rbac", "privesc", "resource",
             "escalation-path"} \cup Families \cup TenantCommands

IsPlan(commands) ==
    /\ commands \in Seq(Commands)
    /\ \A c \in ToSet(commands) : Siblings(c) \subseteq ToSet(commands)

(* One edge of the graph of trusts: what stands behind an application is   *)
(* not in anybody's hands.                                                 *)
SameEdge(t, u) == t.type = u.type /\ t.source = u.source /\ t.target = u.target

(* The controls a finding is about.                                        *)
TellingControls == {"register-apps", "guests:everyone", "risky-consent", "user-consent"}

(* Only the authorization policy sets them.                                *)
IsTenant(tenant) ==
    /\ IsFiniteSet(tenant.policies)
    /\ \A p \in tenant.policies :
          p.collector # "authorization-policy" => p.controls \cap TellingControls = {}

IsLab(lab) ==
    /\ \A p \in Principals : IsFiniteSet(lab.grants[p])
    /\ IsFiniteSet(lab.trusts)
    /\ \A t \in lab.trusts :
          /\ DOMAIN t = {"type", "source", "target", "backing", "column"}
          /\ t.type \in TrustCollectors /\ t.column = t.type
    /\ \A t, u \in lab.trusts : SameEdge(t, u) => t = u
    /\ lab.identity \in Principals \cup {NoOne}
    /\ IsTenant(lab.tenant)

(* The identity of a viewpoint holds a role (az signs nobody in to a       *)
(* subscription without one).  An edit leaves a trust what it is.          *)
ASSUME ScenariosAssumption ==
    \A s \in Scenarios :
        /\ IsPlan(s.plan) /\ IsLab(s.lab) /\ s.lab.grants[Me] # {}
        /\ \A lab \in Edits(s.lab) :
              /\ IsLab(lab)
              /\ \A t \in s.lab.trusts, u \in lab.trusts : SameEdge(t, u) => t = u

(* The tenant may be a harmless one, for all that can be read of it.       *)
Harmless(tenant, lab) ==
    /\ VisiblePolicies(tenant, lab.blind) = VisiblePolicies(lab.tenant, lab.blind)
    /\ \A p \in tenant.policies : p.collector \in lab.blind =>
          /\ p.collector = "security-defaults" => p.state # "disabled"
          /\ p.collector = "authorization-policy" => p.controls \cap TellingControls = {}
    /\ "conditional-access" \in lab.blind =>
          \E p \in tenant.policies : p.collector = "conditional-access" /\ p.state = "enabled"

ASSUME TenantsAssumption ==
    /\ \A t \in Tenants : IsTenant(t)
    /\ \A s \in Scenarios : "auth-policies" \in ToSet(s.plan) =>
          \A lab \in {s.lab} \cup Edits(s.lab) : \E t \in Tenants : Harmless(t, lab)

VARIABLES
    azure,          \* grants, trusts, tenant, and what cannot be read of it
    plan,           \* the commands and families of the run
    told,           \* the payloads printed so far
    recorded,       \* the captures made so far
    slip,           \* the command whose payload holds an error, if any
    edited,         \* whether somebody has changed azure
    findings        \* what live validation reports

vars == <<azure, plan, told, recorded, slip, edited, findings>>

(* ----- what is true ---------------------------------------------------------- *)

Grants(p) == azure.grants[p]
RolesHeld(p) == {g.role : g \in Grants(p)}
HighImpact == {"Owner", "Contributor"}

PermissionRow(p) ==
    [current |-> p = Me, privileged |-> RolesHeld(p) \cap HighImpact # {},
     impact |-> RolesHeld(p) \cap HighImpact, all |-> RolesHeld(p),
     scopes |-> {g.scope : g \in Grants(p)}]

Holders == {p \in Principals : Grants(p) # {}}

(* The rights of an identity over the resource, by where they are granted. *)
Control(roles) ==
    {g \in Grants(Me) : g.role \in roles /\ g.scope \in DOMAIN persistenceControlRank}

Nearest(grants) ==
    {g \in grants : \A h \in grants : persistenceControlRank[g.scope] <= persistenceControlRank[h.scope]}

(* What a step asks for: of the roles, only that of runbooks is special.   *)
Suffices(step) ==
    IF step = "runbook" THEN HighImpact \cup {"Automation Contributor"} ELSE HighImpact

Proven(step) == Control(Suffices(step)) # {}

Blind == azure.blind
Seen == VisibleTrusts(azure.trusts, Blind)

(* Whom the foothold can be seen to become: over a trust of its own, or a federated   *)
(* credential of an application it owns, and with rights it lacks.         *)
Reached ==
    (UNION {{t.target, t.backing} : t \in {x \in Seen : x.source = Me}})
    \cup {t.target : t \in {x \in Seen :
            /\ x.type = "federated-credential"
            /\ \E o \in Seen :
                  o.type = "app-owner" /\ o.source = Me /\ o.target = x.source}}

Covers(g, h) == g.scope \in {"root", h.scope} \/ <<g.scope, h.scope>> \in Below

Stronger(p) ==
    LET mine == PermissionRow(Me) IN
    /\ PermissionRow(p).privileged
    /\ \/ \E h \in Grants(p) : ~ \E g \in Grants(Me) : Covers(g, h)
       \/ payloadPermissionRoleStrength(PermissionRow(p)) > payloadPermissionRoleStrength(mine)

Leads == {p \in Reached \cap Holders : Stronger(p)}

(* What a finding about the tenant says.                                   *)
Holds(finding, tenant) ==
    LET controls == UNION {p.controls : p \in tenant.policies}
        in(collector, state) == \E p \in tenant.policies : p.collector = collector /\ p.state = state
    IN  CASE finding = "defaults-disabled" -> in("security-defaults", "disabled")
          [] finding = "no-enforcement"    -> /\ in("security-defaults", "disabled")
                                              /\ ~in("conditional-access", "enabled")
          [] finding = "user-consent"      -> /\ "user-consent" \in controls
                                              /\ "risky-consent" \notin controls
          [] OTHER                         -> finding \in controls

(* It may be raised when it is so of every tenant that looks like this one *)
(* to whoever cannot read some of it.                                      *)
Known(finding) ==
    \A t \in Tenants :
        VisiblePolicies(t, Blind) = VisiblePolicies(azure.tenant, Blind) => Holds(finding, t)

TenantFindings == {f \in {"defaults-disabled", "no-enforcement", "register-apps",
                          "guests:everyone", "risky-consent", "user-consent"} : Known(f)}

(* ----- what a right tool prints --------------------------------------------- *)

Row(command, targets) ==
    [command |-> command, asset |-> Me, confirmed |-> TRUE, targets |-> targets]

RightEscalation ==
    LET direct == {Row("permissions", {}) : x \in {y \in {Me} : PermissionRow(Me).privileged}}
    IN  {direct \cup {Row("role-trusts", {p}) : p \in shown} :
            shown \in {S \in SUBSET Leads : Leads # {} => S # {}}}

(* The identity of the resource, with the roles permissions shows for it.  *)
RightExecution ==
    IF azure.identity = NoOne THEN NoContext
    ELSE [principal |-> azure.identity,
          roles |-> IF azure.identity \in Holders THEN RolesOf(PermissionRow(azure.identity)) ELSE {}]

ControlRolesOf(family) == UNION {Suffices(s) : s \in Steps(family)}

RightPersistence(family) ==
    LET control == Control(ControlRolesOf(family))
        roles == IF control = {} THEN {RolesOf(PermissionRow(Me))}
                 ELSE {{g.role} : g \in Nearest(control)}
    IN  {{[state |-> azure.state,
           current |-> [principal |-> Me, roles |-> r],
           steps |-> [s \in Steps(family) |-> IF Proven(s) THEN "yes" ELSE "not proven"],
           execution |-> RightExecution]} : r \in roles}

Rbac == UNION {{[principal |-> p, role |-> g.role, scope |-> g.scope] : g \in Grants(p)} : p \in Principals}

Unread(command) == Blind \cap Collectors(command)

(* The tool samples principals of other tenants as it likes, beyond the    *)
(* first ones.                                                             *)
RightCrossTenant ==
    LET ids == IF "external-principals" \in Blind THEN <<>> ELSE azure.tenant.externals
        all == {ExternalRow(x) : x \in ToSet(ids)}
        first == {ExternalRow(ids[i]) : i \in {j \in DOMAIN ids : j <= SampleLimit}}
        policy == crossTenantPolicyRows(VisiblePolicies(azure.tenant, Blind))
    IN  {[rows |-> policy \cup shown, issues |-> Unread("cross-tenant")] :
            shown \in {S \in SUBSET all : first \subseteq S}}

Right(check) ==
    CASE check = "whoami"          -> {Me}
      [] check = "principals"      -> {[visible |-> Holders \cup {Me}, current |-> {Me}]}
      [] check = "permissions"     -> {[p \in Holders \cup {Me} |-> PermissionRow(p)]}
      [] check = "rbac"            -> SetToSeqs(Rbac)
      [] check = "role-trusts"     ->
            {[rows |-> r, issues |-> IF "census" \in Blind THEN {"census"} ELSE Unread(check)] :
                r \in SetToSeqs(Seen)}
      [] check = "auth-policies"   ->
            {[rows |-> VisiblePolicies(azure.tenant, Blind), issues |-> Unread(check),
              findings |-> TenantFindings]}
      [] check = "cross-tenant"    -> RightCrossTenant
      [] check = "privesc"         -> {IF PermissionRow(Me).privileged THEN Me ELSE NoOne}
      [] check = "resource"        -> {[state |-> azure.state, identity |-> azure.identity]}
      [] check = "escalation-path" -> RightEscalation
      [] OTHER                     -> RightPersistence(check)

(* ----- what a tool that slips prints ------------------------------------------ *)

Others == Principals \ {Me}
Confused(context) ==
    {NoContext} \cup {[context EXCEPT !.principal = p] : p \in Others}
    \cup {[context EXCEPT !.roles = r] : r \in {{}, {"Owner"}}}

WrongRows(rows) ==      \* of escalation-path
    {rows \ {r} : r \in rows}
    \cup {(rows \ {r}) \cup {[r EXCEPT !.asset = p]} : r \in rows, p \in Others}
    \cup {(rows \ {r}) \cup {[r EXCEPT !.confirmed = FALSE]} : r \in rows}
    \cup {(rows \ {r}) \cup {[r EXCEPT !.targets = {p}]} : r \in rows, p \in Principals}
    \cup {rows \cup {Row("permissions", {})}, rows \cup {Row("role-trusts", {Me})}}

Other(status) == IF status = "yes" THEN "not proven" ELSE "yes"

WrongRow(row) ==        \* of a persistence family
    {[row EXCEPT !.state = "another"]}
    \cup {[row EXCEPT !.current = c] : c \in Confused(row.current)}
    \cup {[row EXCEPT !.execution = c] : c \in Confused(row.execution)}
    \cup {[row EXCEPT !.steps[s] = Other(row.steps[s])] : s \in DOMAIN row.steps}

WrongPolicy(p) == {[p EXCEPT !.state = s] : s \in {"enabled", "disabled"} \ {p.state}}
                  \cup {[p EXCEPT !.controls = {}]}

(* An error in one row, an issue invented or withheld, a finding claimed   *)
(* or withheld.                                                            *)
WrongTenantPayload(check, payload) ==
    {[payload EXCEPT !.issues = (@ \ {c}) \cup ({c} \ @)] : c \in Collectors(check)}
    \cup (CASE check = "role-trusts" ->
                  {[payload EXCEPT !.rows = RemoveAt(@, i)] : i \in DOMAIN payload.rows}
                  \cup {[payload EXCEPT !.rows[i].column = "another"] : i \in DOMAIN payload.rows}
             [] check = "cross-tenant" ->
                  {[payload EXCEPT !.rows = @ \ {r}] : r \in payload.rows}
                  \cup UNION {{[payload EXCEPT !.rows = (@ \ {r}) \cup {[r EXCEPT !.priority = p]}] :
                                   p \in {"high", "low"} \ {r.priority}} : r \in payload.rows}
             [] OTHER ->
                  {[payload EXCEPT !.rows = @ \ {r}] : r \in payload.rows}
                  \cup (UNION {{[payload EXCEPT !.rows = (@ \ {r}) \cup {w}] : w \in WrongPolicy(r)} :
                                   r \in payload.rows})
                  \cup {[payload EXCEPT !.findings = (@ \ {f}) \cup ({f} \ @)] :
                            f \in {"no-enforcement", "user-consent", "guests:everyone"}})

Wrong(check, payload) ==
    CASE check \in {"whoami", "privesc"} -> (Principals \cup {NoOne}) \ {payload}
      [] check = "principals"  -> {[payload EXCEPT !.current = {}],
                                   [payload EXCEPT !.visible = @ \ {Me}, !.current = {}]}
      [] check = "permissions" ->
            {[payload EXCEPT ![p].current = ~@] : p \in DOMAIN payload}
            \cup {[payload EXCEPT ![p].privileged = ~@] : p \in DOMAIN payload}
            \cup {[p \in DOMAIN payload \ {q} |-> payload[p]] : q \in DOMAIN payload}
      [] check = "rbac"        -> {RemoveAt(payload, i) : i \in DOMAIN payload}
      [] check \in TenantCommands -> WrongTenantPayload(check, payload)
      [] check = "resource"    -> {[payload EXCEPT !.identity = p] : p \in (Principals \cup {NoOne})}
      [] check = "escalation-path" -> WrongRows(payload)
      [] OTHER -> {{}} \cup {{r} : r \in UNION {WrongRow(x) : x \in payload}}

(* ----- a run ------------------------------------------------------------------- *)

Unsaid == [c \in {} |-> {}]
With(payloads, check, payload) ==
    [c \in DOMAIN payloads \cup {check} |-> IF c = check THEN payload ELSE payloads[c]]
NotValidated == {"not validated"}

NotCaptured == [failed |-> TRUE]

Init ==
    /\ \E s \in Scenarios : azure = s.lab /\ plan = s.plan
    /\ slip \in {None} \cup ToSet(plan)
    /\ told = Unsaid /\ recorded = Unsaid /\ edited = FALSE
    /\ findings = NotValidated

Checks == ToSet(plan)
Pending == {i \in DOMAIN plan : plan[i] \notin DOMAIN told}
ToCapture == (DOMAIN told \cap TenantCommands) \ DOMAIN recorded

Tell ==
    /\ Pending # {} /\ ToCapture = {}
    /\ LET check == plan[CHOOSE i \in Pending : \A j \in Pending : i <= j] IN
       \E right \in Right(check) :
       \E payload \in IF slip = check THEN Wrong(check, right) ELSE {right} :
          told' = With(told, check, payload)
    /\ UNCHANGED <<azure, plan, recorded, slip, edited, findings>>

ContextOf(command) ==
    CASE command = "auth-policies" -> AuthPoliciesContext(azure.tenant, Blind)
      [] command = "cross-tenant"  -> CrossTenantContext(azure.tenant, Blind)
      [] command = "role-trusts"   -> RoleTrustsContext(Canary, azure.trusts, Blind)

(* The capture that follows a command of the tenant.                       *)
Capture ==
    \E command \in ToCapture :
        /\ command = "role-trusts" => ~CanaryMissing(ContextOf(command))
        /\ recorded' = With(recorded, command, ContextOf(command))
        /\ UNCHANGED <<azure, plan, told, slip, edited, findings>>

(* An az that fails, or a canary that is not there, fails the check; its   *)
(* payload stays.                                                          *)
CaptureFails ==
    \E command \in ToCapture :
        /\ recorded' = With(recorded, command, NotCaptured)
        /\ UNCHANGED <<azure, plan, told, slip, edited, findings>>

(* Once, between two commands or before a capture.                         *)
Edit ==
    /\ ~edited /\ slip = None /\ told # Unsaid /\ (Pending # {} \/ ToCapture # {})
    /\ azure' \in Edits(azure) \ {azure} /\ edited' = TRUE
    /\ UNCHANGED <<plan, told, recorded, slip, findings>>

HasPassed(c) == c \in TenantCommands => recorded[c] # NotCaptured

(* currentPermissionRow is the first one marked, if any is.                *)
Footholds ==
    IF "permissions" \notin Checks \/ currentIdentities(told["permissions"]) = {} THEN {NoOne}
    ELSE currentIdentities(told["permissions"])

FindingsOf(c, foothold) ==
    CASE c = "escalation-path" ->
            EscalationFindings(told[c], told["permissions"], told["role-trusts"].rows)
      [] Persistence(c) ->
            PersistenceFindings(c, told[c], told["resource"], told["permissions"], foothold,
                                told["rbac"])
      [] c = "whoami" ->
            WhoAmIFindings(told[c], told["principals"], told["permissions"], told["rbac"],
                           told["privesc"])
      [] c = "auth-policies" -> AuthPoliciesFindings(told[c], recorded[c])
      [] c = "cross-tenant" -> CrossTenantFindings(told[c], recorded[c])
      [] c = "role-trusts" -> RoleTrustsFindings(told[c], recorded[c])
      [] OTHER -> {}

(* ValidateLiveRun.  A sibling is read whether its check passed or not.    *)
Validate ==
    /\ Pending = {} /\ ToCapture = {} /\ findings = NotValidated
    /\ \E foothold \in Footholds :
          findings' = UNION {FindingsOf(c, foothold) : c \in {x \in Checks : HasPassed(x)}}
    /\ UNCHANGED <<azure, plan, told, recorded, slip, edited>>

Next == Tell \/ Capture \/ CaptureFails \/ Edit \/ Validate

Spec == Init /\ [][Next]_vars

(* ----- properties --------------------------------------------------------------- *)

TypeOK ==
    /\ slip \in {None} \cup Checks
    /\ edited \in BOOLEAN /\ DOMAIN told \subseteq Checks
    /\ DOMAIN recorded \subseteq DOMAIN told \cap TenantCommands

Validated == findings # NotValidated
Passed == findings = {}

(* The nearest scope does not settle what the identity may do: it holds    *)
(* two roles there, or the role of runbooks beside or below a wider one,   *)
(* or that role decides about a workflow.                                  *)
Disputed ==
    LET control == Control(ControlRoles)
        roles == {g.role : g \in control}
    IN  \/ Cardinality(Nearest(control)) > 1
        \/ "Automation Contributor" \in roles /\ (roles # {"Automation Contributor"}
                                                 \/ "logic-apps" \in Checks)

WorksFromRoot == \E g \in Grants(Me) : g.scope = "root"

(* A tool that tells every command's truth is not blamed, when Azure is    *)
(* the same for all of them: what the validators rebuild from the siblings *)
(* is what the rights and the trusts amount to.  (Disputed control and     *)
(* rights over "/" excepted, see the last section.)                        *)
TruthIsAccepted ==
    Validated /\ slip = None /\ ~edited =>
        \/ Passed
        \/ "escalation-path" \in Checks /\ WorksFromRoot
        \/ (\E c \in Checks : Persistence(c)) /\ Disputed

(* whoami, principals, permissions and privesc name one foothold.          *)
OneFoothold ==
    /\ told["whoami"] = Me
    /\ Me \in told["principals"].current
    /\ Me \in currentIdentities(told["permissions"])
    /\ told["privesc"] = IF told["permissions"][Me].privileged THEN Me ELSE NoOne

(* What a passed payload keeps of the tenant.                              *)
TenantKept(c) ==
    CASE c = "auth-policies" ->
            /\ told[c].rows = VisiblePolicies(azure.tenant, Blind)
            /\ told[c].findings = TenantFindings
            /\ Unread(c) \subseteq told[c].issues
      [] c = "cross-tenant" ->
            /\ \E right \in RightCrossTenant : right.rows \subseteq told[c].rows
            /\ Unread(c) \subseteq told[c].issues
      [] c = "role-trusts" ->
            /\ \A t \in Seen : CanaryTrust(Canary, t) => t \in ToSet(told[c].rows)
            /\ "census" \in Blind => told[c].rows = <<>> /\ "census" \in told[c].issues

(* A payload that passes claims nothing that is not so: a step is said to  *)
(* be proven only for an identity whose roles suffice, the foothold and    *)
(* the identity of the resource are the real ones, with their roles; where *)
(* there is a privileged foothold or a stronger identity in reach,         *)
(* escalation-path shows it; no single command takes another identity for  *)
(* the signed-in one; and of the tenant, even one that has changed since   *)
(* the payload, the policies, boundaries and canary trusts that can be     *)
(* read are shown, what cannot be read is said to be so, and a finding is  *)
(* raised exactly when what can be read entails it.                        *)
PassMeansProven ==
    /\ Passed /\ ~edited => \A c \in Checks :
        /\ Persistence(c) /\ ~Disputed =>
             \A row \in told[c] :
                /\ \A s \in Steps(c) : row.steps[s] = "yes" => Proven(s)
                /\ row.current.principal = Me /\ row.current.roles \subseteq RolesHeld(Me)
                /\ row.execution = RightExecution
        /\ c = "escalation-path" /\ ~WorksFromRoot =>
             /\ PermissionRow(Me).privileged =>
                  \E r \in told[c] : r.command = "permissions" /\ r.asset = Me /\ r.confirmed
             /\ Leads # {} =>
                  \E r \in told[c] : r.command = "role-trusts" /\ r.asset = Me
                                     /\ r.targets \cap Leads # {}
             /\ ~PermissionRow(Me).privileged /\ Leads = {} => told[c] = {}
        /\ c = "whoami" => OneFoothold
    /\ Passed => \A c \in Checks \cap TenantCommands :
        HasPassed(c) /\ (edited => plan = <<c>>) => TenantKept(c)

(* ----- what the repository says and the program does not keep ----------------- *)

(* TLC refutes each of these on the instance of MCFoothold; no run checks  *)
(* them.                                                                   *)

(* validate_surface_persistence.go:379: a step's status is to "stay        *)
(* aligned with whether the current identity really has defended           *)
(* automation control at the relevant scope".  An Automation Contributor   *)
(* of the account who is Owner of the subscription is expected to show     *)
(* steps on the account as not proven.                                     *)
NearestDoesNotHide ==
    Passed /\ ~edited => \A c \in Checks \cap {"automation"} :
        \A row \in told[c] : \A s \in Steps(c) : Proven(s) => row.steps[s] = "yes"

(* The same of workflows, which that role does not reach: yes is expected. *)
WorkflowNeedsItsRole ==
    Passed /\ ~edited => \A c \in Checks \cap {"logic-apps"} :
        \A row \in told[c] : \A s \in Steps(c) : row.steps[s] = "yes" => Proven(s)

(* validate_surface_role_trusts.go:81: role-trusts "should make unreadable *)
(* trust census paths explicit instead of pretending the tenant has no     *)
(* trust edges".  A part that cannot be read may be passed over in silence *)
(* as soon as another one can.                                             *)
BlindnessIsSaid ==
    Passed /\ ~edited =>
        \A c \in Checks \cap TenantCommands : HasPassed(c) => Unread(c) \subseteq told[c].issues

(* escalation-path asks for a "stronger reachable target" (line 136): an   *)
(* Owner of "/" must show rows for identities with less than its own.      *)
RootOutranks ==
    Validated /\ slip = None /\ ~edited /\ "escalation-path" \in Checks => Passed
=============================================================================
