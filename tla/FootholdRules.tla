---------------------------- MODULE FootholdRules ----------------------------
(***************************************************************************)
(* What the validators of escalation-path and of the persistence families  *)
(* (automation, logic-apps) expect of a payload, and how whoami is held    *)
(* against the other identity commands.  None of them asks Azure: they     *)
(* rebuild the rows from payloads of permissions, role-trusts, rbac and    *)
(* the resource command that lie beside, of the same viewpoint.            *)
(*                                                                         *)
(* Definitions only; the commands and the validation are in Foothold.      *)
(* Ids are atoms, lists of role names are sets, the many columns that are  *)
(* copied from the resource command are one value (state).                 *)
(***************************************************************************)
EXTENDS Naturals, Sequences, FiniteSets, SequencesExt

CONSTANT NoOne      \* no principal

(* A resource in its group in its subscription, another group, and "/".    *)
Scopes == {"root", "sub", "rg", "resource", "elsewhere"}
Below == {<<"sub", "rg">>, <<"sub", "resource">>, <<"sub", "elsewhere">>, <<"rg", "resource">>}

(* Mutant: a scope applies to itself only.                                 *)
payloadScopeAppliesToResource_Same(current, target) == current # "root" /\ current = target

(* The slash is trimmed, so that "/" applies to nothing.                   *)
payloadScopeAppliesToResource(current, target) ==
    /\ "root" \notin {current, target}
    /\ current = target \/ <<current, target>> \in Below

(* ----- permissions ---------------------------------------------------------- *)

(* A permissions payload has a row for each principal in its domain.       *)
currentIdentities(permissions) == {p \in DOMAIN permissions : permissions[p].current}
currentPrivileged(permissions) == {p \in currentIdentities(permissions) : permissions[p].privileged}

payloadPermissionRoleStrength(row) ==
    IF "Owner" \in row.impact THEN 3 ELSE IF "Contributor" \in row.impact THEN 1 ELSE 0

payloadPermissionNewScopes(row, target) ==
    {s \in target.scopes : ~ \E c \in row.scopes : payloadScopeAppliesToResource(c, s)}

(* Does the identity id have a right worth going for, seen from a foothold *)
(* that has a row of its own?                                              *)
payloadPermissionAddsNetValue(permissions, foothold, id) ==
    /\ id \in DOMAIN permissions /\ permissions[id].privileged
    /\ LET own == permissions[foothold]
           target == permissions[id]
       IN  \/ payloadPermissionNewScopes(own, target) # {}
           \/ payloadPermissionRoleStrength(target) > payloadPermissionRoleStrength(own)

(* ----- escalation-path -------------------------------------------------------- *)

(* The trusts of a foothold, and the owner of an application among them: of *)
(* several owners the last row counts.                                     *)
TrustsOfFoothold(permissions, trusts) ==
    {t \in ToSet(trusts) : t.source \in currentIdentities(permissions)}

ownerRows(permissions, trusts, app) ==
    {i \in DOMAIN trusts : /\ trusts[i] \in TrustsOfFoothold(permissions, trusts)
                           /\ trusts[i].type = "app-owner" /\ trusts[i].target = app}

appOwner(permissions, trusts, app) ==
    LET owners == ownerRows(permissions, trusts, app)
    IN  IF owners = {} THEN NoOne
        ELSE trusts[CHOOSE i \in owners : \A j \in owners : j <= i].source

(* A credential of an owned application, for something the owner lacks.    *)
ownedCredential(permissions, trusts, t) ==
    /\ t.type = "federated-credential"
    /\ LET owner == appOwner(permissions, trusts, t.source)
       IN  owner # NoOne /\ payloadPermissionAddsNetValue(permissions, owner, t.target)

(* Mutant: the federated credentials of owned applications are forgotten.  *)
currentFootholdTrustTargets_Direct(permissions, trusts) ==
    {id \in UNION {{t.target, t.backing} : t \in TrustsOfFoothold(permissions, trusts)} :
        \E t \in TrustsOfFoothold(permissions, trusts) :
            id \in {t.target, t.backing} /\ payloadPermissionAddsNetValue(permissions, t.source, id)}

currentFootholdTrustTargets(permissions, trusts) ==
    (UNION {{id \in {t.target, t.backing} : payloadPermissionAddsNetValue(permissions, t.source, id)} :
               t \in TrustsOfFoothold(permissions, trusts)})
    \cup {t.target : t \in {x \in ToSet(trusts) : ownedCredential(permissions, trusts, x)}}

(* validateEscalationPathPayloadAgainstSourceTruth; rows is a set of       *)
(* [command, asset, confirmed, targets].                                   *)
EscalationFindings(rows, permissions, trusts) ==
    LET privileged == currentPrivileged(permissions)
        targets == currentFootholdTrustTargets(permissions, trusts)
        direct == {r \in rows : r.command = "permissions"}
        trust == {r \in rows : r.command = "role-trusts"}
        foothold == currentIdentities(permissions)
    IN  IF privileged = {} /\ targets = {}
        THEN {f \in {"unexpected-rows"} : rows # {}}
        ELSE {f \in {"missing-direct-control"} :
                privileged # {} /\ ~ \E r \in direct : r.asset \in privileged /\ r.confirmed}
             \cup {f \in {"unexpected-direct-row"} : \E r \in direct : r.asset \notin foothold}
             \cup {f \in {"missing-trust-row"} :
                     targets # {} /\ ~ \E r \in trust :
                                        r.asset \in foothold /\ r.targets \cap targets # {}}

(* ----- persistence ------------------------------------------------------------- *)

ControlRoles == {"Owner", "Contributor", "Automation Contributor"}

(* persistenceControlRank: a scope that is not above the resource has none. *)
persistenceControlRank == [resource |-> 0, rg |-> 1, sub |-> 2, root |-> 3]

(* persistenceAutomationControlFromPayload, for workflows too: of the rows  *)
(* of the foothold, the role at the nearest scope, the first one there;    *)
(* "none" without control.                                                 *)
controlRows(rbac, foothold) ==
    {i \in DOMAIN rbac : /\ rbac[i].principal = foothold /\ rbac[i].role \in ControlRoles
                         /\ rbac[i].scope \in DOMAIN persistenceControlRank}

nearestRows(rbac, foothold) ==
    {i \in controlRows(rbac, foothold) : \A j \in controlRows(rbac, foothold) :
        persistenceControlRank[rbac[i].scope] <= persistenceControlRank[rbac[j].scope]}

persistenceControl(rbac, foothold) ==
    LET nearest == nearestRows(rbac, foothold)
    IN  IF controlRows(rbac, foothold) = {} THEN "none"
        ELSE rbac[CHOOSE i \in nearest : \A j \in nearest : i <= j].role

(* The capability steps by what they ask for: steps on the account itself, *)
(* on its runbooks and schedules, on a workflow.                           *)
Steps(family) == IF family = "automation" THEN {"account", "runbook"} ELSE {"workflow"}

persistenceExpectedCapabilityStatus(step, role) ==
    IF role = "none" \/ (role = "Automation Contributor" /\ step = "account")
    THEN "not proven" ELSE "yes"

RolesOf(row) == IF row.impact # {} THEN row.impact ELSE row.all

NoContext == [principal |-> NoOne, roles |-> {}]

(* The current foothold is the first permissions row marked as current (or *)
(* no row is); its rights over the resource come from rbac.                *)
CurrentContextFindings(context, permissions, foothold, role) ==
    LET expected == IF role # "none" THEN {role}
                    ELSE IF foothold # NoOne THEN RolesOf(permissions[foothold]) ELSE {}
    IN  IF foothold = NoOne /\ role = "none"
        THEN {f \in {"unexpected-current-context"} : context # NoContext}
        ELSE IF context = NoContext THEN {"missing-current-context"}
        ELSE {f \in {"current-context-principal-drift"} :
                 foothold # NoOne /\ context.principal # foothold}
             \cup {f \in {"current-context-roles-drift"} :
                     expected # {} /\ context.roles # expected}

ExecutionContextFindings(context, permissions, identity) ==
    LET expected == IF identity \in DOMAIN permissions THEN RolesOf(permissions[identity]) ELSE {}
    IN  IF identity = NoOne
        THEN {f \in {"unexpected-execution-context"} : context # NoContext}
        ELSE IF context = NoContext THEN {"missing-execution-context"}
        ELSE {f \in {"execution-context-principal-drift"} : context.principal # identity}
             \cup {f \in {"execution-context-roles-drift"} : context.roles # expected}

(* validatePersistenceAutomation... and ...LogicAppsPayloadAgainstSource-  *)
(* Truth, for one resource; rows is empty or holds its row.                *)
PersistenceFindings(family, rows, source, permissions, foothold, rbac) ==
    LET role == persistenceControl(rbac, foothold)
    IN  IF rows = {} THEN {"count-drift", "row-missing"}
        ELSE LET row == CHOOSE r \in rows : TRUE
             IN  {f \in {"state-drift"} : row.state # source.state}
                 \cup CurrentContextFindings(row.current, permissions, foothold, role)
                 \cup {f \in {"capability-step-drift"} :
                         \E s \in Steps(family) :
                            row.steps[s] # persistenceExpectedCapabilityStatus(s, role)}
                 \cup ExecutionContextFindings(row.execution, permissions, source.identity)

(* ----- whoami -------------------------------------------------------------------- *)

(* root is the principal of the current-foothold-direct-control path.      *)
PrivescFindings(who, permissions, root) ==
    IF root = NoOne
    THEN {f \in {"privesc-path-missing"} :
            who \in DOMAIN permissions /\ permissions[who].privileged}
    ELSE {f \in {"privesc-principal-drift"} : root # who}
         \cup {f \in {"privesc-non-privileged-path"} :
                 root = who /\ who \in DOMAIN permissions /\ ~permissions[who].privileged}

MarkFindings(who, visible, current) ==
    IF who \notin visible THEN {"principal-not-visible"}
    ELSE {f \in {"current-identity-drift"} : who \notin current}

(* validateWhoAmI...Consistency, in the order of ValidateLiveRun.          *)
WhoAmIFindings(who, principals, permissions, rbac, root) ==
    MarkFindings(who, principals.visible, principals.current)
    \cup MarkFindings(who, DOMAIN permissions, currentIdentities(permissions))
    \cup {f \in {"principal-not-visible-in-rbac"} : who \notin {a.principal : a \in ToSet(rbac)}}
    \cup PrivescFindings(who, permissions, root)
=============================================================================
