--------------------------- MODULE PostureFindings ---------------------------
(***************************************************************************)
(* The findings a tool must and must not raise about the network posture   *)
(* of key vaults and storage accounts.  Three commands speak of it: their  *)
(* validators each rebuild the expected findings from a context captured   *)
(* for that command alone, keyvault and storage from their own accounts    *)
(* (validate_surface_data.go), resource-trusts from both                   *)
(* (validate_surface_resource_trusts.go), which also expects one row for   *)
(* every path into the resource.                                           *)
(*                                                                         *)
(* The commands run one after another against an Azure that may be edited  *)
(* between any two steps.  The tool reads Azure once per command and may   *)
(* have one slip: a finding or a row it always gets wrong.                 *)
(***************************************************************************)
EXTENDS Naturals, Sequences, FiniteSets, Functions, SequencesExt

CONSTANTS
    Vaults, Accounts,   \* resource ids, of resources that exist or do not
    CommandOrder,       \* the order the plan runs the three commands in
    MaxEdits            \* edits of Azure in one run (a bound)

Commands == {"keyvault", "storage", "resource-trusts"}

ASSUME OrderAssumption ==
    CommandOrder \in Seq(Commands) /\ ToSet(CommandOrder) = Commands /\ Len(CommandOrder) = 3

(* An Azure resource id names the type of the resource.                    *)
ASSUME IdsAssumption == Vaults \cap Accounts = {}

Actions == {"Allow", "Deny", "none"}    \* networkAcls.defaultAction, or no ACLs

(* publicNetworkAccess Enabled, the default action, a private endpoint,    *)
(* purge protection; for an account, anonymous blob access in its place.   *)
VaultPosture == [public : BOOLEAN, action : Actions, endpoint : BOOLEAN, purge : BOOLEAN]
AccountPosture == [anonymous : BOOLEAN, action : Actions, endpoint : BOOLEAN]

Gone == [gone |-> TRUE]

VARIABLES
    vaults,     \* Azure's vaults: posture or Gone
    accounts,   \* Azure's storage accounts: posture or Gone
    slip,       \* what the tool gets wrong, if anything
    step,       \* the command under way and how far it is
    told,       \* the findings and rows each command told
    context,    \* the vaults and accounts each command's capture recorded
    edits,      \* edits so far
    quiet       \* the commands whose telling and capture saw the same Azure

vars == <<vaults, accounts, slip, step, told, context, edits, quiet>>

There(azure) == {r \in DOMAIN azure : azure[r] # Gone}

(* ----- findings of a recorded posture ------------------------------------ *)

Finding(kind, of) == [kind |-> kind, of |-> of]

ImplicitOpenACL(p) == p.public /\ p.action = "none"

(* Mutant: a vault without ACLs counts as filtered.                        *)
VaultNetworkFinding_NoACLFiltered(p) ==
    IF ~p.public THEN {}
    ELSE IF p.endpoint THEN {"public-network-with-private-endpoint"}
    ELSE IF p.action = "Allow" THEN {"public-network-open"}
    ELSE {"public-network-enabled"}

VaultNetworkFinding(p) ==
    IF ~p.public THEN {}
    ELSE IF p.endpoint THEN {"public-network-with-private-endpoint"}
    ELSE IF p.action = "Allow" \/ ImplicitOpenACL(p) THEN {"public-network-open"}
    ELSE {"public-network-enabled"}

VaultFindings(p) ==
    VaultNetworkFinding(p) \cup (IF p.purge THEN {} ELSE {"purge-protection-disabled"})

AccountFindings(p) ==
    (IF p.anonymous THEN {"storage-public"} ELSE {})
    \cup (IF p.action = "Allow" THEN {"storage-firewall-open"} ELSE {})

About(azure, kinds(_)) ==
    UNION {{Finding(k, r) : k \in kinds(azure[r])} : r \in There(azure)}

(* ----- resource-trusts --------------------------------------------------- *)

TrustRow(of, type, exposure) == [of |-> of, type |-> type, exposure |-> exposure]

AccountTrusts(a, p) ==
    (IF p.anonymous THEN {TrustRow(a, "anonymous-blob-access", "high")} ELSE {})
    \cup (IF p.action = "Allow" THEN {TrustRow(a, "public-network-default", "medium")} ELSE {})
    \cup (IF p.endpoint THEN {TrustRow(a, "private-endpoint", "restricted")} ELSE {})

(* Mutant: only an explicit Allow opens a vault to everybody.              *)
VaultTrusts_ExplicitAllow(v, p) ==
    (IF p.public
       THEN {TrustRow(v, "public-network", IF p.action = "Allow" THEN "high" ELSE "medium")}
       ELSE {})
    \cup (IF p.endpoint THEN {TrustRow(v, "private-endpoint", "restricted")} ELSE {})

VaultTrusts(v, p) ==
    (IF p.public
       THEN {TrustRow(v, "public-network", IF p.action = "Deny" THEN "medium" ELSE "high")}
       ELSE {})
    \cup (IF p.endpoint THEN {TrustRow(v, "private-endpoint", "restricted")} ELSE {})

expectedResourceTrusts(vs, as) ==
    (UNION {AccountTrusts(a, as[a]) : a \in There(as)})
    \cup (UNION {VaultTrusts(v, vs[v]) : v \in There(vs)})

(* The findings of the two siblings without purge protection.              *)
expectedResourceTrustFindings(vs, as) ==
    About(as, AccountFindings) \cup About(vs, VaultNetworkFinding)

(* ----- what the tool tells ------------------------------------------------ *)

VaultKinds == {"public-network-open", "public-network-enabled",
               "public-network-with-private-endpoint", "purge-protection-disabled"}
AccountKinds == {"storage-public", "storage-firewall-open"}

Slips == {Finding(k, v) : k \in VaultKinds, v \in Vaults}
         \cup {Finding(k, a) : k \in AccountKinds, a \in Accounts}
         \cup {TrustRow(r, "private-endpoint", "restricted") : r \in Vaults \cup Accounts}
         \cup {TrustRow(v, "public-network", "high") : v \in Vaults}

(* The tool misses what it slips on where it is true, and claims it        *)
(* elsewhere.                                                              *)
Toggle(claims, candidates) ==
    LET wrong == slip \cap candidates IN (claims \ wrong) \cup (wrong \ claims)

VaultClaims == {Finding(k, v) : k \in VaultKinds, v \in Vaults}
AccountClaims == {Finding(k, a) : k \in AccountKinds, a \in Accounts}
NetworkClaims == {f \in VaultClaims : f.kind # "purge-protection-disabled"} \cup AccountClaims

(* What is true of the Azure the tool reads: a reference of its own, by    *)
(* what traffic reaches the resource.                                      *)
Reachable(p) == p.public /\ ~p.endpoint /\ p.action # "Deny"
TrueOfVault(p) ==
    {k \in VaultKinds :
        CASE k = "public-network-open"    -> Reachable(p)
          [] k = "public-network-enabled" -> p.public /\ ~p.endpoint /\ ~Reachable(p)
          [] k = "public-network-with-private-endpoint" -> p.public /\ p.endpoint
          [] OTHER -> ~p.purge}

Tells(c) ==
    LET v == Toggle(About(vaults, TrueOfVault), VaultClaims)
        a == Toggle(About(accounts, AccountFindings), AccountClaims)
    IN  CASE c = "keyvault" -> [findings |-> v, rows |-> {}]
          [] c = "storage"  -> [findings |-> a, rows |-> {}]
          [] OTHER -> [findings |-> (v \cup a) \cap NetworkClaims,
                       rows |-> Toggle(expectedResourceTrusts(vaults, accounts),
                                       slip \ (VaultClaims \cup AccountClaims))]

(* ----- the run ------------------------------------------------------------ *)

Nobody == [r \in {} |-> Gone]
NothingRecorded == [vaults |-> Nobody, accounts |-> Nobody]

Init ==
    /\ vaults \in [Vaults -> VaultPosture \cup {Gone}]
    /\ accounts \in [Accounts -> AccountPosture \cup {Gone}]
    /\ slip \in {{}} \cup {{s} : s \in Slips}
    /\ step = [at |-> 1, done |-> "nothing"]
    /\ told = [c \in Commands |-> [findings |-> {}, rows |-> {}]]
    /\ context = [c \in Commands |-> NothingRecorded]
    /\ edits = 0
    /\ quiet = Commands

Running == step.at \in DOMAIN CommandOrder
Command == CommandOrder[step.at]

(* The runner executes the command.                                        *)
TellPayload ==
    /\ Running /\ step.done = "nothing"
    /\ told' = [told EXCEPT ![Command] = Tells(Command)]
    /\ step' = [step EXCEPT !.done = "told"]
    /\ UNCHANGED <<vaults, accounts, slip, context, edits, quiet>>

(* captureLiveKeyVaultContext, for keyvault and first for resource-trusts. *)
CaptureVaults ==
    /\ Running /\ step.done = "told" /\ Command # "storage"
    /\ context' = [context EXCEPT ![Command].vaults = Restrict(vaults, There(vaults))]
    /\ step' = IF Command = "keyvault" THEN [at |-> step.at + 1, done |-> "nothing"]
               ELSE [step EXCEPT !.done = "vaults"]
    /\ UNCHANGED <<vaults, accounts, slip, told, edits, quiet>>

(* captureLiveStorageContext, for storage and then for resource-trusts.    *)
CaptureAccounts ==
    /\ Running
    /\ step.done = IF Command = "storage" THEN "told" ELSE "vaults"
    /\ Command # "keyvault"
    /\ context' = [context EXCEPT ![Command].accounts = Restrict(accounts, There(accounts))]
    /\ step' = [at |-> step.at + 1, done |-> "nothing"]
    /\ UNCHANGED <<vaults, accounts, slip, told, edits, quiet>>

(* One attribute of one resource is changed; the command under way no      *)
(* longer compares like with like.                                         *)
EditAzure ==
    /\ edits < MaxEdits /\ Running
    /\ \/ \E v \in There(vaults) :
            /\ \E p \in VaultPosture :
                 /\ Cardinality({f \in {"public", "action", "endpoint", "purge"} :
                                   p[f] # vaults[v][f]}) = 1
                 /\ vaults' = [vaults EXCEPT ![v] = p]
            /\ UNCHANGED accounts
       \/ \E a \in There(accounts) :
            /\ \E p \in AccountPosture :
                 /\ Cardinality({f \in {"anonymous", "action", "endpoint"} :
                                   p[f] # accounts[a][f]}) = 1
                 /\ accounts' = [accounts EXCEPT ![a] = p]
            /\ UNCHANGED vaults
    /\ edits' = edits + 1
    /\ quiet' = IF step.done = "nothing" THEN quiet ELSE quiet \ {Command}
    /\ UNCHANGED <<slip, step, told, context>>

Next == TellPayload \/ CaptureVaults \/ CaptureAccounts \/ EditAzure

Spec == Init /\ [][Next]_vars

(* ----- the three verdicts -------------------------------------------------- *)

(* Of every resource recorded, the findings told must be the expected ones; *)
(* findings of other resources are not looked at.                          *)
Disagreement(told_, expected, recorded) ==
    {f \in (told_ \ expected) \cup (expected \ told_) : f.of \in recorded}

validateKeyVault ==
    LET vs == context["keyvault"].vaults
    IN  Disagreement(told["keyvault"].findings, About(vs, VaultFindings), DOMAIN vs)

validateStorage ==
    LET as == context["storage"].accounts
    IN  Disagreement(told["storage"].findings, About(as, AccountFindings), DOMAIN as)

(* Mutant: rows and findings Azure does not explain are let through.       *)
validateResourceTrusts_MissingOnly ==
    LET c == context["resource-trusts"]
        t == told["resource-trusts"]
    IN  (expectedResourceTrusts(c.vaults, c.accounts) \ t.rows)
        \cup (expectedResourceTrustFindings(c.vaults, c.accounts) \ t.findings)

(* resource-trusts compares both ways whatever the resource: a row or a    *)
(* finding the contexts do not reproduce is reported.                      *)
validateResourceTrusts ==
    LET c == context["resource-trusts"]
        t == told["resource-trusts"]
        rows == expectedResourceTrusts(c.vaults, c.accounts)
        expected == expectedResourceTrustFindings(c.vaults, c.accounts)
    IN  (t.rows \ rows) \cup (rows \ t.rows)
        \cup (t.findings \ expected) \cup (expected \ t.findings)

Verdict(c) == CASE c = "keyvault" -> validateKeyVault
                [] c = "storage"  -> validateStorage
                [] OTHER          -> validateResourceTrusts

Finished == ~Running

(* ----- properties ----------------------------------------------------------- *)

TypeOK ==
    /\ vaults \in [Vaults -> VaultPosture \cup {Gone}]
    /\ accounts \in [Accounts -> AccountPosture \cup {Gone}]
    /\ step \in [at : 1..4, done : {"nothing", "told", "vaults"}]
    /\ step.done = "vaults" => Command = "resource-trusts"
    /\ \A c \in Commands : context[c].vaults \in [DOMAIN context[c].vaults -> VaultPosture]
    /\ \A c \in Commands : context[c].accounts \in [DOMAIN context[c].accounts -> AccountPosture]
    /\ edits \in 0..MaxEdits

(* A tool that says what is true of the posture it reads is not blamed by  *)
(* any of the three validators unless Azure was edited between a command   *)
(* and its capture.                                                        *)
TruthIsAccepted ==
    (Finished /\ slip = {}) => \A c \in quiet : Verdict(c) = {}

(* The tool's resource-trusts composes its keyvault and storage findings,  *)
(* and the three validators rebuild their expectations in three places.    *)
(* In a run that saw one Azure they agree about a slip: what the siblings  *)
(* refuse about the network, resource-trusts refuses, and the other way    *)
(* round for resources Azure shows.                                        *)
SiblingsAgree ==
    (Finished /\ edits = 0) =>
        LET shown == There(vaults) \cup There(accounts)
            siblings == {f \in Verdict("keyvault") \cup Verdict("storage") : f \in NetworkClaims}
            composed == {f \in Verdict("resource-trusts") : f \in NetworkClaims /\ f.of \in shown}
        IN  siblings = composed

(* Every finding a resource-trusts payload is asked for is explained by a  *)
(* row of the same resource the payload is asked for: nobody has to report *)
(* an open network on a resource without a public path, or a public path   *)
(* of a vault without a finding.                                           *)
FindingsAreExplained ==
    Finished =>
        LET c == context["resource-trusts"]
            rows == expectedResourceTrusts(c.vaults, c.accounts)
            asked == expectedResourceTrustFindings(c.vaults, c.accounts)
            public == {r \in rows : r.type # "private-endpoint"}
        IN  /\ {f.of : f \in asked} = {r.of : r \in public}
            /\ \A f \in asked : f.kind \in {"public-network-open", "storage-public"} =>
                   \E r \in public : r.of = f.of /\ r.exposure = "high"

(* "keyvault should not overclaim an open public posture when Azure does   *)
(* not show it" (validate_surface_data.go): no vault is called open unless *)
(* Azure shows it open.                                                    *)
OpenIsNotOverclaimed ==
    (Finished /\ "keyvault" \in quiet /\ edits = 0 /\ Verdict("keyvault") = {}) =>
        \A f \in told["keyvault"].findings :
            f.kind = "public-network-open" => vaults[f.of] # Gone /\ Reachable(vaults[f.of])
=============================================================================
