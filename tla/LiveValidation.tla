--------------------------- MODULE LiveValidation ---------------------------
(***************************************************************************)
(* What the live validation reads.  A run (RunAzureValidation) executes    *)
(* one check after another; for a check that passed it records validation  *)
(* contexts beside the payload, each in a file of its own, and then writes *)
(* the log entry.  ValidateLiveRun later walks the log, loads the contexts *)
(* and the payloads of sibling checks, and compares.  The runner and the   *)
(* validator agree about which file belongs to which check only by two     *)
(* separate dispatches on kind and name, modelled here as Captured and     *)
(* Needed.                                                                 *)
(*                                                                         *)
(* Runs share the output directory and may die anywhere, so a file found   *)
(* there may be an earlier run's or half written.  One viewpoint.          *)
(***************************************************************************)
EXTENDS Naturals, Sequences, FiniteSets, Functions, SequencesExt

CONSTANTS
    Campaigns,  \* the runs that follow each other in one directory: each a
                \* sequence of plans, a plan the sequence of a run's checks
    Sayings     \* what payloads may say, of "truth", "drift", "broken"

Check(kind, name) == [kind |-> kind, name |-> name]
Command(name) == Check("commands", name)
Family(name) == Check("families", name)

Plans == UNION {ToSet(c) : c \in Campaigns}

Checks == UNION {ToSet(p) : p \in Plans}

(* A plan lists each surface once: it is made from the keys of the         *)
(* manifest's maps (BuildSurfacePlan).                                     *)
ASSUME CampaignsAssumption ==
    /\ Campaigns \subseteq Seq(Seq(Checks))
    /\ \A t \in Checks : t \in [kind : {"commands", "families"}, name : STRING]
    /\ \A p \in Plans : p # <<>> /\ IsInjective(p)

ASSUME SayingsAssumption == Sayings \subseteq {"truth", "drift", "broken"}

(* ----- the two dispatches ------------------------------------------------- *)

(* The commands with a context of their own name.                          *)
OwnContext ==
    {"inventory", "managed-identities", "workloads", "app-services", "functions",
     "env-vars", "auth-policies", "cross-tenant", "role-trusts", "tokens-credentials",
     "app-credentials", "arm-deployments", "dns", "endpoints", "network-effective",
     "network-ports", "container-apps", "container-instances", "logic-apps",
     "automation", "azure-ml", "event-grid", "api-mgmt", "application-gateway",
     "databases", "keyvault", "storage", "snapshots-disks", "nics", "vms", "vmss",
     "acr", "aks"}

(* The context of a capture comes after the contexts it is composed of.    *)
tokensCredentials ==
    <<"app-services", "functions", "container-apps", "container-instances",
      "env-vars", "arm-deployments", "vms", "vmss", "tokens-credentials">>

credentialPath == tokensCredentials \o <<"databases", "keyvault", "storage">>

(* The files a passing check writes, in order; the Azure context always.   *)
Captured(t) ==
    <<"azure">> \o
    (CASE t = Command("tokens-credentials")                   -> tokensCredentials
       [] t = Command("resource-trusts")                      -> <<"keyvault", "storage">>
       [] t.kind = "commands" /\ t.name \in OwnContext \ {"tokens-credentials"} -> <<t.name>>
       [] t = Family("credential-path")                       -> credentialPath
       [] t = Family("compute-control")                       -> <<"compute-control">>
       [] OTHER                                               -> <<>>)

(* Mutant: the validator of automation and logic-apps families is taken    *)
(* for that of the commands of these names.                                *)
Needed_ByName(t) ==
    IF t.name \in OwnContext THEN {t.name}
    ELSE IF t.name = "resource-trusts" THEN {"storage", "keyvault"} ELSE {}

(* The files its validator compares with; a check without a validator      *)
(* needs none.                                                             *)
Needed(t) ==
    CASE t = Command("whoami")          -> {"azure"}
      [] t = Command("resource-trusts") -> {"storage", "keyvault"}
      [] t.kind = "commands" /\ t.name \in OwnContext -> {t.name}
      [] t = Family("credential-path")  ->
            {"env-vars", "tokens-credentials", "databases", "keyvault", "storage"}
      [] t = Family("compute-control")  -> {"compute-control"}
      [] OTHER                          -> {}

(* The commands whose payload a family's validator compares with.          *)
Siblings(t) ==
    CASE t = Family("escalation-path") -> {"permissions", "role-trusts"}
      [] t = Family("automation")      -> {"automation", "permissions", "rbac"}
      [] t = Family("logic-apps")      -> {"logic-apps", "permissions", "rbac"}
      [] OTHER                         -> {}

(* whoami's payload is compared with those of the same viewpoint.          *)
ConsistentWithWhoAmI == {"principals", "permissions", "rbac", "privesc"}

(* ----- files --------------------------------------------------------------- *)

(* What a payload says: the truth, something else, or nothing readable     *)
(* (no JSON, a contracted field missing, another family's name in it).     *)
Content == [run : Nat \ {0}, says : Sayings]
Absent == [run |-> 0, says |-> "absent"]
File(run, says) == [run |-> run, says |-> says]

VARIABLES
    campaign,   \* what the operator asks of this directory, run after run
    run,        \* runs begun
    todo,       \* the checks of the run under way that are still to do
    pending,    \* contexts the check under way has yet to record
    payload,    \* stdout.json of each check
    source,     \* loot/<name>.json of each check, what siblings read
    context,    \* the recorded contexts: <<check, name>> to [run, whole]
    log,        \* the command log of the latest run
    summary     \* the last live validation of it

vars == <<campaign, run, todo, pending, payload, source, context, log, summary>>

Unchecked == [outcome |-> "none", checked |-> {}, findings |-> {}]

Init ==
    /\ campaign \in Campaigns
    /\ run = 0 /\ todo = <<>> /\ pending = <<>>
    /\ payload = [t \in Checks |-> Absent]
    /\ source = [t \in Checks |-> Absent]
    /\ context = <<>>
    /\ log = <<>>
    /\ summary = Unchecked

(* ----- the run --------------------------------------------------------------- *)

Idle == todo = <<>>
Working == Idle = FALSE
Current == Head(todo)

Entry(t, status, recorded) == [check |-> t, status |-> status, payload |-> recorded]

(* Mutant: the log of an earlier run stays until the first check is done.  *)
BeginRun_KeepLog ==
    /\ Idle /\ run < Len(campaign)
    /\ todo' = campaign[run + 1]
    /\ run' = run + 1
    /\ summary' = Unchecked
    /\ UNCHANGED <<campaign, pending, payload, source, context, log>>

(* ScaffoldRun has replaced the log before the first check starts.         *)
BeginRun ==
    /\ Idle /\ run < Len(campaign)
    /\ todo' = campaign[run + 1]
    /\ run' = run + 1
    /\ log' = <<>>
    /\ summary' = Unchecked
    /\ UNCHANGED <<campaign, pending, payload, source, context>>

Record(status) ==
    /\ log' = Append(log, Entry(Current, status, payload'[Current] # Absent))
    /\ todo' = Tail(todo)
    /\ pending' = <<>>

(* executeTask with a tool that passes; it writes its own loot, and what   *)
(* it prints, unless it prints nothing, becomes the payload.               *)
ExecutePass ==
    /\ Working /\ pending = <<>>
    /\ \E says \in Sayings : \E silent \in BOOLEAN :
         /\ payload' = IF silent THEN payload
                       ELSE [payload EXCEPT ![Current] = File(run, says)]
         /\ source' = [source EXCEPT ![Current] = File(run, says)]
    /\ pending' = Captured(Current)
    /\ UNCHANGED <<campaign, run, todo, context, log, summary>>

(* A check that fails may have left its files all the same.                *)
ExecuteFail ==
    /\ Working /\ pending = <<>>
    /\ \E says \in Sayings :
         /\ payload' \in {payload, [payload EXCEPT ![Current] = File(run, says)]}
         /\ source' \in {source, [source EXCEPT ![Current] = File(run, says)]}
    /\ Record("fail")
    /\ UNCHANGED <<campaign, run, context, summary>>

Recorded(whole) ==
    LET key == <<Current, Head(pending)>>
    IN  [k \in DOMAIN context \cup {key} |->
            IF k = key THEN [run |-> run, whole |-> whole] ELSE context[k]]

(* One context is read from Azure and written; after the last one the      *)
(* check is logged.                                                        *)
Capture ==
    /\ pending # <<>>
    /\ context' = Recorded(TRUE)
    /\ UNCHANGED <<campaign, run, payload, source, summary>>
    /\ IF Tail(pending) # <<>>
         THEN pending' = Tail(pending) /\ UNCHANGED <<todo, log>>
         ELSE Record("pass")

(* Mutant: a context that cannot be read is passed over.                   *)
CaptureFails_PassOver ==
    /\ pending # <<>>
    /\ context' \in {context, Recorded(FALSE)}
    /\ UNCHANGED <<campaign, run, payload, source, summary>>
    /\ IF Tail(pending) # <<>>
         THEN pending' = Tail(pending) /\ UNCHANGED <<todo, log>>
         ELSE Record("pass")

(* az fails, or the file cannot be written and is left torn: the check     *)
(* fails and the remaining contexts are not recorded.                      *)
CaptureFails ==
    /\ pending # <<>>
    /\ context' \in {context, Recorded(FALSE)}
    /\ UNCHANGED <<campaign, run, payload, source, summary>>
    /\ Record("fail")

(* labctl is killed; the context being written may be torn.                *)
Crash ==
    /\ Working
    /\ context' \in {context} \cup (IF pending # <<>> THEN {Recorded(FALSE)} ELSE {})
    /\ todo' = <<>> /\ pending' = <<>>
    /\ UNCHANGED <<campaign, run, payload, source, log, summary>>

(* ----- live validation ------------------------------------------------------- *)

Passed == {e \in ToSet(log) : e.status = "pass"}

Finding(t, what) == [check |-> t, what |-> what]

Readable(e) == e.payload /\ payload[e.check].says # "broken"

ContextAt(t, c) ==
    IF <<t, c>> \in DOMAIN context THEN context[<<t, c>>] ELSE [run |-> 0, whole |-> TRUE]

(* Every loader is tried for every readable payload: one unparsable file   *)
(* in the check's directory stops the validation with an error.            *)
Aborts == \E e \in Passed : Readable(e) /\
            \E k \in DOMAIN context : k[1] = e.check /\ ~context[k].whole

(* Mutant: a payload that cannot be read is passed over.                   *)
PayloadFinding_PassOver(e) ==
    IF e.payload THEN {} ELSE {Finding(e.check, "missing-payload")}

PayloadFinding(e) ==
    IF ~e.payload THEN {Finding(e.check, "missing-payload")}
    ELSE IF payload[e.check].says = "broken" THEN {Finding(e.check, "unreadable")}
    ELSE {}

(* A payload of this moment agrees with a context of this run exactly when *)
(* it says the truth; Azure may have changed between runs.                 *)
ContextFindings(e) ==
    LET read == {ContextAt(e.check, c) : c \in Needed(e.check)}
    IN  IF ~Readable(e) THEN {}
        ELSE IF \E c \in read : c.run = 0 THEN {Finding(e.check, "missing-context")}
        ELSE IF \E c \in read : payload[e.check] # File(c.run, "truth")
          THEN {Finding(e.check, "drift")}
        ELSE {}

(* loadSiblingCommandPayload takes the file that is there.                 *)
SourceAt(name) == IF Command(name) \in Checks THEN source[Command(name)] ELSE Absent

SiblingFindings(e) ==
    LET read == {SourceAt(s) : s \in Siblings(e.check)}
    IN  IF ~Readable(e) THEN {}
        ELSE IF \E s \in read : s.says \in {"absent", "broken"}
          THEN {Finding(e.check, "missing-source")}
        ELSE IF \E s \in read : s # payload[e.check] THEN {Finding(e.check, "drift")}
        ELSE {}

(* The payloads of one viewpoint: whoami against each of the others.       *)
ConsistencyFindings ==
    LET told == {e.check : e \in {x \in Passed : Readable(x)}}
        whoami == Command("whoami")
        others == {t \in told : t.kind = "commands" /\ t.name \in ConsistentWithWhoAmI}
        compared == {t \in others : t.name # "privesc" \/ Command("permissions") \in told}
    IN  IF whoami \notin told THEN {}
        ELSE {Finding(t, "inconsistent") : t \in {o \in compared : payload[o] # payload[whoami]}}

Findings ==
    (UNION {PayloadFinding(e) \cup ContextFindings(e) \cup SiblingFindings(e) : e \in Passed})
    \cup ConsistencyFindings

ValidateLiveRun ==
    /\ Idle /\ run > 0 /\ summary.outcome = "none"
    /\ summary' = IF Aborts THEN [outcome |-> "error", checked |-> {}, findings |-> {}]
                  ELSE [outcome |-> "done",
                        checked |-> {e.check : e \in {x \in Passed : Readable(x)}},
                        findings |-> Findings]
    /\ UNCHANGED <<campaign, run, todo, pending, payload, source, context, log>>

Next ==
    \/ BeginRun \/ ExecutePass \/ ExecuteFail \/ Capture \/ CaptureFails
    \/ Crash \/ ValidateLiveRun

Spec == Init /\ [][Next]_vars

(* ----- properties ---------------------------------------------------------------- *)

TypeOK ==
    /\ campaign \in Campaigns /\ run \in 0..Len(campaign)
    /\ todo \in Seq(Checks) /\ log \in Seq([check : Checks, status : {"pass", "fail"}, payload : BOOLEAN])
    /\ payload \in [Checks -> Content \cup {Absent}]
    /\ source \in [Checks -> Content \cup {Absent}]
    /\ \A k \in DOMAIN context : context[k] \in [run : 1..run, whole : BOOLEAN]
    /\ pending # <<>> => Working /\ IsSuffix(pending, Captured(Current))
    /\ summary.outcome \in {"none", "done", "error"}

(* Whatever died or failed before, in this run or an earlier one: what the *)
(* validator needs for a check the log calls passed is there, whole, and   *)
(* was recorded by the run that wrote the log.                             *)
ContextsAreOwn ==
    \A e \in Passed : \A c \in Needed(e.check) :
        ContextAt(e.check, c) = [run |-> run, whole |-> TRUE]

(* No leftover of a failed write or of a killed run stops the validation   *)
(* of the run that is in the directory.                                    *)
LeftoversDoNotStopIt == summary.outcome # "error"

(* A tool that says the truth of every check it passed in the run that is  *)
(* validated is blamed for nothing, but for siblings not executed or not   *)
(* passed in it, and what it never printed.                                *)
TruthIsAccepted ==
    LET passed == {e.check : e \in Passed}
        truthful == \A t \in passed : payload[t] = File(run, "truth") /\ source[t] = payload[t]
    IN  (summary.outcome = "done" /\ truthful) =>
            \A f \in summary.findings :
                ~ ({Command(s) : s \in Siblings(f.check)} \subseteq passed)

(* Every passed check is answered for: it has been compared, or a finding  *)
(* names it; and one that was compared although it misreports is named     *)
(* when a context, or a truthful sibling, could tell.                      *)
NothingPassesUnseen ==
    summary.outcome = "done" =>
        LET named == {f.check : f \in summary.findings}
        IN  \A e \in Passed :
              /\ e.check \in summary.checked \cup named
              /\ (payload[e.check].says # "truth" /\
                    (\/ Needed(e.check) # {}
                     \/ \E s \in Siblings(e.check) : SourceAt(s).says = "truth"))
                   => e.check \in named

(* "escalation-path validation should keep the matching permissions        *)
(* payload available in the same run" (validate.go): what a family is      *)
(* compared with was emitted in the run that is validated.                 *)
SiblingsAreOfThisRun ==
    summary.outcome = "done" =>
        \A t \in summary.checked : \A s \in Siblings(t) :
            Finding(t, "missing-source") \in summary.findings \/ SourceAt(s).run = run
=============================================================================
