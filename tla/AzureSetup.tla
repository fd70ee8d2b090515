----------------------------- MODULE AzureSetup -----------------------------
(***************************************************************************)
(* RunAzureSetup in internal/lab/setup.go: labctl setup-azure-environment  *)
(* run, killed and rerun against one subscription and one .generated       *)
(* directory.  The core apply comes first, then one apply per follow-up    *)
(* lane, the deployment-history canaries and the human-user viewpoints,    *)
(* each of which may fail without failing the setup.                       *)
(*                                                                         *)
(* A generated key, workspace name or user suffix is named by the number   *)
(* of the setup that drew it.                                              *)
(* OpenTofu and Azure are external: an apply succeeds, or fails halfway    *)
(* with any part of its changes made.                                      *)
(***************************************************************************)
EXTENDS Integers, FiniteSets

CONSTANTS
  Defaults,   \* number of default follow-up steps (API Management, AKS, WAF)
  AddIns,     \* number of optional steps: Azure ML, then the proof add-ins
  Configs(_), \* flags an operator may give the n-th setup
  PollLimit,  \* attempts of waitForDeploymentState, 10 in the code
  MaxSetups   \* bound on the number of setups

ASSUME DefaultsAssumption  == Defaults \in Nat
ASSUME AddInsAssumption    == AddIns \in Nat \ {0}
ASSUME PollLimitAssumption == PollLimit \in Nat \ {0}
ASSUME MaxSetupsAssumption == MaxSetups \in Nat \ {0}

\* followUpInfrastructureSteps, in the order it appends them
Steps        == 1..Defaults + AddIns
DefaultSteps == 1..Defaults
AzureML      == Defaults + 1

\* defaults: EnableDefaultFollowUps or --cost-profile default
Config == [defaults : BOOLEAN, addins : SUBSET (Steps \ DefaultSteps), ownKey : BOOLEAN,
           canary : BOOLEAN, humans : BOOLEAN, writeOnly : BOOLEAN]

ASSUME ConfigsAssumption == \A n \in 1..MaxSetups : Configs(n) \subseteq Config

Users == 1..2      \* dev_user, business_user
OwnKey == -1       \* --ssh-public-key
Torn   == 0        \* a key file cut off by a kill or a failing write
Absent == -2

VARIABLES
  pc, cfg, mem, outcome,
  setups,            \* setups begun so far; the present one's number
  \* the .generated directory
  privKey, pubKey, nameFile, tfvars, usersFile,
  \* the subscription and the tenant
  coreOf,            \* the setup whose core apply last went through
  vmKey,             \* public key on the machines, 0: no machines
  outputs,           \* tofu output has what verifyCoreLabOutputs asks for
  landed,            \* follow-up steps whose resources exist
  workspace,         \* name of the Azure ML workspace, 0: none
  softDeleted,       \* names of deleted workspaces
  deployments,       \* subscription, resource-group and failed deployment
  directory          \* users, their role assignments and logins, as <<setup, user>>

keys   == <<privKey, pubKey>>
disk   == <<keys, nameFile, tfvars, usersFile>>
lab    == <<coreOf, vmKey, outputs, landed, workspace, softDeleted>>
azure  == <<lab, deployments, directory>>
vars   == <<pc, cfg, mem, outcome, setups, disk, azure>>

States == {"none", "Running", "Succeeded", "Failed"}
Pcs == {"idle", "key", "newKey", "publicKey", "workspace", "newName", "tfvars", "init",
        "core", "verify", "followUps", "canary", "putGroup", "pollGroup", "putFailed",
        "pollFailed", "humans", "createUser", "assignRole", "login", "writeUsers", "finish"}
Fresh == [key |-> Torn, name |-> 0, applyErr |-> FALSE, step |-> 1, warned |-> {},
          canaryWarned |-> FALSE, humansWarned |-> FALSE, attempt |-> 0, user |-> 1,
          ready |-> {}]
NoOutcome == [report |-> "none", code |-> 1, warned |-> {}, canary |-> FALSE, humans |-> FALSE]

TypeOK ==
  /\ pc \in Pcs /\ cfg \in Config /\ setups \in 0..MaxSetups
  /\ mem \in [key : Int, name : Nat, applyErr : BOOLEAN, step : 1..Defaults + AddIns + 1,
              warned : SUBSET Steps, canaryWarned : BOOLEAN, humansWarned : BOOLEAN,
              attempt : 0..PollLimit, user : 1..3, ready : SUBSET Users]
  /\ outcome \in [report : {"none", "error", "written", "applyFailed", "warnings", "completed"},
                  code : {0, 1}, warned : SUBSET Steps, canary : BOOLEAN, humans : BOOLEAN]
  /\ {privKey, nameFile, coreOf, workspace} \subseteq Nat /\ {pubKey, vmKey} \subseteq Int
  /\ tfvars \in [key : Int, name : Nat, addins : SUBSET (Steps \ DefaultSteps), whole : BOOLEAN]
  /\ usersFile \in [setup : Nat, ready : SUBSET Users]
  /\ outputs \in BOOLEAN /\ landed \subseteq Steps /\ softDeleted \subseteq Nat
  /\ deployments \in [sub : {"none", "Succeeded"}, group : States, failed : States]
  /\ directory \in [users : SUBSET (Nat \X Users), roles : SUBSET (Nat \X Users),
                    logins : SUBSET (Nat \X Users)]

Init ==
  /\ pc = "idle" /\ cfg \in Configs(1) /\ mem = Fresh /\ outcome = NoOutcome /\ setups = 0
  /\ privKey = 0 /\ pubKey = Absent /\ nameFile = 0 /\ usersFile = [setup |-> 0, ready |-> {}]
  /\ tfvars = [key |-> Torn, name |-> 0, addins |-> {}, whole |-> FALSE]
  /\ coreOf = 0 /\ vmKey = 0 /\ outputs = FALSE /\ landed = {} /\ workspace = 0
  /\ softDeleted = {}
  /\ deployments = [sub |-> "none", group |-> "none", failed |-> "none"]
  /\ directory = [users |-> {}, roles |-> {}, logins |-> {}]

Return(report, code) ==
  /\ pc' = "idle" /\ mem' = Fresh
  /\ outcome' = [report |-> report, code |-> code, warned |-> mem.warned,
                 canary |-> mem.canaryWarned, humans |-> mem.humansWarned]

Goto(next) == pc' = next /\ UNCHANGED outcome

Lanes(c) == (IF c.defaults THEN DefaultSteps ELSE {}) \cup c.addins

-----------------------------------------------------------------------------
(* What the setup writes before it applies anything.  A kill in the middle *)
(* of a write leaves what a failing write leaves: see WriteFails.          *)

Start ==
  /\ pc = "idle" /\ setups < MaxSetups
  /\ setups' = setups + 1 /\ cfg' \in Configs(setups')
  /\ pc' = "key" /\ mem' = Fresh /\ outcome' = NoOutcome
  /\ UNCHANGED <<disk, azure>>

AfterKey == IF AzureML \in cfg.addins THEN "workspace" ELSE "tfvars"

(* Mutant: a key is drawn although there is one.                           *)
resolveSSHPublicKey_DrawAgain ==
  /\ pc = "key" /\ UNCHANGED mem /\ Goto("newKey")
  /\ UNCHANGED <<cfg, setups, disk, azure>>

resolveSSHPublicKey ==
  /\ pc = "key"
  /\ \/ /\ cfg.ownKey
        /\ mem' = [mem EXCEPT !.key = OwnKey] /\ Goto(AfterKey)
     \/ /\ ~cfg.ownKey /\ pubKey # Absent
        /\ mem' = [mem EXCEPT !.key = pubKey] /\ Goto(AfterKey)
     \/ /\ ~cfg.ownKey /\ pubKey = Absent
        /\ UNCHANGED mem /\ Goto("newKey")
  /\ UNCHANGED <<cfg, setups, disk, azure>>

WritePrivateKey ==
  /\ pc = "newKey" /\ privKey' = setups
  /\ UNCHANGED mem /\ Goto("publicKey")
  /\ UNCHANGED <<cfg, setups, pubKey, nameFile, tfvars, usersFile, azure>>

WritePublicKey ==
  /\ pc = "publicKey" /\ pubKey' = setups
  /\ mem' = [mem EXCEPT !.key = setups] /\ Goto(AfterKey)
  /\ UNCHANGED <<cfg, setups, privKey, nameFile, tfvars, usersFile, azure>>

resolveAzureMLWorkspaceName ==
  /\ pc = "workspace"
  /\ IF nameFile # 0 THEN mem' = [mem EXCEPT !.name = nameFile] /\ Goto("tfvars")
                     ELSE UNCHANGED mem /\ Goto("newName")
  /\ UNCHANGED <<cfg, setups, disk, azure>>

WriteWorkspaceName ==
  /\ pc = "newName" /\ nameFile' = setups
  /\ mem' = [mem EXCEPT !.name = setups] /\ Goto("tfvars")
  /\ UNCHANGED <<cfg, setups, keys, tfvars, usersFile, azure>>

BuildAzureSetupTFVars ==
  [key |-> mem.key, name |-> mem.name, addins |-> cfg.addins, whole |-> TRUE]

WriteTFVars ==
  /\ pc = "tfvars" /\ tfvars' = BuildAzureSetupTFVars
  /\ IF cfg.writeOnly THEN Return("written", 0) ELSE UNCHANGED mem /\ Goto("init")
  /\ UNCHANGED <<cfg, setups, keys, nameFile, usersFile, azure>>

(* A cut-off name is a name all the same if a character of it is left.     *)
WriteFails ==
  /\ \/ /\ pc = "newKey" /\ privKey' \in {privKey, Torn}
        /\ UNCHANGED <<pubKey, nameFile, tfvars>>
     \/ /\ pc = "publicKey" /\ pubKey' \in {pubKey, Torn}
        /\ UNCHANGED <<privKey, nameFile, tfvars>>
     \/ /\ pc = "newName" /\ nameFile' \in {nameFile, setups}
        /\ UNCHANGED <<keys, tfvars>>
     \/ /\ pc = "tfvars" /\ tfvars' \in {tfvars, [tfvars EXCEPT !.whole = FALSE]}
        /\ UNCHANGED <<keys, nameFile>>
  /\ Return("error", 1)
  /\ UNCHANGED <<cfg, setups, usersFile, azure>>

-----------------------------------------------------------------------------
(* OpenTofu *)

tofuInit ==
  /\ pc = "init"
  /\ \/ UNCHANGED mem /\ Goto("core")
     \/ Return("error", 1)
  /\ UNCHANGED <<cfg, setups, disk, azure>>

(* Mutant: only the default steps are excluded.                            *)
coreExcludedInfrastructureSteps_DefaultsOnly == DefaultSteps

coreExcludedInfrastructureSteps == DefaultSteps \cup Lanes(cfg)

\* the resources of the default steps have no count; the others' follow their variable
Wanted == DefaultSteps \cup tfvars.addins

(* What an apply may leave landed that touches the steps of a set: it      *)
(* creates what is wanted of them and destroys the rest.                   *)
Applied(touched)  == (landed \ touched) \cup (Wanted \cap touched)
PartOf(touched)   ==
  {l \in SUBSET Steps : landed \cap Applied(touched) \subseteq l
                        /\ l \subseteq landed \cup Applied(touched)}

Land(l, touched) ==
  LET w == IF AzureML \notin l THEN 0
           ELSE IF AzureML \in Wanted \cap touched THEN tfvars.name ELSE workspace
  IN  /\ landed' = l /\ workspace' = w
      /\ softDeleted' = (softDeleted \cup ({workspace} \ {0, w})) \ {w}

KeyAccepted == tfvars.whole /\ tfvars.key # Torn   \* variables.tf asks for "ssh-rsa ..."

coreApply ==
  LET touched == Steps \ coreExcludedInfrastructureSteps IN
  /\ pc = "core"
  /\ \/ /\ KeyAccepted /\ Land(Applied(touched), touched)
        /\ coreOf' = setups /\ vmKey' = tfvars.key /\ outputs' = TRUE
        /\ UNCHANGED mem /\ Goto("followUps")
     \/ /\ \/ /\ KeyAccepted /\ \E l \in PartOf(touched) : Land(l, touched)
              /\ vmKey' \in {vmKey, tfvars.key} /\ outputs' \in {outputs, TRUE}
           \/ UNCHANGED <<landed, workspace, softDeleted, vmKey, outputs>>
        /\ UNCHANGED coreOf
        /\ mem' = [mem EXCEPT !.applyErr = TRUE] /\ Goto("verify")
  /\ UNCHANGED <<cfg, setups, disk, deployments, directory>>

(* tofu output may show what an earlier apply left.                        *)
verifyCoreLabOutputs ==
  /\ pc = "verify"
  /\ \/ outputs /\ UNCHANGED mem /\ Goto("followUps")
     \/ Return("error", 1)
  /\ UNCHANGED <<cfg, setups, disk, azure>>

followUpApply ==
  /\ pc = "followUps"
  /\ \E s \in Lanes(cfg) :
       /\ s >= mem.step /\ \A t \in Lanes(cfg) : t >= mem.step => s <= t
       /\ \/ /\ KeyAccepted /\ Land(Applied({s}), {s})
             /\ mem' = [mem EXCEPT !.step = s + 1]
          \/ /\ \/ KeyAccepted /\ \E l \in PartOf({s}) : Land(l, {s})
                \/ UNCHANGED <<landed, workspace, softDeleted>>
             /\ mem' = [mem EXCEPT !.step = s + 1, !.warned = @ \cup {s}]
  /\ Goto("followUps")
  /\ UNCHANGED <<cfg, setups, disk, coreOf, vmKey, outputs, deployments, directory>>

followUpsDone ==
  /\ pc = "followUps" /\ \A s \in Lanes(cfg) : s < mem.step
  /\ UNCHANGED mem /\ Goto("canary")
  /\ UNCHANGED <<cfg, setups, disk, azure>>

-----------------------------------------------------------------------------
(* runDeploymentHistoryCanaries *)

canaryWarning ==
  /\ mem' = [mem EXCEPT !.canaryWarned = TRUE] /\ Goto("humans")

startCanaries ==
  /\ pc = "canary"
  /\ \/ /\ ~cfg.canary
        /\ UNCHANGED <<mem, deployments>> /\ Goto("humans")
     \/ /\ cfg.canary /\ outputs
        /\ deployments' = [deployments EXCEPT !.sub = "Succeeded"]
        /\ UNCHANGED mem /\ Goto("putGroup")
     \/ /\ cfg.canary
        /\ deployments' \in {deployments, [deployments EXCEPT !.sub = "Succeeded"]}
        /\ canaryWarning
  /\ UNCHANGED <<cfg, setups, disk, lab, directory>>

(* Azure takes a deployment and settles it later.                          *)
putGroupDeployment ==
  /\ pc = "putGroup"
  /\ \/ /\ deployments' = [deployments EXCEPT !.group = "Running"]
        /\ mem' = [mem EXCEPT !.attempt = 0] /\ Goto("pollGroup")
     \/ /\ deployments' \in {deployments, [deployments EXCEPT !.group = "Running"]}
        /\ canaryWarning
  /\ UNCHANGED <<cfg, setups, disk, lab, directory>>

(* The error of this request is discarded.                                 *)
putFailedDeployment ==
  /\ pc = "putFailed"
  /\ \/ /\ deployments' \in {deployments, [deployments EXCEPT !.failed = "Running"]}
        /\ mem' = [mem EXCEPT !.attempt = 0] /\ Goto("pollFailed")
     \/ UNCHANGED deployments /\ canaryWarning       \* the template cannot be read
  /\ UNCHANGED <<cfg, setups, disk, lab, directory>>

(* Mutant: an attempt in which az fails is not counted.                    *)
pollAgain_NoCount == mem.attempt < PollLimit /\ UNCHANGED <<pc, mem, outcome>>

(* One attempt: az fails, or shows a state that is not one of those.       *)
pollAgain ==
  /\ mem.attempt < PollLimit
  /\ mem' = [mem EXCEPT !.attempt = @ + 1] /\ UNCHANGED <<pc, outcome>>

waitForGroupDeployment ==
  /\ pc = "pollGroup"
  /\ \/ pollAgain
     \/ /\ mem.attempt < PollLimit /\ deployments.group = "Succeeded"
        /\ UNCHANGED mem /\ Goto("putFailed")
     \/ mem.attempt = PollLimit /\ canaryWarning
  /\ UNCHANGED <<cfg, setups, disk, azure>>

waitForFailedDeployment ==
  /\ pc = "pollFailed"
  /\ \/ pollAgain
     \/ /\ mem.attempt < PollLimit /\ deployments.failed = "Failed"
        /\ UNCHANGED mem /\ Goto("humans")
     \/ mem.attempt < PollLimit /\ deployments.failed = "Succeeded" /\ canaryWarning
     \/ mem.attempt = PollLimit /\ canaryWarning
  /\ UNCHANGED <<cfg, setups, disk, azure>>

AzureSettles ==
  /\ \/ /\ deployments.group = "Running"
        /\ \E r \in {"Succeeded", "Failed"} : deployments' = [deployments EXCEPT !.group = r]
     \/ /\ deployments.failed = "Running"
        /\ \E r \in {"Succeeded", "Failed"} : deployments' = [deployments EXCEPT !.failed = r]
  /\ UNCHANGED <<pc, cfg, mem, outcome, setups, disk, lab, directory>>

-----------------------------------------------------------------------------
(* runHumanUserViewpointSetup *)

humansWarning ==
  /\ mem' = [mem EXCEPT !.humansWarned = TRUE] /\ Goto("finish")

startHumanUsers ==
  /\ pc = "humans"
  /\ \/ ~cfg.humans /\ UNCHANGED mem /\ Goto("finish")
     \/ cfg.humans /\ outputs /\ UNCHANGED mem /\ Goto("createUser")
     \/ cfg.humans /\ humansWarning
  /\ UNCHANGED <<cfg, setups, disk, azure>>

This == <<setups, mem.user>>

createAzureADUser ==
  /\ pc = "createUser"
  /\ \/ /\ directory' = [directory EXCEPT !.users = @ \cup {This}]
        /\ UNCHANGED mem /\ Goto("assignRole")
     \/ /\ directory' \in {directory, [directory EXCEPT !.users = @ \cup {This}]}
        /\ humansWarning
  /\ UNCHANGED <<cfg, setups, disk, lab, deployments>>

(* Mutant: the error of the assignment is not returned.                    *)
createAzureRoleAssignment_ErrorLost ==
  /\ pc = "assignRole"
  /\ directory' \in {directory, [directory EXCEPT !.roles = @ \cup {This}]}
  /\ UNCHANGED mem /\ Goto("login")
  /\ UNCHANGED <<cfg, setups, disk, lab, deployments>>

createAzureRoleAssignment ==
  /\ pc = "assignRole"
  /\ \/ /\ directory' = [directory EXCEPT !.roles = @ \cup {This}]
        /\ UNCHANGED mem /\ Goto("login")
     \/ /\ directory' \in {directory, [directory EXCEPT !.roles = @ \cup {This}]}
        /\ humansWarning
  /\ UNCHANGED <<cfg, setups, disk, lab, deployments>>

validateAzureUserLogin ==
  /\ pc = "login"
  /\ \/ /\ directory' = [directory EXCEPT !.logins = @ \cup {This}]
        /\ mem' = [mem EXCEPT !.user = @ + 1, !.ready = @ \cup {mem.user}]
     \/ /\ UNCHANGED directory
        /\ mem' = [mem EXCEPT !.user = @ + 1]
  /\ Goto(IF mem.user = 2 THEN "writeUsers" ELSE "createUser")
  /\ UNCHANGED <<cfg, setups, disk, lab, deployments>>

(* Users whose login check failed are recorded, and warned of.             *)
WriteHumanUsers ==
  /\ pc = "writeUsers"
  /\ \/ /\ usersFile' = [setup |-> setups, ready |-> mem.ready]
        /\ mem' = [mem EXCEPT !.humansWarned = (mem.ready # Users)] /\ Goto("finish")
     \/ /\ usersFile' \in {usersFile, [setup |-> 0, ready |-> {}]}
        /\ humansWarning
  /\ UNCHANGED <<cfg, setups, keys, nameFile, tfvars, azure>>

-----------------------------------------------------------------------------
(* Mutant: the error of the core apply is forgotten.                       *)
Finish_ApplyErrLost ==
  /\ pc = "finish"
  /\ LET quiet == mem.warned = {} /\ ~mem.canaryWarned /\ ~mem.humansWarned IN
     IF quiet THEN Return("completed", 0) ELSE Return("warnings", 0)
  /\ UNCHANGED <<cfg, setups, disk, azure>>

Finish ==
  /\ pc = "finish"
  /\ LET quiet == mem.warned = {} /\ ~mem.canaryWarned /\ ~mem.humansWarned IN
     \/ mem.applyErr /\ Return("applyFailed", 1)
     \/ ~mem.applyErr /\ ~quiet /\ Return("warnings", 0)
     \/ ~mem.applyErr /\ quiet /\ Return("completed", 0)
  /\ UNCHANGED <<cfg, setups, disk, azure>>

Crash ==
  /\ pc # "idle"
  /\ pc' = "idle" /\ mem' = Fresh /\ UNCHANGED outcome
  /\ UNCHANGED <<cfg, setups, disk, azure>>

Work ==
  \/ resolveSSHPublicKey \/ WritePrivateKey \/ WritePublicKey
  \/ resolveAzureMLWorkspaceName \/ WriteWorkspaceName \/ WriteTFVars
  \/ tofuInit \/ coreApply \/ verifyCoreLabOutputs \/ followUpApply \/ followUpsDone
  \/ startCanaries \/ putGroupDeployment \/ waitForGroupDeployment
  \/ putFailedDeployment \/ waitForFailedDeployment
  \/ startHumanUsers \/ createAzureADUser \/ createAzureRoleAssignment
  \/ validateAzureUserLogin \/ WriteHumanUsers \/ Finish

Next == Start \/ Work \/ WriteFails \/ AzureSettles \/ Crash

(* A setup that is scheduled takes its next step: OpenTofu and az return.  *)
Spec == Init /\ [][Next]_vars /\ WF_vars(Work)

-----------------------------------------------------------------------------
(* Properties *)

(* A setup that ended with exit code 0 has applied its own core, the       *)
(* outputs of an earlier apply do not stand in for it, and each thing it   *)
(* was asked for is there or was warned of: a lane has landed,             *)
(* the canary deployments stand in the states they are kept for, both      *)
(* users are recorded and logged in.  "completed" is said without warning. *)
NothingPretended ==
  outcome.code = 0 /\ outcome.report # "written" =>
    /\ coreOf = setups
    /\ Lanes(cfg) \subseteq landed \cup outcome.warned
    /\ cfg.canary /\ ~outcome.canary =>
         deployments = [sub |-> "Succeeded", group |-> "Succeeded", failed |-> "Failed"]
    /\ cfg.humans /\ ~outcome.humans => usersFile = [setup |-> setups, ready |-> Users]
    /\ outcome.report = "completed" =>
         outcome.warned = {} /\ ~outcome.canary /\ ~outcome.humans

(* The machines never hold a generated key whose private half is not in    *)
(* .generated/keys, whatever was killed between the two writes.            *)
LabKeyKept == vmKey > 0 => privKey = vmKey

(* The recorded users exist and hold their role, and one that is recorded  *)
(* as ready has logged in with the recorded password.                      *)
RecordedUsersAreReal ==
  usersFile.setup # 0 =>
    \A u \in Users :
      /\ <<usersFile.setup, u>> \in directory.users \cap directory.roles
      /\ u \in usersFile.ready => <<usersFile.setup, u>> \in directory.logins

(* The workspace that stands is the one the name file names: no setup      *)
(* strands it under a name that nothing remembers.                         *)
WorkspaceNameKept == workspace # 0 => workspace = nameFile

(* What is drawn at random once outlives every kill and rerun.             *)
DrawnIsKept == LabKeyKept /\ WorkspaceNameKept

(* infra/README.md: the core apply leaves the heavier lanes to passes of   *)
(* their own; whatever becomes of it, it creates none of them and does not *)
(* take down one that this setup is to have.                               *)
CorePassIsCore ==
  [][pc = "core" => landed' \subseteq landed /\ landed \cap Lanes(cfg) \subseteq landed']_vars

(* A setup that is not killed comes to an end: the polls are limited.      *)
SetupEnds == pc # "idle" ~> pc = "idle"

(* infra/README.md:87: "writes those sensitive credentials to a generated  *)
(* local file": a setup that returns has recorded each user it created.    *)
CreatedUsersAreRecorded ==
  outcome.report # "none" /\ (\E u \in Users : <<setups, u>> \in directory.users) =>
    usersFile.setup = setups

(* infra/variables.tf:88: "labctl writes a generated name so soft-deleted  *)
(* lab workspaces do not block validation reruns": the name an apply is    *)
(* given is not that of a deleted workspace.                               *)
FreshWorkspaceName ==
  pc = "core" /\ AzureML \in cfg.addins => tfvars.name \notin softDeleted
=============================================================================
