------------------------- MODULE Preparation_proofs -------------------------
(***************************************************************************)
(* What a run starts from: the subscription that setup-azure-environment   *)
(* builds (AzureSetup), for every number of follow-up steps, every         *)
(* configuration, any number of setups and any limit of the polls; and the *)
(* manifest (ManifestLife), however often it is scaffolded and edited, and *)
(* the selections made from it.                                            *)
(***************************************************************************)
EXTENDS AzureSetup, ManifestLife, TLAPS


-----------------------------------------------------------------------------
(* The inductive invariants *)

Walking == {"createUser", "assignRole", "login"}   \* one user after the other
OnCanaries == {"putGroup", "pollGroup", "putFailed", "pollFailed"}
OnHumans   == Walking \cup {"humans", "writeUsers"}
AfterLanes == {"canary", "finish"} \cup OnCanaries \cup OnHumans
AfterCore  == AfterLanes \cup {"followUps"}
Applying   == AfterCore \cup {"init", "core", "verify"}

(* The two users are taken in turn.                                        *)
UserAtHand ==
  /\ pc \in Walking => mem.user \in Users
  /\ pc \notin Walking \cup {"writeUsers", "finish"} => mem.user = 1 /\ mem.ready = {}

(* Wherever a generated key has got to, it came from the public key file,  *)
(* and a whole public key file has its private half beside it.             *)
KeyTrail ==
  /\ vmKey > 0 => vmKey = pubKey
  /\ tfvars.key > 0 => tfvars.key = pubKey
  /\ mem.key > 0 => mem.key = pubKey
  /\ pubKey > 0 => pubKey = privKey
  /\ pc \in {"newKey", "publicKey"} => pubKey = Absent
  /\ pc = "publicKey" => privKey = setups

(* Wherever a workspace name has got to, it is the one in the name file.   *)
NameTrail ==
  /\ workspace # 0 => workspace = nameFile
  /\ tfvars.name # 0 => tfvars.name = nameFile
  /\ mem.name # 0 => mem.name = nameFile
  /\ pc = "newName" => nameFile = 0

(* The users the setup has been through exist, hold their role, and have   *)
(* logged in if they are counted as ready.                                 *)
UserTrail ==
  /\ pc \in Walking =>
       \A u \in Users : u < mem.user => <<setups, u>> \in directory.users \cap directory.roles
  /\ pc \in {"assignRole", "login"} => This \in directory.users
  /\ pc = "login" => This \in directory.roles
  /\ pc = "writeUsers" =>
       \A u \in Users : <<setups, u>> \in directory.users \cap directory.roles
  /\ \A u \in mem.ready : <<setups, u>> \in directory.logins

(* An apply works from the lanes the setup was asked for.                  *)
PlanIsMine == pc \in Applying => tfvars.addins = cfg.addins

(* The core that was applied is this setup's, or its failure is on record. *)
CoreIsMine ==
  /\ pc = "verify" => mem.applyErr
  /\ pc \in AfterCore /\ ~mem.applyErr => coreOf = setups

(* The lanes that were tried have landed or were warned of.                *)
LanesTried ==
  /\ pc \in AfterCore => \A s \in Lanes(cfg) : s < mem.step => s \in landed \cup mem.warned
  /\ pc \in AfterLanes => \A s \in Lanes(cfg) : s < mem.step
  /\ pc \notin AfterCore => mem.step = 1

(* The deployments stand as far as the canaries have got.                  *)
CanariesStand ==
  /\ pc \in OnCanaries => deployments.sub = "Succeeded"
  /\ pc \in {"putFailed", "pollFailed"} => deployments.group = "Succeeded"
  /\ pc \in OnHumans \cup {"finish"} /\ cfg.canary /\ ~mem.canaryWarned =>
       /\ deployments.sub = "Succeeded" /\ deployments.group = "Succeeded"
       /\ deployments.failed = "Failed"

HumansStand ==
  pc = "finish" /\ cfg.humans /\ ~mem.humansWarned =>
    usersFile = [setup |-> setups, ready |-> Users]

(* A setup that is still at work has reported nothing.                     *)
NotYet == pc # "idle" => outcome.code = 1

Account == /\ PlanIsMine /\ CoreIsMine /\ LanesTried /\ CanariesStand /\ HumansStand
           /\ NotYet /\ NothingPretended

SetupInv == TypeOK /\ UserAtHand
-----------------------------------------------------------------------------
(* Types *)

Memory == [key : Int, name : Nat, applyErr : BOOLEAN, step : 1..Defaults + AddIns + 1,
           warned : SUBSET Steps, canaryWarned : BOOLEAN, humansWarned : BOOLEAN,
           attempt : 0..PollLimit, user : 1..3, ready : SUBSET Users]
Outcome == [report : {"none", "error", "written", "applyFailed", "warnings", "completed"},
            code : {0, 1}, warned : SUBSET Steps, canary : BOOLEAN, humans : BOOLEAN]
TFVars == [key : Int, name : Nat, addins : SUBSET (Steps \ DefaultSteps), whole : BOOLEAN]

ControlType == pc \in Pcs /\ cfg \in Config /\ setups \in 0..MaxSetups
MemoryType  == mem \in Memory /\ UserAtHand
KeysType    == privKey \in Nat /\ pubKey \in Int /\ nameFile \in Nat
LabType     == /\ coreOf \in Nat /\ vmKey \in Int /\ landed \subseteq Steps
               /\ workspace \in Nat /\ softDeleted \subseteq Nat
DeploymentsType == deployments \in [sub : {"none", "Succeeded"}, group : States, failed : States]
DirectoryType == directory \in [users : SUBSET (Nat \X Users), roles : SUBSET (Nat \X Users),
                                logins : SUBSET (Nat \X Users)]
UsersFileType == usersFile \in [setup : Nat, ready : SUBSET Users]

LEMMA TypeParts ==
  SetupInv <=> /\ ControlType /\ MemoryType /\ outcome \in Outcome /\ KeysType /\ tfvars \in TFVars
               /\ LabType /\ outputs \in BOOLEAN /\ DeploymentsType /\ DirectoryType
               /\ UsersFileType
BY DEF SetupInv, TypeOK, ControlType, MemoryType, Memory, Outcome, KeysType, TFVars, LabType,
       DeploymentsType, DirectoryType, UsersFileType

LEMMA LanesAreSteps ==
  ASSUME cfg \in Config
  PROVE  Lanes(cfg) \subseteq Steps
BY DefaultsAssumption, AddInsAssumption DEF Config, Lanes, Steps, DefaultSteps

LEMMA FreshType ==
  /\ Fresh \in Memory
  /\ Fresh.step = 1 /\ Fresh.user = 1 /\ Fresh.ready = {}
BY DefaultsAssumption, AddInsAssumption, PollLimitAssumption DEF Fresh, Torn, Memory

LEMMA TypeInit == Init => SetupInv
<1> SUFFICES ASSUME Init PROVE SetupInv
  OBVIOUS
<1>1. ControlType
  BY ConfigsAssumption, MaxSetupsAssumption DEF Init, ControlType, Pcs
<1>2. MemoryType
  BY FreshType DEF Init, MemoryType, UserAtHand, Walking
<1>3. outcome \in Outcome
  BY DEF Init, Outcome, NoOutcome
<1>4. KeysType /\ tfvars \in TFVars
  BY DEF Init, KeysType, TFVars, Torn, Absent
<1>5. LabType
  BY DEF Init, LabType
<1>6. outputs \in BOOLEAN
  BY Zenon DEF Init
<1>7. DeploymentsType /\ DirectoryType /\ UsersFileType
  BY DEF Init, DeploymentsType, DirectoryType, UsersFileType, States
<1>8. QED
  BY <1>1, <1>2, <1>3, <1>4, <1>5, <1>6, <1>7, TypeParts

(* Which steps change what. *)
LEMMA Frames ==
  ASSUME [Next]_vars
  PROVE  /\ Start \/ UNCHANGED <<cfg, setups>>
         /\ WritePrivateKey \/ WritePublicKey \/ WriteFails \/ UNCHANGED keys
         /\ WriteWorkspaceName \/ WriteFails \/ UNCHANGED nameFile
         /\ WriteTFVars \/ WriteFails \/ UNCHANGED tfvars
         /\ WriteHumanUsers \/ UNCHANGED usersFile
         /\ coreApply \/ followUpApply \/ UNCHANGED lab
         /\ coreApply \/ UNCHANGED <<coreOf, vmKey, outputs>>
         /\ \/ startCanaries \/ putGroupDeployment \/ putFailedDeployment \/ AzureSettles
            \/ UNCHANGED deployments
         /\ \/ createAzureADUser \/ createAzureRoleAssignment \/ validateAzureUserLogin
            \/ UNCHANGED directory
<1> USE DEF keys, lab, disk, azure
<1>1. CASE Start \/ AzureSettles \/ Crash \/ UNCHANGED vars
  BY <1>1 DEF Start, AzureSettles, Crash, vars
<1>2. CASE \/ resolveSSHPublicKey \/ WritePrivateKey \/ WritePublicKey
           \/ resolveAzureMLWorkspaceName \/ WriteWorkspaceName \/ WriteTFVars \/ WriteFails
  BY <1>2 DEF resolveSSHPublicKey, WritePrivateKey, WritePublicKey, resolveAzureMLWorkspaceName,
              WriteWorkspaceName, WriteTFVars, WriteFails
<1>3. CASE tofuInit \/ coreApply \/ verifyCoreLabOutputs \/ followUpApply \/ followUpsDone
  BY <1>3 DEF tofuInit, coreApply, verifyCoreLabOutputs, followUpApply, followUpsDone
<1>4. CASE \/ startCanaries \/ putGroupDeployment \/ waitForGroupDeployment
           \/ putFailedDeployment \/ waitForFailedDeployment
  BY <1>4 DEF startCanaries, putGroupDeployment, waitForGroupDeployment, putFailedDeployment,
              waitForFailedDeployment
<1>5. CASE \/ startHumanUsers \/ createAzureADUser \/ createAzureRoleAssignment
           \/ validateAzureUserLogin \/ WriteHumanUsers \/ Finish
  BY <1>5 DEF startHumanUsers, createAzureADUser, createAzureRoleAssignment,
              validateAzureUserLogin, WriteHumanUsers, Finish
<1>6. QED
  BY <1>1, <1>2, <1>3, <1>4, <1>5 DEF Next, Work
LEMMA KeysStep ==
  ASSUME ControlType, KeysType, [Next]_vars
  PROVE  KeysType'
<1> USE MaxSetupsAssumption DEF ControlType, KeysType, keys
<1>1. CASE WriteFails
  BY <1>1 DEF WriteFails, Torn
<1>2. (privKey \in Nat /\ pubKey \in Int)'
  BY <1>1, Frames DEF WritePrivateKey, WritePublicKey
<1>3. (nameFile \in Nat)'
  BY <1>1, Frames DEF WriteWorkspaceName
<1>4. QED
  BY <1>2, <1>3

LEMMA TFVarsStep ==
  ASSUME ControlType, MemoryType, tfvars \in TFVars, [Next]_vars
  PROVE  tfvars' \in TFVars
<1>1. CASE WriteTFVars
  BY <1>1 DEF WriteTFVars, BuildAzureSetupTFVars, TFVars, ControlType, Config, MemoryType, Memory
<1>2. CASE WriteFails
  BY <1>2 DEF WriteFails, TFVars
<1>3. QED
  BY <1>1, <1>2, Frames

LEMMA UsersFileStep ==
  ASSUME ControlType, MemoryType, UsersFileType, [Next]_vars
  PROVE  UsersFileType'
<1>1. CASE WriteHumanUsers
  BY <1>1, MaxSetupsAssumption
     DEF WriteHumanUsers, UsersFileType, ControlType, MemoryType, Memory
<1>2. QED
  BY <1>1, Frames DEF UsersFileType

LEMMA DirectoryStep ==
  ASSUME ControlType, MemoryType, DirectoryType, [Next]_vars
  PROVE  /\ DirectoryType'
         /\ directory.users \subseteq directory'.users
         /\ directory.roles \subseteq directory'.roles
         /\ directory.logins \subseteq directory'.logins
<1>1. pc \in Walking => This \in Nat \X Users
  BY MaxSetupsAssumption DEF This, ControlType, MemoryType, UserAtHand
<1>2. CASE createAzureADUser
  BY <1>1, <1>2 DEF createAzureADUser, DirectoryType, Walking
<1>3. CASE createAzureRoleAssignment
  BY <1>1, <1>3 DEF createAzureRoleAssignment, DirectoryType, Walking
<1>4. CASE validateAzureUserLogin
  BY <1>1, <1>4 DEF validateAzureUserLogin, DirectoryType, Walking
<1>5. QED
  BY <1>2, <1>3, <1>4, Frames DEF DirectoryType

LEMMA DeploymentsStep ==
  ASSUME DeploymentsType, [Next]_vars
  PROVE  DeploymentsType'
<1> USE DEF DeploymentsType, States
<1>1. CASE startCanaries
  BY <1>1 DEF startCanaries
<1>2. CASE putGroupDeployment
  BY <1>2 DEF putGroupDeployment
<1>3. CASE putFailedDeployment
  BY <1>3 DEF putFailedDeployment
<1>4. CASE AzureSettles
  BY <1>4 DEF AzureSettles
<1>5. QED
  BY <1>1, <1>2, <1>3, <1>4, Frames

(* What an apply may leave landed are steps. *)
LEMMA AppliedType ==
  ASSUME LabType, NEW touched \in SUBSET Steps
  PROVE  Applied(touched) \in SUBSET Steps /\ PartOf(touched) \subseteq SUBSET Steps
BY DEF LabType, Applied, PartOf

LEMMA LandType ==
  ASSUME LabType, tfvars \in TFVars, NEW l \in SUBSET Steps, NEW touched, Land(l, touched)
  PROVE  landed' \subseteq Steps /\ workspace' \in Nat /\ softDeleted' \subseteq Nat
BY DEF LabType, TFVars, Land

(* One lane's turn, and what may become of it. *)
LEMMA FollowUp ==
  ASSUME ControlType, followUpApply
  PROVE  \E s \in Lanes(cfg) :
           /\ s \in Steps /\ s + 1 \in 1..Defaults + AddIns + 1
           /\ s >= mem.step /\ \A t \in Lanes(cfg) : t >= mem.step => s <= t
           /\ \/ Land(Applied({s}), {s}) /\ mem' = [mem EXCEPT !.step = s + 1]
              \/ /\ \/ \E l \in PartOf({s}) : Land(l, {s})
                    \/ UNCHANGED <<landed, workspace, softDeleted>>
                 /\ mem' = [mem EXCEPT !.step = s + 1, !.warned = @ \cup {s}]
<1>1. \A s \in Lanes(cfg) : s \in Steps /\ s + 1 \in 1..Defaults + AddIns + 1
  BY LanesAreSteps, DefaultsAssumption, AddInsAssumption DEF Steps, ControlType
<1>2. QED
  BY <1>1 DEF followUpApply

LEMMA LabStep ==
  ASSUME ControlType, LabType, tfvars \in TFVars, [Next]_vars
  PROVE  LabType'
<1>1. CASE coreApply
  <2> DEFINE touched == Steps \ coreExcludedInfrastructureSteps
  <2>1. Applied(touched) \in SUBSET Steps /\ PartOf(touched) \subseteq SUBSET Steps
    BY AppliedType
  <2>2. \/ \E l \in SUBSET Steps : Land(l, touched)
        \/ UNCHANGED <<landed, workspace, softDeleted>>
    BY <1>1, <2>1 DEF coreApply
  <2>3. coreOf' \in {coreOf, setups} /\ vmKey' \in {vmKey, tfvars.key}
    BY <1>1, Zenon DEF coreApply
  <2>4. coreOf' \in Nat /\ vmKey' \in Int
    BY <2>3, MaxSetupsAssumption DEF LabType, TFVars, ControlType
  <2>5. QED
    BY <2>2, <2>4, LandType DEF LabType
<1>2. CASE followUpApply
  <2>1. PICK s \in Steps : \/ Land(Applied({s}), {s})
                           \/ \E l \in PartOf({s}) : Land(l, {s})
                           \/ UNCHANGED <<landed, workspace, softDeleted>>
    BY <1>2, FollowUp
  <2>2. Applied({s}) \in SUBSET Steps /\ PartOf({s}) \subseteq SUBSET Steps
    BY <2>1, AppliedType
  <2>3. \/ \E l \in SUBSET Steps : Land(l, {s})
        \/ UNCHANGED <<landed, workspace, softDeleted>>
    BY <2>1, <2>2
  <2>4. UNCHANGED <<coreOf, vmKey>>
    BY <1>2 DEF followUpApply
  <2>5. QED
    BY <2>3, <2>4, LandType DEF LabType
<1>3. QED
  BY <1>1, <1>2, Frames DEF lab, LabType

LEMMA OutputsStep ==
  ASSUME outputs \in BOOLEAN, [Next]_vars
  PROVE  outputs' \in BOOLEAN
<1>1. CASE coreApply
  BY <1>1, Zenon DEF coreApply
<1>2. QED
  BY <1>1, Frames, Zenon DEF lab

(* The outcome of a setup is that of its memory. *)
LEMMA ReturnType ==
  ASSUME mem \in Memory, NEW code \in {0, 1},
         NEW report \in {"error", "written", "applyFailed", "warnings", "completed"},
         Return(report, code)
  PROVE  /\ pc' = "idle" /\ mem' = Fresh /\ MemoryType'
         /\ outcome' \in Outcome /\ outcome'.code = code /\ outcome'.report = report
         /\ outcome'.warned = mem.warned /\ outcome'.canary = mem.canaryWarned
         /\ outcome'.humans = mem.humansWarned
<1>1. pc' = "idle" /\ mem' = Fresh
  BY DEF Return
<1>2. MemoryType'
  BY <1>1, FreshType DEF MemoryType, UserAtHand, Walking
<1>3. outcome' \in Outcome
  BY DEF Return, Memory, Outcome
<1>4. QED
  BY <1>1, <1>2, <1>3 DEF Return

(* What may become of the setup's own state in a step: it returns or is    *)
(* killed, a new one starts, or it goes on.                                *)
Ends == \/ \E report \in {"error", "written", "applyFailed", "warnings", "completed"} :
             Return(report, IF report \in {"error", "applyFailed"} THEN 1 ELSE 0)
        \/ pc' = "idle" /\ mem' = Fresh /\ UNCHANGED outcome

LEMMA EndsType ==
  ASSUME mem \in Memory, outcome \in Outcome, Ends
  PROVE  pc' = "idle" /\ mem' = Fresh /\ pc' \in Pcs /\ MemoryType' /\ outcome' \in Outcome
<1>1. CASE pc' = "idle" /\ mem' = Fresh /\ UNCHANGED outcome
  BY <1>1, FreshType DEF MemoryType, UserAtHand, Walking, Pcs
<1>2. ASSUME NEW report \in {"error", "written", "applyFailed", "warnings", "completed"},
             Return(report, IF report \in {"error", "applyFailed"} THEN 1 ELSE 0)
      PROVE  pc' = "idle" /\ mem' = Fresh /\ MemoryType' /\ outcome' \in Outcome
  BY <1>2, ReturnType
<1>3. QED
  BY <1>1, <1>2 DEF Ends, Pcs

(* What a setup that goes on does to its memory. *)
Same == mem' \in Memory /\ mem'.user = mem.user /\ mem'.ready = mem.ready

LEMMA SameUser ==
  ASSUME MemoryType, Same, pc \in Pcs, pc' \in Pcs,
         pc' \in Walking => pc \in Walking \cup {"humans"},
         pc \in Walking \cup {"writeUsers", "finish"}
           => pc' \in Walking \cup {"writeUsers", "finish"}
  PROVE  MemoryType'
BY DEF MemoryType, UserAtHand, Same, Users, Walking

LEMMA MemoryStep ==
  ASSUME ControlType, MemoryType, outcome \in Outcome, KeysType, [Next]_vars
  PROVE  pc' \in Pcs /\ MemoryType' /\ outcome' \in Outcome
<1>m. mem \in Memory /\ pc \in Pcs
  BY DEF MemoryType, ControlType
<1>1. ASSUME Ends PROVE pc' \in Pcs /\ MemoryType' /\ outcome' \in Outcome
  BY <1>1, EndsType DEF MemoryType
<1>2. CASE Start
  BY <1>2, FreshType DEF Start, NoOutcome, Outcome, MemoryType, UserAtHand, Walking, Pcs
<1>3. CASE resolveSSHPublicKey \/ WritePrivateKey \/ WritePublicKey
  <2>1. /\ pc \in {"key", "newKey", "publicKey"} /\ outcome' = outcome
        /\ pc' \in {"newKey", "publicKey", "workspace", "tfvars"}
        /\ \/ mem' = mem \/ mem' = [mem EXCEPT !.key = OwnKey]
           \/ mem' = [mem EXCEPT !.key = pubKey] \/ mem' = [mem EXCEPT !.key = setups]
    BY <1>3 DEF resolveSSHPublicKey, WritePrivateKey, WritePublicKey, AfterKey, Goto
  <2>2. Same
    BY <1>m, <2>1 DEF Same, Memory, OwnKey, KeysType, ControlType
  <2>3. QED
    BY <2>1, <2>2, SameUser DEF Walking, Pcs
<1>4. CASE resolveAzureMLWorkspaceName \/ WriteWorkspaceName
  <2>1. /\ pc \in {"workspace", "newName"} /\ outcome' = outcome /\ pc' \in {"newName", "tfvars"}
        /\ \/ mem' = mem \/ mem' = [mem EXCEPT !.name = nameFile]
           \/ mem' = [mem EXCEPT !.name = setups]
    BY <1>4 DEF resolveAzureMLWorkspaceName, WriteWorkspaceName, Goto
  <2>2. Same
    BY <1>m, <2>1 DEF Same, Memory, KeysType, ControlType
  <2>3. QED
    BY <2>1, <2>2, SameUser DEF Walking, Pcs
<1>5. CASE WriteTFVars \/ WriteFails \/ tofuInit \/ verifyCoreLabOutputs \/ Finish \/ Crash
  <2>1. CASE WriteTFVars \/ WriteFails \/ Finish \/ Crash
    <3>1. Ends \/ (UNCHANGED mem /\ pc = "tfvars" /\ Goto("init"))
      BY <2>1, Zenon DEF WriteTFVars, WriteFails, Finish, Crash, Ends
    <3>2. QED
      BY <1>1, <3>1, <1>m, SameUser DEF Goto, Walking, Pcs, Same
  <2>2. CASE tofuInit \/ verifyCoreLabOutputs
    <3>1. Ends \/ (UNCHANGED mem /\ \/ pc = "init" /\ Goto("core")
                                    \/ pc = "verify" /\ Goto("followUps"))
      BY <2>2, Zenon DEF tofuInit, verifyCoreLabOutputs, Ends
    <3>2. QED
      BY <1>1, <3>1, <1>m, SameUser DEF Goto, Walking, Pcs, Same
  <2>3. QED
    BY <1>5, <2>1, <2>2
<1>6. CASE coreApply
  <2>1. /\ pc = "core" /\ outcome' = outcome /\ pc' \in {"followUps", "verify"}
        /\ mem' = mem \/ mem' = [mem EXCEPT !.applyErr = TRUE]
    BY <1>6 DEF coreApply, Goto
  <2>2. Same
    BY <1>m, <2>1 DEF Same, Memory
  <2>3. QED
    BY <2>1, <2>2, SameUser DEF Walking, Pcs
<1>7. CASE followUpApply \/ followUpsDone
  <2>1. /\ pc = "followUps" /\ outcome' = outcome /\ pc' \in {"followUps", "canary"}
    BY <1>7 DEF followUpApply, followUpsDone, Goto
  <2>2. CASE followUpApply
    <3>1. PICK s \in Steps :
            /\ s + 1 \in 1..Defaults + AddIns + 1
            /\ \/ mem' = [mem EXCEPT !.step = s + 1]
               \/ mem' = [mem EXCEPT !.step = s + 1, !.warned = @ \cup {s}]
      BY <2>2, FollowUp
    <3>2. ASSUME mem' = [mem EXCEPT !.step = s + 1] PROVE Same
      BY <1>m, <3>1, <3>2 DEF Same, Memory
    <3>3. ASSUME mem' = [mem EXCEPT !.step = s + 1, !.warned = @ \cup {s}] PROVE Same
      <4>1. mem.warned \cup {s} \in SUBSET Steps
        BY <1>m DEF Memory
      <4>2. QED
        BY <1>m, <3>1, <3>3, <4>1 DEF Same, Memory
    <3>4. Same
      BY <3>1, <3>2, <3>3
    <3>5. QED
      BY <2>1, <3>4, SameUser DEF Walking, Pcs
  <2>3. CASE followUpsDone
    BY <1>m, <2>1, <2>3, SameUser DEF followUpsDone, Same, Walking, Pcs
  <2>4. QED
    BY <1>7, <2>2, <2>3
<1>8. CASE startCanaries \/ putGroupDeployment \/ putFailedDeployment
  <2>1. /\ pc \in {"canary", "putGroup", "putFailed"} /\ outcome' = outcome
        /\ pc' \in {"putGroup", "pollGroup", "pollFailed", "humans"}
        /\ \/ mem' = mem \/ mem' = [mem EXCEPT !.canaryWarned = TRUE]
           \/ mem' = [mem EXCEPT !.attempt = 0]
    BY <1>8 DEF startCanaries, putGroupDeployment, putFailedDeployment, canaryWarning, Goto
  <2>2. 0 \in 0..PollLimit
    BY PollLimitAssumption
  <2>3. ASSUME mem' = [mem EXCEPT !.attempt = 0] PROVE Same
    BY <1>m, <2>2, <2>3 DEF Same, Memory
  <2>4. ASSUME mem' = mem \/ mem' = [mem EXCEPT !.canaryWarned = TRUE] PROVE Same
    BY <1>m, <2>4 DEF Same, Memory
  <2>5. QED
    BY <2>1, <2>3, <2>4, SameUser DEF Walking, Pcs
<1>9. CASE waitForGroupDeployment \/ waitForFailedDeployment
  <2>1. /\ pc \in {"pollGroup", "pollFailed"} /\ outcome' = outcome
        /\ pc' \in {"pollGroup", "putFailed", "pollFailed", "humans"}
        /\ \/ mem' = mem \/ mem' = [mem EXCEPT !.canaryWarned = TRUE]
           \/ mem.attempt < PollLimit /\ mem' = [mem EXCEPT !.attempt = mem.attempt + 1]
    BY <1>9 DEF waitForGroupDeployment, waitForFailedDeployment, pollAgain, canaryWarning, Goto
  <2>2. ASSUME mem.attempt < PollLimit /\ mem' = [mem EXCEPT !.attempt = mem.attempt + 1]
        PROVE  Same
    <3>1. mem.attempt + 1 \in 0..PollLimit
      <4>1. mem.attempt \in 0..PollLimit
        BY <1>m DEF Memory
      <4>2. QED
        BY <2>2, <4>1, PollLimitAssumption
    <3>2. QED
      BY <1>m, <2>2, <3>1 DEF Same, Memory
  <2>3. ASSUME mem' = mem \/ mem' = [mem EXCEPT !.canaryWarned = TRUE] PROVE Same
    BY <1>m, <2>3 DEF Same, Memory
  <2>4. QED
    BY <2>1, <2>2, <2>3, SameUser DEF Walking, Pcs
<1>10. CASE \/ startHumanUsers \/ createAzureADUser \/ createAzureRoleAssignment
            \/ WriteHumanUsers
  <2>1. /\ pc \in {"humans", "createUser", "assignRole", "writeUsers"} /\ outcome' = outcome
        /\ pc' \in {"createUser", "assignRole", "login", "finish"}
        /\ \/ mem' = mem
           \/ \E b \in BOOLEAN : mem' = [mem EXCEPT !.humansWarned = b]
        /\ pc' \in Walking => pc \in Walking \cup {"humans"}
    BY <1>10 DEF startHumanUsers, createAzureADUser, createAzureRoleAssignment, WriteHumanUsers,
                 humansWarning, Goto, Walking
  <2>2. Same
    BY <1>m, <2>1 DEF Same, Memory
  <2>3. QED
    BY <2>1, <2>2, SameUser DEF Walking, Pcs
<1>11. CASE validateAzureUserLogin
  <2>1. mem.user \in Users
    BY <1>11 DEF validateAzureUserLogin, MemoryType, UserAtHand, Walking
  <2>2. mem' \in Memory /\ mem'.user = mem.user + 1
    <3>1. mem.user + 1 \in 1..3 /\ mem.ready \cup {mem.user} \in SUBSET Users
      BY <1>m, <2>1 DEF Memory, Users
    <3>2. CASE mem' = [mem EXCEPT !.user = @ + 1, !.ready = @ \cup {mem.user}]
      BY <1>m, <3>1, <3>2 DEF Memory
    <3>3. CASE mem' = [mem EXCEPT !.user = @ + 1]
      BY <1>m, <3>1, <3>3 DEF Memory
    <3>4. QED
      BY <1>11, <3>2, <3>3 DEF validateAzureUserLogin
  <2>3. QED
    BY <1>11, <2>1, <2>2
       DEF validateAzureUserLogin, MemoryType, UserAtHand, Walking, Users, Goto, Pcs
<1>12. CASE AzureSettles \/ UNCHANGED vars
  BY <1>m, <1>12, SameUser DEF AzureSettles, vars, Same
<1>13. QED
  BY <1>2, <1>3, <1>4, <1>5, <1>6, <1>7, <1>8, <1>9, <1>10, <1>11, <1>12 DEF Next, Work

LEMMA ConfigStep ==
  ASSUME ControlType, [Next]_vars
  PROVE  cfg' \in Config /\ setups' \in 0..MaxSetups
<1> USE DEF ControlType
<1>1. CASE Start
  BY <1>1, MaxSetupsAssumption, ConfigsAssumption DEF Start
<1>2. QED
  BY <1>1, Frames

LEMMA TypeStep == SetupInv /\ [Next]_vars => SetupInv'
<1> SUFFICES ASSUME SetupInv, [Next]_vars PROVE SetupInv'
  OBVIOUS
<1> USE TypeParts
<1>1. ControlType' /\ MemoryType' /\ outcome' \in Outcome
  BY MemoryStep, ConfigStep DEF ControlType
<1>2. KeysType' /\ tfvars' \in TFVars
  BY KeysStep, TFVarsStep
<1>3. LabType' /\ outputs' \in BOOLEAN
  BY LabStep, OutputsStep
<1>4. DeploymentsType' /\ DirectoryType' /\ UsersFileType'
  BY DeploymentsStep, DirectoryStep, UsersFileStep
<1>5. SetupInv' <=>
        (/\ ControlType /\ MemoryType /\ outcome \in Outcome /\ KeysType /\ tfvars \in TFVars
         /\ LabType /\ outputs \in BOOLEAN /\ DeploymentsType /\ DirectoryType
         /\ UsersFileType)'
  BY TypeParts, PTL
<1>6. QED
  BY <1>1, <1>2, <1>3, <1>4, <1>5

(* Every variable stays in its range, through kills and reruns, and a step *)
(* of RunAzureSetup that is about a user always has one to work on.        *)
THEOREM SetupType == Spec => []SetupInv
BY TypeInit, TypeStep, PTL DEF Spec

-----------------------------------------------------------------------------
(* The key and the workspace name that were drawn *)

(* Which steps of a setup that goes on change what it remembers. *)
GoesOn ==
  /\ resolveSSHPublicKey \/ WritePublicKey \/ mem'.key = mem.key
  /\ resolveAzureMLWorkspaceName \/ WriteWorkspaceName \/ mem'.name = mem.name
  /\ coreApply \/ mem'.applyErr = mem.applyErr
  /\ followUpApply \/ (mem'.step = mem.step /\ mem'.warned = mem.warned)
  /\ validateAzureUserLogin \/ (mem'.user = mem.user /\ mem'.ready = mem.ready)
  /\ pc \in {"canary"} \cup OnCanaries \/ mem'.canaryWarned = mem.canaryWarned
  /\ pc \in OnHumans \/ mem'.humansWarned = mem.humansWarned

LEMMA Remembered ==
  ASSUME SetupInv, [Next]_vars
  PROVE  (mem' = Fresh /\ pc' \in {"idle", "key"}) \/ GoesOn
<1>m. mem \in Memory
  BY TypeParts DEF MemoryType
<1>0. ASSUME UNCHANGED mem PROVE GoesOn
  BY <1>0 DEF GoesOn
<1>1. CASE Start \/ Crash \/ AzureSettles \/ UNCHANGED vars
  BY <1>0, <1>1 DEF Start, Crash, AzureSettles, vars
<1>2. CASE WriteTFVars \/ WriteFails \/ tofuInit \/ verifyCoreLabOutputs \/ Finish
  BY <1>0, <1>2
     DEF WriteTFVars, WriteFails, tofuInit, verifyCoreLabOutputs, Finish, Return
<1>3. CASE resolveSSHPublicKey \/ WritePrivateKey \/ WritePublicKey
  <2>1. UNCHANGED mem \/ \E k : mem' = [mem EXCEPT !.key = k]
    BY <1>3 DEF resolveSSHPublicKey, WritePrivateKey, WritePublicKey
  <2>2. CASE WritePrivateKey
    BY <1>0, <2>2 DEF WritePrivateKey
  <2>3. QED
    BY <1>m, <1>0, <1>3, <2>1, <2>2 DEF GoesOn, Memory
<1>4. CASE resolveAzureMLWorkspaceName \/ WriteWorkspaceName
  <2>1. UNCHANGED mem \/ \E n : mem' = [mem EXCEPT !.name = n]
    BY <1>4 DEF resolveAzureMLWorkspaceName, WriteWorkspaceName
  <2>2. QED
    BY <1>m, <1>0, <1>4, <2>1 DEF GoesOn, Memory
<1>5. CASE coreApply
  BY <1>m, <1>0, <1>5 DEF coreApply, GoesOn, Memory
<1>6. CASE followUpApply \/ followUpsDone
  <2>1. CASE followUpsDone
    BY <1>0, <2>1 DEF followUpsDone
  <2>2. CASE followUpApply
    <3>1. PICK s \in Steps : \/ mem' = [mem EXCEPT !.step = s + 1]
                             \/ mem' = [mem EXCEPT !.step = s + 1, !.warned = @ \cup {s}]
      BY <2>2, FollowUp, TypeParts
    <3>2. QED
      BY <1>m, <2>2, <3>1 DEF GoesOn, Memory
  <2>3. QED
    BY <1>6, <2>1, <2>2
<1>7. CASE \/ startCanaries \/ putGroupDeployment \/ waitForGroupDeployment
           \/ putFailedDeployment \/ waitForFailedDeployment
  <2>1. \/ UNCHANGED mem \/ mem' = [mem EXCEPT !.canaryWarned = TRUE]
        \/ \E a : mem' = [mem EXCEPT !.attempt = a]
    BY <1>7 DEF startCanaries, putGroupDeployment, waitForGroupDeployment, putFailedDeployment,
                waitForFailedDeployment, pollAgain, canaryWarning
  <2>2. pc \in {"canary"} \cup OnCanaries
    BY <1>7 DEF startCanaries, putGroupDeployment, waitForGroupDeployment, putFailedDeployment,
                waitForFailedDeployment, OnCanaries
  <2>3. QED
    BY <1>m, <1>0, <2>1, <2>2 DEF GoesOn, Memory
<1>8. CASE \/ startHumanUsers \/ createAzureADUser \/ createAzureRoleAssignment
           \/ WriteHumanUsers
  <2>1. UNCHANGED mem \/ \E b : mem' = [mem EXCEPT !.humansWarned = b]
    BY <1>8 DEF startHumanUsers, createAzureADUser, createAzureRoleAssignment, WriteHumanUsers,
                humansWarning
  <2>2. pc \in OnHumans
    BY <1>8 DEF startHumanUsers, createAzureADUser, createAzureRoleAssignment, WriteHumanUsers,
                OnHumans, Walking
  <2>3. QED
    BY <1>m, <1>0, <2>1, <2>2 DEF GoesOn, Memory
<1>9. CASE validateAzureUserLogin
  BY <1>m, <1>9 DEF validateAzureUserLogin, GoesOn, Memory
<1>10. QED
  BY <1>1, <1>2, <1>3, <1>4, <1>5, <1>6, <1>7, <1>8, <1>9 DEF Next, Work

(* The steps that are about to draw something come after no others. *)
LEMMA Drawing ==
  ASSUME [Next]_vars
  PROVE  \/ resolveSSHPublicKey \/ WritePrivateKey \/ WritePublicKey
         \/ resolveAzureMLWorkspaceName \/ WriteWorkspaceName
         \/ pc' \notin {"newKey", "publicKey", "newName"}
         \/ UNCHANGED <<pc, setups, keys, nameFile>>
<1> USE DEF Goto, Return, disk, keys
<1>1. CASE Start \/ Crash \/ AzureSettles \/ WriteFails \/ WriteTFVars \/ UNCHANGED vars
  BY <1>1 DEF Start, Crash, AzureSettles, WriteFails, WriteTFVars, vars
<1>2. CASE tofuInit \/ coreApply \/ verifyCoreLabOutputs \/ followUpApply \/ followUpsDone
  BY <1>2 DEF tofuInit, coreApply, verifyCoreLabOutputs, followUpApply, followUpsDone
<1>3. CASE \/ startCanaries \/ putGroupDeployment \/ waitForGroupDeployment
           \/ putFailedDeployment \/ waitForFailedDeployment
  BY <1>3 DEF startCanaries, putGroupDeployment, waitForGroupDeployment, putFailedDeployment,
              waitForFailedDeployment, pollAgain, canaryWarning
<1>4. CASE \/ startHumanUsers \/ createAzureADUser \/ createAzureRoleAssignment
           \/ validateAzureUserLogin \/ WriteHumanUsers \/ Finish
  BY <1>4 DEF startHumanUsers, createAzureADUser, createAzureRoleAssignment,
              validateAzureUserLogin, WriteHumanUsers, Finish, humansWarning
<1>5. QED
  BY <1>1, <1>2, <1>3, <1>4 DEF Next, Work

LEMMA KeyTrailStep ==
  ASSUME SetupInv, KeyTrail, [Next]_vars
  PROVE  KeyTrail'
<1>t. /\ ControlType /\ mem \in Memory /\ KeysType /\ tfvars \in TFVars /\ LabType
  BY TypeParts DEF MemoryType
<1>0. /\ privKey \in Nat /\ pubKey \in Int /\ vmKey \in Int /\ tfvars.key \in Int
      /\ mem.key \in Int /\ setups \in Nat
  BY <1>t, MaxSetupsAssumption DEF ControlType, Memory, KeysType, TFVars, LabType
<1>1. Fresh.key = Torn
  BY DEF Fresh
<1> USE DEF KeyTrail, Torn, Absent
<1>2. CASE resolveSSHPublicKey
  BY <1>t, <1>0, <1>2
     DEF resolveSSHPublicKey, Goto, AfterKey, OwnKey, Memory, disk, azure, lab, keys
<1>3. CASE WritePrivateKey
  BY <1>0, <1>3 DEF WritePrivateKey, Goto, azure, lab
<1>4. CASE WritePublicKey
  <2>1. mem'.key = setups
    BY <1>t, <1>4 DEF WritePublicKey, Memory
  <2>2. QED
    BY <1>0, <1>4, <2>1 DEF WritePublicKey, Goto, AfterKey, azure, lab
<1>5. CASE WriteFails
  <2>1. mem'.key = Torn /\ pc' = "idle" /\ vmKey' = vmKey
    BY <1>1, <1>5 DEF WriteFails, Return, azure, lab
  <2>2. tfvars'.key = tfvars.key
    BY <1>t, <1>5 DEF WriteFails, TFVars
  <2>3. (privKey' = privKey \/ pc = "newKey") /\ (pubKey' = pubKey \/ pc = "publicKey")
    BY <1>5 DEF WriteFails, keys
  <2>4. pubKey' \in {pubKey, Torn}
    BY <1>5 DEF WriteFails, keys
  <2>5. QED
    BY <1>0, <2>1, <2>2, <2>3, <2>4
<1>6. CASE WriteTFVars
  <2>1. tfvars'.key = mem.key /\ mem'.key \in {mem.key, Torn} /\ pc' \in {"idle", "init"}
    BY <1>1, <1>6 DEF WriteTFVars, BuildAzureSetupTFVars, Return, Goto
  <2>2. QED
    BY <1>0, <1>6, <2>1 DEF WriteTFVars, keys, azure, lab
<1>7. CASE coreApply
  <2>1. vmKey' \in {vmKey, tfvars.key}
    BY <1>7, Zenon DEF coreApply
  <2>2. mem'.key = mem.key /\ pc' \in {"followUps", "verify"}
    BY <1>t, <1>7 DEF coreApply, Memory, Goto
  <2>3. QED
    BY <1>0, <1>7, <2>1, <2>2 DEF coreApply, disk, keys
<1>8. CASE /\ ~resolveSSHPublicKey /\ ~WritePrivateKey /\ ~WritePublicKey /\ ~WriteFails
           /\ ~WriteTFVars /\ ~coreApply
  <2>1. UNCHANGED <<privKey, pubKey, tfvars, vmKey>>
    BY <1>8, Frames DEF keys
  <2>2. mem'.key \in {mem.key, Torn}
    BY <1>1, <1>8, Remembered DEF GoesOn
  <2>3. pc' \in {"newKey", "publicKey"} => UNCHANGED <<pc, setups>>
    BY <1>8, Drawing DEF resolveAzureMLWorkspaceName, WriteWorkspaceName, Goto
  <2>4. QED
    BY <1>0, <2>1, <2>2, <2>3
<1>9. QED
  BY <1>2, <1>3, <1>4, <1>5, <1>6, <1>7, <1>8

LEMMA NameTrailStep ==
  ASSUME SetupInv, NameTrail, [Next]_vars
  PROVE  NameTrail'
<1>t. mem \in Memory /\ tfvars \in TFVars
  BY TypeParts DEF MemoryType
<1>1. Fresh.name = 0
  BY DEF Fresh
<1> USE DEF NameTrail
<1>2. CASE resolveAzureMLWorkspaceName
  BY <1>t, <1>2
     DEF resolveAzureMLWorkspaceName, Goto, Memory, disk, azure, lab
<1>3. CASE WriteWorkspaceName
  <2>1. mem'.name = setups
    BY <1>t, <1>3 DEF WriteWorkspaceName, Memory
  <2>2. QED
    BY <1>3, <2>1 DEF WriteWorkspaceName, Goto, azure, lab
<1>4. CASE WriteFails
  <2>1. mem'.name = 0 /\ pc' = "idle" /\ workspace' = workspace
    BY <1>1, <1>4 DEF WriteFails, Return, azure, lab
  <2>2. tfvars'.name = tfvars.name
    BY <1>t, <1>4 DEF WriteFails, TFVars
  <2>3. nameFile' = nameFile \/ pc = "newName"
    BY <1>4 DEF WriteFails
  <2>4. QED
    BY <2>1, <2>2, <2>3
<1>5. CASE WriteTFVars
  <2>1. tfvars'.name = mem.name /\ mem'.name \in {mem.name, 0} /\ pc' \in {"idle", "init"}
    BY <1>1, <1>5 DEF WriteTFVars, BuildAzureSetupTFVars, Return, Goto
  <2>2. QED
    BY <1>5, <2>1 DEF WriteTFVars, azure, lab
<1>6. CASE /\ ~resolveAzureMLWorkspaceName /\ ~WriteWorkspaceName /\ ~WriteFails
           /\ ~WriteTFVars
  <2>1. UNCHANGED <<nameFile, tfvars>>
    BY <1>6, Frames
  <2>2. mem'.name \in {mem.name, 0}
    BY <1>1, <1>6, Remembered DEF GoesOn
  <2>3. pc' = "newName" => UNCHANGED pc
    BY <1>6, Drawing DEF resolveSSHPublicKey, WritePrivateKey, WritePublicKey, Goto, AfterKey
  <2>4. workspace' \in {workspace, tfvars.name, 0}
    <3>1. ASSUME NEW l, NEW touched, Land(l, touched)
          PROVE  workspace' \in {workspace, tfvars.name, 0}
      BY <3>1 DEF Land
    <3>2. CASE coreApply
      BY <3>1, <3>2, Zenon DEF coreApply
    <3>3. CASE followUpApply
      BY <3>1, <3>3, Zenon DEF followUpApply
    <3>4. QED
      BY <3>2, <3>3, Frames DEF lab
  <2>5. QED
    BY <2>1, <2>2, <2>3, <2>4
<1>7. QED
  BY <1>2, <1>3, <1>4, <1>5, <1>6

LEMMA TrailsInit == Init => KeyTrail /\ NameTrail
BY DEF Init, KeyTrail, NameTrail, Fresh, Torn, Absent

(* The private half of the key on the machines and the name of the         *)
(* workspace are never lost, whatever is killed, fails or is run again:    *)
(* the public key file is written after the private one, and every use of  *)
(* a name goes through the name file.                                      *)
THEOREM WhatIsDrawnIsKept == Spec => []DrawnIsKept
<1>1. SetupInv /\ KeyTrail /\ NameTrail /\ [Next]_vars => (SetupInv /\ KeyTrail /\ NameTrail)'
  BY TypeStep, KeyTrailStep, NameTrailStep
<1>2. SetupInv /\ KeyTrail /\ NameTrail => DrawnIsKept
  <2> SUFFICES ASSUME SetupInv, KeyTrail, NameTrail PROVE DrawnIsKept
    OBVIOUS
  <2>1. vmKey \in Int /\ pubKey \in Int
    BY TypeParts DEF LabType, KeysType
  <2>2. QED
    BY <2>1 DEF DrawnIsKept, LabKeyKept, WorkspaceNameKept, KeyTrail, NameTrail
<1>3. QED
  BY TypeInit, TrailsInit, <1>1, <1>2, PTL DEF Spec

-----------------------------------------------------------------------------
(* The recorded users *)

(* Where the steps for the human users may be reached from. *)
LEMMA Reaching ==
  ASSUME [Next]_vars, pc' \in OnHumans
  PROVE  \/ startHumanUsers \/ createAzureADUser \/ createAzureRoleAssignment
         \/ validateAzureUserLogin \/ UNCHANGED <<pc, cfg, mem, setups>>
         \/ /\ pc' = "humans"
            /\ startCanaries \/ putGroupDeployment \/ putFailedDeployment
               \/ waitForGroupDeployment \/ waitForFailedDeployment
<1> USE DEF Goto, Return, OnHumans, Walking
<1>1. CASE Start \/ Crash \/ AzureSettles \/ WriteFails \/ WriteTFVars \/ UNCHANGED vars
  BY <1>1 DEF Start, Crash, AzureSettles, WriteFails, WriteTFVars, vars
<1>2. CASE tofuInit \/ coreApply \/ verifyCoreLabOutputs \/ followUpApply \/ followUpsDone
  BY <1>2 DEF tofuInit, coreApply, verifyCoreLabOutputs, followUpApply, followUpsDone
<1>3. CASE startCanaries \/ putGroupDeployment \/ putFailedDeployment
  BY <1>3 DEF startCanaries, putGroupDeployment, putFailedDeployment, canaryWarning
<1>4. CASE waitForGroupDeployment \/ waitForFailedDeployment
  BY <1>4 DEF waitForGroupDeployment, waitForFailedDeployment, pollAgain, canaryWarning
<1>5. CASE \/ resolveSSHPublicKey \/ WritePrivateKey \/ WritePublicKey
           \/ resolveAzureMLWorkspaceName \/ WriteWorkspaceName
  BY <1>5 DEF resolveSSHPublicKey, WritePrivateKey, WritePublicKey, AfterKey,
              resolveAzureMLWorkspaceName, WriteWorkspaceName
<1>6. CASE WriteHumanUsers \/ Finish
  BY <1>6 DEF WriteHumanUsers, Finish, humansWarning
<1>7. QED
  BY <1>1, <1>2, <1>3, <1>4, <1>5, <1>6 DEF Next, Work

LEMMA UserTrailStep ==
  ASSUME SetupInv, UserTrail, [Next]_vars
  PROVE  UserTrail'
<1>t. /\ ControlType /\ MemoryType /\ mem \in Memory /\ DirectoryType
  BY TypeParts DEF MemoryType
<1>d. /\ directory.users \subseteq directory'.users
      /\ directory.roles \subseteq directory'.roles
      /\ directory.logins \subseteq directory'.logins
  BY <1>t, DirectoryStep
<1>u. pc \in Walking => mem.user \in Users
  BY <1>t DEF MemoryType, UserAtHand
<1>r. \A u \in mem'.ready : <<setups', u>> \in directory'.logins
  <2>1. CASE validateAzureUserLogin
    <3>1. setups' = setups
      BY <2>1 DEF validateAzureUserLogin
    <3>2. \/ mem'.ready = mem.ready
          \/ /\ mem'.ready = mem.ready \cup {mem.user}
             /\ directory'.logins = directory.logins \cup {This}
      BY <1>t, <2>1 DEF validateAzureUserLogin, Memory, DirectoryType
    <3>3. QED
      BY <1>d, <3>1, <3>2 DEF UserTrail, This
  <2>2. CASE mem' = Fresh
    BY <2>2, FreshType
  <2>3. CASE Start
    BY <2>2, <2>3 DEF Start
  <2>4. CASE ~validateAzureUserLogin /\ mem' # Fresh /\ ~Start
    <3>1. mem'.ready = mem.ready /\ setups' = setups
      BY <2>4, Remembered, Frames DEF GoesOn
    <3>2. QED
      BY <1>d, <3>1 DEF UserTrail
  <2>5. QED
    BY <2>1, <2>2, <2>3, <2>4
<1>w. CASE pc' \notin OnHumans
  BY <1>r, <1>w DEF UserTrail, OnHumans, Walking
<1>s. CASE startHumanUsers
  <2>1. UNCHANGED <<setups, directory>> /\ mem'.user = 1
        /\ pc' \in {"createUser", "finish"}
    <3>1. mem.user = 1
      BY <1>s, <1>t DEF startHumanUsers, MemoryType, UserAtHand, Walking
    <3>2. mem'.user = mem.user
      BY <1>s, <1>t DEF startHumanUsers, humansWarning, Memory
    <3>3. QED
      BY <1>s, <3>1, <3>2 DEF startHumanUsers, humansWarning, Goto, azure
  <2>2. QED
    BY <1>r, <2>1 DEF UserTrail, Walking, Users
<1>c. CASE createAzureADUser
  <2>1. UNCHANGED <<setups>> /\ mem'.user = mem.user /\ pc' \in {"assignRole", "finish"}
        /\ pc = "createUser"
    BY <1>c, <1>t DEF createAzureADUser, humansWarning, Memory, Goto
  <2>2. pc' = "assignRole" => This \in directory'.users
    BY <1>c, <1>t DEF createAzureADUser, humansWarning, DirectoryType, Goto
  <2>3. QED
    BY <1>r, <1>d, <2>1, <2>2 DEF UserTrail, Walking, This
<1>a. CASE createAzureRoleAssignment
  <2>1. UNCHANGED <<setups>> /\ mem'.user = mem.user /\ pc' \in {"login", "finish"}
        /\ pc = "assignRole"
    BY <1>a, <1>t DEF createAzureRoleAssignment, humansWarning, Memory, Goto
  <2>2. pc' = "login" => This \in directory'.roles
    BY <1>a, <1>t DEF createAzureRoleAssignment, humansWarning, DirectoryType, Goto
  <2>3. QED
    BY <1>r, <1>d, <2>1, <2>2 DEF UserTrail, Walking, This
<1>l. CASE validateAzureUserLogin
  <2>1. UNCHANGED <<setups>> /\ mem'.user = mem.user + 1 /\ pc = "login"
        /\ pc' = IF mem.user = 2 THEN "writeUsers" ELSE "createUser"
    BY <1>l, <1>t DEF validateAzureUserLogin, Memory, Goto
  <2>2. \A u \in Users : u <= mem.user =>
          <<setups, u>> \in directory'.users \cap directory'.roles
    <3>1. This \in directory'.users /\ This \in directory'.roles
      BY <1>d, <2>1 DEF UserTrail
    <3>2. \A u \in Users : u < mem.user =>
            <<setups, u>> \in directory'.users \cap directory'.roles
      BY <1>d, <2>1 DEF UserTrail, Walking
    <3>3. QED
      BY <1>u, <2>1, <3>1, <3>2 DEF This, Users, Walking
  <2>3. QED
    BY <1>r, <1>u, <2>1, <2>2 DEF UserTrail, Walking, Users
<1>n. CASE pc' = "humans"
  BY <1>r, <1>n DEF UserTrail, Walking
<1>z. CASE UNCHANGED <<pc, cfg, mem, setups>>
  BY <1>r, <1>d, <1>z DEF UserTrail, Walking, This
<1> QED
  BY <1>w, <1>s, <1>c, <1>a, <1>l, <1>n, <1>z, Reaching

LEMMA RecordedStep ==
  ASSUME SetupInv, UserTrail, RecordedUsersAreReal, [Next]_vars
  PROVE  RecordedUsersAreReal'
<1>t. /\ ControlType /\ MemoryType /\ DirectoryType
  BY TypeParts
<1>d. /\ directory.users \subseteq directory'.users
      /\ directory.roles \subseteq directory'.roles
      /\ directory.logins \subseteq directory'.logins
  BY <1>t, DirectoryStep
<1>1. CASE WriteHumanUsers
  <2>1. \/ usersFile' = [setup |-> setups, ready |-> mem.ready]
        \/ usersFile' = usersFile \/ usersFile'.setup = 0
    BY <1>1 DEF WriteHumanUsers
  <2>2. CASE usersFile' = [setup |-> setups, ready |-> mem.ready]
    <3>1. \A u \in Users : <<setups, u>> \in directory.users \cap directory.roles
      BY <1>1 DEF WriteHumanUsers, UserTrail
    <3>2. \A u \in mem.ready : <<setups, u>> \in directory.logins
      BY DEF UserTrail
    <3>3. QED
      BY <1>d, <2>2, <3>1, <3>2 DEF RecordedUsersAreReal
  <2>3. QED
    BY <1>d, <2>1, <2>2 DEF RecordedUsersAreReal
<1>2. CASE UNCHANGED usersFile
  BY <1>d, <1>2 DEF RecordedUsersAreReal
<1>3. QED
  BY <1>1, <1>2, Frames

LEMMA UsersInit == Init => UserTrail /\ RecordedUsersAreReal
BY DEF Init, UserTrail, RecordedUsersAreReal, Fresh, Walking

(* A user in the credentials file exists with its role, and is marked as   *)
(* ready only after a login, however often the setup is killed between the *)
(* steps for one user or rerun: createAzureADUser and its two successors   *)
(* go through the users in order, and the file is written after the last.  *)
THEOREM RecordedUsersExist == Spec => []RecordedUsersAreReal
<1>1. SetupInv /\ UserTrail /\ RecordedUsersAreReal /\ [Next]_vars
        => (SetupInv /\ UserTrail /\ RecordedUsersAreReal)'
  BY TypeStep, UserTrailStep, RecordedStep
<1>2. QED
  BY TypeInit, UsersInit, <1>1, PTL DEF Spec

-----------------------------------------------------------------------------
(* What a setup says it did *)

(* How a setup gets on. *)
LEMMA Onward ==
  ASSUME [Next]_vars
  PROVE  /\ pc' \in Applying => WriteTFVars \/ pc \in Applying
         /\ pc' \in AfterCore => coreApply \/ verifyCoreLabOutputs \/ pc \in AfterCore
         /\ pc' \in AfterLanes => followUpsDone \/ pc \in AfterLanes
         /\ pc' = "verify" => coreApply \/ pc = "verify"
         /\ pc' \notin AfterCore /\ pc \in AfterCore => pc' = "idle" /\ mem' = Fresh
         /\ pc' # "idle" => Start \/ (UNCHANGED outcome /\ pc # "idle")
<1> USE DEF Goto, Return, Applying, AfterCore, AfterLanes, OnCanaries, OnHumans, Walking
<1>1. CASE Start \/ Crash \/ AzureSettles \/ WriteFails \/ WriteTFVars \/ UNCHANGED vars
  BY <1>1 DEF Start, Crash, AzureSettles, WriteFails, WriteTFVars, vars
<1>2. CASE tofuInit \/ coreApply \/ verifyCoreLabOutputs \/ followUpApply \/ followUpsDone
  BY <1>2 DEF tofuInit, coreApply, verifyCoreLabOutputs, followUpApply, followUpsDone
<1>3. CASE startCanaries \/ putGroupDeployment \/ putFailedDeployment
  BY <1>3 DEF startCanaries, putGroupDeployment, putFailedDeployment, canaryWarning
<1>4. CASE waitForGroupDeployment \/ waitForFailedDeployment
  BY <1>4 DEF waitForGroupDeployment, waitForFailedDeployment, pollAgain, canaryWarning
<1>5. CASE \/ resolveSSHPublicKey \/ WritePrivateKey \/ WritePublicKey
           \/ resolveAzureMLWorkspaceName \/ WriteWorkspaceName
  BY <1>5 DEF resolveSSHPublicKey, WritePrivateKey, WritePublicKey, AfterKey,
              resolveAzureMLWorkspaceName, WriteWorkspaceName
<1>6. CASE \/ startHumanUsers \/ createAzureADUser \/ createAzureRoleAssignment
           \/ validateAzureUserLogin \/ WriteHumanUsers \/ Finish
  BY <1>6 DEF startHumanUsers, createAzureADUser, createAzureRoleAssignment,
              validateAzureUserLogin, WriteHumanUsers, Finish, humansWarning
<1>7. QED
  BY <1>1, <1>2, <1>3, <1>4, <1>5, <1>6 DEF Next, Work

LEMMA PlanStep ==
  ASSUME SetupInv, PlanIsMine, [Next]_vars
  PROVE  PlanIsMine'
<1> SUFFICES ASSUME pc' \in Applying PROVE tfvars'.addins = cfg'.addins
  BY DEF PlanIsMine
<1>1. CASE WriteTFVars
  BY <1>1 DEF WriteTFVars, BuildAzureSetupTFVars
<1>2. ~Start /\ ~WriteFails
  BY DEF Start, WriteFails, Return, Applying, AfterCore, AfterLanes, OnCanaries, OnHumans, Walking
<1>3. QED
  BY <1>1, <1>2, Frames, Onward DEF PlanIsMine

LEMMA CoreStep ==
  ASSUME SetupInv, CoreIsMine, [Next]_vars
  PROVE  CoreIsMine'
<1>m. mem \in Memory
  BY TypeParts DEF MemoryType
<1>1. CASE coreApply
  <2>1. coreOf' = setups' \/ (mem' = [mem EXCEPT !.applyErr = TRUE])
    BY <1>1 DEF coreApply
  <2>2. mem' = [mem EXCEPT !.applyErr = TRUE] \/ pc' = "followUps"
    BY <1>1 DEF coreApply, Goto
  <2>3. mem' = [mem EXCEPT !.applyErr = TRUE] => mem'.applyErr
    BY <1>m DEF Memory
  <2>4. QED
    BY <2>1, <2>2, <2>3 DEF CoreIsMine
<1>2. CASE ~coreApply /\ pc' \in AfterCore \cup {"verify"}
  <2>1. pc' \notin {"idle", "key"} /\ ~Start
    BY <1>2 DEF Start, AfterCore, AfterLanes, OnCanaries, OnHumans, Walking
  <2>2. UNCHANGED <<coreOf, setups>> /\ mem'.applyErr = mem.applyErr
    BY <1>2, <2>1, Frames, Remembered DEF GoesOn
  <2>3. pc = "verify" \/ pc \in AfterCore
    BY <1>2, Onward DEF verifyCoreLabOutputs
  <2>4. pc = "verify" => mem.applyErr
    BY DEF CoreIsMine
  <2>5. pc' = "verify" => pc = "verify"
    BY <1>2, Onward
  <2>6. QED
    BY <2>2, <2>3, <2>4, <2>5 DEF CoreIsMine
<1>3. CASE pc' \notin AfterCore \cup {"verify"}
  BY <1>3 DEF CoreIsMine
<1>4. QED
  BY <1>1, <1>2, <1>3

(* What one lane's apply leaves of the lanes. *)
LEMMA OneLane ==
  ASSUME NEW s \in Steps,
         \/ Land(Applied({s}), {s}) \/ \E l \in PartOf({s}) : Land(l, {s})
         \/ UNCHANGED <<landed, workspace, softDeleted>>
  PROVE  /\ landed \ {s} \subseteq landed'
         /\ Land(Applied({s}), {s}) /\ s \in Wanted => s \in landed'
BY DEF Land, Applied, PartOf

LEMMA LanesStep ==
  ASSUME SetupInv, PlanIsMine, LanesTried, [Next]_vars
  PROVE  LanesTried'
<1>t. ControlType /\ mem \in Memory /\ LabType
  BY TypeParts DEF MemoryType
<1>l. Lanes(cfg) \subseteq Steps
  BY <1>t, LanesAreSteps DEF ControlType
<1>n. \A s \in Steps : s \in Int /\ s >= 1
  BY DefaultsAssumption, AddInsAssumption DEF Steps
<1>o. mem.step \in Int
  BY <1>t DEF Memory
<1>1. CASE followUpApply
  <2>0. pc = "followUps" /\ pc' = "followUps" /\ UNCHANGED cfg
    BY <1>1 DEF followUpApply, Goto
  <2>1. PICK s \in Lanes(cfg) :
          /\ s \in Steps
          /\ s >= mem.step /\ \A t \in Lanes(cfg) : t >= mem.step => s <= t
          /\ \/ Land(Applied({s}), {s}) /\ mem' = [mem EXCEPT !.step = s + 1]
             \/ /\ \/ \E l \in PartOf({s}) : Land(l, {s})
                   \/ UNCHANGED <<landed, workspace, softDeleted>>
                /\ mem' = [mem EXCEPT !.step = s + 1, !.warned = @ \cup {s}]
    BY <1>1, <1>t, FollowUp
  <2>2. mem'.step = s + 1 /\ mem.warned \subseteq mem'.warned
    BY <1>t, <2>1 DEF Memory
  <2>3. s \in Wanted
    BY <2>0, <2>1 DEF PlanIsMine, Applying, AfterCore, Wanted, Lanes, DefaultSteps
  <2>4. s \in landed' \cup mem'.warned
    <3>1. CASE Land(Applied({s}), {s})
      BY <2>1, <2>3, <3>1, OneLane
    <3>2. CASE mem' = [mem EXCEPT !.step = s + 1, !.warned = @ \cup {s}]
      BY <1>t, <3>2 DEF Memory
    <3>3. QED
      BY <2>1, <3>1, <3>2
  <2>5. landed \ {s} \subseteq landed'
    BY <2>1, OneLane
  <2>6. ASSUME NEW t \in Lanes(cfg), t < mem'.step PROVE t \in landed' \cup mem'.warned
    <3>1. CASE t = s
      BY <2>4, <3>1
    <3>2. CASE t # s
      <4>1. t < s
        BY <1>l, <1>n, <2>1, <2>2, <2>6, <3>2
      <4>2. t < mem.step
        BY <1>l, <1>n, <1>o, <2>1, <4>1
      <4>3. t \in landed \cup mem.warned
        BY <2>0, <4>2 DEF LanesTried, AfterCore
      <4>4. QED
        BY <2>2, <2>5, <3>2, <4>3
    <3>3. QED
      BY <3>1, <3>2
  <2>7. QED
    BY <2>0, <2>6 DEF LanesTried, AfterCore, AfterLanes, OnCanaries, OnHumans, Walking
<1>2. CASE ~followUpApply /\ pc' \in AfterCore
  <2>1. pc' \notin {"idle", "key"} /\ ~Start
    BY <1>2 DEF Start, AfterCore, AfterLanes, OnCanaries, OnHumans, Walking
  <2>2. UNCHANGED cfg /\ mem'.step = mem.step /\ mem'.warned = mem.warned
    BY <1>2, <2>1, Frames, Remembered DEF GoesOn
  <2>3. CASE coreApply \/ verifyCoreLabOutputs
    <3>1. pc \in {"core", "verify"} /\ pc' \notin AfterLanes
      BY <2>1, <2>3 DEF coreApply, verifyCoreLabOutputs, Goto, Return, AfterLanes, OnCanaries,
                        OnHumans, Walking
    <3>2. mem.step = 1
      BY <3>1 DEF LanesTried, AfterCore, AfterLanes, OnCanaries, OnHumans, Walking
    <3>3. QED
      BY <1>2, <1>l, <1>n, <2>2, <3>1, <3>2 DEF LanesTried
  <2>4. CASE ~coreApply /\ ~verifyCoreLabOutputs
    <3>1. pc \in AfterCore /\ UNCHANGED landed
      BY <1>2, <2>4, Onward, Frames DEF lab
    <3>2. pc' \in AfterLanes => \A s \in Lanes(cfg) : s < mem.step
      BY Onward DEF LanesTried, followUpsDone
    <3>3. QED
      BY <1>2, <2>2, <3>1, <3>2 DEF LanesTried
  <2>5. QED
    BY <2>3, <2>4
<1>3. CASE pc' \notin AfterCore
  <2>1. ~followUpApply /\ pc' \notin AfterLanes
    BY <1>3 DEF followUpApply, Goto, AfterCore
  <2>2. mem'.step = 1
    BY <1>3, <2>1, Onward, Remembered, FreshType DEF LanesTried, GoesOn
  <2>3. QED
    BY <1>3, <2>1, <2>2 DEF LanesTried
<1>4. QED
  BY <1>1, <1>2, <1>3

LEMMA CanariesStep ==
  ASSUME SetupInv, CanariesStand, [Next]_vars
  PROVE  CanariesStand'
<1>t. mem \in Memory /\ DeploymentsType /\ DeploymentsType'
  BY TypeParts, DeploymentsStep DEF MemoryType
<1> USE DEF CanariesStand, OnCanaries, OnHumans, Walking
<1>w. canaryWarning => mem'.canaryWarned /\ pc' = "humans"
  BY <1>t DEF canaryWarning, Goto, Memory
<1>1. CASE startCanaries
  <2>1. canaryWarning \/ (~cfg.canary /\ pc' = "humans")
          \/ (pc' = "putGroup" /\ deployments'.sub = "Succeeded")
    BY <1>1, <1>t DEF startCanaries, Goto, DeploymentsType
  <2>2. QED
    BY <1>1, <1>w, <2>1 DEF startCanaries
<1>2. CASE putGroupDeployment
  <2>1. canaryWarning \/ (pc' = "pollGroup" /\ deployments'.sub = deployments.sub)
    BY <1>2, <1>t DEF putGroupDeployment, Goto, DeploymentsType
  <2>2. QED
    BY <1>2, <1>w, <2>1 DEF putGroupDeployment
<1>3. CASE putFailedDeployment
  <2>1. canaryWarning
          \/ (pc' = "pollFailed" /\ deployments'.sub = deployments.sub
              /\ deployments'.group = deployments.group)
    BY <1>3, <1>t DEF putFailedDeployment, Goto, DeploymentsType
  <2>2. QED
    BY <1>3, <1>w, <2>1 DEF putFailedDeployment
<1>4. CASE waitForGroupDeployment \/ waitForFailedDeployment
  <2>1. UNCHANGED <<deployments, cfg>>
    BY <1>4 DEF waitForGroupDeployment, waitForFailedDeployment, azure
  <2>2. \/ canaryWarning \/ UNCHANGED pc
        \/ pc = "pollGroup" /\ pc' = "putFailed" /\ deployments.group = "Succeeded"
        \/ pc = "pollFailed" /\ pc' = "humans" /\ deployments.failed = "Failed"
    BY <1>4 DEF waitForGroupDeployment, waitForFailedDeployment, pollAgain, Goto
  <2>3. pc \in {"pollGroup", "pollFailed"}
    BY <1>4 DEF waitForGroupDeployment, waitForFailedDeployment
  <2>4. QED
    BY <1>w, <2>1, <2>2, <2>3
<1>5. CASE AzureSettles
  <2>1. \/ deployments.group = "Running" /\ \E r : deployments' = [deployments EXCEPT !.group = r]
        \/ deployments.failed = "Running" /\ \E r : deployments' = [deployments EXCEPT !.failed = r]
    BY <1>5 DEF AzureSettles
  <2>2. QED
    BY <1>5, <1>t, <2>1 DEF AzureSettles, DeploymentsType
<1>6. CASE /\ ~startCanaries /\ ~putGroupDeployment /\ ~putFailedDeployment
           /\ ~waitForGroupDeployment /\ ~waitForFailedDeployment /\ ~AzureSettles
           /\ pc' \in OnCanaries \cup OnHumans \cup {"finish"}
  <2>1. UNCHANGED deployments
    BY <1>6, Frames
  <2>2. ~Start /\ pc' \notin {"idle", "key"}
    BY <1>6 DEF Start
  <2>3. UNCHANGED cfg
    BY <2>2, Frames
  <2>4. CASE UNCHANGED vars
    BY <2>1, <2>4 DEF vars
  <2>5. CASE \/ startHumanUsers \/ createAzureADUser \/ createAzureRoleAssignment
             \/ validateAzureUserLogin \/ WriteHumanUsers
    <3>1. pc \in OnHumans /\ pc' \in Walking \cup {"writeUsers", "finish"}
      BY <2>5 DEF startHumanUsers, createAzureADUser, createAzureRoleAssignment,
                  validateAzureUserLogin, WriteHumanUsers, humansWarning, Goto
    <3>2. mem'.canaryWarned = mem.canaryWarned
      BY <2>2, <3>1, Remembered DEF GoesOn
    <3>3. QED
      BY <2>1, <2>3, <3>1, <3>2
  <2>6. CASE \/ resolveSSHPublicKey \/ WritePrivateKey \/ WritePublicKey
             \/ resolveAzureMLWorkspaceName \/ WriteWorkspaceName \/ WriteTFVars
             \/ Finish \/ Crash \/ WriteFails
    BY <1>6, <2>6
       DEF resolveSSHPublicKey, WritePrivateKey, WritePublicKey, AfterKey,
           resolveAzureMLWorkspaceName, WriteWorkspaceName, WriteTFVars, Finish, Crash,
           WriteFails, Goto, Return
  <2>7. CASE tofuInit \/ coreApply \/ verifyCoreLabOutputs \/ followUpApply \/ followUpsDone
    BY <1>6, <2>7
       DEF tofuInit, coreApply, verifyCoreLabOutputs, followUpApply, followUpsDone, Goto, Return
  <2>8. QED
    BY <1>6, <2>2, <2>4, <2>5, <2>6, <2>7 DEF Next, Work
<1>7. CASE pc' \notin OnCanaries \cup OnHumans \cup {"finish"}
  BY <1>7
<1>8. QED
  BY <1>1, <1>2, <1>3, <1>4, <1>5, <1>6, <1>7

LEMMA HumansStandStep ==
  ASSUME SetupInv, HumansStand, [Next]_vars
  PROVE  HumansStand'
<1>t. mem \in Memory
  BY TypeParts DEF MemoryType
<1> SUFFICES ASSUME pc' = "finish"
             PROVE  cfg'.humans /\ ~mem'.humansWarned =>
                      usersFile' = [setup |-> setups', ready |-> Users]
  BY DEF HumansStand
<1>w. humansWarning => mem'.humansWarned
  BY <1>t DEF humansWarning, Memory
<1>1. CASE WriteHumanUsers
  <2>1. CASE humansWarning
    BY <1>w, <2>1
  <2>2. CASE /\ usersFile' = [setup |-> setups, ready |-> mem.ready]
             /\ mem' = [mem EXCEPT !.humansWarned = (mem.ready # Users)]
    <3>1. mem'.humansWarned <=> mem.ready # Users
      BY <1>t, <2>2 DEF Memory
    <3>2. UNCHANGED setups
      BY <1>1 DEF WriteHumanUsers
    <3>3. QED
      BY <2>2, <3>1, <3>2
  <2>3. QED
    BY <1>1, <2>1, <2>2 DEF WriteHumanUsers
<1>2. CASE startHumanUsers \/ createAzureADUser \/ createAzureRoleAssignment
  <2>1. humansWarning \/ ~cfg'.humans
    BY <1>2 DEF startHumanUsers, createAzureADUser, createAzureRoleAssignment, Goto
  <2>2. QED
    BY <1>w, <2>1
<1>3. CASE AzureSettles \/ UNCHANGED vars
  BY <1>3 DEF AzureSettles, vars, disk, HumansStand
<1>4. CASE \/ resolveSSHPublicKey \/ WritePrivateKey \/ WritePublicKey
           \/ resolveAzureMLWorkspaceName \/ WriteWorkspaceName \/ WriteTFVars
           \/ Finish \/ Crash \/ WriteFails \/ Start
  BY <1>4 DEF resolveSSHPublicKey, WritePrivateKey, WritePublicKey, AfterKey,
              resolveAzureMLWorkspaceName, WriteWorkspaceName, WriteTFVars, Finish, Crash,
              WriteFails, Start, Goto, Return
<1>5. CASE \/ tofuInit \/ coreApply \/ verifyCoreLabOutputs \/ followUpApply \/ followUpsDone
           \/ validateAzureUserLogin
  BY <1>5 DEF tofuInit, coreApply, verifyCoreLabOutputs, followUpApply, followUpsDone,
              validateAzureUserLogin, Goto, Return
<1>6. CASE startCanaries \/ putGroupDeployment \/ putFailedDeployment
  BY <1>6 DEF startCanaries, putGroupDeployment, putFailedDeployment, canaryWarning, Goto
<1>7. CASE waitForGroupDeployment \/ waitForFailedDeployment
  BY <1>7 DEF waitForGroupDeployment, waitForFailedDeployment, pollAgain, canaryWarning, Goto
<1>8. QED
  BY <1>1, <1>2, <1>3, <1>4, <1>5, <1>6, <1>7 DEF Next, Work

LEMMA NotYetStep ==
  ASSUME NotYet, [Next]_vars
  PROVE  NotYet'
<1>1. CASE Start
  BY <1>1 DEF Start, NotYet, NoOutcome
<1>2. CASE ~Start
  BY <1>2, Onward DEF NotYet
<1>3. QED
  BY <1>1, <1>2

(* A return with code 0 is the last step of a setup that went all the way. *)
LEMMA Success ==
  ASSUME SetupInv, NotYet, [Next]_vars, outcome'.code = 0, outcome'.report # "written",
         ~UNCHANGED outcome
  PROVE  Finish
<1>t. mem \in Memory
  BY TypeParts DEF MemoryType
<1>r. ASSUME NEW report, NEW code, Return(report, code)
      PROVE  outcome'.code = code /\ outcome'.report = report
  BY <1>r DEF Return
<1>1. ~Start
  BY DEF Start, NoOutcome
<1>2. pc' = "idle"
  BY <1>1, Onward
<1>3. ~WriteTFVars /\ ~WriteFails /\ ~tofuInit /\ ~verifyCoreLabOutputs
  BY <1>r, <1>2 DEF WriteTFVars, WriteFails, tofuInit, verifyCoreLabOutputs, Goto
<1>4. ~Crash /\ ~AzureSettles /\ ~UNCHANGED vars
  BY DEF Crash, AzureSettles, vars
<1>5. /\ ~resolveSSHPublicKey /\ ~WritePrivateKey /\ ~WritePublicKey
      /\ ~resolveAzureMLWorkspaceName /\ ~WriteWorkspaceName
      /\ ~coreApply /\ ~followUpApply /\ ~followUpsDone
  BY DEF resolveSSHPublicKey, WritePrivateKey, WritePublicKey, resolveAzureMLWorkspaceName,
         WriteWorkspaceName, coreApply, followUpApply, followUpsDone, Goto
<1>6. /\ ~startCanaries /\ ~putGroupDeployment /\ ~putFailedDeployment
      /\ ~waitForGroupDeployment /\ ~waitForFailedDeployment
  BY DEF startCanaries, putGroupDeployment, putFailedDeployment, waitForGroupDeployment,
         waitForFailedDeployment, pollAgain, canaryWarning, Goto
<1>7. /\ ~startHumanUsers /\ ~createAzureADUser /\ ~createAzureRoleAssignment
      /\ ~validateAzureUserLogin /\ ~WriteHumanUsers
  BY DEF startHumanUsers, createAzureADUser, createAzureRoleAssignment, validateAzureUserLogin,
         WriteHumanUsers, humansWarning, Goto
<1>8. QED
  BY <1>1, <1>3, <1>4, <1>5, <1>6, <1>7 DEF Next, Work

LEMMA NothingPretendedStep ==
  ASSUME SetupInv, Account, [Next]_vars
  PROVE  NothingPretended'
<1>t. mem \in Memory /\ outcome \in Outcome /\ DeploymentsType
  BY TypeParts DEF MemoryType
<1> SUFFICES ASSUME outcome'.code = 0, outcome'.report # "written" PROVE NothingPretended'
  BY DEF NothingPretended
<1>1. CASE UNCHANGED outcome
  <2>1. pc = "idle"
    BY <1>1 DEF Account, NotYet
  <2>2. Crash \/ Start \/ AzureSettles \/ UNCHANGED vars
    <3>1. ~Work /\ ~WriteFails
      BY <2>1 DEF Work, resolveSSHPublicKey, WritePrivateKey, WritePublicKey,
        resolveAzureMLWorkspaceName, WriteWorkspaceName, WriteTFVars, tofuInit, coreApply,
        verifyCoreLabOutputs, followUpApply, followUpsDone, startCanaries, putGroupDeployment,
        waitForGroupDeployment, putFailedDeployment, waitForFailedDeployment, startHumanUsers,
        createAzureADUser, createAzureRoleAssignment, validateAzureUserLogin, WriteHumanUsers,
        Finish, WriteFails
    <3>2. QED
      BY <3>1 DEF Next
  <2>3. ~Start /\ ~Crash
    BY <2>1 DEF Start, NoOutcome, Crash
  <2>4. UNCHANGED <<cfg, setups, coreOf, landed, usersFile>>
    BY <2>2, <2>3 DEF AzureSettles, vars, disk, azure, lab
  <2>5. deployments = [sub |-> "Succeeded", group |-> "Succeeded", failed |-> "Failed"]
          => UNCHANGED deployments
    BY <2>2, <2>3 DEF AzureSettles, vars, azure
  <2>6. QED
    BY <1>1, <2>4, <2>5 DEF Account, NothingPretended
<1>2. CASE ~UNCHANGED outcome
  <2>1. Finish
    BY <1>2, Success DEF Account
  <2>2. /\ pc = "finish" /\ UNCHANGED <<cfg, setups, coreOf, landed, deployments, usersFile>>
        /\ outcome'.warned = mem.warned /\ outcome'.canary = mem.canaryWarned
        /\ outcome'.humans = mem.humansWarned
    BY <2>1 DEF Finish, Return, disk, azure, lab
  <2>3. ~mem.applyErr /\ (outcome'.report = "completed" =>
                            mem.warned = {} /\ ~mem.canaryWarned /\ ~mem.humansWarned)
    BY <2>1, <1>t DEF Finish, Return
  <2>4. coreOf = setups
    BY <2>2, <2>3 DEF Account, CoreIsMine, AfterCore, AfterLanes
  <2>5. Lanes(cfg) \subseteq landed \cup mem.warned
    BY <2>2 DEF Account, LanesTried, AfterCore, AfterLanes
  <2>6. cfg.canary /\ ~mem.canaryWarned =>
          deployments = [sub |-> "Succeeded", group |-> "Succeeded", failed |-> "Failed"]
    <3>1. cfg.canary /\ ~mem.canaryWarned =>
            /\ deployments.sub = "Succeeded" /\ deployments.group = "Succeeded"
            /\ deployments.failed = "Failed"
      BY <2>2 DEF Account, CanariesStand
    <3>2. QED
      BY <1>t, <3>1 DEF DeploymentsType
  <2>7. cfg.humans /\ ~mem.humansWarned => usersFile = [setup |-> setups, ready |-> Users]
    BY <2>2 DEF Account, HumansStand
  <2>8. QED
    BY <2>2, <2>3, <2>4, <2>5, <2>6, <2>7 DEF NothingPretended
<1>3. QED
  BY <1>1, <1>2

LEMMA AccountInit == Init => Account
BY DEF Init, Account, PlanIsMine, CoreIsMine, LanesTried, CanariesStand, HumansStand, NotYet,
       NothingPretended, NoOutcome, Fresh, Applying, AfterCore, AfterLanes, OnCanaries,
       OnHumans, Walking

LEMMA AccountStep == SetupInv /\ Account /\ [Next]_vars => Account'
BY PlanStep, CoreStep, LanesStep, CanariesStep, HumansStandStep, NotYetStep,
   NothingPretendedStep DEF Account

(* Exit code 0 after an apply means that this setup's own core went        *)
(* through and that each lane, canary and user it was asked for is there   *)
(* or was warned of.  The stages of RunAzureSetup hand on what they        *)
(* established; nothing that follows a stage undoes it.                    *)
THEOREM NothingIsPretended == Spec => []NothingPretended
<1>1. Account => NothingPretended
  BY DEF Account
<1>2. QED
  BY TypeInit, TypeStep, AccountInit, AccountStep, <1>1, PTL DEF Spec

-----------------------------------------------------------------------------
(* The core apply *)

LEMMA CoreLeavesLanes ==
  ASSUME SetupInv, PlanIsMine, pc = "core", [Next]_vars
  PROVE  landed' \subseteq landed /\ landed \cap Lanes(cfg) \subseteq landed'
<1>1. CASE coreApply
  <2> DEFINE touched == Steps \ coreExcludedInfrastructureSteps
  <2>1. Wanted \cap touched = {} /\ Lanes(cfg) \cap touched = {}
    BY DEF PlanIsMine, Applying, Wanted, Lanes, coreExcludedInfrastructureSteps
  <2>2. UNCHANGED landed \/ \E l \in PartOf(touched) \cup {Applied(touched)} : landed' = l
    BY <1>1 DEF coreApply, Land
  <2>3. QED
    BY <2>1, <2>2 DEF PartOf, Applied
<1>2. CASE ~coreApply
  <2>1. ~followUpApply
    BY DEF followUpApply
  <2>2. QED
    BY <1>2, <2>1, Frames DEF lab
<1>3. QED
  BY <1>1, <1>2

(* The core apply never creates a follow-up lane nor takes down one that   *)
(* the setup is to have, also when it fails halfway: buildCoreApplyArgs    *)
(* excludes the lanes that the variables ask for.                          *)
THEOREM CoreTouchesNoLane == Spec => CorePassIsCore
<1>1. SetupInv /\ Account /\ [Next]_vars =>
        [pc = "core" => landed' \subseteq landed /\ landed \cap Lanes(cfg) \subseteq landed']_vars
  BY CoreLeavesLanes DEF Account
<1>2. QED
  BY TypeInit, TypeStep, AccountInit, AccountStep, <1>1, PTL DEF Spec, CorePassIsCore


-----------------------------------------------------------------------------
(* Selections: lemmas about the pure definitions. *)

(* An admitted check is run from a required viewpoint.                     *)
LEMMA AdmittedRequired ==
  ASSUME NEW m, NEW t \in AdmittedTasks(m)
  PROVE  t \in Tasks /\ t.viewpoint \in m.required
BY DEF AdmittedTasks, BuildSurfacePlan, RequiredViewpoints

(* A request without selectors and viewpoint selects everything admitted.  *)
LEMMA DefaultSelectsAll ==
  ASSUME NEW m, NEW r, r.viewpoint = All, r.selectors = {}
  PROVE  SelectedTasks(m, r) = AdmittedTasks(m)
BY AdmittedRequired DEF SelectedTasks, SelectedViewpoints, RequiredViewpoints, taskSelectorMatches

(* Scaffolding yields a manifest that accounts for exactly the surface it  *)
(* was given, if each entry it writes is valid.                            *)
LEMMA AccountsForItsOwn ==
  ASSUME NEW m, NEW own, m.required # {}, m.tracked = own,
         \A s \in own : EntryValid(m, s), NEW other
  PROVE  ManifestAccounts(m, other) <=> other = own
BY DEF ManifestAccounts

(* A uniform entry that scaffold-manifest agrees to write is valid.        *)
LEMMA UniformEntryValid ==
  ASSUME NEW status \in SurfaceStatuses, NEW reason, ScaffoldAccepts(status, reason),
         NEW m, NEW s, m.required = Declared, m.entry[s] = UniformEntry(status, reason, Declared)
  PROVE  EntryValid(m, s)
<1>1. CASE status = "covered"
  <2>1. "covered" \in SurfaceStatuses /\ "manual_setup_not_done" \in ReasonCodes
    BY BootstrapAssumption DEF SurfaceStatuses
  <2>2. \A v \in Declared : m.entry[s].views[v] = [status |-> "covered", reason |-> NoReason]
    BY <1>1, DeclaredAssumption DEF UniformEntry
  <2>3. /\ m.entry[s].status = "covered" /\ m.entry[s].reason = NoReason
    BY <1>1 DEF UniformEntry
  <2>4. NoReason # "manual_setup_not_done"
    BY <2>1, ReasonAssumption
  <2>5. QED
    BY <2>1, <2>2, <2>3, <2>4 DEF EntryValid, AccountedStatus
<1>2. CASE status # "covered"
  <2>1. reason # NoReason
    BY <1>2, ReasonAssumption DEF ScaffoldAccepts
  <2>2. \A v \in Declared : m.entry[s].views[v] = [status |-> status, reason |-> reason]
    BY <1>2, DeclaredAssumption DEF UniformEntry
  <2>3. /\ m.entry[s].status = status /\ m.entry[s].reason = reason
    BY <1>2 DEF UniformEntry
  <2>4. reason = "manual_setup_not_done" => m.entry[s].steps
    <3>1. UniformEntry(status, reason, Declared).steps = (reason = "manual_setup_not_done")
      BY Zenon DEF UniformEntry
    <3>2. QED
      BY <3>1, Zenon
  <2>5. AccountedStatus(status, reason)
    BY <2>1 DEF AccountedStatus
  <2>6. \A v \in m.required : AccountedStatus(m.entry[s].views[v].status, m.entry[s].views[v].reason)
    BY <2>2, <2>5
  <2>7. QED
    BY <2>3, <2>4, <2>5, <2>6 DEF EntryValid
<1>3. QED
  BY <1>1, <1>2

LEMMA UniformEntryType ==
  ASSUME NEW status \in SurfaceStatuses, NEW reason \in ReasonCodes \cup {NoReason}
  PROVE  UniformEntry(status, reason, Declared) \in SurfaceEntry
BY DEF UniformEntry, SurfaceEntry, ViewEntry, SurfaceStatuses

-----------------------------------------------------------------------------
(* The manifest file *)

(* What a scaffold leaves: everything tracked is a valid entry.            *)
Scaffold(m, own) ==
  /\ m \in Manifest /\ m.required = Declared /\ m.tracked = own
  /\ \A s \in own : EntryValid(m, s)

LEMMA UniformScaffold ==
  ASSUME NEW own \in SUBSET Surfaces, NEW status \in SurfaceStatuses,
         NEW reason \in ReasonCodes \cup {NoReason}, ScaffoldAccepts(status, reason)
  PROVE  Scaffold(UniformManifest(own, Declared, status, reason), own)
<1> DEFINE m == UniformManifest(own, Declared, status, reason)
<1>1. \A s \in Surfaces : m.entry[s] = UniformEntry(status, reason, Declared)
  BY DEF UniformManifest
<1>2. m.required = Declared /\ m.tracked = own
  BY DEF UniformManifest
<1>3. m \in Manifest
  BY UniformEntryType, DeclaredAssumption DEF UniformManifest, Manifest, defaultCompletionContract
<1>4. \A s \in own : EntryValid(m, s)
  <2> HIDE DEF m
  <2>1. TAKE s \in own
  <2>2. m.entry[s] = UniformEntry(status, reason, Declared)
    BY <1>1
  <2>3. QED
    BY <1>2, <2>2, UniformEntryValid
<1>5. QED
  BY <1>2, <1>3, <1>4 DEF Scaffold

LEMMA BootstrapScaffold ==
  ASSUME NEW own \in SUBSET Surfaces
  PROVE  Scaffold(BootstrapManifest(own, Declared, BootstrapCovered, BootstrapManual), own)
<1> DEFINE m == BootstrapManifest(own, Declared, BootstrapCovered, BootstrapManual)
           Written(e, status, reason) == e = UniformEntry(status, reason, Declared)
<1>1. \A s \in Surfaces : \/ Written(m.entry[s], "covered", NoReason)
                          \/ Written(m.entry[s], "excepted", "manual_setup_not_done")
                          \/ Written(m.entry[s], "excepted", "first_gate_followup")
  BY DEF BootstrapManifest
<1>2. m.required = Declared /\ m.tracked = own
  BY DEF BootstrapManifest
<1>3. /\ "covered" \in SurfaceStatuses /\ "excepted" \in SurfaceStatuses
      /\ {"manual_setup_not_done", "first_gate_followup"} \subseteq ReasonCodes
      /\ ScaffoldAccepts("covered", NoReason)
      /\ ScaffoldAccepts("excepted", "manual_setup_not_done")
      /\ ScaffoldAccepts("excepted", "first_gate_followup")
  BY BootstrapAssumption DEF SurfaceStatuses, ScaffoldAccepts
<1>4. m \in Manifest
  <2>1. \A s \in Surfaces : m.entry[s] \in SurfaceEntry
    BY <1>1, <1>3, UniformEntryType
  <2>2. m.entry \in [Surfaces -> SurfaceEntry]
    BY <2>1 DEF BootstrapManifest
  <2>3. QED
    BY <2>2, DeclaredAssumption DEF BootstrapManifest, Manifest, defaultCompletionContract
<1>5. \A s \in own : EntryValid(m, s)
  <2> HIDE DEF m
  <2>1. TAKE s \in own
  <2>2. QED
    BY <1>1, <1>2, <1>3, UniformEntryValid
<1>6. QED
  BY <1>2, <1>4, <1>5 DEF Scaffold

(* The inductive invariant: until the first edit the file is as scaffolded. *)
Untouched == edits = 0 => Scaffold(manifest, scaffolded)

LifeInv == LifeTypeOK /\ Untouched

LEMMA LifeBegins == LifeInit => LifeInv
<1> SUFFICES ASSUME LifeInit PROVE LifeInv
  OBVIOUS
<1>1. Scaffold(Empty, {})
  <2>1. {} \in SUBSET Surfaces /\ "covered" \in SurfaceStatuses
        /\ ScaffoldAccepts("covered", NoReason)
    BY DEF SurfaceStatuses, ScaffoldAccepts
  <2>2. QED
    BY <2>1, UniformScaffold DEF Empty
<1>2. manifest = Empty /\ scaffolded = {} /\ edits = 0 /\ shipped \subseteq Surfaces
  BY DEF LifeInit
<1>3. 0 \in 0..MaxEdits
  BY MaxEditsAssumption
<1>4. QED
  BY <1>1, <1>2, <1>3 DEF LifeInv, LifeTypeOK, Untouched, Scaffold

LEMMA EditKeeps ==
  ASSUME LifeInv, NEW m \in Manifest, Edit(m)
  PROVE  LifeInv'
<1>1. edits' \in 0..MaxEdits /\ edits' # 0
  BY MaxEditsAssumption DEF LifeInv, LifeTypeOK, Edit
<1>2. QED
  BY <1>1 DEF LifeInv, LifeTypeOK, Untouched, Edit

LEMMA SaveKeeps ==
  ASSUME LifeInv, NEW m, Save(m), Scaffold(m, shipped)
  PROVE  LifeInv'
<1>1. 0 \in 0..MaxEdits
  BY MaxEditsAssumption
<1>2. QED
  BY <1>1 DEF LifeInv, LifeTypeOK, Untouched, Save, Scaffold

(* A manifest stays one when the entry of a surface is replaced by another. *)
LEMMA EntryEdited ==
  ASSUME NEW m \in Manifest, NEW s \in m.tracked, NEW e \in SurfaceEntry
  PROVE  [m EXCEPT !.entry = [@ EXCEPT ![s] = e]] \in Manifest
<1>1. m.entry \in [Surfaces -> SurfaceEntry] /\ s \in Surfaces
  BY DEF Manifest
<1>2. [m.entry EXCEPT ![s] = e] \in [Surfaces -> SurfaceEntry]
  BY <1>1
<1>3. QED
  BY <1>2 DEF Manifest

(* So does an entry when one of its fields is.                              *)
LEMMA FieldEdited ==
  ASSUME NEW A, NEW B, NEW C, NEW D,
         NEW e \in [status : A, reason : B, steps : C, views : D],
         NEW a \in A, NEW b \in B, NEW d \in D
  PROVE  /\ [e EXCEPT !.status = a] \in [status : A, reason : B, steps : C, views : D]
         /\ [e EXCEPT !.reason = b] \in [status : A, reason : B, steps : C, views : D]
         /\ [e EXCEPT !.views = d] \in [status : A, reason : B, steps : C, views : D]
OBVIOUS

LEMMA LifeStep == LifeInv /\ [LifeNext]_lifeVars => LifeInv'
<1> SUFFICES ASSUME LifeInv, [LifeNext]_lifeVars PROVE LifeInv'
  OBVIOUS
<1>0. shipped \in SUBSET Surfaces /\ manifest \in Manifest /\ manifest.tracked \subseteq Surfaces
  BY DEF LifeInv, LifeTypeOK, Manifest
<1>e. \A s \in manifest.tracked :
        /\ manifest.entry[s] \in SurfaceEntry
        /\ manifest.entry[s].status \in SurfaceStatuses \cup {"other"}
        /\ manifest.entry[s].reason \in ReasonCodes \cup {NoReason}
        /\ manifest.entry[s].views \in [Viewpoints -> ViewEntry]
  BY <1>0 DEF Manifest, SurfaceEntry
<1>1. CASE ScaffoldUniform
  BY <1>0, <1>1, UniformScaffold, SaveKeeps DEF ScaffoldUniform
<1>2. CASE ScaffoldBootstrap
  BY <1>0, <1>2, BootstrapScaffold, SaveKeeps DEF ScaffoldBootstrap
<1>3. CASE EditStatus
  <2>1. PICK s \in manifest.tracked, status \in SurfaceStatuses \cup {"other"} :
          Edit([manifest EXCEPT !.entry[s].status = status])
    BY <1>3 DEF EditStatus
  <2>2. [manifest.entry[s] EXCEPT !.status = status] \in SurfaceEntry
    BY <1>e, FieldEdited DEF SurfaceEntry
  <2>3. [manifest EXCEPT !.entry[s].status = status] \in Manifest
    BY <1>0, <2>2, EntryEdited
  <2>4. QED
    BY <2>1, <2>3, EditKeeps
<1>4. CASE EditReason
  <2>1. PICK s \in manifest.tracked, reason \in ReasonCodes \cup {NoReason} :
          Edit([manifest EXCEPT !.entry[s].reason = reason])
    BY <1>4 DEF EditReason
  <2>2. [manifest.entry[s] EXCEPT !.reason = reason] \in SurfaceEntry
    BY <1>e, FieldEdited DEF SurfaceEntry
  <2>3. [manifest EXCEPT !.entry[s].reason = reason] \in Manifest
    BY <1>0, <2>2, EntryEdited
  <2>4. QED
    BY <2>1, <2>3, EditKeeps
<1>5. CASE EditViewpoint
  <2>1. PICK s \in manifest.tracked, v \in Viewpoints, e \in ViewEntry :
          Edit([manifest EXCEPT !.entry[s].views[v] = e])
    BY <1>5 DEF EditViewpoint
  <2>0. [manifest.entry[s].views EXCEPT ![v] = e] \in [Viewpoints -> ViewEntry]
    BY <1>e
  <2>2. [manifest.entry[s] EXCEPT !.views = [@ EXCEPT ![v] = e]] \in SurfaceEntry
    BY <1>e, <2>0, FieldEdited DEF SurfaceEntry
  <2>3. [manifest EXCEPT !.entry[s].views[v] = e] \in Manifest
    BY <1>0, <2>2, EntryEdited
  <2>4. QED
    BY <2>1, <2>3, EditKeeps
<1>6. CASE EditRequired
  <2>1. PICK v \in Viewpoints :
          Edit([manifest EXCEPT !.required = IF v \in @ THEN @ \ {v} ELSE @ \cup {v}])
    BY <1>6 DEF EditRequired
  <2>2. [manifest EXCEPT !.required = IF v \in @ THEN @ \ {v} ELSE @ \cup {v}] \in Manifest
    BY <1>0 DEF Manifest
  <2>3. QED
    BY <2>1, <2>2, EditKeeps
<1>7. CASE ShippedChanges \/ UNCHANGED lifeVars
  BY <1>7 DEF LifeInv, LifeTypeOK, Untouched, ShippedChanges, lifeVars
<1>8. QED
  BY <1>1, <1>2, <1>3, <1>4, <1>5, <1>6, <1>7 DEF LifeNext

LEMMA LifeInvariant == LifeSpec => []LifeInv
<1>1. QED
  BY LifeBegins, LifeStep, PTL DEF LifeSpec

(* The manifest file always has the shape labctl reads.                    *)
THEOREM LifeType == LifeSpec => []LifeTypeOK
<1>1. LifeInv => LifeTypeOK
  BY DEF LifeInv
<1>2. QED
  BY <1>1, LifeInvariant, PTL

(* Whatever HO-Azure ships and whatever the bootstrap lists say, a manifest *)
(* as scaffold-manifest wrote it accounts for the surface it was derived    *)
(* from and for no other.                                                   *)
THEOREM ScaffoldIsAccountedFor == LifeSpec => []ScaffoldAccounts
<1>1. LifeInv => ScaffoldAccounts
  BY AccountsForItsOwn, DeclaredAssumption DEF LifeInv, Untouched, ScaffoldAccounts, Scaffold
<1>2. QED
  BY <1>1, LifeInvariant, PTL

(* An accepted manifest, however it was edited, hides no shipped surface.   *)
THEOREM NothingIsHidden == LifeSpec => []PlannedOrExplained
<1>1. LifeInv => PlannedOrExplained
  <2> SUFFICES ASSUME LifeInv, ManifestAccounts(manifest, shipped), NEW s \in shipped,
                      manifest.entry[s].reason = NoReason,
                      NEW v \in manifest.required,
                      manifest.entry[s].views[v].reason = NoReason
               PROVE  \E t \in AdmittedTasks(manifest) : t.surface = s
    BY DEF PlannedOrExplained
  <2>1. s \in manifest.tracked /\ EntryValid(manifest, s)
    BY DEF ManifestAccounts
  <2>2. manifest.entry[s].status = "covered" /\ manifest.entry[s].views[v].status = "covered"
    BY <2>1 DEF EntryValid, AccountedStatus
  <2>3. s \in Surfaces /\ v \in Viewpoints
    BY DEF LifeInv, LifeTypeOK, Manifest
  <2> DEFINE t == [surface |-> s, viewpoint |-> v]
  <2>4. t \in Tasks
    BY <2>3 DEF Tasks
  <2>5. t \in AdmittedTasks(manifest)
    BY <2>1, <2>2, <2>4 DEF AdmittedTasks, BuildSurfacePlan, RequiredViewpoints, Covered
  <2>6. QED
    BY <2>5
<1>2. QED
  BY <1>1, LifeInvariant, PTL

(* The release gate is the whole plan and nothing else, for every manifest  *)
(* and every request.                                                       *)
THEOREM GateIsWhole == LifeSpec => []GateIsTheWholePlan
<1>1. GateIsTheWholePlan
  <2>1. ASSUME NEW r \in Requests, r.viewpoint = All, r.selectors = {}, r.profile = NoProfile
        PROVE  /\ ProfileBuilds(manifest, r)
               /\ runProfileReleaseGate(BuildRunProfile(manifest, r))
    <3>1. ProfileBuilds(manifest, r)
      BY <2>1 DEF ProfileBuilds, validateRunProfileSelectors, SelectorsServed
    <3>2. SkippedTasks(manifest, r) = {}
      BY <2>1, DefaultSelectsAll DEF SkippedTasks
    <3>3. ProfileName(manifest, r) = "release-candidate"
      BY <2>1 DEF ProfileName, SelectedViewpoints
    <3>4. QED
      BY <3>1, <3>2, <3>3 DEF BuildRunProfile, runProfileReleaseGate
  <2>2. ASSUME NEW r \in Requests, AdmittedTasks(manifest) # SelectedTasks(manifest, r)
        PROVE  ~runProfileReleaseGate(BuildRunProfile(manifest, r))
    <3>1. SelectedTasks(manifest, r) \subseteq AdmittedTasks(manifest)
      BY DEF SelectedTasks
    <3>2. SkippedTasks(manifest, r) # {}
      BY <2>2, <3>1 DEF SkippedTasks
    <3>3. QED
      BY <3>2 DEF BuildRunProfile, runProfileReleaseGate
  <2>3. QED
    BY <2>1, <2>2 DEF GateIsTheWholePlan
<1>2. QED
  BY <1>1, PTL

(* A skipped check is skipped for the reason on record.                     *)
THEOREM SkipReasons == LifeSpec => []SkipReasonsAreTrue
<1>1. SkipReasonsAreTrue
  <2> SUFFICES ASSUME NEW r \in Requests, NEW t \in SkippedTasks(manifest, r)
               PROVE  IF SkippedReason(manifest, r, t) = "surface_not_selected"
                        THEN r.selectors # {} /\ t.surface \notin r.selectors
                        ELSE t.viewpoint # r.viewpoint /\ r.viewpoint # All
    BY DEF SkipReasonsAreTrue, BuildRunProfile
  <2>1. /\ t \in AdmittedTasks(manifest) /\ t.viewpoint \in manifest.required
        /\ t \notin SelectedTasks(manifest, r)
    BY AdmittedRequired DEF SkippedTasks
  <2>2. \/ t.viewpoint \notin SelectedViewpoints(manifest, r.viewpoint)
        \/ r.selectors # {} /\ t.surface \notin r.selectors
    BY <2>1 DEF SelectedTasks, taskSelectorMatches
  <2>3. QED
    BY <2>1, <2>2 DEF SkippedReason, SelectedViewpoints, RequiredViewpoints
<1>2. QED
  BY <1>1, PTL

(* Every surface asked for by flag or by file is run, or nothing is.        *)
THEOREM SelectorsAreServed == LifeSpec => []NoSelectorIsDropped
<1>1. NoSelectorIsDropped
  <2> SUFFICES ASSUME NEW r \in Requests, NEW f \in Requests,
                      ProfileBuilds(manifest, applyRunProfileFile(r, f)),
                      NEW s \in r.selectors \cup f.selectors
               PROVE  \E t \in BuildRunProfile(manifest, applyRunProfileFile(r, f)).selected :
                         t.surface = s
    BY DEF NoSelectorIsDropped
  <2> DEFINE merged == applyRunProfileFile(r, f)
  <2>1. s \in merged.selectors
    BY LifeRequestsAssumption DEF applyRunProfileFile, Request
  <2>2. \E t \in SelectedTasks(manifest, merged) : t.surface = s
    <3> HIDE DEF merged
    <3>1. QED
      BY <2>1 DEF ProfileBuilds, SelectorsServed, merged
  <2>3. QED
    BY <2>2 DEF BuildRunProfile
<1>2. QED
  BY <1>1, PTL
=============================================================================
