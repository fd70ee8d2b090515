----------------------- MODULE PostureFindings_proofs -----------------------
(***************************************************************************)
(* The posture findings of keyvault, storage and resource-trusts, for any  *)
(* vaults and accounts, any order of the three commands and any number of  *)
(* edits.                                                                  *)
(***************************************************************************)
EXTENDS PostureFindings, SequenceTheorems, TLAPS

-----------------------------------------------------------------------------
(* The three sets of expectations *)

VaultsOfAzure == [Vaults -> VaultPosture \cup {Gone}]
AccountsOfAzure == [Accounts -> AccountPosture \cup {Gone}]

(* What a capture writes: the resources that are there.                    *)
Recorded(azure) == Restrict(azure, There(azure))

LEMMA RecordedVaults ==
  ASSUME NEW vs \in VaultsOfAzure
  PROVE  /\ There(vs) \subseteq Vaults
         /\ Recorded(vs) \in [There(vs) -> VaultPosture]
         /\ There(Recorded(vs)) = There(vs)
         /\ \A r \in There(vs) : Recorded(vs)[r] = vs[r] /\ vs[r] \in VaultPosture
BY DEF VaultsOfAzure, Recorded, Restrict, There

LEMMA RecordedAccounts ==
  ASSUME NEW ac \in AccountsOfAzure
  PROVE  /\ There(ac) \subseteq Accounts
         /\ Recorded(ac) \in [There(ac) -> AccountPosture]
         /\ There(Recorded(ac)) = There(ac)
         /\ \A r \in There(ac) : Recorded(ac)[r] = ac[r] /\ ac[r] \in AccountPosture
BY DEF AccountsOfAzure, Recorded, Restrict, There

(* Kind by kind, the findings keyvault is asked for are the true ones, and *)
(* resource-trusts is asked for the same but purge protection.             *)
LEMMA VaultKindsMatch ==
  ASSUME NEW p \in VaultPosture
  PROVE  /\ VaultFindings(p) = TrueOfVault(p) /\ TrueOfVault(p) \subseteq VaultKinds
         /\ VaultNetworkFinding(p) = TrueOfVault(p) \ {"purge-protection-disabled"}
<1>1. p.public \in BOOLEAN /\ p.endpoint \in BOOLEAN /\ p.purge \in BOOLEAN /\ p.action \in Actions
  BY DEF VaultPosture
<1>2. TrueOfVault(p) \subseteq VaultKinds
  BY DEF TrueOfVault
<1>3. /\ "public-network-open" \in TrueOfVault(p) <=> Reachable(p)
      /\ "public-network-enabled" \in TrueOfVault(p) <=> p.public /\ ~p.endpoint /\ ~Reachable(p)
      /\ "public-network-with-private-endpoint" \in TrueOfVault(p) <=> p.public /\ p.endpoint
      /\ "purge-protection-disabled" \in TrueOfVault(p) <=> ~p.purge
  BY DEF TrueOfVault, VaultKinds
<1>4. /\ "public-network-open" \in VaultNetworkFinding(p) <=> Reachable(p)
      /\ "public-network-enabled" \in VaultNetworkFinding(p)
            <=> p.public /\ ~p.endpoint /\ ~Reachable(p)
      /\ "public-network-with-private-endpoint" \in VaultNetworkFinding(p)
            <=> p.public /\ p.endpoint
  <2>1. p.action = "Allow" \/ p.action = "Deny" \/ p.action = "none"
    BY <1>1 DEF Actions
  <2>2. CASE ~p.public
    BY <2>2 DEF VaultNetworkFinding, Reachable
  <2>3. CASE p.public /\ p.endpoint
    <3>1. VaultNetworkFinding(p) = {"public-network-with-private-endpoint"}
      BY <2>3 DEF VaultNetworkFinding
    <3>2. QED
      BY <2>3, <3>1 DEF Reachable
  <2>4. CASE p.public /\ ~p.endpoint /\ p.action = "Deny"
    <3>1. VaultNetworkFinding(p) = {"public-network-enabled"}
      BY <2>4 DEF VaultNetworkFinding, ImplicitOpenACL
    <3>2. QED
      BY <2>4, <3>1 DEF Reachable
  <2>5. CASE p.public /\ ~p.endpoint /\ p.action # "Deny"
    <3>1. VaultNetworkFinding(p) = {"public-network-open"}
      BY <2>1, <2>5 DEF VaultNetworkFinding, ImplicitOpenACL
    <3>2. QED
      BY <2>5, <3>1 DEF Reachable
  <2>6. QED
    BY <2>2, <2>3, <2>4, <2>5
<1>5. /\ VaultNetworkFinding(p) \subseteq VaultKinds \ {"purge-protection-disabled"}
      /\ VaultFindings(p) \subseteq VaultKinds
  BY DEF VaultKinds, VaultNetworkFinding, VaultFindings
<1>6. VaultNetworkFinding(p) = TrueOfVault(p) \ {"purge-protection-disabled"}
  BY <1>2, <1>3, <1>4, <1>5 DEF VaultKinds
<1>7. VaultFindings(p) = TrueOfVault(p)
  BY <1>2, <1>3, <1>5, <1>6 DEF VaultFindings
<1>8. QED
  BY <1>2, <1>6, <1>7

LEMMA FindingFields ==
  ASSUME NEW k, NEW r, NEW l, NEW s
  PROVE  /\ Finding(k, r).kind = k /\ Finding(k, r).of = r
         /\ Finding(k, r) = Finding(l, s) <=> k = l /\ r = s
BY DEF Finding

LEMMA VaultsAsked ==
  ASSUME NEW vs \in VaultsOfAzure
  PROVE  /\ About(Recorded(vs), VaultFindings) = About(vs, TrueOfVault)
         /\ About(Recorded(vs), VaultNetworkFinding) =
              {f \in About(vs, TrueOfVault) : f.kind # "purge-protection-disabled"}
         /\ About(vs, TrueOfVault) \subseteq VaultClaims
         /\ \A f \in About(vs, TrueOfVault) : f.of \in There(vs)
<1>1. \A r \in There(vs) : /\ Recorded(vs)[r] = vs[r] /\ r \in Vaults
                           /\ VaultFindings(vs[r]) = TrueOfVault(vs[r])
                           /\ TrueOfVault(vs[r]) \subseteq VaultKinds
                           /\ VaultNetworkFinding(vs[r]) =
                                TrueOfVault(vs[r]) \ {"purge-protection-disabled"}
  BY RecordedVaults, VaultKindsMatch
<1>2. There(Recorded(vs)) = There(vs)
  BY RecordedVaults
<1>3. About(Recorded(vs), VaultFindings) = About(vs, TrueOfVault)
  BY <1>1, <1>2 DEF About
<1>4. About(vs, TrueOfVault) \subseteq VaultClaims
  BY <1>1 DEF About, VaultClaims
<1>5. \A f \in About(vs, TrueOfVault) : f.of \in There(vs)
  BY FindingFields DEF About
<1>6. About(Recorded(vs), VaultNetworkFinding) =
        {f \in About(vs, TrueOfVault) : f.kind # "purge-protection-disabled"}
  BY <1>1, <1>2, FindingFields DEF About
<1>7. QED
  BY <1>3, <1>4, <1>5, <1>6

LEMMA AccountsAsked ==
  ASSUME NEW ac \in AccountsOfAzure
  PROVE  /\ About(Recorded(ac), AccountFindings) = About(ac, AccountFindings)
         /\ About(ac, AccountFindings) \subseteq AccountClaims
         /\ \A f \in About(ac, AccountFindings) : f.of \in There(ac)
<1>1. \A r \in There(ac) : Recorded(ac)[r] = ac[r] /\ r \in Accounts
  BY RecordedAccounts
<1>2. There(Recorded(ac)) = There(ac)
  BY RecordedAccounts
<1>3. About(Recorded(ac), AccountFindings) = About(ac, AccountFindings)
  BY <1>1, <1>2 DEF About
<1>4. ASSUME NEW f \in About(ac, AccountFindings)
      PROVE  f \in AccountClaims /\ f.of \in There(ac)
  <2>1. PICK r \in There(ac) : \E k \in AccountFindings(ac[r]) : f = Finding(k, r)
    BY DEF About
  <2>2. PICK k \in AccountFindings(ac[r]) : f = Finding(k, r)
    BY <2>1
  <2>3. k \in AccountKinds
    BY DEF AccountFindings, AccountKinds
  <2>4. f.of = r /\ r \in Accounts
    BY <1>1, <2>2, FindingFields
  <2>5. f \in AccountClaims
    BY <2>2, <2>3, <2>4 DEF AccountClaims
  <2>6. QED
    BY <2>4, <2>5
<1>5. QED
  BY <1>3, <1>4

LEMMA TrustsAsked ==
  ASSUME NEW vs \in VaultsOfAzure, NEW ac \in AccountsOfAzure
  PROVE  expectedResourceTrusts(Recorded(vs), Recorded(ac)) = expectedResourceTrusts(vs, ac)
<1>1. \A r \in There(vs) : Recorded(vs)[r] = vs[r]
  BY RecordedVaults
<1>2. \A r \in There(ac) : Recorded(ac)[r] = ac[r]
  BY RecordedAccounts
<1>3. There(Recorded(vs)) = There(vs) /\ There(Recorded(ac)) = There(ac)
  BY RecordedVaults, RecordedAccounts
<1>4. QED
  BY <1>1, <1>2, <1>3 DEF expectedResourceTrusts

-----------------------------------------------------------------------------
(* The inductive invariant *)

RecordedVaultSets == UNION {[D -> VaultPosture] : D \in SUBSET Vaults}
RecordedAccountSets == UNION {[D -> AccountPosture] : D \in SUBSET Accounts}

Fits ==
  /\ vaults \in VaultsOfAzure /\ accounts \in AccountsOfAzure
  /\ step \in [at : 1..4, done : {"nothing", "told", "vaults"}]
  /\ Running /\ step.done = "vaults" => Command = "resource-trusts"
  /\ told = [c \in Commands |-> told[c]]
  /\ context \in [Commands -> [vaults : RecordedVaultSets, accounts : RecordedAccountSets]]
  /\ edits \in Nat /\ quiet \subseteq Commands
  /\ edits = 0 => quiet = Commands

(* What the tool tells of an Azure, and what the captures of a command     *)
(* record of it.                                                           *)
TellsOf(c, vs, ac) ==
  LET v == Toggle(About(vs, TrueOfVault), VaultClaims)
      a == Toggle(About(ac, AccountFindings), AccountClaims)
  IN  CASE c = "keyvault" -> [findings |-> v, rows |-> {}]
        [] c = "storage"  -> [findings |-> a, rows |-> {}]
        [] OTHER -> [findings |-> (v \cup a) \cap NetworkClaims,
                     rows |-> Toggle(expectedResourceTrusts(vs, ac),
                                     slip \ (VaultClaims \cup AccountClaims))]

Saw(c, vs, ac) ==
  /\ told[c] = TellsOf(c, vs, ac)
  /\ c # "storage" => context[c].vaults = Recorded(vs)
  /\ c # "keyvault" => context[c].accounts = Recorded(ac)

Done(c) == \E i \in 1..3 : i < step.at /\ CommandOrder[i] = c

(* A quiet command that is done told of one Azure and recorded the same;   *)
(* when there was no edit at all, it is the Azure of now.                  *)
SawOne ==
  \A c \in quiet : Done(c) =>
    \E vs \in VaultsOfAzure : \E ac \in AccountsOfAzure : Saw(c, vs, ac)

SawThis == edits = 0 => \A c \in Commands : Done(c) => Saw(c, vaults, accounts)

(* A quiet command that is under way has told of the Azure of now, and     *)
(* recorded its vaults.                                                    *)
InHand ==
  Running /\ step.done # "nothing" /\ Command \in quiet =>
    /\ told[Command] = TellsOf(Command, vaults, accounts)
    /\ step.done = "vaults" => context[Command].vaults = Recorded(vaults)

PostureInv == Fits /\ SawOne /\ SawThis /\ InHand

-----------------------------------------------------------------------------
(* The steps *)

(* The order runs each command once.                                       *)
LEMMA OrderFacts ==
  /\ DOMAIN CommandOrder = 1..3
  /\ \A i \in 1..3 : CommandOrder[i] \in Commands
  /\ \A i, j \in 1..3 : CommandOrder[i] = CommandOrder[j] => i = j
  /\ \A c \in Commands : \E i \in 1..3 : CommandOrder[i] = c
<1>1. DOMAIN CommandOrder = 1..3 /\ \A i \in 1..3 : CommandOrder[i] \in Commands
  <2>1. CommandOrder \in Seq(Commands) /\ Len(CommandOrder) = 3
    BY OrderAssumption
  <2>2. QED
    BY <2>1, LenProperties, ElementOfSeq
<1>2. \A c \in Commands : \E i \in 1..3 : CommandOrder[i] = c
  BY <1>1, OrderAssumption DEF ToSet
<1>3. CommandOrder[1] # CommandOrder[2] /\ CommandOrder[1] # CommandOrder[3]
      /\ CommandOrder[2] # CommandOrder[3]
  <2>1. \A c \in Commands : c = CommandOrder[1] \/ c = CommandOrder[2] \/ c = CommandOrder[3]
    BY <1>2
  <2>2. QED
    BY <2>1 DEF Commands
<1>4. \A i, j \in 1..3 : CommandOrder[i] = CommandOrder[j] => i = j
  BY <1>3
<1>5. QED
  BY <1>1, <1>2, <1>4

LEMMA AtHand ==
  ASSUME Fits, Running
  PROVE  step.at \in 1..3 /\ Command \in Commands /\ ~Done(Command)
<1>1. step.at \in 1..3
  BY OrderFacts DEF Fits, Running
<1>2. QED
  BY <1>1, OrderFacts DEF Command, Done

(* What a finished command saw is not touched by the others.               *)
LEMMA SawKept ==
  ASSUME UNCHANGED slip, NEW c \in Commands, told'[c] = told[c], context'[c] = context[c],
         NEW vs, NEW ac, Saw(c, vs, ac)
  PROVE  Saw(c, vs, ac)'
BY DEF Saw, TellsOf, Toggle

LEMMA PostureInit == Init => PostureInv
<1> SUFFICES ASSUME Init PROVE PostureInv
  OBVIOUS
<1>1. Nobody \in RecordedVaultSets /\ Nobody \in RecordedAccountSets
  <2>1. Nobody \in [{} -> VaultPosture] /\ Nobody \in [{} -> AccountPosture]
    BY DEF Nobody
  <2>2. QED
    BY <2>1 DEF RecordedVaultSets, RecordedAccountSets
<1>2. Fits
  <2>1. context \in [Commands -> [vaults : RecordedVaultSets, accounts : RecordedAccountSets]]
    BY <1>1 DEF Init, NothingRecorded
  <2>2. told = [c \in Commands |-> told[c]]
    BY DEF Init
  <2>3. QED
    BY <2>1, <2>2 DEF Init, Fits, VaultsOfAzure, AccountsOfAzure
<1>3. \A c : ~Done(c)
  BY DEF Init, Done
<1>4. SawOne /\ SawThis /\ InHand
  BY <1>3 DEF Init, SawOne, SawThis, InHand, Fits
<1>5. QED
  BY <1>2, <1>4 DEF PostureInv

LEMMA TellStep == PostureInv /\ TellPayload => PostureInv'
<1> SUFFICES ASSUME PostureInv, TellPayload PROVE PostureInv'
  OBVIOUS
<1>1. /\ Running /\ step.done = "nothing" /\ told' = [told EXCEPT ![Command] = Tells(Command)]
      /\ step' = [step EXCEPT !.done = "told"]
      /\ UNCHANGED <<vaults, accounts, slip, context, edits, quiet>>
  BY DEF TellPayload
<1>2. Fits /\ step.at \in 1..3 /\ Command \in Commands /\ ~Done(Command)
  BY <1>1, AtHand DEF PostureInv
<1>3. step'.at = step.at /\ step'.done = "told" /\ Command' = Command /\ \A c : Done(c)' <=> Done(c)
  BY <1>1, <1>2 DEF Fits, Command, Done
<1>4. \A c \in Commands \ {Command} : told'[c] = told[c]
  BY <1>1, <1>2 DEF Fits
<1>5. told'[Command] = TellsOf(Command, vaults, accounts)
  <2>1. told'[Command] = Tells(Command)
    BY <1>1, <1>2 DEF Fits
  <2>2. QED
    BY <2>1 DEF Tells, TellsOf
<1>6. Fits'
  <2>1. step' \in [at : 1..4, done : {"nothing", "told", "vaults"}]
    BY <1>1 DEF PostureInv, Fits
  <2>2. told' = [c \in Commands |-> told'[c]]
    BY <1>1, <1>2 DEF Fits
  <2>3. QED
    BY <1>1, <1>3, <2>1, <2>2 DEF PostureInv, Fits
<1>7. ASSUME NEW c \in Commands, Done(c)', NEW vs, NEW ac, Saw(c, vs, ac) PROVE Saw(c, vs, ac)'
  <2>1. c # Command
    BY <1>2, <1>3, <1>7
  <2>2. QED
    BY <1>1, <1>4, <1>7, <2>1, SawKept
<1>8. SawOne'
  BY <1>1, <1>2, <1>3, <1>7 DEF PostureInv, SawOne, Fits
<1>9. SawThis'
  <2>1. SUFFICES ASSUME edits = 0, NEW c \in Commands, Done(c)' PROVE Saw(c, vaults, accounts)'
    BY <1>1 DEF SawThis
  <2>2. Saw(c, vaults, accounts)
    BY <1>3, <2>1 DEF PostureInv, SawThis
  <2>3. QED
    BY <1>1, <1>4, <1>2, <1>3, <2>1, <2>2 DEF Saw, TellsOf, Toggle
<1>10. InHand'
  <2>1. told'[Command'] = TellsOf(Command, vaults, accounts)'
    BY <1>1, <1>3, <1>5 DEF TellsOf, Toggle
  <2>2. QED
    BY <1>3, <2>1 DEF InHand
<1>11. QED
  BY <1>6, <1>8, <1>9, <1>10 DEF PostureInv

(* A command that is done has told and recorded; the others are untouched. *)
LEMMA Finishing ==
  ASSUME PostureInv, Running, step' = [at |-> step.at + 1, done |-> "nothing"],
         UNCHANGED <<vaults, accounts, slip, told, edits, quiet>>,
         \A c \in Commands \ {Command} : context'[c] = context[c],
         Command \in quiet =>
            /\ told[Command] = TellsOf(Command, vaults, accounts)
            /\ Command # "storage" => context'[Command].vaults = Recorded(vaults)
            /\ Command # "keyvault" => context'[Command].accounts = Recorded(accounts)
  PROVE  SawOne' /\ SawThis' /\ InHand'
<1>1. Fits /\ step.at \in 1..3 /\ Command \in Commands
  BY AtHand DEF PostureInv
<1>2. step'.at = step.at + 1 /\ step'.done = "nothing"
  OBVIOUS
<1>3. ASSUME NEW c, Done(c)' PROVE Done(c) \/ c = Command
  <2>1. PICK i \in 1..3 : i < step.at + 1 /\ CommandOrder[i] = c
    BY <1>2, <1>3 DEF Done
  <2>2. i < step.at \/ i = step.at
    BY <1>1, <2>1
  <2>3. QED
    BY <2>1, <2>2 DEF Done, Command
<1>4. ASSUME Command \in quiet, NEW c, c = Command PROVE Saw(c, vaults, accounts)'
  BY <1>4 DEF Saw, TellsOf, Toggle, Recorded
<1>5. ASSUME NEW c \in Commands, c # Command, NEW vs, NEW ac, Saw(c, vs, ac)
      PROVE  Saw(c, vs, ac)'
  BY <1>5, SawKept
<1>6. SawOne'
  <2>1. SUFFICES ASSUME NEW c \in quiet, Done(c)'
                 PROVE  \E vs \in VaultsOfAzure : \E ac \in AccountsOfAzure : Saw(c, vs, ac)'
    BY DEF SawOne
  <2>2. CASE c = Command
    BY <1>1, <1>4, <2>2 DEF Fits, Saw, TellsOf, Toggle, Recorded
  <2>3. CASE c # Command
    <3>1. Done(c) /\ c \in Commands
      BY <1>1, <1>3, <2>1, <2>3 DEF Fits
    <3>2. PICK vs \in VaultsOfAzure, ac \in AccountsOfAzure : Saw(c, vs, ac)
      BY <2>1, <3>1 DEF PostureInv, SawOne
    <3>3. QED
      BY <1>5, <2>3, <3>1, <3>2
  <2>4. QED
    BY <2>2, <2>3
<1>7. SawThis'
  <2>1. SUFFICES ASSUME edits = 0, NEW c \in Commands, Done(c)'
                 PROVE  Saw(c, vaults, accounts)'
    BY DEF SawThis
  <2>2. CASE c = Command
    <3>1. Command \in quiet
      BY <1>1, <2>1 DEF Fits
    <3>2. QED
      BY <1>4, <2>2, <3>1
  <2>3. CASE c # Command
    <3>1. Saw(c, vaults, accounts)
      BY <1>3, <2>1, <2>3 DEF PostureInv, SawThis
    <3>2. context'[c] = context[c]
      BY <2>1, <2>3
    <3>3. QED
      BY <3>1, <3>2 DEF Saw, TellsOf, Toggle, Recorded
  <2>4. QED
    BY <2>2, <2>3
<1>8. InHand'
  BY <1>2 DEF InHand
<1>9. QED
  BY <1>6, <1>7, <1>8

LEMMA RecordedTypes ==
  ASSUME Fits
  PROVE  Recorded(vaults) \in RecordedVaultSets /\ Recorded(accounts) \in RecordedAccountSets
<1>1. /\ There(vaults) \subseteq Vaults /\ Recorded(vaults) \in [There(vaults) -> VaultPosture]
      /\ There(accounts) \subseteq Accounts
      /\ Recorded(accounts) \in [There(accounts) -> AccountPosture]
  BY RecordedVaults, RecordedAccounts DEF Fits
<1>2. QED
  BY <1>1 DEF RecordedVaultSets, RecordedAccountSets

LEMMA CaptureVaultsStep == PostureInv /\ CaptureVaults => PostureInv'
<1> SUFFICES ASSUME PostureInv, CaptureVaults PROVE PostureInv'
  OBVIOUS
<1>1. /\ Running /\ step.done = "told" /\ Command # "storage"
      /\ context' = [context EXCEPT ![Command].vaults = Recorded(vaults)]
      /\ step' = IF Command = "keyvault" THEN [at |-> step.at + 1, done |-> "nothing"]
                 ELSE [step EXCEPT !.done = "vaults"]
      /\ UNCHANGED <<vaults, accounts, slip, told, edits, quiet>>
  BY DEF CaptureVaults, Recorded
<1>2. Fits /\ step.at \in 1..3 /\ Command \in Commands /\ ~Done(Command)
  BY <1>1, AtHand DEF PostureInv
<1>3. /\ context' \in [Commands -> [vaults : RecordedVaultSets, accounts : RecordedAccountSets]]
      /\ \A c \in Commands \ {Command} : context'[c] = context[c]
      /\ context'[Command].vaults = Recorded(vaults)
  BY <1>1, <1>2, RecordedTypes DEF Fits
<1>4. CASE Command = "keyvault"
  <2>1. step' = [at |-> step.at + 1, done |-> "nothing"]
    BY <1>1, <1>4
  <2>2. Command \in quiet => told[Command] = TellsOf(Command, vaults, accounts)
    BY <1>1 DEF PostureInv, InHand
  <2>3. SawOne' /\ SawThis' /\ InHand'
    BY <1>1, <1>3, <1>4, <2>1, <2>2, Finishing
  <2>4. Fits'
    <3>1. step' \in [at : 1..4, done : {"nothing", "told", "vaults"}] /\ step'.done = "nothing"
      BY <1>2, <2>1
    <3>2. QED
      BY <1>1, <1>2, <1>3, <3>1 DEF Fits
  <2>5. QED
    BY <2>3, <2>4 DEF PostureInv
<1>5. CASE Command # "keyvault"
  <2>1. step' = [step EXCEPT !.done = "vaults"] /\ Command = "resource-trusts"
    BY <1>1, <1>2, <1>5 DEF Commands
  <2>2. /\ step'.at = step.at /\ step'.done = "vaults" /\ Command' = Command
        /\ step' \in [at : 1..4, done : {"nothing", "told", "vaults"}]
        /\ \A c : Done(c)' <=> Done(c)
    BY <1>2, <2>1 DEF Fits, Command, Done
  <2>3. Fits'
    BY <1>1, <1>2, <1>3, <2>1, <2>2 DEF Fits
  <2>4. SawOne'
    <3>1. SUFFICES ASSUME NEW c \in quiet, Done(c)'
                   PROVE  \E vs \in VaultsOfAzure : \E ac \in AccountsOfAzure : Saw(c, vs, ac)'
      BY <1>1 DEF SawOne
    <3>2. Done(c) /\ c \in Commands /\ c # Command
      BY <1>2, <2>2, <3>1 DEF Fits
    <3>3. PICK vs \in VaultsOfAzure, ac \in AccountsOfAzure : Saw(c, vs, ac)
      BY <3>1, <3>2 DEF PostureInv, SawOne
    <3>4. QED
      BY <1>1, <1>3, <3>2, <3>3, SawKept
  <2>5. SawThis'
    <3>1. SUFFICES ASSUME edits = 0, NEW c \in Commands, Done(c)'
                   PROVE  Saw(c, vaults, accounts)'
      BY <1>1 DEF SawThis
    <3>2. Saw(c, vaults, accounts) /\ c # Command
      BY <1>2, <2>2, <3>1 DEF PostureInv, SawThis
    <3>3. context'[c] = context[c]
      BY <1>3, <3>1, <3>2
    <3>4. QED
      BY <1>1, <3>2, <3>3 DEF Saw, TellsOf, Toggle, Recorded
  <2>6. InHand'
    <3>1. Command \in quiet => told[Command] = TellsOf(Command, vaults, accounts)
      BY <1>1 DEF PostureInv, InHand
    <3>2. QED
      BY <1>1, <1>3, <2>2, <3>1 DEF InHand, TellsOf, Toggle, Recorded
  <2>7. QED
    BY <2>3, <2>4, <2>5, <2>6 DEF PostureInv
<1>6. QED
  BY <1>4, <1>5

LEMMA CaptureAccountsStep == PostureInv /\ CaptureAccounts => PostureInv'
<1> SUFFICES ASSUME PostureInv, CaptureAccounts PROVE PostureInv'
  OBVIOUS
<1>1. /\ Running /\ step.done = (IF Command = "storage" THEN "told" ELSE "vaults")
      /\ Command # "keyvault"
      /\ context' = [context EXCEPT ![Command].accounts = Recorded(accounts)]
      /\ step' = [at |-> step.at + 1, done |-> "nothing"]
      /\ UNCHANGED <<vaults, accounts, slip, told, edits, quiet>>
  BY DEF CaptureAccounts, Recorded
<1>2. Fits /\ step.at \in 1..3 /\ Command \in Commands
  BY <1>1, AtHand DEF PostureInv
<1>3. /\ context' \in [Commands -> [vaults : RecordedVaultSets, accounts : RecordedAccountSets]]
      /\ \A c \in Commands \ {Command} : context'[c] = context[c]
      /\ context'[Command].accounts = Recorded(accounts)
      /\ context'[Command].vaults = context[Command].vaults
  BY <1>1, <1>2, RecordedTypes DEF Fits
<1>4. Command \in quiet =>
        /\ told[Command] = TellsOf(Command, vaults, accounts)
        /\ Command # "storage" => context'[Command].vaults = Recorded(vaults)
  BY <1>1, <1>3 DEF PostureInv, InHand
<1>5. SawOne' /\ SawThis' /\ InHand'
  BY <1>1, <1>3, <1>4, Finishing
<1>6. Fits'
  <2>1. step' \in [at : 1..4, done : {"nothing", "told", "vaults"}] /\ step'.done = "nothing"
    BY <1>1, <1>2
  <2>2. QED
    BY <1>1, <1>2, <1>3, <2>1 DEF Fits
<1>7. QED
  BY <1>5, <1>6 DEF PostureInv

LEMMA EditStep == PostureInv /\ EditAzure => PostureInv'
<1> SUFFICES ASSUME PostureInv, EditAzure PROVE PostureInv'
  OBVIOUS
<1>1. /\ Running /\ edits' = edits + 1
      /\ quiet' = IF step.done = "nothing" THEN quiet ELSE quiet \ {Command}
      /\ UNCHANGED <<slip, step, told, context>>
  BY DEF EditAzure
<1>2. vaults' \in VaultsOfAzure /\ accounts' \in AccountsOfAzure
  <2>1. CASE UNCHANGED accounts
    <3>1. CASE UNCHANGED vaults
      BY <2>1, <3>1 DEF PostureInv, Fits
    <3>2. CASE ~UNCHANGED vaults
      <4>1. PICK v \in There(vaults), p \in VaultPosture : vaults' = [vaults EXCEPT ![v] = p]
        BY <3>2 DEF EditAzure
      <4>2. QED
        BY <2>1, <4>1 DEF PostureInv, Fits, VaultsOfAzure
    <3>3. QED
      BY <3>1, <3>2
  <2>2. CASE ~UNCHANGED accounts
    <3>1. UNCHANGED vaults
      BY <2>2 DEF EditAzure
    <3>2. PICK a \in There(accounts), p \in AccountPosture :
            accounts' = [accounts EXCEPT ![a] = p]
      BY <2>2 DEF EditAzure
    <3>3. QED
      BY <3>1, <3>2 DEF PostureInv, Fits, AccountsOfAzure
  <2>3. QED
    BY <2>1, <2>2
<1>3. Command' = Command /\ quiet' \subseteq quiet /\ \A c : Done(c)' <=> Done(c)
  BY <1>1 DEF Command, Done
<1>4. Fits'
  <2>1. edits' \in Nat /\ edits' # 0
    BY <1>1 DEF PostureInv, Fits
  <2>2. Running' /\ step'.done = "vaults" => Command' = "resource-trusts"
    BY <1>1, <1>3 DEF PostureInv, Fits
  <2>3. QED
    BY <1>1, <1>2, <1>3, <2>1, <2>2 DEF PostureInv, Fits
<1>5. SawOne'
  <2>1. SUFFICES ASSUME NEW c \in quiet, Done(c)
                 PROVE  \E vs \in VaultsOfAzure : \E ac \in AccountsOfAzure : Saw(c, vs, ac)'
    BY <1>3 DEF SawOne
  <2>2. PICK vs \in VaultsOfAzure, ac \in AccountsOfAzure : Saw(c, vs, ac)
    BY <2>1 DEF PostureInv, SawOne
  <2>3. c \in Commands
    BY DEF PostureInv, Fits
  <2>4. QED
    BY <1>1, <2>2, <2>3, SawKept
<1>6. SawThis'
  <2>1. edits' # 0
    BY <1>1 DEF PostureInv, Fits
  <2>2. QED
    BY <2>1 DEF SawThis
<1>7. InHand'
  BY <1>1, <1>3 DEF InHand
<1>8. QED
  BY <1>4, <1>5, <1>6, <1>7 DEF PostureInv

LEMMA PostureStutter == PostureInv /\ UNCHANGED vars => PostureInv'
<1> SUFFICES ASSUME PostureInv, UNCHANGED vars PROVE PostureInv'
  OBVIOUS
<1>1. UNCHANGED <<vaults, accounts, slip, step, told, context, edits, quiet>>
  BY DEF vars
<1>2. Fits' /\ InHand'
  BY <1>1 DEF PostureInv, Fits, InHand, Running, Command, TellsOf, Toggle, Recorded
<1>3. SawOne' /\ SawThis'
  <2>1. \A c : Done(c)' <=> Done(c)
    BY <1>1 DEF Done
  <2>2. \A c, vs, ac : Saw(c, vs, ac)' <=> Saw(c, vs, ac)
    BY <1>1 DEF Saw, TellsOf, Toggle
  <2>3. QED
    BY <1>1, <2>1, <2>2 DEF PostureInv, SawOne, SawThis
<1>4. QED
  BY <1>2, <1>3 DEF PostureInv

(* Between two edits what a command told, what its captures recorded and   *)
(* Azure itself are one.                                                   *)
THEOREM PostureInvariant == Spec => []PostureInv
<1>1. PostureInv /\ [Next]_vars => PostureInv'
  BY TellStep, CaptureVaultsStep, CaptureAccountsStep, EditStep, PostureStutter DEF Next
<1>2. QED
  BY PostureInit, <1>1, PTL DEF Spec

-----------------------------------------------------------------------------
(* What follows *)

LEMMA AllDone ==
  ASSUME Fits, Finished
  PROVE  \A c \in Commands : Done(c)
<1>1. step.at \in 1..4 /\ step.at \notin 1..3
  BY OrderFacts DEF Fits, Finished, Running
<1>2. step.at = 4
  BY <1>1
<1>3. QED
  BY <1>2, OrderFacts DEF Done

(* What a truthful resource-trusts tells of the network is what its        *)
(* validator expects.                                                      *)
LEMMA NetworkAsked ==
  ASSUME NEW vs \in VaultsOfAzure, NEW ac \in AccountsOfAzure
  PROVE  expectedResourceTrustFindings(Recorded(vs), Recorded(ac)) =
           (About(vs, TrueOfVault) \cup About(ac, AccountFindings)) \cap NetworkClaims
<1> DEFINE V == About(vs, TrueOfVault)
           A == About(ac, AccountFindings)
<1>1. /\ V \subseteq VaultClaims /\ A \subseteq AccountClaims
      /\ About(Recorded(vs), VaultNetworkFinding) = {f \in V : f.kind # "purge-protection-disabled"}
      /\ About(Recorded(ac), AccountFindings) = A
  BY VaultsAsked, AccountsAsked
<1>2. \A f \in VaultClaims : f \notin AccountClaims
  <2>1. ASSUME NEW f \in VaultClaims, f \in AccountClaims PROVE FALSE
    <3>1. f.kind \in VaultKinds
      BY FindingFields DEF VaultClaims
    <3>2. f.kind \in AccountKinds
      BY <2>1, FindingFields DEF AccountClaims
    <3>3. QED
      BY <3>1, <3>2 DEF VaultKinds, AccountKinds
  <2>2. QED
    BY <2>1
<1> HIDE DEF V, A
<1>3. expectedResourceTrustFindings(Recorded(vs), Recorded(ac)) =
        A \cup {f \in V : f.kind # "purge-protection-disabled"}
  BY <1>1 DEF expectedResourceTrustFindings
<1>4. (V \cup A) \cap NetworkClaims = A \cup {f \in V : f.kind # "purge-protection-disabled"}
  BY <1>1, <1>2 DEF NetworkClaims
<1>5. QED
  BY <1>3, <1>4 DEF V, A

LEMMA TruthAccepted == PostureInv => TruthIsAccepted
<1> SUFFICES ASSUME PostureInv, Finished, slip = {}, NEW c \in quiet
             PROVE  Verdict(c) = {}
  BY DEF TruthIsAccepted
<1>1. c \in Commands /\ Done(c)
  BY AllDone DEF PostureInv, Fits
<1>2. PICK vs \in VaultsOfAzure, ac \in AccountsOfAzure : Saw(c, vs, ac)
  BY <1>1 DEF PostureInv, SawOne
<1> DEFINE V == About(vs, TrueOfVault)
           A == About(ac, AccountFindings)
<1>3. \A X, Y : Toggle(X, Y) = X
  BY DEF Toggle
<1>4. CASE c = "keyvault"
  <2>1. told[c].findings = V /\ context[c].vaults = Recorded(vs)
    BY <1>2, <1>3, <1>4 DEF Saw, TellsOf
  <2>2. About(Recorded(vs), VaultFindings) = V
    BY VaultsAsked
  <2>3. QED
    BY <1>4, <2>1, <2>2 DEF Verdict, validateKeyVault, Disagreement
<1>5. CASE c = "storage"
  <2>1. told[c].findings = A /\ context[c].accounts = Recorded(ac)
    <3>1. TellsOf(c, vs, ac) = [findings |-> Toggle(A, AccountClaims), rows |-> {}]
      BY <1>5 DEF TellsOf
    <3>2. Toggle(A, AccountClaims) = A
      BY <1>3
    <3> HIDE DEF A
    <3>3. told[c] = [findings |-> A, rows |-> {}]
      BY <1>2, <3>1, <3>2 DEF Saw
    <3>4. context[c].accounts = Recorded(ac)
      BY <1>2, <1>5 DEF Saw
    <3>5. QED
      BY <3>3, <3>4
  <2>2. About(Recorded(ac), AccountFindings) = A
    BY AccountsAsked
  <2>3. QED
    BY <1>5, <2>1, <2>2 DEF Verdict, validateStorage, Disagreement
<1>6. CASE c = "resource-trusts"
  <2>1. /\ told[c] = [findings |-> (V \cup A) \cap NetworkClaims,
                      rows |-> expectedResourceTrusts(vs, ac)]
        /\ context[c].vaults = Recorded(vs) /\ context[c].accounts = Recorded(ac)
    BY <1>2, <1>3, <1>6 DEF Saw, TellsOf
  <2>2. /\ expectedResourceTrusts(Recorded(vs), Recorded(ac)) = expectedResourceTrusts(vs, ac)
        /\ expectedResourceTrustFindings(Recorded(vs), Recorded(ac)) =
             (V \cup A) \cap NetworkClaims
    BY TrustsAsked, NetworkAsked
  <2> DEFINE F == (V \cup A) \cap NetworkClaims
             R == expectedResourceTrusts(vs, ac)
  <2>3. /\ told["resource-trusts"].findings = F /\ told["resource-trusts"].rows = R
        /\ expectedResourceTrusts(context["resource-trusts"].vaults,
                                  context["resource-trusts"].accounts) = R
        /\ expectedResourceTrustFindings(context["resource-trusts"].vaults,
                                         context["resource-trusts"].accounts) = F
    BY <1>6, <2>1, <2>2
  <2> HIDE DEF F, R
  <2>4. validateResourceTrusts = {}
    BY <2>3 DEF validateResourceTrusts
  <2>5. QED
    BY <1>6, <2>4 DEF Verdict
<1>7. QED
  BY <1>1, <1>4, <1>5, <1>6 DEF Commands

(* TruthIsAccepted: none of the three validators blames a tool that says   *)
(* what is true, unless Azure was edited under the command.                *)
THEOREM TruthStands == Spec => []TruthIsAccepted
BY PostureInvariant, TruthAccepted, PTL

LEMMA ClaimsApart ==
  /\ \A f \in VaultClaims : f \notin AccountClaims /\ f.of \in Vaults
  /\ \A f \in AccountClaims : f.of \in Accounts
  /\ \A f \in NetworkClaims : f \in VaultClaims \cup AccountClaims
<1>1. ASSUME NEW f \in VaultClaims PROVE f \notin AccountClaims /\ f.of \in Vaults
  <2>1. f.kind \in VaultKinds /\ f.of \in Vaults
    BY FindingFields DEF VaultClaims
  <2>2. ASSUME f \in AccountClaims PROVE FALSE
    <3>1. f.kind \in AccountKinds
      BY <2>2, FindingFields DEF AccountClaims
    <3>2. QED
      BY <2>1, <3>1 DEF VaultKinds, AccountKinds
  <2>3. QED
    BY <2>1, <2>2
<1>2. \A f \in AccountClaims : f.of \in Accounts
  BY FindingFields DEF AccountClaims
<1>3. \A f \in NetworkClaims : f \in VaultClaims \cup AccountClaims
  BY DEF NetworkClaims
<1>4. QED
  BY <1>1, <1>2, <1>3

(* No finding is a row.                                                    *)
LEMMA RowsAreNoClaims ==
  ASSUME NEW vs \in VaultsOfAzure, NEW ac \in AccountsOfAzure
  PROVE  expectedResourceTrusts(vs, ac) \cap NetworkClaims = {}
<1>1. \A of, type, exposure, k, r : TrustRow(of, type, exposure) # Finding(k, r)
  <2>1. \A of, type, exposure : DOMAIN TrustRow(of, type, exposure) = {"of", "type", "exposure"}
    BY DEF TrustRow
  <2>2. \A k, r : DOMAIN Finding(k, r) = {"kind", "of"}
    BY DEF Finding
  <2>3. {"of", "type", "exposure"} # {"kind", "of"}
    OBVIOUS
  <2>4. QED
    BY <2>1, <2>2, <2>3
<1>2. \A f \in expectedResourceTrusts(vs, ac) :
        \E of, type, exposure : f = TrustRow(of, type, exposure)
  <2>1. ASSUME NEW a, NEW p, NEW f \in AccountTrusts(a, p)
        PROVE  \E of, type, exposure : f = TrustRow(of, type, exposure)
    BY DEF AccountTrusts
  <2>2. ASSUME NEW v, NEW p, NEW f \in VaultTrusts(v, p)
        PROVE  \E of, type, exposure : f = TrustRow(of, type, exposure)
    BY DEF VaultTrusts
  <2> DEFINE OfAccounts == {AccountTrusts(a, ac[a]) : a \in There(ac)}
             OfVaults == {VaultTrusts(v, vs[v]) : v \in There(vs)}
  <2>3. ASSUME NEW f \in expectedResourceTrusts(vs, ac)
        PROVE  \E of, type, exposure : f = TrustRow(of, type, exposure)
    <3>1. f \in UNION OfAccounts \/ f \in UNION OfVaults
      <4>1. expectedResourceTrusts(vs, ac) = (UNION OfAccounts) \cup (UNION OfVaults)
        BY DEF expectedResourceTrusts
      <4> HIDE DEF OfAccounts, OfVaults
      <4>2. QED
        BY <2>3, <4>1
    <3>2. CASE f \in UNION OfAccounts
      <4>1. PICK a \in There(ac) : f \in AccountTrusts(a, ac[a])
        BY <3>2
      <4>2. QED
        BY <2>1, <4>1
    <3>3. CASE f \in UNION OfVaults
      <4>1. PICK v \in There(vs) : f \in VaultTrusts(v, vs[v])
        BY <3>3
      <4>2. QED
        BY <2>2, <4>1
    <3>4. QED
      BY <3>1, <3>2, <3>3
  <2>4. QED
    BY <2>3
<1>3. \A f \in NetworkClaims : \E k, r : f = Finding(k, r)
  BY DEF NetworkClaims, VaultClaims, AccountClaims
<1>4. ASSUME NEW f \in NetworkClaims, f \in expectedResourceTrusts(vs, ac) PROVE FALSE
  <2>1. PICK of, type, exposure : f = TrustRow(of, type, exposure)
    BY <1>2, <1>4
  <2>2. PICK k, r : f = Finding(k, r)
    BY <1>3
  <2>3. QED
    BY <1>1, <2>1, <2>2
<1>5. QED
  BY <1>4

LEMMA SlipSeenTwice == PostureInv => SiblingsAgree
<1> DEFINE V == About(vaults, TrueOfVault)
           A == About(accounts, AccountFindings)
           R == expectedResourceTrusts(vaults, accounts)
           tellsV == Toggle(V, VaultClaims)
           tellsA == Toggle(A, AccountClaims)
           tellsR == Toggle(R, slip \ (VaultClaims \cup AccountClaims))
           shown == There(vaults) \cup There(accounts)
<1> SUFFICES ASSUME PostureInv, Finished, edits = 0
             PROVE  {f \in Verdict("keyvault") \cup Verdict("storage") : f \in NetworkClaims} =
                    {f \in Verdict("resource-trusts") : f \in NetworkClaims /\ f.of \in shown}
  BY DEF SiblingsAgree
<1>1. vaults \in VaultsOfAzure /\ accounts \in AccountsOfAzure
  BY DEF PostureInv, Fits
<1>2. \A c \in Commands : Saw(c, vaults, accounts)
  BY AllDone DEF PostureInv, SawThis
<1>3. /\ told["keyvault"] = [findings |-> tellsV, rows |-> {}]
      /\ context["keyvault"].vaults = Recorded(vaults)
  <2>1. Saw("keyvault", vaults, accounts)
    BY <1>2 DEF Commands
  <2>2. QED
    BY <2>1 DEF Saw, TellsOf
<1>4. told["storage"].findings = tellsA /\ context["storage"].accounts = Recorded(accounts)
  <2>1. Saw("storage", vaults, accounts)
    BY <1>2 DEF Commands
  <2>2. TellsOf("storage", vaults, accounts) = [findings |-> tellsA, rows |-> {}]
    BY DEF TellsOf
  <2> HIDE DEF tellsA
  <2>3. told["storage"] = [findings |-> tellsA, rows |-> {}]
    BY <2>1, <2>2 DEF Saw
  <2>4. QED
    BY <2>1, <2>3 DEF Saw
<1>5. /\ told["resource-trusts"].findings = (tellsV \cup tellsA) \cap NetworkClaims
      /\ told["resource-trusts"].rows = tellsR
      /\ context["resource-trusts"].vaults = Recorded(vaults)
      /\ context["resource-trusts"].accounts = Recorded(accounts)
  <2>1. Saw("resource-trusts", vaults, accounts)
    BY <1>2 DEF Commands
  <2>2. TellsOf("resource-trusts", vaults, accounts) =
          [findings |-> (tellsV \cup tellsA) \cap NetworkClaims, rows |-> tellsR]
    BY DEF TellsOf
  <2> HIDE DEF tellsV, tellsA, tellsR
  <2>3. told["resource-trusts"] =
          [findings |-> (tellsV \cup tellsA) \cap NetworkClaims, rows |-> tellsR]
    BY <2>1, <2>2 DEF Saw
  <2>4. QED
    BY <2>1, <2>3 DEF Saw
<1>6. /\ About(Recorded(vaults), VaultFindings) = V /\ V \subseteq VaultClaims
      /\ About(Recorded(accounts), AccountFindings) = A /\ A \subseteq AccountClaims
      /\ expectedResourceTrusts(Recorded(vaults), Recorded(accounts)) = R
      /\ expectedResourceTrustFindings(Recorded(vaults), Recorded(accounts)) =
           (V \cup A) \cap NetworkClaims
      /\ R \cap NetworkClaims = {}
  BY <1>1, VaultsAsked, AccountsAsked, TrustsAsked, NetworkAsked, RowsAreNoClaims
<1>7. DOMAIN Recorded(vaults) = There(vaults) /\ DOMAIN Recorded(accounts) = There(accounts)
      /\ There(vaults) \subseteq Vaults /\ There(accounts) \subseteq Accounts
  BY <1>1, RecordedVaults, RecordedAccounts
<1> DEFINE slipV == slip \cap VaultClaims
           slipA == slip \cap AccountClaims
<1>8. tellsV = (V \ slipV) \cup (slipV \ V) /\ tellsA = (A \ slipA) \cup (slipA \ A)
  BY DEF Toggle
<1>9. tellsR \cap NetworkClaims = {}
  <2> HIDE DEF V, A, R
  <2>1. QED
    BY <1>6, ClaimsApart DEF Toggle
<1> HIDE DEF V, A, R, tellsV, tellsA, tellsR
<1>10. Verdict("keyvault") = {f \in slipV : f.of \in There(vaults)}
  BY <1>3, <1>6, <1>7, <1>8 DEF Verdict, validateKeyVault, Disagreement
<1>11. Verdict("storage") = {f \in slipA : f.of \in There(accounts)}
  BY <1>4, <1>6, <1>7, <1>8 DEF Verdict, validateStorage, Disagreement
<1>12. Verdict("resource-trusts") \cap NetworkClaims = (slipV \cup slipA) \cap NetworkClaims
  <2> DEFINE T == (tellsV \cup tellsA) \cap NetworkClaims
             E == (V \cup A) \cap NetworkClaims
  <2>1. Verdict("resource-trusts") = (tellsR \ R) \cup (R \ tellsR) \cup (T \ E) \cup (E \ T)
    BY <1>5, <1>6 DEF Verdict, validateResourceTrusts
  <2>2. ASSUME NEW f \in NetworkClaims
        PROVE  f \in Verdict("resource-trusts") <=> f \in slipV \cup slipA
    <3>1. f \in Verdict("resource-trusts") <=> (f \in tellsV \cup tellsA <=> f \notin V \cup A)
      BY <1>6, <1>9, <2>1
    <3>2. CASE f \in VaultClaims
      BY <1>6, <1>8, <3>1, <3>2, ClaimsApart
    <3>3. CASE f \in AccountClaims
      BY <1>6, <1>8, <3>1, <3>3, ClaimsApart
    <3>4. QED
      BY <3>2, <3>3, ClaimsApart
  <2>3. QED
    BY <2>2
<1>13. QED
  <2>1. ASSUME NEW f \in NetworkClaims
        PROVE  f \in Verdict("keyvault") \cup Verdict("storage")
                 <=> f \in Verdict("resource-trusts") /\ f.of \in shown
    <3>1. f \in Verdict("resource-trusts") <=> f \in slipV \cup slipA
      BY <1>12
    <3>2. \A v \in VaultClaims : v.of \in shown <=> v.of \in There(vaults)
      BY <1>7, ClaimsApart, IdsAssumption
    <3>3. \A a \in AccountClaims : a.of \in shown <=> a.of \in There(accounts)
      BY <1>7, ClaimsApart, IdsAssumption
    <3>4. QED
      BY <1>10, <1>11, <3>1, <3>2, <3>3
  <2>2. QED
    BY <2>1

(* SiblingsAgree: in a run without edits resource-trusts refuses a slip of *)
(* the tool about the network exactly when keyvault or storage do.         *)
THEOREM SiblingsStayAgreed == Spec => []SiblingsAgree
BY PostureInvariant, SlipSeenTwice, PTL

(* Posture by posture, whoever is asked for a finding is asked for a row.  *)
LEMMA AccountExplained ==
  ASSUME NEW p, NEW a
  PROVE  /\ \A r \in AccountTrusts(a, p) : r.of = a
         /\ AccountFindings(p) # {} <=> \E r \in AccountTrusts(a, p) : r.type # "private-endpoint"
         /\ \A k \in AccountFindings(p) :
              k \in {"public-network-open", "storage-public"} =>
                \E r \in AccountTrusts(a, p) : r.type # "private-endpoint" /\ r.exposure = "high"
<1>1. \A r \in AccountTrusts(a, p) : r.of = a
  BY DEF AccountTrusts, TrustRow
<1>2. ASSUME p.anonymous
      PROVE  \E r \in AccountTrusts(a, p) : r.type # "private-endpoint" /\ r.exposure = "high"
  <2>1. TrustRow(a, "anonymous-blob-access", "high") \in AccountTrusts(a, p)
    BY <1>2 DEF AccountTrusts
  <2>2. QED
    BY <2>1 DEF TrustRow
<1>3. ASSUME p.action = "Allow"
      PROVE  \E r \in AccountTrusts(a, p) : r.type # "private-endpoint"
  <2>1. TrustRow(a, "public-network-default", "medium") \in AccountTrusts(a, p)
    BY <1>3 DEF AccountTrusts
  <2>2. QED
    BY <2>1 DEF TrustRow
<1>4. ASSUME ~p.anonymous, p.action # "Allow"
      PROVE  AccountFindings(p) = {} /\ \A r \in AccountTrusts(a, p) : r.type = "private-endpoint"
  BY <1>4 DEF AccountFindings, AccountTrusts, TrustRow
<1>5. /\ "storage-public" \in AccountFindings(p) <=> p.anonymous
      /\ "storage-firewall-open" \in AccountFindings(p) <=> p.action = "Allow"
      /\ AccountFindings(p) \subseteq {"storage-public", "storage-firewall-open"}
  BY DEF AccountFindings
<1>6. QED
  BY <1>1, <1>2, <1>3, <1>4, <1>5

LEMMA VaultExplained ==
  ASSUME NEW p, NEW v
  PROVE  /\ \A r \in VaultTrusts(v, p) : r.of = v
         /\ VaultNetworkFinding(p) # {} <=> \E r \in VaultTrusts(v, p) : r.type # "private-endpoint"
         /\ \A k \in VaultNetworkFinding(p) :
              k \in {"public-network-open", "storage-public"} =>
                \E r \in VaultTrusts(v, p) : r.type # "private-endpoint" /\ r.exposure = "high"
<1>1. \A r \in VaultTrusts(v, p) : r.of = v
  BY DEF VaultTrusts, TrustRow
<1>2. ASSUME p.public
      PROVE  \E r \in VaultTrusts(v, p) :
               r.type # "private-endpoint" /\ (p.action # "Deny" => r.exposure = "high")
  <2>1. TrustRow(v, "public-network", IF p.action = "Deny" THEN "medium" ELSE "high")
          \in VaultTrusts(v, p)
    BY <1>2 DEF VaultTrusts
  <2>2. QED
    BY <2>1 DEF TrustRow
<1>3. ASSUME ~p.public
      PROVE  VaultNetworkFinding(p) = {} /\ \A r \in VaultTrusts(v, p) : r.type = "private-endpoint"
  BY <1>3 DEF VaultNetworkFinding, VaultTrusts, TrustRow
<1>4. ASSUME p.public PROVE VaultNetworkFinding(p) # {}
  BY <1>4 DEF VaultNetworkFinding
<1>5. ASSUME p.public, NEW k \in VaultNetworkFinding(p), k \in {"public-network-open", "storage-public"}
      PROVE  p.action # "Deny"
  BY <1>5 DEF VaultNetworkFinding, ImplicitOpenACL
<1>6. QED
  BY <1>1, <1>2, <1>3, <1>4, <1>5

LEMMA AskedExplained == FindingsAreExplained
<1> DEFINE c == context["resource-trusts"]
           cv == c.vaults
           ca == c.accounts
           rows == expectedResourceTrusts(cv, ca)
           asked == expectedResourceTrustFindings(cv, ca)
           public == {r \in rows : r.type # "private-endpoint"}
<1> SUFFICES /\ {f.of : f \in asked} = {r.of : r \in public}
             /\ \A f \in asked : f.kind \in {"public-network-open", "storage-public"} =>
                  \E r \in public : r.of = f.of /\ r.exposure = "high"
  BY DEF FindingsAreExplained
<1> HIDE DEF c
<1>1. \A r \in rows :
        \/ \E a \in There(ca) : r \in AccountTrusts(a, ca[a])
        \/ \E v \in There(cv) : r \in VaultTrusts(v, cv[v])
  BY DEF expectedResourceTrusts
<1>2. /\ \A a \in There(ca) : AccountTrusts(a, ca[a]) \subseteq rows
      /\ \A v \in There(cv) : VaultTrusts(v, cv[v]) \subseteq rows
  BY DEF expectedResourceTrusts
<1>3. \A f \in asked :
        \/ \E a \in There(ca) : \E k \in AccountFindings(ca[a]) : f = Finding(k, a)
        \/ \E v \in There(cv) : \E k \in VaultNetworkFinding(cv[v]) : f = Finding(k, v)
  BY DEF expectedResourceTrustFindings, About
<1>4. /\ \A a \in There(ca) : \A k \in AccountFindings(ca[a]) : Finding(k, a) \in asked
      /\ \A v \in There(cv) : \A k \in VaultNetworkFinding(cv[v]) : Finding(k, v) \in asked
  BY DEF expectedResourceTrustFindings, About
<1> HIDE DEF rows, asked, cv, ca
<1>5. ASSUME NEW f \in asked
      PROVE  \E r \in public : r.of = f.of /\
               (f.kind \in {"public-network-open", "storage-public"} => r.exposure = "high")
  <2>1. CASE \E a \in There(ca) : \E k \in AccountFindings(ca[a]) : f = Finding(k, a)
    <3>1. PICK a \in There(ca) : \E k \in AccountFindings(ca[a]) : f = Finding(k, a)
      BY <2>1
    <3>2. PICK k \in AccountFindings(ca[a]) : f = Finding(k, a)
      BY <3>1
    <3>3. f.kind = k /\ f.of = a
      BY <3>2, FindingFields
    <3>4. \E r \in AccountTrusts(a, ca[a]) : r.type # "private-endpoint" /\ r.of = a /\
            (k \in {"public-network-open", "storage-public"} => r.exposure = "high")
      BY AccountExplained
    <3>5. QED
      BY <1>2, <3>3, <3>4
  <2>2. CASE \E v \in There(cv) : \E k \in VaultNetworkFinding(cv[v]) : f = Finding(k, v)
    <3>1. PICK v \in There(cv) : \E k \in VaultNetworkFinding(cv[v]) : f = Finding(k, v)
      BY <2>2
    <3>2. PICK k \in VaultNetworkFinding(cv[v]) : f = Finding(k, v)
      BY <3>1
    <3>3. f.kind = k /\ f.of = v
      BY <3>2, FindingFields
    <3>4. \E r \in VaultTrusts(v, cv[v]) : r.type # "private-endpoint" /\ r.of = v /\
            (k \in {"public-network-open", "storage-public"} => r.exposure = "high")
      BY VaultExplained
    <3>5. QED
      BY <1>2, <3>3, <3>4
  <2>3. QED
    BY <1>3, <2>1, <2>2
<1>6. ASSUME NEW r \in public PROVE \E f \in asked : f.of = r.of
  <2>1. CASE \E a \in There(ca) : r \in AccountTrusts(a, ca[a])
    <3>1. PICK a \in There(ca) : r \in AccountTrusts(a, ca[a])
      BY <2>1
    <3>2. PICK k \in AccountFindings(ca[a]) : TRUE
      BY <3>1, AccountExplained
    <3>3. Finding(k, a) \in asked /\ Finding(k, a).of = r.of
      BY <1>4, <3>1, AccountExplained, FindingFields
    <3>4. QED
      BY <3>3
  <2>2. CASE \E v \in There(cv) : r \in VaultTrusts(v, cv[v])
    <3>1. PICK v \in There(cv) : r \in VaultTrusts(v, cv[v])
      BY <2>2
    <3>2. PICK k \in VaultNetworkFinding(cv[v]) : TRUE
      BY <3>1, VaultExplained
    <3>3. Finding(k, v) \in asked /\ Finding(k, v).of = r.of
      BY <1>4, <3>1, VaultExplained, FindingFields
    <3>4. QED
      BY <3>3
  <2>3. QED
    BY <1>1, <2>1, <2>2
<1> HIDE DEF public
<1>7. {f.of : f \in asked} = {r.of : r \in public}
  BY <1>5, <1>6
<1>8. QED
  BY <1>5, <1>7

(* FindingsAreExplained: whatever was recorded, resource-trusts asks for a *)
(* finding of a resource exactly when it asks for a row of a public path,  *)
(* and for a high one where the network is open.                           *)
THEOREM EveryFindingHasARow == Spec => []FindingsAreExplained
BY AskedExplained, PTL

=============================================================================
