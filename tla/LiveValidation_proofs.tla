------------------------ MODULE LiveValidation_proofs ------------------------
(***************************************************************************)
(* The live validation, for every sequence of runs in one directory and    *)
(* everything a tool may say.                                              *)
(***************************************************************************)
EXTENDS LiveValidation, SequenceTheorems, TLAPS

-----------------------------------------------------------------------------
(* Sequences as sets *)

LEMMA SetOfConcat ==
  ASSUME NEW S, NEW s \in Seq(S), NEW u \in Seq(S)
  PROVE  s \o u \in Seq(S) /\ ToSet(s \o u) = ToSet(s) \cup ToSet(u)
<1>1. Range(s \o u) = Range(s) \cup Range(u) /\ s \o u \in Seq(S)
  BY RangeConcatenation, ConcatProperties
<1>2. \A f : ToSet(f) = Range(f)
  BY DEF ToSet, Range
<1>3. QED
  BY <1>1, <1>2

LEMMA SetOfAppend ==
  ASSUME NEW S, NEW s \in Seq(S), NEW e \in S
  PROVE  /\ Append(s, e) \in Seq(S)
         /\ ToSet(Append(s, e)) = ToSet(s) \cup {e}
<1>1. Append(s, e) = s \o <<e>> /\ <<e>> \in Seq(S)
  BY AppendIsConcat
<1>2. ToSet(<<e>>) = {e}
  BY DEF ToSet
<1>3. QED
  <2>1. ToSet(s \o <<e>>) = ToSet(s) \cup ToSet(<<e>>)
    BY <1>1, SetOfConcat
  <2>2. QED
    BY <1>1, <1>2, <2>1, AppendProperties

LEMMA SetOfTail ==
  ASSUME NEW S, NEW s \in Seq(S), s # <<>>
  PROVE  /\ Tail(s) \in Seq(S) /\ Head(s) \in S /\ Head(s) \in ToSet(s)
         /\ ToSet(s) = ToSet(Tail(s)) \cup {Head(s)}
         /\ IsInjective(s) => IsInjective(Tail(s)) /\ Head(s) \notin ToSet(Tail(s))
<1>1. /\ Tail(s) \in Seq(S) /\ Head(s) \in S /\ Head(s) = s[1]
      /\ Len(s) \in Nat \ {0} /\ DOMAIN s = 1..Len(s)
      /\ Len(Tail(s)) = Len(s) - 1 /\ DOMAIN Tail(s) = 1..(Len(s) - 1)
      /\ \A i \in 1..(Len(s) - 1) : Tail(s)[i] = s[i + 1]
  BY HeadTailProperties, LenProperties, EmptySeq
<1>2. Head(s) \in ToSet(s)
  BY <1>1 DEF ToSet
<1>3. ToSet(s) \subseteq ToSet(Tail(s)) \cup {Head(s)}
  <2>1. ASSUME NEW i \in 1..Len(s) PROVE s[i] = s[1] \/ s[i] \in ToSet(Tail(s))
    <3>1. CASE i = 1
      BY <3>1
    <3>2. CASE i # 1
      <4>1. i - 1 \in 1..(Len(s) - 1) /\ (i - 1) + 1 = i
        BY <1>1, <3>2
      <4>2. Tail(s)[i - 1] = s[i]
        BY <1>1, <4>1
      <4>3. QED
        BY <1>1, <4>1, <4>2 DEF ToSet
    <3>3. QED
      BY <3>1, <3>2
  <2>2. QED
    BY <1>1, <2>1 DEF ToSet
<1>4. ToSet(Tail(s)) \subseteq ToSet(s)
  BY <1>1 DEF ToSet
<1>5. IsInjective(s) => IsInjective(Tail(s)) /\ Head(s) \notin ToSet(Tail(s))
  <2>1. SUFFICES ASSUME IsInjective(s)
                 PROVE  IsInjective(Tail(s)) /\ Head(s) \notin ToSet(Tail(s))
    OBVIOUS
  <2>2. ASSUME NEW i \in 1..(Len(s) - 1) PROVE Tail(s)[i] # s[1]
    BY <1>1, <2>1 DEF IsInjective
  <2>3. ASSUME NEW i \in 1..(Len(s) - 1), NEW j \in 1..(Len(s) - 1), Tail(s)[i] = Tail(s)[j]
        PROVE  i = j
    <3>1. i + 1 \in DOMAIN s /\ j + 1 \in DOMAIN s /\ s[i + 1] = s[j + 1]
      BY <1>1, <2>3
    <3>2. i + 1 = j + 1
      BY <2>1, <3>1 DEF IsInjective
    <3>3. QED
      BY <3>2
  <2>4. QED
    BY <1>1, <2>2, <2>3 DEF IsInjective, ToSet
<1>6. QED
  BY <1>1, <1>2, <1>3, <1>4, <1>5

-----------------------------------------------------------------------------
(* The two dispatches *)

(* The names of contexts and of checks.                                    *)
Names == {"azure", "compute-control"} \cup OwnContext \cup {t.name : t \in Checks}

LEMMA CheckFields ==
  ASSUME NEW t \in Checks
  PROVE  /\ t.kind \in {"commands", "families"} /\ t.name \in Names
         /\ t = Check(t.kind, t.name)
<1>1. t \in [kind : {"commands", "families"}, name : STRING]
  BY CampaignsAssumption
<1>2. QED
  BY <1>1 DEF Check, Names

LEMMA TokensCredentialsSet ==
  /\ tokensCredentials \in Seq(Names)
  /\ ToSet(tokensCredentials) =
       {"app-services", "functions", "container-apps", "container-instances",
        "env-vars", "arm-deployments", "vms", "vmss", "tokens-credentials"}
<1>1. {"app-services", "functions", "container-apps", "container-instances",
       "env-vars", "arm-deployments", "vms", "vmss", "tokens-credentials"} \subseteq Names
  BY DEF Names, OwnContext
<1>2. tokensCredentials \in Seq(Names)
  BY <1>1 DEF tokensCredentials
<1>3. DOMAIN tokensCredentials = 1..9
  BY DEF tokensCredentials
<1>4. QED
  BY <1>2, <1>3 DEF tokensCredentials, ToSet

LEMMA CredentialPathSet ==
  /\ credentialPath \in Seq(Names)
  /\ {"env-vars", "tokens-credentials", "databases", "keyvault", "storage"}
       \subseteq ToSet(credentialPath)
<1>1. <<"databases", "keyvault", "storage">> \in Seq(Names)
  BY DEF Names, OwnContext
<1>2. ToSet(<<"databases", "keyvault", "storage">>) = {"databases", "keyvault", "storage"}
  BY DEF ToSet
<1>3. /\ credentialPath \in Seq(Names)
      /\ ToSet(credentialPath) = ToSet(tokensCredentials) \cup {"databases", "keyvault", "storage"}
  <2> DEFINE rest == <<"databases", "keyvault", "storage">>
  <2>1. rest \in Seq(Names) /\ ToSet(rest) = {"databases", "keyvault", "storage"}
    BY <1>1, <1>2
  <2>2. credentialPath = tokensCredentials \o rest
    BY DEF credentialPath
  <2> HIDE DEF rest
  <2>3. QED
    BY <2>1, <2>2, TokensCredentialsSet, SetOfConcat
<1>4. QED
  BY <1>3, TokensCredentialsSet

(* Each validator compares with contexts that the runner records for that  *)
(* very check.                                                             *)
LEMMA NeededIsCaptured ==
  ASSUME NEW t \in Checks
  PROVE  /\ Captured(t) \in Seq(Names) /\ Captured(t) # <<>>
         /\ Needed(t) \subseteq ToSet(Captured(t))
<1> DEFINE From(s) == <<"azure">> \o s
<1>1. ASSUME NEW s \in Seq(Names)
      PROVE  /\ From(s) \in Seq(Names) /\ From(s) # <<>>
             /\ ToSet(From(s)) = {"azure"} \cup ToSet(s)
  <2>1. <<"azure">> \in Seq(Names)
    BY DEF Names
  <2>2. ToSet(<<"azure">>) = {"azure"}
    BY DEF ToSet
  <2>3. From(s) \in Seq(Names) /\ ToSet(From(s)) = {"azure"} \cup ToSet(s)
    <3> DEFINE azure == <<"azure">>
    <3>1. azure \in Seq(Names) /\ ToSet(azure) = {"azure"} /\ From(s) = azure \o s
      BY <2>1, <2>2 DEF From
    <3> HIDE DEF azure
    <3>2. QED
      BY <3>1, SetOfConcat
  <2>4. ToSet(<<>>) = {}
    BY DEF ToSet
  <2>5. QED
    BY <2>3, <2>4
<1> HIDE DEF From
<1>2. CASE t = Command("tokens-credentials")
  <2>1. Captured(t) = From(tokensCredentials)
    BY <1>2 DEF Captured, From, Command, Family, Check, OwnContext
  <2>2. Needed(t) = {"tokens-credentials"}
    BY <1>2 DEF Needed, Command, Family, Check, OwnContext
  <2>3. QED
    BY <1>1, <2>1, <2>2, TokensCredentialsSet
<1>3. CASE t = Command("resource-trusts")
  <2>1. Captured(t) = From(<<"keyvault", "storage">>)
    BY <1>3 DEF Captured, From, Command, Family, Check, OwnContext
  <2>2. Needed(t) = {"storage", "keyvault"}
    BY <1>3 DEF Needed, Command, Family, Check, OwnContext
  <2>3. /\ <<"keyvault", "storage">> \in Seq(Names)
        /\ ToSet(<<"keyvault", "storage">>) = {"keyvault", "storage"}
    BY DEF ToSet, Names, OwnContext
  <2>4. QED
    BY <1>1, <2>1, <2>2, <2>3
<1>4. CASE t.kind = "commands" /\ t.name \in OwnContext \ {"tokens-credentials"}
  <2>1. Captured(t) = From(<<t.name>>)
    BY <1>4 DEF Captured, From, Command, Family, Check, OwnContext
  <2>2. Needed(t) = {t.name}
    BY <1>4 DEF Needed, Command, Family, Check, OwnContext
  <2>3. <<t.name>> \in Seq(Names) /\ ToSet(<<t.name>>) = {t.name}
    <3>1. t.name \in Names
      BY CheckFields
    <3>2. QED
      BY <3>1 DEF ToSet
  <2>4. QED
    BY <1>1, <2>1, <2>2, <2>3
<1>5. CASE t = Family("credential-path")
  <2>1. Captured(t) = From(credentialPath)
    BY <1>5 DEF Captured, From, Command, Family, Check
  <2>2. Needed(t) = {"env-vars", "tokens-credentials", "databases", "keyvault", "storage"}
    BY <1>5 DEF Needed, Command, Family, Check
  <2>3. QED
    BY <1>1, <2>1, <2>2, CredentialPathSet
<1>6. CASE t = Family("compute-control")
  <2>1. Captured(t) = From(<<"compute-control">>)
    BY <1>6 DEF Captured, From, Command, Family, Check
  <2>2. Needed(t) = {"compute-control"}
    BY <1>6 DEF Needed, Command, Family, Check
  <2>3. /\ <<"compute-control">> \in Seq(Names)
        /\ ToSet(<<"compute-control">>) = {"compute-control"}
    BY DEF ToSet, Names
  <2>4. QED
    BY <1>1, <2>1, <2>2, <2>3
<1>7. CASE /\ t # Command("tokens-credentials") /\ t # Command("resource-trusts")
           /\ ~(t.kind = "commands" /\ t.name \in OwnContext \ {"tokens-credentials"})
           /\ t # Family("credential-path") /\ t # Family("compute-control")
  <2>1. Captured(t) = From(<<>>)
    BY <1>7 DEF Captured, From
  <2>2. Needed(t) \subseteq {"azure"}
    <3>1. ~(t.kind = "commands" /\ t.name \in OwnContext)
      BY <1>7, CheckFields DEF Command
    <3>2. QED
      BY <1>7, <3>1 DEF Needed
  <2>3. <<>> \in Seq(Names)
    OBVIOUS
  <2>4. QED
    BY <1>1, <2>1, <2>2, <2>3
<1>8. QED
  BY <1>2, <1>3, <1>4, <1>5, <1>6, <1>7

-----------------------------------------------------------------------------
(* The inductive invariant *)

Entries == [check : Checks, status : {"pass", "fail"}, payload : BOOLEAN]

(* The types, in the form the steps need: a context's file has a place of  *)
(* its own among those its check records.                                  *)
Fits ==
  /\ campaign \in Campaigns /\ run \in 0..Len(campaign)
  /\ todo # <<>> => run > 0
  /\ todo \in Seq(Checks) /\ pending \in Seq(Names) /\ log \in Seq(Entries)
  /\ payload \in [Checks -> Content \cup {Absent}]
  /\ source \in [Checks -> Content \cup {Absent}]
  /\ summary.outcome \in {"none", "done", "error"}

Placed ==
  \A k \in DOMAIN context : \E t \in Checks : \E c \in ToSet(Captured(t)) : k = <<t, c>>

(* No check is logged twice, or logged and still to do: what is read from  *)
(* the log is not overwritten by the rest of the run.                      *)
EachOnce ==
  /\ IsInjective(todo)
  /\ \A e \in ToSet(log) : e.check \notin ToSet(todo)

(* The log says whether there is a payload.                                *)
PayloadsLogged == \A e \in ToSet(log) : e.payload <=> payload[e.check] # Absent

Kept(t, c) == <<t, c>> \in DOMAIN context /\ context[<<t, c>>] = [run |-> run, whole |-> TRUE]

(* While a check's contexts are being recorded, those that are not pending *)
(* any more are there; once it is logged as passed, all of them are.       *)
Underway ==
  pending # <<>> =>
    /\ Working /\ ToSet(pending) \subseteq ToSet(Captured(Current))
    /\ \A c \in ToSet(Captured(Current)) \ ToSet(pending) : Kept(Current, c)

Backed == \A e \in Passed : \A c \in ToSet(Captured(e.check)) : Kept(e.check, c)

(* The summary is what the files say: nothing has changed since.           *)
Judged ==
  summary.outcome # "none" =>
    /\ Idle /\ run > 0
    /\ summary.outcome = "error" => Aborts
    /\ summary.outcome = "done" =>
         /\ summary.checked = {e.check : e \in {x \in Passed : Readable(x)}}
         /\ summary.findings = Findings

LiveInv ==
  /\ Fits /\ Placed /\ EachOnce /\ PayloadsLogged /\ Underway /\ Backed /\ Judged

-----------------------------------------------------------------------------
(* The steps *)

(* One context more, of this run; every other stays as it is.              *)
LEMMA RecordedIs ==
  ASSUME NEW whole
  PROVE  LET key == <<Current, Head(pending)>> IN
         /\ DOMAIN Recorded(whole) = DOMAIN context \cup {key}
         /\ Recorded(whole)[key] = [run |-> run, whole |-> whole]
         /\ \A k \in DOMAIN context \ {key} : Recorded(whole)[k] = context[k]
BY DEF Recorded

(* The check under way is not in the log, and no other is touched.         *)
LEMMA AtHand ==
  ASSUME Fits, EachOnce, Working
  PROVE  /\ todo # <<>> /\ run \in Nat \ {0} /\ Current \in Checks
         /\ Current \in ToSet(todo) /\ Tail(todo) \in Seq(Checks)
         /\ ToSet(Tail(todo)) \subseteq ToSet(todo)
         /\ IsInjective(Tail(todo)) /\ Current \notin ToSet(Tail(todo))
         /\ \A e \in ToSet(log) : e \in Entries /\ e.check # Current
<1>1. todo # <<>> /\ todo \in Seq(Checks) /\ IsInjective(todo)
  BY DEF Fits, EachOnce, Working, Idle
<1>2. /\ Current \in Checks /\ Current \in ToSet(todo) /\ Tail(todo) \in Seq(Checks)
      /\ ToSet(Tail(todo)) \subseteq ToSet(todo)
      /\ IsInjective(Tail(todo)) /\ Current \notin ToSet(Tail(todo))
  BY <1>1, SetOfTail DEF Current
<1>3. run \in Nat \ {0}
  <2>1. campaign \in Seq(Seq(Checks)) /\ run \in 0..Len(campaign) /\ run > 0
    BY <1>1, CampaignsAssumption DEF Fits
  <2>2. QED
    BY <2>1
<1>4. \A e \in ToSet(log) : e \in Entries /\ e.check # Current
  <2>1. log \in Seq(Entries)
    BY DEF Fits
  <2>2. ToSet(log) \subseteq Entries
    BY <2>1, LenProperties, ElementOfSeq DEF ToSet
  <2>3. QED
    BY <2>2, <1>2 DEF EachOnce
<1>5. QED
  BY <1>1, <1>2, <1>3, <1>4

(* Logging the check under way.                                            *)
LEMMA Logging ==
  ASSUME Fits, EachOnce, Working, NEW status \in {"pass", "fail"}, Record(status)
  PROVE  LET entry == Entry(Current, status, payload'[Current] # Absent) IN
         /\ entry \in Entries
         /\ todo' \in Seq(Checks) /\ log' \in Seq(Entries) /\ pending' = <<>>
         /\ ToSet(log') = ToSet(log) \cup {entry}
         /\ EachOnce'
<1> DEFINE entry == Entry(Current, status, payload'[Current] # Absent)
<1>1. entry \in Entries /\ entry.check = Current
  BY AtHand DEF Entry, Entries
<1>2. log' = Append(log, entry) /\ todo' = Tail(todo) /\ pending' = <<>>
  BY DEF Record
<1> HIDE DEF entry
<1>3. log' \in Seq(Entries) /\ ToSet(log') = ToSet(log) \cup {entry}
  <2>1. log \in Seq(Entries)
    BY DEF Fits
  <2>2. QED
    BY <2>1, <1>1, <1>2, SetOfAppend
<1>4. EachOnce'
  <2>1. IsInjective(todo') /\ Current \notin ToSet(todo')
    BY <1>2, AtHand
  <2>2. ASSUME NEW e \in ToSet(log') PROVE e.check \notin ToSet(todo')
    BY <1>1, <1>2, <1>3, <2>1, AtHand DEF EachOnce
  <2>3. QED
    BY <2>1, <2>2 DEF EachOnce
<1>5. todo' \in Seq(Checks)
  BY <1>2, AtHand
<1>6. QED
  BY <1>1, <1>2, <1>3, <1>4, <1>5 DEF entry

LEMMA LiveInit == Init => LiveInv
<1> SUFFICES ASSUME Init PROVE LiveInv
  OBVIOUS
<1>1. Fits
  <2>1. campaign \in Seq(Seq(Checks)) /\ run = 0
    BY CampaignsAssumption DEF Init
  <2>2. run \in 0..Len(campaign)
    BY <2>1, LenProperties
  <2>3. QED
    BY <2>2 DEF Init, Fits, Unchecked
<1>2. ToSet(<<>>) = {}
  BY DEF ToSet
<1>3. Placed
  BY DEF Init, Placed
<1>4. EachOnce
  BY <1>2 DEF Init, EachOnce, IsInjective
<1>5. PayloadsLogged /\ Underway /\ Backed
  BY <1>2 DEF Init, PayloadsLogged, Underway, Backed, Passed
<1>6. Judged
  BY DEF Init, Judged, Unchecked
<1>7. QED
  BY <1>1, <1>3, <1>4, <1>5, <1>6 DEF LiveInv

LEMMA BeginRunStep == LiveInv /\ BeginRun => LiveInv'
<1> SUFFICES ASSUME LiveInv, BeginRun PROVE LiveInv'
  OBVIOUS
<1> USE DEF LiveInv
<1>1. /\ campaign \in Campaigns /\ campaign \in Seq(Seq(Checks)) /\ Len(campaign) \in Nat
      /\ run \in Nat /\ run + 1 \in 1..Len(campaign)
  <2>1. campaign \in Campaigns /\ campaign \in Seq(Seq(Checks)) /\ run \in 0..Len(campaign)
        /\ run < Len(campaign)
    BY CampaignsAssumption DEF Fits, BeginRun
  <2>2. QED
    BY <2>1, LenProperties
<1>2. campaign[run + 1] \in Seq(Checks) /\ IsInjective(campaign[run + 1])
  <2>1. campaign[run + 1] \in Seq(Checks)
    BY <1>1, ElementOfSeq
  <2>2. campaign[run + 1] \in Plans
    <3>1. campaign[run + 1] \in ToSet(campaign)
      BY <1>1, LenProperties DEF ToSet
    <3>2. QED
      BY <1>1, <3>1 DEF Plans
  <2>3. QED
    BY <2>1, <2>2, CampaignsAssumption
<1>3. ToSet(log') = {} /\ pending' = <<>> /\ pending = <<>>
  <2>1. pending = <<>>
    BY DEF BeginRun, Underway, Working
  <2>2. QED
    BY <2>1 DEF BeginRun, ToSet
<1>4. Fits'
  <2>1. run' \in 0..Len(campaign') /\ run' > 0
    BY <1>1 DEF BeginRun
  <2>2. QED
    BY <1>2, <2>1 DEF BeginRun, Fits, Unchecked
<1>5. EachOnce'
  BY <1>2, <1>3 DEF EachOnce, BeginRun
<1>6. Placed'
  BY DEF BeginRun, Placed
<1>7. PayloadsLogged' /\ Underway' /\ Backed'
  BY <1>3 DEF PayloadsLogged, Underway, Backed, Passed
<1>8. Judged'
  BY DEF BeginRun, Judged, Unchecked
<1>9. QED
  BY <1>4, <1>5, <1>6, <1>7, <1>8

(* A payload or a source of the check under way is the only one that       *)
(* changes, and is of this run.                                            *)
LEMMA FileIsContent ==
  ASSUME Fits, Working, NEW says \in Sayings
  PROVE  File(run, says) \in Content
<1>1. campaign \in Seq(Seq(Checks)) /\ run \in 0..Len(campaign) /\ run > 0
  BY CampaignsAssumption DEF Fits, Working, Idle
<1>2. run \in Nat \ {0}
  BY <1>1
<1>3. QED
  BY <1>2 DEF Content, File

LEMMA ExecutePassStep == LiveInv /\ ExecutePass => LiveInv'
<1> SUFFICES ASSUME LiveInv, ExecutePass PROVE LiveInv'
  OBVIOUS
<1> USE DEF LiveInv
<1>1. Working /\ pending = <<>> /\ pending' = Captured(Current) /\ Current \in Checks
  BY AtHand DEF ExecutePass
<1>2. UNCHANGED <<campaign, run, todo, context, log, summary>>
  BY DEF ExecutePass
<1>3. /\ payload' \in [Checks -> Content \cup {Absent}]
      /\ source' \in [Checks -> Content \cup {Absent}]
      /\ \A t \in Checks \ {Current} : payload'[t] = payload[t]
  <2>1. PICK says \in Sayings, silent \in BOOLEAN :
          /\ payload' = IF silent THEN payload
                        ELSE [payload EXCEPT ![Current] = File(run, says)]
          /\ source' = [source EXCEPT ![Current] = File(run, says)]
    BY DEF ExecutePass
  <2>2. File(run, says) \in Content
    BY <1>1, FileIsContent
  <2>3. QED
    BY <2>1, <2>2, <1>1 DEF Fits
<1>4. Fits'
  BY <1>1, <1>2, <1>3, NeededIsCaptured DEF Fits
<1>5. Placed' /\ EachOnce'
  BY <1>2 DEF Placed, EachOnce
<1>6. PayloadsLogged'
  <2>1. \A e \in ToSet(log) : e.check \in Checks \ {Current}
    BY <1>1, AtHand DEF Entries
  <2>2. \A e \in ToSet(log) : payload'[e.check] = payload[e.check]
    BY <2>1, <1>3
  <2>3. QED
    BY <1>2, <2>2 DEF PayloadsLogged
<1>7. Underway'
  BY <1>1, <1>2 DEF Underway, Working, Idle, Current
<1>8. Backed'
  BY <1>2 DEF Backed, Passed, Kept
<1>9. Judged'
  BY <1>1, <1>2 DEF Judged, Working
<1>10. QED
  BY <1>4, <1>5, <1>6, <1>7, <1>8, <1>9

LEMMA ExecuteFailStep == LiveInv /\ ExecuteFail => LiveInv'
<1> SUFFICES ASSUME LiveInv, ExecuteFail PROVE LiveInv'
  OBVIOUS
<1> USE DEF LiveInv
<1>1. Working /\ pending = <<>> /\ Current \in Checks /\ run > 0
  BY AtHand DEF ExecuteFail
<1>2. UNCHANGED <<campaign, run, context, summary>> /\ Record("fail")
  BY DEF ExecuteFail
<1> DEFINE entry == Entry(Current, "fail", payload'[Current] # Absent)
<1>3. /\ entry \in Entries /\ todo' \in Seq(Checks) /\ log' \in Seq(Entries)
      /\ pending' = <<>> /\ ToSet(log') = ToSet(log) \cup {entry} /\ EachOnce'
  BY <1>1, <1>2, Logging
<1>4. /\ payload' \in [Checks -> Content \cup {Absent}]
      /\ source' \in [Checks -> Content \cup {Absent}]
      /\ \A t \in Checks \ {Current} : payload'[t] = payload[t]
  <2>1. PICK says \in Sayings :
         /\ payload' \in {payload, [payload EXCEPT ![Current] = File(run, says)]}
         /\ source' \in {source, [source EXCEPT ![Current] = File(run, says)]}
    BY DEF ExecuteFail
  <2>2. File(run, says) \in Content
    BY <1>1, FileIsContent
  <2>3. QED
    BY <2>1, <2>2, <1>1 DEF Fits
<1>5. Fits'
  BY <1>1, <1>2, <1>3, <1>4 DEF Fits
<1>6. Placed'
  BY <1>2 DEF Placed
<1>7. PayloadsLogged'
  <2>1. \A e \in ToSet(log) : e.check \in Checks \ {Current}
    BY <1>1, AtHand DEF Entries
  <2>2. \A e \in ToSet(log) : e.payload <=> payload'[e.check] # Absent
    BY <2>1, <1>4 DEF PayloadsLogged
  <2>3. entry.check = Current /\ (entry.payload <=> payload'[Current] # Absent)
    BY DEF Entry
  <2>4. QED
    BY <1>3, <2>2, <2>3 DEF PayloadsLogged
<1>8. Underway'
  BY <1>3 DEF Underway
<1>9. Backed'
  <2>1. Passed' = Passed
    <3>1. entry.status = "fail"
      BY DEF Entry
    <3>2. QED
      BY <1>3, <3>1 DEF Passed
  <2>2. QED
    BY <1>2, <2>1 DEF Backed, Kept
<1>10. Judged'
  BY <1>1, <1>2 DEF Judged, Working
<1>11. QED
  BY <1>3, <1>5, <1>6, <1>7, <1>8, <1>9, <1>10

(* Recording a context disturbs no check of the log, and brings the check  *)
(* under way one context further when it is written whole.                 *)
LEMMA Recording ==
  ASSUME LiveInv, pending # <<>>, NEW whole \in BOOLEAN,
         context' = Recorded(whole), run' = run
  PROVE  /\ Placed'
         /\ \A e \in Passed : \A c \in ToSet(Captured(e.check)) : Kept(e.check, c)'
         /\ whole => \A c \in ToSet(Captured(Current)) \ ToSet(Tail(pending)) :
              /\ <<Current, c>> \in DOMAIN context'
              /\ context'[<<Current, c>>] = [run |-> run, whole |-> TRUE]
<1> USE DEF LiveInv
<1> DEFINE key == <<Current, Head(pending)>>
<1>1. /\ DOMAIN context' = DOMAIN context \cup {key}
      /\ context'[key] = [run |-> run, whole |-> whole]
      /\ \A k \in DOMAIN context \ {key} : context'[k] = context[k]
  BY RecordedIs
<1>2. /\ Working /\ ToSet(pending) \subseteq ToSet(Captured(Current))
      /\ \A c \in ToSet(Captured(Current)) \ ToSet(pending) : Kept(Current, c)
  BY DEF Underway
<1>3. /\ ToSet(pending) = ToSet(Tail(pending)) \cup {Head(pending)}
      /\ Head(pending) \in ToSet(Captured(Current)) /\ Current \in Checks
  <2>1. pending \in Seq(Names)
    BY DEF Fits
  <2>2. ToSet(pending) = ToSet(Tail(pending)) \cup {Head(pending)} /\ Head(pending) \in ToSet(pending)
    BY <2>1, SetOfTail
  <2>3. QED
    BY <1>2, <2>2, AtHand
<1>4. Placed'
  <2>1. ASSUME NEW k \in DOMAIN context'
        PROVE  \E t \in Checks : \E c \in ToSet(Captured(t)) : k = <<t, c>>
    BY <1>1, <1>3 DEF Placed
  <2>2. QED
    BY <2>1 DEF Placed
<1>5. ASSUME NEW e \in Passed, NEW c \in ToSet(Captured(e.check)) PROVE Kept(e.check, c)'
  <2>1. Kept(e.check, c)
    BY DEF Backed
  <2>2. e.check # Current
    BY <1>2, AtHand DEF Passed
  <2>3. <<e.check, c>> # key
    BY <2>2
  <2>4. QED
    BY <1>1, <2>1, <2>3 DEF Kept
<1>6. ASSUME whole, NEW c \in ToSet(Captured(Current)) \ ToSet(Tail(pending))
      PROVE  /\ <<Current, c>> \in DOMAIN context'
             /\ context'[<<Current, c>>] = [run |-> run, whole |-> TRUE]
  <2>1. CASE c = Head(pending)
    BY <1>1, <1>6, <2>1
  <2>2. CASE c # Head(pending)
    <3>1. Kept(Current, c) /\ <<Current, c>> # key
      BY <1>2, <1>3, <2>2
    <3>2. QED
      BY <1>1, <3>1 DEF Kept
  <2>3. QED
    BY <2>1, <2>2
<1>7. QED
  BY <1>4, <1>5, <1>6

(* What the log says of payloads stays true when the check under way is    *)
(* logged and no payload changes.                                          *)
LEMMA LoggedAsFound ==
  ASSUME LiveInv, Working, NEW status \in {"pass", "fail"}, Record(status),
         UNCHANGED <<campaign, run, payload, source, summary>>
  PROVE  Fits' /\ EachOnce' /\ PayloadsLogged' /\ Underway' /\ Judged'
<1> USE DEF LiveInv
<1> DEFINE entry == Entry(Current, status, payload'[Current] # Absent)
<1>1. /\ entry \in Entries /\ todo' \in Seq(Checks) /\ log' \in Seq(Entries)
      /\ pending' = <<>> /\ ToSet(log') = ToSet(log) \cup {entry} /\ EachOnce'
  BY Logging
<1>2. Fits'
  <2>1. run > 0
    BY AtHand
  <2>2. QED
    BY <1>1, <2>1 DEF Fits
<1>3. PayloadsLogged'
  <2>1. entry.check = Current /\ (entry.payload <=> payload'[Current] # Absent)
    BY DEF Entry
  <2>2. QED
    BY <1>1, <2>1 DEF PayloadsLogged
<1>4. Underway'
  BY <1>1 DEF Underway
<1>5. Judged'
  BY DEF Judged, Working
<1>6. QED
  BY <1>1, <1>2, <1>3, <1>4, <1>5

LEMMA CaptureStep == LiveInv /\ Capture => LiveInv'
<1> SUFFICES ASSUME LiveInv, Capture PROVE LiveInv'
  OBVIOUS
<1>1. /\ pending # <<>> /\ context' = Recorded(TRUE)
      /\ UNCHANGED <<campaign, run, payload, source, summary>>
  BY DEF Capture
<1>2. Working /\ summary.outcome = "none"
  BY <1>1 DEF LiveInv, Underway, Judged, Working
<1>3. Placed' /\ \A e \in Passed : \A c \in ToSet(Captured(e.check)) : Kept(e.check, c)'
  BY <1>1, Recording
<1>4. \A c \in ToSet(Captured(Current)) \ ToSet(Tail(pending)) :
        /\ <<Current, c>> \in DOMAIN context'
        /\ context'[<<Current, c>>] = [run |-> run, whole |-> TRUE]
  BY <1>1, Recording
<1>5. CASE Tail(pending) # <<>>
  <2>1. pending' = Tail(pending) /\ UNCHANGED <<todo, log>>
    BY <1>5 DEF Capture
  <2>2. Fits'
    <3>1. pending' \in Seq(Names)
      <4>1. pending \in Seq(Names)
        BY DEF LiveInv, Fits
      <4>2. QED
        BY <4>1, <1>1, <2>1, SetOfTail
    <3>2. QED
      BY <1>1, <2>1, <3>1 DEF LiveInv, Fits
  <2>3. EachOnce' /\ PayloadsLogged' /\ Judged'
    BY <1>1, <1>2, <2>1 DEF LiveInv, EachOnce, PayloadsLogged, Judged
  <2>4. Underway'
    <3>1. ToSet(Tail(pending)) \subseteq ToSet(Captured(Current))
      <4>1. pending \in Seq(Names) /\ ToSet(pending) \subseteq ToSet(Captured(Current))
        BY <1>1 DEF LiveInv, Fits, Underway
      <4>2. QED
        BY <4>1, <1>1, SetOfTail
    <3>2. Current' = Current /\ Working'
      BY <1>2, <2>1 DEF Current, Working, Idle
    <3>3. \A c \in ToSet(Captured(Current')) \ ToSet(pending') : Kept(Current, c)'
      BY <1>1, <1>4, <2>1, <3>2 DEF Kept
    <3>4. QED
      BY <2>1, <3>1, <3>2, <3>3 DEF Underway
  <2>5. Backed'
    <3>1. Passed' = Passed
      BY <2>1 DEF Passed
    <3>2. QED
      BY <1>3, <3>1 DEF Backed
  <2>6. QED
    BY <1>3, <2>2, <2>3, <2>4, <2>5 DEF LiveInv
<1>6. CASE Tail(pending) = <<>>
  <2>1. Record("pass")
    BY <1>6 DEF Capture
  <2>2. Fits' /\ EachOnce' /\ PayloadsLogged' /\ Underway' /\ Judged'
    BY <1>1, <1>2, <2>1, LoggedAsFound
  <2>3. Backed'
    <3> DEFINE entry == Entry(Current, "pass", payload'[Current] # Absent)
    <3>1. ToSet(log') = ToSet(log) \cup {entry} /\ entry.check = Current
      BY <1>2, <2>1, Logging DEF LiveInv, Entry
    <3>2. ToSet(Tail(pending)) = {}
      BY <1>6 DEF ToSet
    <3>3. ASSUME NEW e \in Passed', NEW c \in ToSet(Captured(e.check))
          PROVE  Kept(e.check, c)'
      <4>1. CASE e \in Passed
        BY <1>3, <4>1
      <4>2. CASE e = entry
        <5>1. e.check = Current /\ c \notin ToSet(Tail(pending))
          BY <3>1, <3>2, <4>2
        <5>2. QED
          BY <1>1, <1>4, <5>1 DEF Kept
      <4>3. QED
        BY <3>1, <4>1, <4>2 DEF Passed
    <3>4. QED
      BY <3>3 DEF Backed
  <2>4. QED
    BY <1>3, <2>2, <2>3 DEF LiveInv
<1>7. QED
  BY <1>5, <1>6

LEMMA CaptureFailsStep == LiveInv /\ CaptureFails => LiveInv'
<1> SUFFICES ASSUME LiveInv, CaptureFails PROVE LiveInv'
  OBVIOUS
<1>1. /\ pending # <<>> /\ context' \in {context, Recorded(FALSE)} /\ Record("fail")
      /\ UNCHANGED <<campaign, run, payload, source, summary>>
  BY DEF CaptureFails
<1>2. Working
  BY <1>1 DEF LiveInv, Underway
<1>3. Placed' /\ \A e \in Passed : \A c \in ToSet(Captured(e.check)) : Kept(e.check, c)'
  <2>1. CASE context' = context
    BY <1>1, <2>1 DEF LiveInv, Placed, Backed, Kept
  <2>2. CASE context' = Recorded(FALSE)
    BY <1>1, <2>2, Recording
  <2>3. QED
    BY <1>1, <2>1, <2>2
<1>4. Fits' /\ EachOnce' /\ PayloadsLogged' /\ Underway' /\ Judged'
  BY <1>1, <1>2, LoggedAsFound
<1>5. Backed'
  <2> DEFINE entry == Entry(Current, "fail", payload'[Current] # Absent)
  <2>1. ToSet(log') = ToSet(log) \cup {entry} /\ entry.status = "fail"
    BY <1>1, <1>2, Logging DEF LiveInv, Entry
  <2>2. Passed' = Passed
    BY <2>1 DEF Passed
  <2>3. QED
    BY <1>3, <2>2 DEF Backed
<1>6. QED
  BY <1>3, <1>4, <1>5 DEF LiveInv

LEMMA CrashStep == LiveInv /\ Crash => LiveInv'
<1> SUFFICES ASSUME LiveInv, Crash PROVE LiveInv'
  OBVIOUS
<1>1. /\ Working /\ todo' = <<>> /\ pending' = <<>>
      /\ UNCHANGED <<campaign, run, payload, source, log, summary>>
  BY DEF Crash
<1>2. context' = context \/ (pending # <<>> /\ context' = Recorded(FALSE))
  BY DEF Crash
<1>3. Placed' /\ \A e \in Passed : \A c \in ToSet(Captured(e.check)) : Kept(e.check, c)'
  <2>1. CASE context' = context
    BY <1>1, <2>1 DEF LiveInv, Placed, Backed, Kept
  <2>2. CASE pending # <<>> /\ context' = Recorded(FALSE)
    BY <1>1, <2>2, Recording
  <2>3. QED
    BY <1>2, <2>1, <2>2
<1>4. ToSet(todo') = {}
  BY <1>1 DEF ToSet
<1>5. Fits' /\ EachOnce' /\ PayloadsLogged' /\ Underway'
  BY <1>1, <1>4 DEF LiveInv, Fits, EachOnce, PayloadsLogged, Underway, IsInjective
<1>6. Judged'
  BY <1>1 DEF LiveInv, Judged, Working
<1>7. Backed'
  <2>1. Passed' = Passed
    BY <1>1 DEF Passed
  <2>2. QED
    BY <1>3, <2>1 DEF Backed
<1>8. QED
  BY <1>3, <1>5, <1>6, <1>7 DEF LiveInv

LEMMA ValidateStep == LiveInv /\ ValidateLiveRun => LiveInv'
<1> SUFFICES ASSUME LiveInv, ValidateLiveRun PROVE LiveInv'
  OBVIOUS
<1>1. /\ Idle /\ run > 0
      /\ UNCHANGED <<campaign, run, todo, pending, payload, source, context, log>>
  BY DEF ValidateLiveRun
<1>2. /\ Passed' = Passed /\ Idle' = Idle /\ Aborts' = Aborts
      /\ Findings' = Findings
      /\ {e.check : e \in {x \in Passed : Readable(x)}}'
           = {e.check : e \in {x \in Passed : Readable(x)}}
  BY <1>1 DEF Passed, Idle, Aborts, Findings, Readable, PayloadFinding, ContextFindings,
       SiblingFindings, ConsistencyFindings, ContextAt, SourceAt
<1>3. Judged' /\ summary'.outcome \in {"error", "done"}
  <2>1. summary' = IF Aborts THEN [outcome |-> "error", checked |-> {}, findings |-> {}]
                   ELSE [outcome |-> "done",
                         checked |-> {e.check : e \in {x \in Passed : Readable(x)}},
                         findings |-> Findings]
    BY DEF ValidateLiveRun
  <2>2. CASE Aborts
    BY <1>1, <1>2, <2>1, <2>2 DEF Judged
  <2>3. CASE ~Aborts
    BY <1>1, <1>2, <2>1, <2>3 DEF Judged
  <2>4. QED
    BY <2>2, <2>3, <2>1
<1>4. Fits' /\ Placed' /\ EachOnce' /\ PayloadsLogged'
  BY <1>1, <1>3 DEF LiveInv, Fits, Placed, EachOnce, PayloadsLogged
<1>5. Underway' /\ Backed'
  BY <1>1, <1>2 DEF LiveInv, Underway, Working, Current, Backed, Kept
<1>6. QED
  BY <1>3, <1>4, <1>5 DEF LiveInv

LEMMA LiveStutter == LiveInv /\ UNCHANGED vars => LiveInv'
<1> SUFFICES ASSUME LiveInv, UNCHANGED vars PROVE LiveInv'
  OBVIOUS
<1>1. UNCHANGED <<campaign, run, todo, pending, payload, source, context, log, summary>>
  BY DEF vars
<1>2. /\ Passed' = Passed /\ Idle' = Idle /\ Aborts' = Aborts
      /\ Findings' = Findings
      /\ {e.check : e \in {x \in Passed : Readable(x)}}'
           = {e.check : e \in {x \in Passed : Readable(x)}}
  BY <1>1 DEF Passed, Idle, Aborts, Findings, Readable, PayloadFinding, ContextFindings,
       SiblingFindings, ConsistencyFindings, ContextAt, SourceAt
<1>3. Fits' /\ Placed' /\ EachOnce' /\ PayloadsLogged' /\ Judged'
  BY <1>1, <1>2 DEF LiveInv, Fits, Placed, EachOnce, PayloadsLogged, Judged
<1>4. Underway' /\ Backed'
  BY <1>1, <1>2 DEF LiveInv, Underway, Working, Current, Backed, Kept
<1>5. QED
  BY <1>3, <1>4 DEF LiveInv

(* Along every sequence of runs in the directory, killed and failed ones   *)
(* among them, the log, the payloads, the contexts and the summary of the  *)
(* latest run fit each other.                                              *)
THEOREM LiveInvariant == Spec => []LiveInv
<1>1. LiveInv /\ [Next]_vars => LiveInv'
  BY BeginRunStep, ExecutePassStep, ExecuteFailStep, CaptureStep, CaptureFailsStep,
     CrashStep, ValidateStep, LiveStutter DEF Next
<1>2. QED
  BY LiveInit, <1>1, PTL DEF Spec

-----------------------------------------------------------------------------
(* What follows *)

LEMMA PassedTypes ==
  ASSUME LiveInv, NEW e \in Passed
  PROVE  /\ e \in Entries /\ e.check \in Checks
         /\ payload[e.check] \in Content \cup {Absent}
         /\ e.payload <=> payload[e.check] # Absent
<1>1. e \in ToSet(log) /\ log \in Seq(Entries)
  BY DEF Passed, LiveInv, Fits
<1>2. e \in Entries /\ e.check \in Checks
  <2>1. ToSet(log) \subseteq Entries
    BY <1>1, LenProperties, ElementOfSeq DEF ToSet
  <2>2. QED
    BY <1>1, <2>1 DEF Entries
<1>3. payload[e.check] \in Content \cup {Absent}
  BY <1>2 DEF LiveInv, Fits
<1>4. e.payload <=> payload[e.check] # Absent
  BY <1>1 DEF LiveInv, PayloadsLogged
<1>5. QED
  BY <1>2, <1>3, <1>4

LEMMA ContextsKept == LiveInv => ContextsAreOwn
<1> SUFFICES ASSUME LiveInv, NEW e \in Passed, NEW c \in Needed(e.check)
             PROVE  ContextAt(e.check, c) = [run |-> run, whole |-> TRUE]
  BY DEF ContextsAreOwn
<1>1. c \in ToSet(Captured(e.check))
  BY PassedTypes, NeededIsCaptured
<1>2. Kept(e.check, c)
  BY <1>1 DEF LiveInv, Backed
<1>3. QED
  BY <1>2 DEF Kept, ContextAt

LEMMA NoAbort == LiveInv => ~Aborts
<1> SUFFICES ASSUME LiveInv, NEW e \in Passed, NEW k \in DOMAIN context,
                    k[1] = e.check, ~context[k].whole
             PROVE  FALSE
  BY DEF Aborts
<1>1. PICK t \in Checks : \E c \in ToSet(Captured(t)) : k = <<t, c>>
  BY DEF LiveInv, Placed
<1>2. PICK c \in ToSet(Captured(t)) : k = <<t, c>>
  BY <1>1
<1>3. t = e.check
  BY <1>2
<1>4. Kept(e.check, c) /\ k = <<e.check, c>>
  BY <1>2, <1>3 DEF LiveInv, Backed
<1>5. context[k].whole = TRUE
  BY <1>4 DEF Kept
<1>6. QED
  BY <1>5

LEMMA NothingUnseen == LiveInv => NothingPassesUnseen
<1> SUFFICES ASSUME LiveInv, summary.outcome = "done", NEW e \in Passed
             PROVE  LET named == {f.check : f \in summary.findings} IN
                    /\ e.check \in summary.checked \cup named
                    /\ (payload[e.check].says # "truth" /\
                          (\/ Needed(e.check) # {}
                           \/ \E s \in Siblings(e.check) : SourceAt(s).says = "truth"))
                         => e.check \in named
  BY DEF NothingPassesUnseen
<1> DEFINE named == {f.check : f \in summary.findings}
<1>1. /\ summary.checked = {x.check : x \in {y \in Passed : Readable(y)}}
      /\ summary.findings = Findings
  BY DEF LiveInv, Judged
<1>2. /\ PayloadFinding(e) \subseteq summary.findings
      /\ ContextFindings(e) \subseteq summary.findings
      /\ SiblingFindings(e) \subseteq summary.findings
  <2> DEFINE Blamed(x) == PayloadFinding(x) \cup ContextFindings(x) \cup SiblingFindings(x)
  <2>1. Findings = (UNION {Blamed(x) : x \in Passed}) \cup ConsistencyFindings
    BY DEF Findings
  <2>2. Blamed(e) \in {Blamed(x) : x \in Passed}
    OBVIOUS
  <2> HIDE DEF Blamed
  <2>3. Blamed(e) \subseteq summary.findings
    BY <1>1, <2>1, <2>2
  <2>4. QED
    BY <2>3 DEF Blamed
<1>3. \A what : Finding(e.check, what) \in summary.findings => e.check \in named
  BY DEF Finding
<1> HIDE DEF named
<1>4. CASE ~Readable(e)
  <2>1. \E what : Finding(e.check, what) \in PayloadFinding(e)
    BY <1>4 DEF PayloadFinding, Readable
  <2>2. e.check \in named
    BY <1>2, <1>3, <2>1
  <2>3. QED
    BY <2>2 DEF named
<1>5. CASE Readable(e)
  <2>1. e.check \in summary.checked
    BY <1>1, <1>5
  <2>2. ASSUME payload[e.check].says # "truth", Needed(e.check) # {}
        PROVE  e.check \in named
    <3>1. \E c \in Needed(e.check) : payload[e.check] # File(ContextAt(e.check, c).run, "truth")
      BY <2>2 DEF File
    <3>2. \E what : Finding(e.check, what) \in ContextFindings(e)
      BY <1>5, <3>1 DEF ContextFindings
    <3>3. QED
      BY <1>2, <1>3, <3>2
  <2>3. ASSUME payload[e.check].says # "truth",
               NEW s \in Siblings(e.check), SourceAt(s).says = "truth"
        PROVE  e.check \in named
    <3>1. SourceAt(s) # payload[e.check]
      BY <2>3
    <3>2. \E what : Finding(e.check, what) \in SiblingFindings(e)
      BY <1>5, <3>1 DEF SiblingFindings
    <3>3. QED
      BY <1>2, <1>3, <3>2
  <2>4. QED
    BY <2>1, <2>2, <2>3 DEF named
<1>6. QED
  BY <1>4, <1>5

LEMMA TruthAccepted == LiveInv => TruthIsAccepted
<1> DEFINE passed == {e.check : e \in Passed}
<1> SUFFICES ASSUME LiveInv, summary.outcome = "done",
                    \A t \in passed : payload[t] = File(run, "truth") /\ source[t] = payload[t],
                    NEW f \in summary.findings,
                    {Command(s) : s \in Siblings(f.check)} \subseteq passed
             PROVE  FALSE
  BY DEF TruthIsAccepted
<1>1. summary.findings = Findings /\ run > 0
  BY DEF LiveInv, Judged
<1>2. \A e \in Passed : payload[e.check] = File(run, "truth") /\ e.check \in passed /\ Readable(e)
  <2>1. ASSUME NEW e \in Passed
        PROVE  payload[e.check] = File(run, "truth") /\ e.check \in passed /\ Readable(e)
    <3>1. payload[e.check] = File(run, "truth") /\ e.check \in passed
      OBVIOUS
    <3>2. payload[e.check].says = "truth" /\ payload[e.check] # Absent
      BY <3>1 DEF File, Absent
    <3>3. Readable(e)
      BY <3>2, PassedTypes DEF Readable
    <3>4. QED
      BY <3>1, <3>3
  <2>2. QED
    BY <2>1
<1>3. ASSUME NEW e \in Passed PROVE PayloadFinding(e) = {}
  <2>1. e.payload /\ payload[e.check].says = "truth"
    BY <1>2 DEF Readable, File
  <2>2. QED
    BY <2>1 DEF PayloadFinding
<1>4. ASSUME NEW e \in Passed PROVE ContextFindings(e) = {}
  <2>1. \A c \in Needed(e.check) : ContextAt(e.check, c).run = run
    BY ContextsKept DEF ContextsAreOwn
  <2>2. QED
    BY <1>1, <1>2, <2>1 DEF ContextFindings
<1>5. ConsistencyFindings = {}
  <2>1. \A t \in passed : payload[t] = File(run, "truth")
    OBVIOUS
  <2>2. {e.check : e \in {x \in Passed : Readable(x)}} \subseteq passed
    OBVIOUS
  <2>3. QED
    BY <2>1, <2>2 DEF ConsistencyFindings
<1>6. ASSUME NEW e \in Passed, f \in SiblingFindings(e) PROVE FALSE
  <2>1. f.check = e.check
    BY <1>6 DEF SiblingFindings, Finding
  <2>2. ASSUME NEW s \in Siblings(e.check)
        PROVE  SourceAt(s) = File(run, "truth")
    <3>1. Command(s) \in passed
      BY <2>1
    <3>2. Command(s) \in Checks
      BY <3>1, PassedTypes
    <3>3. source[Command(s)] = File(run, "truth")
      BY <3>1
    <3>4. QED
      BY <3>2, <3>3 DEF SourceAt
  <2>3. SiblingFindings(e) = {}
    <3> DEFINE read == {SourceAt(s) : s \in Siblings(e.check)}
    <3>1. \A s \in read : s = File(run, "truth") /\ s = payload[e.check] /\ s.says = "truth"
      BY <1>2, <2>2 DEF File
    <3>2. SiblingFindings(e) =
            IF ~Readable(e) THEN {}
            ELSE IF \E s \in read : s.says \in {"absent", "broken"}
              THEN {Finding(e.check, "missing-source")}
            ELSE IF \E s \in read : s # payload[e.check] THEN {Finding(e.check, "drift")}
            ELSE {}
      BY DEF SiblingFindings
    <3> HIDE DEF read
    <3>3. QED
      BY <3>1, <3>2
  <2>4. QED
    BY <1>6, <2>3
<1>7. QED
  BY <1>1, <1>3, <1>4, <1>5, <1>6 DEF Findings

(* ContextsAreOwn: the contexts a validator needs for a check that the log *)
(* calls passed were recorded by the very run that wrote the log, and are  *)
(* whole, whatever failed or was killed before.                            *)
THEOREM ContextsStayOwn == Spec => []ContextsAreOwn
BY LiveInvariant, ContextsKept, PTL

(* LeftoversDoNotStopIt: no torn file makes ValidateLiveRun give up.       *)
THEOREM NothingStopsIt == Spec => []LeftoversDoNotStopIt
<1>1. LiveInv => LeftoversDoNotStopIt
  BY NoAbort DEF LeftoversDoNotStopIt, LiveInv, Judged
<1>2. QED
  BY <1>1, LiveInvariant, PTL

(* NothingPassesUnseen: every check that passed is compared or named in a  *)
(* finding, and named when what it is compared with can tell a lie.        *)
THEOREM EveryPassIsAnswered == Spec => []NothingPassesUnseen
BY LiveInvariant, NothingUnseen, PTL

(* TruthIsAccepted: a tool that says the truth throughout the run is       *)
(* blamed for nothing but for siblings that did not pass in it.            *)
THEOREM TruthfulRunsStand == Spec => []TruthIsAccepted
BY LiveInvariant, TruthAccepted, PTL

=============================================================================
