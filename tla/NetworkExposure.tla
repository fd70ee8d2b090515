--------------------------- MODULE NetworkExposure ---------------------------
(***************************************************************************)
(* What the network-effective and network-ports checks are compared with.  *)
(* Both captures walk the interfaces of a virtual machine that has a       *)
(* public address, read the security group of each interface and of its    *)
(* subnet, and collect evidence: a row for every inbound allow rule, or    *)
(* one that says that none is visible (collectVMLiveNetworkEvidence).      *)
(* network-ports keeps the rows, network-effective sums them up.  A group  *)
(* or subnet the viewpoint may not read is passed over; any other error    *)
(* ends the capture.                                                       *)
(*                                                                         *)
(* One machine with one address, each interface with one address           *)
(* configuration; container groups, whose rows have no evidence, are left  *)
(* out.  The two commands run one after the other, each with a capture of  *)
(* its own.  Azure stays as it is meanwhile: an edit under a check is in   *)
(* SurfaceCheck and PostureFindings.                                       *)
(***************************************************************************)
EXTENDS Naturals, Sequences, FiniteSets, SequencesExt

CONSTANTS
    Nics,        \* the machine's interfaces, in order
    Groups,      \* network security groups
    NoGroup,     \* an interface or a subnet without one
    RuleLists,   \* what the rules of a group may be
    OpenTexts,   \* the sources in whose text a word of Open occurs
    Layouts      \* which groups the interfaces and their subnets have

Commands == <<"network-effective", "network-ports">>
Subnets == "subnets"            \* the right to read subnets
Another == "another"            \* an interface of another machine

ASSUME NicsAssumption ==
    Nics \in Seq(STRING) /\ IsInjective(Nics) /\ Another \notin ToSet(Nics)
ASSUME GroupsAssumption == NoGroup \notin Groups \cup {Subnets}
ASSUME LayoutsAssumption ==
    \A l \in Layouts : {l.nic, l.subnet} \subseteq [ToSet(Nics) -> Groups \cup {NoGroup}]

(* A source is a word, a service tag or a prefix class; the sources of a   *)
(* rule are a set, as are its ports. Deny rules and outbound rules are not *)
(* an allow.                                                               *)
Rule(name, allow, sources, ports) ==
    [name |-> name, allow |-> allow, sources |-> sources, ports |-> ports]

Rules == UNION {ToSet(rules) : rules \in RuleLists}

(* Azure keeps the rules of a group under names of their own.              *)
ASSUME RulesAssumption ==
    \A rules \in RuleLists :
        /\ rules \in Seq(Rules)
        /\ \A i \in DOMAIN rules : IsFiniteSet(rules[i].ports)
        /\ \A i, j \in DOMAIN rules : rules[i].name = rules[j].name => i = j

Open == {"Any", "Internet", "0.0.0.0/0", "::/0"}

(* A word occurs in itself, but in a service tag as well: there is an any  *)
(* in AzureCloud.germanywc.                                                *)
ASSUME OpenTextsAssumption == Open \subseteq OpenTexts

VARIABLES
    azure,      \* layout and rules
    sight,      \* the groups and subnets this viewpoint may read
    slip,       \* what the tool gets wrong, if anything
    at,         \* the command under way
    walk,       \* how far its capture is: interface, next query, group found
    evidence,   \* what the capture collected
    visible,    \* a rule of the interface under way was seen
    told,       \* the payload of each command
    truth,      \* the context of each command
    findings    \* of each validated command

vars == <<azure, sight, slip, at, walk, evidence, visible, told, truth, findings>>

(* ----- confidence --------------------------------------------------------- *)

Rank(confidence) == CASE confidence = "high" -> 2 [] confidence = "medium" -> 1
                      [] confidence = "low" -> 0

networkEffectiveConfidence(sources) ==
    IF sources \cap Open # {} THEN "high"
    ELSE IF sources \cap {"AzureLoadBalancer", "public prefix"} # {} THEN "medium"
    ELSE IF sources \cap {"VirtualNetwork", "private prefix"} # {} THEN "low"
    ELSE "medium"

(* Mutant: only the word Internet makes a port an internet port.           *)
OpenFragment_InternetOnly(sources) == "Internet" \in sources

(* The second classification looks for the words anywhere in the text of   *)
(* the sources.                                                            *)
OpenFragment(sources) == sources \cap OpenTexts # {}

(* ----- evidence ------------------------------------------------------------ *)

Evidence(sources, scope, rule, port, nic, group) ==
    [sources |-> sources, scope |-> scope, rule |-> rule, port |-> port,
     confidence |-> networkEffectiveConfidence(sources), related |-> {nic, group}]

NoScope == <<"none", NoGroup>>

(* Mutant: what cannot be seen is rated medium.                            *)
NoRuleVisible_Medium(nic) ==
    [sources |-> {}, scope |-> NoScope, rule |-> "none", port |-> "any",
     confidence |-> "medium", related |-> {nic}]

NoRuleVisible(nic) ==
    [sources |-> {}, scope |-> NoScope, rule |-> "none", port |-> "any",
     confidence |-> "low", related |-> {nic}]

(* appendRules: no source means any source, no port any port.              *)
RowsOfRule(rule, type, group, nic) ==
    LET sources == IF rule.sources = {} THEN {"Any"} ELSE rule.sources
        ports == IF rule.ports = {} THEN {"any"} ELSE rule.ports
    IN  {Evidence(sources, <<type, group>>, rule.name, p, nic, group) : p \in ports}

RowsOfGroup(type, group, nic) ==
    LET rules == azure.rules[group] IN
    FlattenSeq([i \in DOMAIN rules |->
        IF rules[i].allow THEN SetToSeq(RowsOfRule(rules[i], type, group, nic)) ELSE <<>>])

(* The evidence of a viewpoint with these rights, when nothing changes.    *)
EvidenceOfNic(nic, rights) ==
    LET own == azure.nic[nic]
        subnet == azure.subnet[nic]
        rows == (IF own \in rights THEN RowsOfGroup("nic", own, nic) ELSE <<>>) \o
                (IF {Subnets, subnet} \subseteq rights THEN RowsOfGroup("subnet", subnet, nic)
                 ELSE <<>>)
    IN  IF rows = <<>> THEN <<NoRuleVisible(nic)>> ELSE rows

EvidenceFor(rights) == FlattenSeq([i \in DOMAIN Nics |-> EvidenceOfNic(Nics[i], rights)])

(* networkEffectiveTruthFromEvidence                                       *)
Stated(rows) == {r \in ToSet(rows) : r.scope # NoScope}
InternetPorts(rows) == {r.port : r \in {x \in Stated(rows) : OpenFragment(x.sources)}}
ConstrainedPorts(rows) == {r.port : r \in {x \in Stated(rows) : ~OpenFragment(x.sources)}}

Highest(rows) ==
    CHOOSE c \in {r.confidence : r \in ToSet(rows)} \cup {"low"} :
        \A r \in ToSet(rows) : Rank(r.confidence) <= Rank(c)

Path(r) == <<r.sources, r.scope, r.rule>>

Summary(rows) ==
    [exposure |-> Highest(rows),
     internet |-> InternetPorts(rows),
     constrained |-> ConstrainedPorts(rows),
     paths |-> {Path(r) : r \in ToSet(rows)},
     related |-> UNION {r.related : r \in ToSet(rows)},
     boundary |-> IF Stated(rows) = {} THEN "low-confidence clue" ELSE "not proof"]

(* ----- the tool -------------------------------------------------------------- *)

Current == Commands[at]
Slips == {"none", "omits", "rates", "invents"}

(* network-effective has one row for the address.                          *)
Payload(command, rows) ==
    IF command = "network-effective" THEN <<Summary(rows)>> ELSE rows

Invented(command) ==
    IF command = "network-effective"
    THEN Summary(<<NoRuleVisible(Another)>>) ELSE NoRuleVisible(Another)

Rated(command, row) ==
    IF command = "network-effective"
    THEN {[row EXCEPT !.exposure = c] : c \in {"low", "medium", "high"} \ {row.exposure}}
    ELSE {[row EXCEPT !.confidence = c] : c \in {"low", "medium", "high"} \ {row.confidence}}

Mistaken(command, payload) ==
    CASE slip = "none"    -> {payload}
      [] slip = "omits"   -> {RemoveAt(payload, i) : i \in DOMAIN payload}
      [] slip = "rates"   -> UNION {{ReplaceAt(payload, i, r) : r \in Rated(command, payload[i])} :
                                        i \in DOMAIN payload}
      [] slip = "invents" -> {Append(payload, Invented(command))}
                             \cup {ReplaceAt(payload, i, Invented(command)) : i \in DOMAIN payload}

(* ----- a run of the two checks ------------------------------------------------ *)

Nowhere == [nic |-> 0, query |-> "none", group |-> NoGroup]
NotYet == <<>>
Untold == [i \in DOMAIN Commands |-> NotYet]

Init ==
    /\ azure \in {[nic |-> l.nic, subnet |-> l.subnet, rules |-> r] :
                     l \in Layouts, r \in [Groups -> RuleLists]}
    /\ sight \in SUBSET (Groups \cup {Subnets})
    /\ slip \in Slips
    /\ at = 1 /\ walk = Nowhere /\ evidence = <<>> /\ visible = FALSE
    /\ told = Untold /\ truth = Untold
    /\ findings = [i \in DOMAIN Commands |-> {}]

Running == at \in DOMAIN Commands

(* The tool reads Azure once, and may tell its rows in an order of its own. *)
Tell ==
    /\ Running /\ walk = Nowhere
    /\ \E rows \in {EvidenceFor(sight), Reverse(EvidenceFor(sight))} :
       \E payload \in Mistaken(Current, Payload(Current, rows)) :
          told' = [told EXCEPT ![at] = payload]
    /\ walk' = [nic |-> 1, query |-> "nic", group |-> NoGroup]
    /\ evidence' = <<>> /\ visible' = FALSE
    /\ UNCHANGED <<azure, sight, slip, at, truth, findings>>

Nic == Nics[walk.nic]
Capturing == walk.nic \in DOMAIN Nics
Go(query, group) == walk' = [walk EXCEPT !.query = query, !.group = group]
Asked(query) == Capturing /\ walk.query = query

(* az network nic show                                                     *)
ShowNic ==
    /\ Asked("nic")
    /\ Go("nicGroup", azure.nic[Nic])
    /\ UNCHANGED <<azure, sight, slip, at, evidence, visible, told, truth, findings>>

(* az network nsg show, where there is a group that may be read.           *)
CollectRules(type) ==
    IF walk.group \in sight
    THEN LET rows == RowsOfGroup(type, walk.group, Nic)
         IN  evidence' = evidence \o rows /\ visible' = (visible \/ rows # <<>>)
    ELSE UNCHANGED <<evidence, visible>>

ShowNicGroup ==
    /\ Asked("nicGroup")
    /\ CollectRules("nic")
    /\ Go("subnet", NoGroup)
    /\ UNCHANGED <<azure, sight, slip, at, told, truth, findings>>

(* az network vnet subnet show                                             *)
ShowSubnet ==
    /\ Asked("subnet")
    /\ Go("subnetGroup", IF Subnets \in sight THEN azure.subnet[Nic] ELSE NoGroup)
    /\ UNCHANGED <<azure, sight, slip, at, evidence, visible, told, truth, findings>>

ShowSubnetGroup ==
    /\ Asked("subnetGroup")
    /\ CollectRules("subnet")
    /\ Go("close", NoGroup)
    /\ UNCHANGED <<azure, sight, slip, at, told, truth, findings>>

(* Mutant: that no rule is visible is decided for the machine as a whole.  *)
CloseNic_WholeMachine ==
    /\ Asked("close")
    /\ evidence' = IF evidence # <<>> THEN evidence ELSE Append(evidence, NoRuleVisible(Nic))
    /\ visible' = FALSE
    /\ walk' = [nic |-> walk.nic + 1, query |-> "nic", group |-> NoGroup]
    /\ UNCHANGED <<azure, sight, slip, at, told, truth, findings>>

CloseNic ==
    /\ Asked("close")
    /\ evidence' = IF visible THEN evidence ELSE Append(evidence, NoRuleVisible(Nic))
    /\ visible' = FALSE
    /\ walk' = [nic |-> walk.nic + 1, query |-> "nic", group |-> NoGroup]
    /\ UNCHANGED <<azure, sight, slip, at, told, truth, findings>>

(* An error that is not one of authorization: the check fails and is not   *)
(* compared with anything.                                                 *)
CaptureFails ==
    /\ Capturing /\ walk.query # "close"
    /\ at' = at + 1 /\ walk' = Nowhere /\ evidence' = <<>> /\ visible' = FALSE
    /\ told' = [told EXCEPT ![at] = NotYet]
    /\ UNCHANGED <<azure, sight, slip, truth, findings>>

(* ----- live validation ----------------------------------------------------- *)

(* findNetworkPortRow                                                      *)
SameRow(r, s) == r.port = s.port /\ Path(r) = Path(s)

(* Mutant: the confidence of a row is not compared.                        *)
RowDrifts_AnyConfidence(row, want) == ~ (want.related \subseteq row.related)

RowDrifts(row, want) ==
    \/ row.confidence # want.confidence
    \/ ~ (want.related \subseteq row.related)

(* Each recorded row is compared with the first told one that it matches.  *)
PortFindings(payload, context) ==
    LET matches(want) == {k \in DOMAIN payload : SameRow(payload[k], want)}
        first(want) == payload[Min(matches(want))]
    IN  (IF Len(payload) # Len(context) THEN {"count-drift"} ELSE {})
        \cup (IF \E i \in DOMAIN context : matches(context[i]) = {}
              THEN {"row-missing"} ELSE {})
        \cup (IF \E i \in DOMAIN context :
                    matches(context[i]) # {} /\ RowDrifts(first(context[i]), context[i])
              THEN {"row-drift"} ELSE {})

EffectiveDrifts(row, want) ==
    \/ \E field \in {"exposure", "internet", "constrained", "boundary"} : row[field] # want[field]
    \/ want.paths # {} /\ row.paths # want.paths
    \/ ~ (want.related \subseteq row.related)

(* An invented row has an address of its own and is counted only.          *)
EffectiveFindings(payload, context) ==
    LET rows == {k \in DOMAIN payload : payload[k] # Invented("network-effective")}
    IN  (IF Len(payload) # Len(context) THEN {"count-drift"} ELSE {})
        \cup (IF rows = {} THEN {"row-missing"} ELSE {})
        \cup (IF rows # {} /\ EffectiveDrifts(payload[Min(rows)], context[1])
              THEN {"row-drift"} ELSE {})

(* The context is written, and the payload compared with it.               *)
Compare ==
    /\ Running /\ walk.nic = Len(Nics) + 1
    /\ truth' = [truth EXCEPT ![at] = Payload(Current, evidence)]
    /\ findings' = [findings EXCEPT ![at] =
          IF Current = "network-effective" THEN EffectiveFindings(told[at], truth'[at])
          ELSE PortFindings(told[at], truth'[at])]
    /\ at' = at + 1 /\ walk' = Nowhere /\ evidence' = <<>>
    /\ UNCHANGED <<azure, sight, slip, visible, told>>

Next ==
    \/ Tell \/ ShowNic \/ ShowNicGroup \/ ShowSubnet \/ ShowSubnetGroup
    \/ CloseNic \/ CaptureFails \/ Compare

Spec == Init /\ [][Next]_vars

(* ----- properties ------------------------------------------------------------ *)

TypeOK ==
    /\ sight \subseteq Groups \cup {Subnets} /\ slip \in Slips
    /\ at \in 1..(Len(Commands) + 1) /\ visible \in BOOLEAN
    /\ walk \in [nic : 0..(Len(Nics) + 1), group : Groups \cup {NoGroup},
                 query : {"none", "nic", "nicGroup", "subnet", "subnetGroup", "close"}]
    /\ visible => evidence # <<>>
    /\ \A i \in DOMAIN Commands : findings[i] \subseteq {"count-drift", "row-missing", "row-drift"}

Compared == {i \in DOMAIN Commands : truth[i] # NotYet}
Passed == {i \in Compared : findings[i] = {}}
PortsAt == 2

(* Two interfaces show the same rule of the same group: their rows differ  *)
(* in nothing findNetworkPortRow looks at.                                 *)
RowsCollide ==
    \E i, j \in DOMAIN truth[PortsAt] :
        /\ SameRow(truth[PortsAt][i], truth[PortsAt][j])
        /\ truth[PortsAt][i].related # truth[PortsAt][j].related

Blameless(i) == i \in Compared /\ slip = "none"

(* A tool that tells what the viewpoint can see is not blamed, whatever is *)
(* hidden from the viewpoint and wherever the groups hang: the capture,    *)
(* query by query, arrives at the same rows.  Rows that collide excepted.  *)
TruthIsAccepted ==
    \A i \in DOMAIN Commands :
        Blameless(i) /\ (i = PortsAt => ~RowsCollide) => findings[i] = {}

(* A check that passes has told every rule the viewpoint can see, with the *)
(* confidence it deserves, and no more.                                    *)
PassMeansKept ==
    \A i \in Passed :
        LET due == EvidenceFor(sight)
        IN  IF Commands[i] = "network-effective" THEN told[i] = <<Summary(due)>>
            ELSE /\ Len(told[i]) = Len(due)
                 /\ \A k \in DOMAIN due : \E r \in ToSet(told[i]) :
                       SameRow(r, due[k]) /\ r.confidence = due[k].confidence

(* Some source is none of the words, and has one in its text.              *)
HoldsAWord(sources) == sources \cap (OpenTexts \ Open) # {}

(* Two payloads that pass against their separate captures agree, although  *)
(* confidence and internet ports come from two classifications of the      *)
(* sources: the exposure is the highest confidence of the rows, the port   *)
(* of a row of high confidence is an internet port, a port of such rows    *)
(* alone is not a constrained one, and an internet port without such a row *)
(* is owed to a source that only has a word in its text.                   *)
ChecksAgree ==
    (Passed = DOMAIN Commands /\ ~RowsCollide) =>
        LET effective == told[1][1]
            rows == ToSet(told[PortsAt])
            high == {r \in rows : r.confidence = "high"}
            holding == {r \in rows : HoldsAWord(r.sources)}
        IN  /\ effective.exposure = Highest(told[PortsAt])
            /\ {r.port : r \in high} \subseteq effective.internet
            /\ effective.constrained \subseteq {r.port : r \in rows \ high}
            /\ effective.internet \subseteq {r.port : r \in high \cup holding}

(* A viewpoint that may read less is not shown a greater exposure, nor an  *)
(* internet port that more rights would take away: what is hidden counts   *)
(* as the least.                                                           *)
SightNeverLowers ==
    \A less \in SUBSET sight :
        LET seen == EvidenceFor(sight)
            hidden == EvidenceFor(less)
        IN  /\ Rank(Highest(hidden)) <= Rank(Highest(seen))
            /\ InternetPorts(hidden) \subseteq InternetPorts(seen)

(* validate_surface_network_exposure.go: "network-ports should preserve    *)
(* the VM, NIC, NSG, and identity IDs that support the visible ingress     *)
(* row"; of rows that collide the first one told is compared with each     *)
(* recorded one, and a right tool is blamed for it.                        *)
CollidingRowsAreAccepted == Blameless(PortsAt) => findings[PortsAt] = {}

(* validate_surface_network_exposure.go: "network-effective should keep    *)
(* broad internet-facing port evidence aligned with the visible Azure NSG  *)
(* rules": a rule for any source, which Azure spells *, is such evidence.  *)
StarIsInternet ==
    \A r \in ToSet(EvidenceFor(sight)) : "*" \in r.sources => r.port \in InternetPorts(<<r>>)

(* validate_surface_network_exposure.go: "network-effective should keep    *)
(* the exposure priority aligned with the visible Azure NSG evidence": an  *)
(* internet port among that evidence makes the exposure high.              *)
InternetMeansHigh ==
    LET due == EvidenceFor(sight) IN InternetPorts(due) # {} => Highest(due) = "high"
=============================================================================
