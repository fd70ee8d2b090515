------------------------- MODULE SurfaceCheck_proofs -------------------------
(***************************************************************************)
(* What holds of a surface's check for any number of resources.            *)
(***************************************************************************)
EXTENDS SurfaceCheck, FiniteSetTheorems, WellFoundedInduction, TLAPS

-----------------------------------------------------------------------------
(* The tables *)

(* Every column a validator compares is filled by some query of the        *)
(* capture, and by the lists inside the containers where there are any.    *)
Filled(t) ==
  /\ DOMAIN t.checks.columns \subseteq Modes
  /\ Len(t.capture) \in Nat /\ DOMAIN t.capture = 1..Len(t.capture)
  /\ t.capture[1].per = "capture"
  /\ \A m \in DOMAIN t.checks.columns : \A c \in t.checks.columns[m] :
       \E i \in DOMAIN t.capture : c \in t.capture[i].fills
  /\ (\E i \in DOMAIN t.capture : t.capture[i].per = "container") =>
       \A m \in DOMAIN t.checks.columns : \A c \in t.checks.columns[m] :
         \A i \in DOMAIN t.capture : c \in t.capture[i].fills => t.capture[i].per = "container"

LEMMA ComputeFilled == \A s \in DOMAIN ComputeSurfaces : Filled(ComputeSurfaces[s])
<1> USE DEF Checks, Query, Once, Each, Within, Modes, Rules, Rule
<1>1. Filled([checks |-> NicsChecks, capture |-> NicsCapture])
  BY DEF Filled, NicsChecks, NicsCapture
<1>2. Filled([checks |-> VmsChecks, capture |-> VmsCapture])
  BY DEF Filled, VmsChecks, VmsCapture
<1>3. Filled([checks |-> VmssChecks, capture |-> VmssCapture])
  BY DEF Filled, VmssChecks, VmssCapture
<1>4. Filled([checks |-> WorkloadsChecks, capture |-> WorkloadsCapture])
  BY DEF Filled, WorkloadsChecks, WorkloadsCapture
<1>5. Filled([checks |-> AppServicesChecks, capture |-> AppServicesCapture])
  BY DEF Filled, AppServicesChecks, AppServicesCapture
<1>6. Filled([checks |-> FunctionsChecks, capture |-> FunctionsCapture])
  BY DEF Filled, FunctionsChecks, FunctionsCapture
<1>7. Filled([checks |-> ContainerAppsChecks, capture |-> ContainerAppsCapture])
  BY DEF Filled, ContainerAppsChecks, ContainerAppsCapture
<1>8. Filled([checks |-> ContainerInstancesChecks, capture |-> ContainerInstancesCapture])
  BY DEF Filled, ContainerInstancesChecks, ContainerInstancesCapture
<1>9. Filled([checks |-> AKSChecks, capture |-> AKSCapture])
  BY DEF Filled, AKSChecks, AKSCapture
<1>10. Filled([checks |-> ACRChecks, capture |-> ACRCapture])
  BY DEF Filled, ACRChecks, ACRCapture
<1>11. QED
  BY <1>1, <1>2, <1>3, <1>4, <1>5, <1>6, <1>7, <1>8, <1>9, <1>10 DEF ComputeSurfaces

LEMMA PlatformFilled == \A s \in DOMAIN PlatformSurfaces : Filled(PlatformSurfaces[s])
<1> USE DEF Checks, Query, Once, Each, Within, Modes, Rules, Rule
<1>1. Filled([checks |-> ApplicationGatewayChecks, capture |-> ApplicationGatewayCapture])
  BY DEF Filled, ApplicationGatewayChecks, ApplicationGatewayCapture
<1>2. Filled([checks |-> APIMgmtChecks, capture |-> APIMgmtCapture])
  BY DEF Filled, APIMgmtChecks, APIMgmtCapture
<1>3. Filled([checks |-> DatabasesChecks, capture |-> DatabasesCapture])
  BY DEF Filled, DatabasesChecks, DatabasesCapture
<1>4. Filled([checks |-> EventGridChecks, capture |-> EventGridCapture])
  BY DEF Filled, EventGridChecks, EventGridCapture
<1>5. Filled([checks |-> AzureMLChecks, capture |-> AzureMLCapture])
  BY DEF Filled, AzureMLChecks, AzureMLCapture
<1>6. Filled([checks |-> AutomationChecks, capture |-> AutomationCapture])
  BY DEF Filled, AutomationChecks, AutomationCapture
<1>7. Filled([checks |-> LogicAppsChecks, capture |-> LogicAppsCapture])
  BY DEF Filled, LogicAppsChecks, LogicAppsCapture
<1>8. Filled([checks |-> DNSChecks, capture |-> DNSCapture])
  BY DEF Filled, DNSChecks, DNSCapture
<1>9. Filled([checks |-> EndpointsChecks, capture |-> EndpointsCapture])
  BY DEF Filled, EndpointsChecks, EndpointsCapture
<1>10. QED
  BY <1>1, <1>2, <1>3, <1>4, <1>5, <1>6, <1>7, <1>8, <1>9 DEF PlatformSurfaces

LEMMA DataFilled == \A s \in DOMAIN DataSurfaces : Filled(DataSurfaces[s])
<1> USE DEF Checks, Query, Once, Each, Within, Modes, Rules, Rule
<1>1. Filled([checks |-> KeyVaultChecks, capture |-> KeyVaultCapture])
  BY DEF Filled, KeyVaultChecks, KeyVaultCapture
<1>2. Filled([checks |-> StorageChecks, capture |-> StorageCapture])
  BY DEF Filled, StorageChecks, StorageCapture
<1>3. Filled([checks |-> SnapshotsDisksChecks, capture |-> SnapshotsDisksCapture])
  BY DEF Filled, SnapshotsDisksChecks, SnapshotsDisksCapture
<1>4. Filled([checks |-> ArmDeploymentsChecks, capture |-> ArmDeploymentsCapture])
  BY DEF Filled, ArmDeploymentsChecks, ArmDeploymentsCapture
<1>5. QED
  BY <1>1, <1>2, <1>3, <1>4 DEF DataSurfaces

LEMMA EverySurfaceFilled == \A s \in Surfaces : Filled(AllSurfaces[s])
<1> SUFFICES ASSUME NEW s \in Surfaces PROVE Filled(AllSurfaces[s])
  OBVIOUS
<1> DEFINE T == {ComputeSurfaces[x] : x \in DOMAIN ComputeSurfaces}
             \cup {PlatformSurfaces[x] : x \in DOMAIN PlatformSurfaces}
             \cup {DataSurfaces[x] : x \in DOMAIN DataSurfaces}
<1>1. \A t \in T : Filled(t)
  BY ComputeFilled, DataFilled, PlatformFilled
<1>2. AllSurfaces[s] \in T
  BY SurfacesAssumption DEF AllSurfaces
<1>3. QED
  BY <1>1, <1>2

LEMMA Least ==
  ASSUME NEW T, T \subseteq Nat, T # {}
  PROVE  \E x \in T : \A y \in T : x <= y
<1> DEFINE R == {ss \in Nat \X Nat : ss[1] < ss[2]}
<1>1. IsWellFoundedOn(R, Nat)
  BY NatLessThanWellFounded DEF OpToRel
<1> HIDE DEF R
<1>2. PICK x \in T : \A y \in T : ~ (<<y, x>> \in R)
  BY <1>1, WFMin
<1>3. \A y \in T : ~ (y < x)
  BY <1>2 DEF R
<1>4. QED
  BY <1>2, <1>3

(* The query under test is one of the capture's.                           *)
SubjectFits ==
  /\ Mode \in Modes
  /\ Len(Capture) \in Nat /\ DOMAIN Capture = 1..Len(Capture)
  /\ subject.by \in 1..Len(Capture)
  /\ Capture[1].per = "capture"
  /\ ListsInside => Capture[subject.by].per = "container"

LEMMA SubjectsFit == subject \in Subjects => SubjectFits
<1> SUFFICES ASSUME subject \in Subjects PROVE SubjectFits
  OBVIOUS
<1>1. PICK s \in Surfaces : subject \in Classes(s)
  BY DEF Subjects
<1> DEFINE t == AllSurfaces[s]
<1>2. PICK m \in DOMAIN t.checks.columns : \E c \in t.checks.columns[m] :
        subject = [surface |-> s, mode |-> m, by |-> FilledBy(s, c)]
  BY <1>1 DEF Classes
<1>3. PICK c \in t.checks.columns[m] : subject = [surface |-> s, mode |-> m, by |-> FilledBy(s, c)]
  BY <1>2
<1>4. Filled(t)
  BY EverySurfaceFilled
<1>5. Capture = t.capture /\ Mode = m
  BY <1>3 DEF Capture, Mode
<1> DEFINE fillers == {i \in DOMAIN t.capture : c \in t.capture[i].fills}
<1>6. FilledBy(s, c) \in fillers
  <2>1. fillers # {} /\ fillers \subseteq Nat
    BY <1>4 DEF Filled
  <2>2. FilledBy(s, c) = CHOOSE i \in fillers : \A j \in fillers : i <= j
    BY <2>1 DEF FilledBy
  <2> HIDE DEF fillers
  <2>3. \E i \in fillers : \A j \in fillers : i <= j
    BY <2>1, Least
  <2>4. QED
    BY <2>2, <2>3
<1>7. subject.by = FilledBy(s, c)
  BY <1>3
<1>8. QED
  BY <1>4, <1>5, <1>6, <1>7 DEF Filled, SubjectFits, ListsInside

-----------------------------------------------------------------------------
(* The comparisons *)

LEMMA SaysNoMark ==
  ASSUME NEW mode \in Modes
  PROVE  Gone \notin AzureSays(mode) /\ Unread \notin AzureSays(mode)
BY DEF AzureSays, Gone, Unread, Texts, Lists

(* What the table of rules and the values Azure gives have in common.      *)
LEMMA RuleFacts ==
  ASSUME NEW mode \in Modes, NEW said \in AzureSays(mode)
  PROVE  LET rule == Rules[mode] IN
         /\ rule.related \in {"equal", "set", "subset", "size"}
         /\ rule.related # "equal" <=> mode \in Lists \ {"ordered", "knownOrdered"}
         /\ rule.related = "size" <=> mode = "size"
         /\ rule.folded => mode \in Texts \cup Lists
         /\ mode \in Texts \cup Lists => /\ rule.missing = <<>>
                                         /\ said \in {<<>>, <<"x">>, <<"x", "y">>}
         /\ mode \notin Texts \cup Lists => rule.missing \in {<<>>, <<"0">>}
         /\ said \in rule.skipped => said = <<>>
         /\ said = <<>> /\ rule.missing # <<>> => said \in rule.skipped
BY DEF Modes, Rules, Rule, AzureSays, Texts, Lists, Unsaid, Always

LEMMA FoldsTheSame ==
  ASSUME NEW v \in {<<>>, <<"x">>, <<"x", "y">>}
  PROVE  LET w == [i \in DOMAIN v |-> IF v[i] = "x" THEN "X" ELSE v[i]]
         IN  LowerAll(w) = LowerAll(v) /\ (w = <<>> <=> v = <<>>)
BY DEF LowerAll, Lower

LEMMA SameMembers ==
  ASSUME NEW v \in {<<>>, <<"x">>, <<"x", "y">>}
  PROVE  /\ ToSet(Reverse(v)) = ToSet(v) /\ ToSet(LowerAll(Reverse(v))) = ToSet(LowerAll(v))
         /\ Reverse(v) = <<>> <=> v = <<>>
<1>1. CASE v = <<>>
  BY <1>1 DEF Reverse, ToSet, LowerAll, Lower
<1>2. CASE v = <<"x">>
  BY <1>2 DEF Reverse, ToSet, LowerAll, Lower
<1>3. CASE v = <<"x", "y">>
  BY <1>3 DEF Reverse, ToSet, LowerAll, Lower
<1>4. QED
  BY <1>1, <1>2, <1>3

LEMMA MoreMembers ==
  ASSUME NEW v \in {<<>>, <<"x">>, <<"x", "y">>}
  PROVE  /\ ToSet(v) \subseteq ToSet(Append(v, "z"))
         /\ ToSet(LowerAll(v)) \subseteq ToSet(LowerAll(Append(v, "z")))
         /\ Append(v, "z") # <<>>
BY DEF ToSet, LowerAll, Lower

(* A row of a tool that is right passes, however it spells the column.     *)
LEMMA SpelledAgrees ==
  ASSUME NEW mode \in Modes, NEW said \in AzureSays(mode), NEW got \in Spellings(mode, said)
  PROVE  Agrees(mode, said, got)
<1> DEFINE rule == Rules[mode]
<1>0. /\ rule.related \in {"equal", "set", "subset", "size"}
      /\ rule.related # "equal" => rule.missing = <<>> /\ said \in {<<>>, <<"x">>, <<"x", "y">>}
      /\ rule.folded => rule.missing = <<>> /\ said \in {<<>>, <<"x">>, <<"x", "y">>}
      /\ said = <<>> /\ rule.missing # <<>> => said \in rule.skipped
  BY RuleFacts
<1>1. \/ got = said
      \/ rule.folded /\ got = [i \in DOMAIN said |-> IF said[i] = "x" THEN "X" ELSE said[i]]
      \/ rule.related # "equal" /\ got = Reverse(said)
      \/ rule.related = "subset" /\ got = Append(said, "z")
      \/ rule.missing = said /\ got = <<>>
  BY DEF Spellings
<1> HIDE DEF rule
<1> USE DEF Agrees, rule
<1>2. CASE got = said
  BY <1>0, <1>2
<1>3. CASE rule.folded /\ got = [i \in DOMAIN said |-> IF said[i] = "x" THEN "X" ELSE said[i]]
  BY <1>0, <1>3, FoldsTheSame
<1>4. CASE rule.related # "equal" /\ got = Reverse(said)
  BY <1>0, <1>4, SameMembers
<1>5. CASE rule.related = "subset" /\ got = Append(said, "z")
  BY <1>0, <1>5, MoreMembers
<1>6. CASE rule.missing = said /\ got = <<>>
  BY <1>0, <1>6
<1>7. QED
  BY <1>1, <1>2, <1>3, <1>4, <1>5, <1>6

(* What passes keeps what Azure says, unless only sizes are compared.      *)
LEMMA AgreesKept ==
  ASSUME NEW mode \in Modes \ {"size"}, NEW said \in AzureSays(mode), NEW got,
         Agrees(mode, said, got)
  PROVE  Kept(mode, said, got)
<1> DEFINE rule == Rules[mode]
           read == IF got = <<>> THEN rule.missing ELSE got
<1>0. /\ rule.related \in {"equal", "set", "subset"}
      /\ rule.related # "equal" => mode \in Lists
      /\ rule.folded => mode \notin Numbers
      /\ mode \notin Numbers => rule.missing = <<>>
      /\ mode \in Numbers => rule.missing \in {<<>>, <<"0">>} /\ mode \notin Lists
      /\ said \in rule.skipped => said = <<>>
  BY RuleFacts DEF Numbers, Lists, Texts
<1>1. SUFFICES ASSUME said # <<>> PROVE Kept(mode, said, got)
  BY DEF Kept
<1> HIDE DEF rule
<1>2. CASE mode \in Numbers
  <2>1. read = said
    BY <1>0, <1>1, <1>2 DEF Agrees, rule, Lists, Numbers, Texts
  <2>2. said = IF got = <<>> THEN <<"0">> ELSE got
    BY <1>0, <1>1, <1>2, <2>1
  <2>3. QED
    BY <1>0, <1>2, <2>2 DEF Kept
<1>3. CASE mode \notin Numbers
  <2>1. read = got
    BY <1>0, <1>3
  <2>2. CASE rule.related = "equal"
    <3>1. LowerAll(said) = LowerAll(got)
      BY <1>0, <1>1, <2>1, <2>2 DEF Agrees, rule
    <3>2. QED
      BY <1>3, <3>1 DEF Kept
  <2>3. CASE rule.related # "equal"
    <3>1. \/ ToSet(said) \subseteq ToSet(got)
          \/ ToSet(LowerAll(said)) \subseteq ToSet(LowerAll(got))
      BY <1>0, <1>1, <2>1, <2>3 DEF Agrees, rule
    <3>2. ToSet(LowerAll(said)) \subseteq ToSet(LowerAll(got))
      BY <3>1 DEF ToSet, LowerAll
    <3>3. QED
      BY <1>0, <1>3, <2>3, <3>2 DEF Kept
  <2>4. QED
    BY <2>2, <2>3
<1>4. QED
  BY <1>2, <1>3

-----------------------------------------------------------------------------
(* The inductive invariant *)

Types ==
  /\ subject \in Subjects
  /\ azure \in [Objects -> AzureSays(Mode) \cup {Gone}]
  /\ edited \subseteq Objects /\ wrong \subseteq Objects
  /\ stage \in {"ran", "capturing", "captured", "compared", "failed"}
  /\ \A t \in todo : /\ t = Task(t.query, t.object) /\ t.query \in 2..Len(Capture)
                     /\ Capture[t.query].per # "capture" => t.object \in Objects
  /\ listed \subseteq Objects
  /\ seen \in [Objects -> AzureSays(Mode) \cup {Unread}]
  /\ IsFiniteSet(told)

(* The tool told one row of each object it was right about, and nothing    *)
(* else when it was right about all.                                       *)
ToldRight ==
  /\ \A o \in Objects \ (wrong \cup edited) : azure[o] # Gone =>
       /\ RowsOf(o) # {}
       /\ \A r \in RowsOf(o) : r.value \in Spellings(Mode, azure[o])
  /\ wrong \cup edited = {} => Cardinality(told) = Cardinality(Present)

(* The query under test is still to be made for the object.                *)
Due(o) ==
  LET by == subject.by
  IN  Task(by, IF Capture[by].per = "capture" THEN Everything ELSE o) \in todo

(* Of an object nobody edits, the capture has the value or is yet to ask.  *)
Caught ==
  stage = "capturing" => \A o \in Objects \ edited :
    /\ azure[o] = Gone => o \notin listed
    /\ azure[o] # Gone => /\ (o \in listed /\ seen[o] = azure[o]) \/ Due(o)
                          /\ ListsInside \/ o \in listed

Recorded ==
  stage \in {"captured", "compared"} =>
    /\ DOMAIN file \subseteq Objects
    /\ \A o \in Objects \ edited : /\ o \in DOMAIN file <=> azure[o] # Gone
                                   /\ azure[o] # Gone => file[o] = azure[o]

Found == findings = IF stage = "compared" THEN PayloadFindings(file) ELSE {}

SurfaceInv == Types /\ ToldRight /\ Caught /\ Recorded /\ Found

-----------------------------------------------------------------------------
(* What the tool tells *)

LEMMA RightTells ==
  ASSUME NEW says, NEW mode, DOMAIN says = Objects, NEW rows \in Truthful(says, mode)
  PROVE  LET there == {o \in Objects : says[o] # Gone} IN
         /\ IsFiniteSet(rows) /\ Cardinality(rows) = Cardinality(there)
         /\ \A r \in rows : r = Row(r.of, r.respelled, r.value)
         /\ \A o \in there : /\ \E r \in rows : r.of = o
                             /\ \A r \in rows : r.of = o => r.value \in Spellings(mode, says[o])
<1> DEFINE there == {o \in Objects : says[o] # Gone}
<1> DEFINE writings == {w \in [there -> UNION {Spellings(mode, says[o]) : o \in there}] :
                          \A o \in there : w[o] \in Spellings(mode, says[o])}
<1>0. \E respelled \in BOOLEAN : \E write \in writings :
        rows = {Row(o, respelled, write[o]) : o \in there}
  BY DEF Truthful
<1>1. PICK respelled \in BOOLEAN : \E write \in writings :
        rows = {Row(o, respelled, write[o]) : o \in there}
  BY <1>0
<1>9. PICK write \in writings : rows = {Row(o, respelled, write[o]) : o \in there}
  BY <1>1
<1>10. \A o \in there : write[o] \in Spellings(mode, says[o])
  BY <1>9
<1> HIDE DEF writings
<1>2. /\ \A o \in there : Row(o, respelled, write[o]) \in rows
      /\ \A r \in rows : \E o \in there : r = Row(o, respelled, write[o])
  BY <1>9
<1>3. \A o : LET r == Row(o, respelled, write[o])
            IN  r.of = o /\ r.value = write[o] /\ r.respelled = respelled
  BY DEF Row
<1> DEFINE f == [o \in there |-> Row(o, respelled, write[o])]
<1>4. f \in Bijection(there, rows)
  <2>1. f \in [there -> rows] /\ \A o \in there : f[o] = Row(o, respelled, write[o])
    BY <1>2
  <2> HIDE DEF f, there
  <2>2. \A a, b \in there : f[a] = f[b] => a = b
    BY <2>1, <1>3
  <2>3. \A r \in rows : \E o \in there : f[o] = r
    BY <2>1, <1>2
  <2>4. QED
    BY <2>1, <2>2, <2>3 DEF Bijection, Injection, Surjection, IsInjective
<1>5. IsFiniteSet(there)
  BY ObjectsAssumption, FS_Subset
<1>6. IsFiniteSet(rows) /\ Cardinality(rows) = Cardinality(there)
  <2>1. ExistsBijection(there, rows)
    BY <1>4 DEF ExistsBijection
  <2> HIDE DEF there
  <2>2. QED
    BY <1>5, <2>1, FS_Bijection
<1>7. QED
  BY <1>2, <1>3, <1>6, <1>10

LEMMA WrongTells ==
  ASSUME NEW rows, IsFiniteSet(rows), \A r \in rows : r = Row(r.of, r.respelled, r.value),
         NEW o, NEW q \in Mistaken(rows, o)
  PROVE  /\ IsFiniteSet(q)
         /\ \A x : x # o => {r \in q : r.of = x} = {r \in rows : r.of = x}
<1>0. q \in LeftOut(rows, o) \/ q \in Misread(rows, o) \/ q \in MadeUp(rows, o)
  BY DEF Mistaken
<1>1. CASE q \in LeftOut(rows, o)
  <2>1. q = rows \ {r \in rows : r.of = o}
    BY <1>1 DEF LeftOut
  <2>2. QED
    BY <2>1, FS_Subset
<1>2. CASE q \in Misread(rows, o)
  <2>1. PICK r \in {p \in rows : p.of = o}, v \in {<<>>, <<"w">>, <<"w", "y">>} :
          q = (rows \ {r}) \cup {[r EXCEPT !.value = v]}
    BY <1>2 DEF Misread
  <2>2. r \in rows /\ r.of = o
    OBVIOUS
  <2>3. r = [of |-> r.of, respelled |-> r.respelled, value |-> r.value]
    BY DEF Row
  <2>4. [r EXCEPT !.value = v].of = o
    BY <2>2, <2>3
  <2>5. PICK n : n.of = o /\ q = (rows \ {r}) \cup {n}
    BY <2>1, <2>4
  <2>6. IsFiniteSet(rows \ {r})
    BY FS_Subset
  <2>7. IsFiniteSet(q)
    BY <2>5, <2>6, FS_AddElement
  <2>8. QED
    BY <2>2, <2>5, <2>7
<1>3. CASE q \in MadeUp(rows, o)
  <2>0. q = rows \cup {Row(o, FALSE, <<"w">>)}
    BY <1>3 DEF MadeUp
  <2>1. IsFiniteSet(q)
    BY <2>0, FS_AddElement
  <2>2. Row(o, FALSE, <<"w">>).of = o
    BY DEF Row
  <2>3. QED
    BY <2>0, <2>1, <2>2
<1>4. QED
  BY <1>0, <1>1, <1>2, <1>3

LEMMA SurfaceInit == Init => SurfaceInv
<1> SUFFICES ASSUME Init PROVE SurfaceInv
  OBVIOUS
<1>1. PICK rows \in Truthful(azure, Mode) :
        \/ told = rows /\ wrong = {}
        \/ \E o \in Objects : told \in Mistaken(rows, o) /\ wrong = {o}
  BY DEF Init
<1>2. DOMAIN azure = Objects
  BY DEF Init
<1>3. /\ IsFiniteSet(rows) /\ Cardinality(rows) = Cardinality(Present)
      /\ \A r \in rows : r = Row(r.of, r.respelled, r.value)
      /\ \A o \in Present : /\ \E r \in rows : r.of = o
                            /\ \A r \in rows : r.of = o => r.value \in Spellings(Mode, azure[o])
  BY <1>2, RightTells DEF Present
<1>4. /\ IsFiniteSet(told) /\ wrong \subseteq Objects
      /\ \A o \in Objects \ wrong : RowsOf(o) = {r \in rows : r.of = o}
      /\ wrong = {} => told = rows
  <2>1. CASE told = rows /\ wrong = {}
    BY <1>3, <2>1 DEF RowsOf
  <2>2. ASSUME NEW o \in Objects, told \in Mistaken(rows, o), wrong = {o}
        PROVE  /\ IsFiniteSet(told) /\ wrong \subseteq Objects
               /\ \A x \in Objects \ wrong : RowsOf(x) = {r \in rows : r.of = x}
               /\ wrong = {} => told = rows
    <3>1. /\ IsFiniteSet(told)
          /\ \A x : x # o => {r \in told : r.of = x} = {r \in rows : r.of = x}
      BY <1>3, <2>2, WrongTells
    <3>2. QED
      BY <2>2, <3>1 DEF RowsOf
  <2>3. QED
    BY <1>1, <2>1, <2>2
<1>5. ToldRight
  BY <1>3, <1>4 DEF ToldRight, Present, Init
<1>6. Types /\ Caught /\ Recorded /\ Found
  BY <1>4 DEF Init, Types, Caught, Recorded, Found
<1>7. QED
  BY <1>5, <1>6 DEF SurfaceInv

-----------------------------------------------------------------------------
(* The steps *)

LEMMA ToldStays ==
  ASSUME ToldRight, UNCHANGED <<subject, azure, edited, told, wrong>>
  PROVE  ToldRight'
BY DEF ToldRight, RowsOf, Present, Mode

LEMMA SurfaceStutter == SurfaceInv /\ UNCHANGED vars => SurfaceInv'
<1> SUFFICES ASSUME SurfaceInv, UNCHANGED vars PROVE SurfaceInv'
  OBVIOUS
<1>1. ToldRight'
  BY ToldStays DEF SurfaceInv, vars
<1>2. Types' /\ Caught' /\ Recorded' /\ Found'
  BY DEF SurfaceInv, vars, Types, Caught, Recorded, Found, Due, Capture, ListsInside, Mode,
         PayloadFindings, CountFinding, Counted, RowFindings, RowsOf
<1>3. QED
  BY <1>1, <1>2 DEF SurfaceInv

LEMMA ListObjectsStep == SurfaceInv /\ ListObjects => SurfaceInv'
<1> SUFFICES ASSUME SurfaceInv, ListObjects PROVE SurfaceInv'
  OBVIOUS
<1>0. /\ stage = "ran" /\ stage' = "capturing"
      /\ listed' = IF ListsInside THEN {} ELSE Present
      /\ seen' = [o \in Objects |-> IF o \in Present /\ subject.by = 1 THEN azure[o] ELSE Unread]
      /\ todo' = TasksAfterListing(IF ListsInside THEN Objects ELSE Present)
      /\ UNCHANGED <<subject, azure, edited, told, wrong, file, findings>>
      /\ SubjectFits /\ Present \subseteq Objects
  BY SubjectsFit DEF ListObjects, SurfaceInv, Types, Present
<1>1. ToldRight'
  BY <1>0, ToldStays DEF SurfaceInv
<1>2. Capture' = Capture /\ Mode' = Mode /\ ListsInside' = ListsInside
  BY <1>0 DEF Capture, Mode, ListsInside
<1>3. \A t \in todo' : /\ t = Task(t.query, t.object) /\ t.query \in 2..Len(Capture)
                       /\ Capture[t.query].per # "capture" => t.object \in Objects
  BY <1>0 DEF TasksAfterListing, Task
<1>4. Types'
  BY <1>0, <1>2, <1>3 DEF SurfaceInv, Types, Present
<1>5. Caught'
  <2>1. SUFFICES ASSUME NEW o \in Objects \ edited
        PROVE  /\ azure[o] = Gone => o \notin listed'
               /\ azure[o] # Gone => /\ (o \in listed' /\ seen'[o] = azure[o]) \/ Due(o)'
                                     /\ ListsInside \/ o \in listed'
    BY <1>0, <1>2 DEF Caught
  <2>2. CASE azure[o] = Gone
    BY <1>0, <2>2 DEF Present
  <2>3. CASE azure[o] # Gone
    <3>1. o \in Present
      BY <2>3 DEF Present
    <3>2. CASE subject.by = 1
      BY <1>0, <2>3, <3>1, <3>2 DEF SubjectFits
    <3>3. CASE subject.by # 1
      <4>1. subject.by \in 2..Len(Capture)
        BY <1>0, <3>3 DEF SubjectFits
      <4>2. Due(o)'
        BY <1>0, <1>2, <3>1, <4>1 DEF Due, TasksAfterListing
      <4>3. QED
        BY <1>0, <2>3, <3>1, <4>2
    <3>4. QED
      BY <3>2, <3>3
  <2>4. QED
    BY <2>2, <2>3
<1>6. Recorded' /\ Found'
  BY <1>0 DEF SurfaceInv, Recorded, Found
<1>7. QED
  BY <1>1, <1>4, <1>5, <1>6 DEF SurfaceInv

(* What an answered query must leave of an object nobody edits.            *)
StillCaught(o) ==
  /\ azure[o] = Gone => o \notin listed'
  /\ azure[o] # Gone => /\ (o \in listed' /\ seen'[o] = azure[o]) \/ Due(o)'
                        /\ ListsInside \/ o \in listed'

LEMMA QueryAnswered ==
  ASSUME SurfaceInv, stage = "capturing", todo' \subseteq todo,
         UNCHANGED <<subject, azure, edited, told, wrong, stage, file, findings>>,
         listed' \subseteq Objects, seen' \in [Objects -> AzureSays(Mode) \cup {Unread}],
         \A o \in Objects \ edited : StillCaught(o)
  PROVE  SurfaceInv'
<1>1. Capture' = Capture /\ Mode' = Mode /\ ListsInside' = ListsInside
  BY DEF Capture, Mode, ListsInside
<1>2. ToldRight'
  BY ToldStays DEF SurfaceInv
<1>3. Types'
  BY <1>1 DEF SurfaceInv, Types
<1>4. Caught'
  BY <1>1 DEF Caught, StillCaught
<1>5. Recorded' /\ Found'
  BY DEF SurfaceInv, Recorded, Found
<1>6. QED
  BY <1>2, <1>3, <1>4, <1>5 DEF SurfaceInv

(* A query other than the one under test leaves the due ones due.          *)
LEMMA StaysDue ==
  ASSUME NEW t \in todo, todo' = todo \ {t}, subject' = subject, NEW o, Due(o),
         \/ t.query # subject.by
         \/ Capture[t.query].per # "capture" /\ t.object # o
  PROVE  Due(o)'
<1>1. Capture' = Capture
  BY DEF Capture
<1> DEFINE of == IF Capture[subject.by].per = "capture" THEN Everything ELSE o
<1>2. Task(subject.by, of) # t
  BY DEF Task
<1>3. QED
  BY <1>1, <1>2 DEF Due

LEMMA ListMoreStep == ASSUME SurfaceInv, NEW t \in Upcoming, ListMore(t) PROVE SurfaceInv'
<1>0. /\ stage = "capturing" /\ t \in todo /\ todo' = todo \ {t}
      /\ Capture[t.query].per = "capture"
      /\ seen' = [o \in Objects |-> IF o \in listed \cap Present THEN Reads(t.query, o) ELSE seen[o]]
      /\ UNCHANGED <<subject, azure, edited, told, wrong, stage, listed, file, findings>>
      /\ SubjectFits
  BY SubjectsFit DEF ListMore, Upcoming, SurfaceInv, Types
<1>1. seen' \in [Objects -> AzureSays(Mode) \cup {Unread}]
  BY <1>0 DEF SurfaceInv, Types, Reads, Present
<1>2. ASSUME NEW o \in Objects \ edited PROVE StillCaught(o)
  <2>1. /\ azure[o] = Gone => o \notin listed
        /\ azure[o] # Gone => /\ (o \in listed /\ seen[o] = azure[o]) \/ Due(o)
                              /\ ListsInside \/ o \in listed
    BY <1>0 DEF SurfaceInv, Caught
  <2>2. CASE t.query = subject.by
    <3>1. ~ListsInside
      BY <1>0, <2>2 DEF SubjectFits
    <3>2. azure[o] # Gone => seen'[o] = azure[o]
      BY <1>0, <2>1, <2>2, <3>1 DEF Reads, Present
    <3>3. QED
      BY <1>0, <2>1, <3>1, <3>2 DEF StillCaught
  <2>3. CASE t.query # subject.by
    <3>1. seen'[o] = seen[o]
      BY <1>0, <2>3 DEF Reads
    <3>2. Due(o) => Due(o)'
      BY <1>0, <2>3, StaysDue
    <3>3. QED
      BY <1>0, <2>1, <3>1, <3>2 DEF StillCaught
  <2>4. QED
    BY <2>2, <2>3
<1>3. QED
  BY <1>0, <1>1, <1>2, QueryAnswered DEF SurfaceInv, Types

LEMMA ShowObjectStep == ASSUME SurfaceInv, NEW t \in Upcoming, ShowObject(t) PROVE SurfaceInv'
<1>0. /\ stage = "capturing" /\ t \in todo /\ todo' = todo \ {t}
      /\ Capture[t.query].per = "object"
      /\ azure[t.object] # Gone
      /\ seen' = [seen EXCEPT ![t.object] = Reads(t.query, t.object)]
      /\ UNCHANGED <<subject, azure, edited, told, wrong, stage, listed, file, findings>>
      /\ SubjectFits /\ t.object \in Objects
  BY SubjectsFit DEF ShowObject, Upcoming, SurfaceInv, Types
<1>1. seen' \in [Objects -> AzureSays(Mode) \cup {Unread}]
  BY <1>0 DEF SurfaceInv, Types, Reads
<1>2. ASSUME NEW o \in Objects \ edited PROVE StillCaught(o)
  <2>1. /\ azure[o] = Gone => o \notin listed
        /\ azure[o] # Gone => /\ (o \in listed /\ seen[o] = azure[o]) \/ Due(o)
                              /\ ListsInside \/ o \in listed
    BY <1>0 DEF SurfaceInv, Caught
  <2>2. CASE t.query = subject.by /\ t.object = o
    <3>1. ~ListsInside
      BY <1>0, <2>2 DEF SubjectFits
    <3>2. seen'[o] = azure[o]
      BY <1>0, <2>2 DEF Reads, SurfaceInv, Types
    <3>3. QED
      BY <1>0, <2>1, <3>1, <3>2 DEF StillCaught
  <2>3. CASE t.query # subject.by \/ t.object # o
    <3>1. seen'[o] = seen[o]
      BY <1>0, <2>3 DEF Reads, SurfaceInv, Types
    <3>2. Due(o) => Due(o)'
      BY <1>0, <2>3, StaysDue
    <3>3. QED
      BY <1>0, <2>1, <3>1, <3>2 DEF StillCaught
  <2>4. QED
    BY <2>2, <2>3
<1>3. QED
  BY <1>0, <1>1, <1>2, QueryAnswered DEF SurfaceInv, Types

LEMMA ListInsideStep == ASSUME SurfaceInv, NEW t \in Upcoming, ListInside(t) PROVE SurfaceInv'
<1>0. /\ stage = "capturing" /\ t \in todo /\ todo' = todo \ {t}
      /\ Capture[t.query].per = "container"
      /\ IF azure[t.object] = Gone
           THEN UNCHANGED <<listed, seen>>
           ELSE /\ listed' = listed \cup {t.object}
                /\ seen' = [seen EXCEPT ![t.object] = Reads(t.query, t.object)]
      /\ UNCHANGED <<subject, azure, edited, told, wrong, stage, file, findings>>
      /\ SubjectFits /\ t.object \in Objects /\ t.query \in DOMAIN Capture
  BY SubjectsFit DEF ListInside, Upcoming, SurfaceInv, Types, SubjectFits
<1>1. seen' \in [Objects -> AzureSays(Mode) \cup {Unread}] /\ listed' \subseteq Objects
  BY <1>0 DEF SurfaceInv, Types, Reads
<1>2. ListsInside
  BY <1>0 DEF ListsInside
<1>3. ASSUME NEW o \in Objects \ edited PROVE StillCaught(o)
  <2>1. /\ azure[o] = Gone => o \notin listed
        /\ azure[o] # Gone => (o \in listed /\ seen[o] = azure[o]) \/ Due(o)
    BY <1>0 DEF SurfaceInv, Caught
  <2>2. CASE t.object = o
    <3>1. CASE azure[o] = Gone
      BY <1>0, <2>1, <2>2, <3>1 DEF StillCaught
    <3>2. CASE azure[o] # Gone
      <4>1. o \in listed' /\ seen'[o] = Reads(t.query, o)
        BY <1>0, <2>2, <3>2 DEF SurfaceInv, Types
      <4>2. CASE t.query = subject.by
        BY <1>2, <3>2, <4>1, <4>2 DEF StillCaught, Reads
      <4>3. CASE t.query # subject.by
        <5>1. Due(o) => Due(o)'
          BY <1>0, <4>3, StaysDue
        <5>2. QED
          BY <1>2, <2>1, <3>2, <4>1, <4>3, <5>1 DEF StillCaught, Reads
      <4>4. QED
        BY <4>2, <4>3
    <3>3. QED
      BY <3>1, <3>2
  <2>3. CASE t.object # o
    <3>1. seen'[o] = seen[o] /\ (o \in listed' <=> o \in listed)
      BY <1>0, <2>3 DEF SurfaceInv, Types
    <3>2. Due(o) => Due(o)'
      BY <1>0, <2>3, StaysDue
    <3>3. QED
      BY <1>0, <1>2, <2>1, <3>1, <3>2 DEF StillCaught
  <2>4. QED
    BY <2>2, <2>3
<1>4. QED
  BY <1>0, <1>1, <1>3, QueryAnswered

LEMMA FailCaptureStep == SurfaceInv /\ FailCapture => SurfaceInv'
<1> SUFFICES ASSUME SurfaceInv, FailCapture PROVE SurfaceInv'
  OBVIOUS
<1>1. ToldRight'
  BY ToldStays DEF SurfaceInv, FailCapture
<1>2. Types'
  BY DEF FailCapture, SurfaceInv, Types, Mode, Capture
<1>3. Caught' /\ Recorded' /\ Found'
  BY DEF FailCapture, SurfaceInv, Caught, Recorded, Found
<1>4. QED
  BY <1>1, <1>2, <1>3 DEF SurfaceInv

(* Every query has answered: what is written is what Azure says.           *)
LEMMA WriteContextStep == SurfaceInv /\ WriteContext => SurfaceInv'
<1> SUFFICES ASSUME SurfaceInv, WriteContext PROVE SurfaceInv'
  OBVIOUS
<1>0. /\ stage = "capturing" /\ todo = {} /\ stage' = "captured"
      /\ file' = [o \in listed |-> IF seen[o] = Unread THEN <<>> ELSE seen[o]]
      /\ UNCHANGED <<subject, azure, edited, told, wrong, todo, listed, seen, findings>>
      /\ SubjectFits
  BY SubjectsFit DEF WriteContext, SurfaceInv, Types
<1>1. ToldRight'
  BY <1>0, ToldStays DEF SurfaceInv
<1>2. Types'
  BY <1>0 DEF SurfaceInv, Types, Mode, Capture
<1>3. Recorded'
  <2>1. ASSUME NEW o \in Objects \ edited
        PROVE  /\ o \in listed <=> azure[o] # Gone
               /\ azure[o] # Gone => file'[o] = azure[o]
    <3>1. /\ azure[o] = Gone => o \notin listed
          /\ azure[o] # Gone => o \in listed /\ seen[o] = azure[o]
      BY <1>0 DEF SurfaceInv, Caught, Due
    <3>2. azure[o] # Gone => azure[o] # Unread
      BY <1>0, SaysNoMark DEF SurfaceInv, Types, SubjectFits
    <3>3. QED
      BY <1>0, <3>1, <3>2
  <2>2. DOMAIN file' = listed /\ listed \subseteq Objects
    BY <1>0 DEF SurfaceInv, Types
  <2>3. QED
    BY <1>0, <2>1, <2>2 DEF Recorded
<1>4. Caught' /\ Found'
  BY <1>0 DEF SurfaceInv, Caught, Found
<1>5. QED
  BY <1>1, <1>2, <1>3, <1>4 DEF SurfaceInv

LEMMA CompareStep == SurfaceInv /\ Compare => SurfaceInv'
<1> SUFFICES ASSUME SurfaceInv, Compare PROVE SurfaceInv'
  OBVIOUS
<1>0. /\ stage = "captured" /\ stage' = "compared"
      /\ findings' = PayloadFindings(file)
      /\ UNCHANGED <<subject, azure, edited, told, wrong, todo, listed, seen, file>>
  BY DEF Compare
<1>1. ToldRight'
  BY <1>0, ToldStays DEF SurfaceInv
<1>2. Types'
  BY <1>0 DEF SurfaceInv, Types, Mode, Capture
<1>3. PayloadFindings(file)' = PayloadFindings(file)
  BY <1>0 DEF PayloadFindings, CountFinding, Counted, RowFindings, RowsOf, Mode
<1>4. Caught' /\ Recorded' /\ Found'
  BY <1>0, <1>3 DEF SurfaceInv, Caught, Recorded, Found
<1>5. QED
  BY <1>1, <1>2, <1>4 DEF SurfaceInv

LEMMA EditAzureStep == SurfaceInv /\ EditAzure => SurfaceInv'
<1> SUFFICES ASSUME SurfaceInv, EditAzure PROVE SurfaceInv'
  OBVIOUS
<1>0. /\ edited = {} /\ stage \in {"ran", "capturing"}
      /\ UNCHANGED <<subject, told, wrong, stage, todo, listed, seen, file, findings>>
      /\ azure \in [Objects -> AzureSays(Mode) \cup {Gone}]
  BY DEF EditAzure, SurfaceInv, Types
<1>1. PICK o \in Objects, v \in AzureSays(Mode) \cup {Gone} :
        azure' = [azure EXCEPT ![o] = v] /\ edited' = {o}
  BY DEF EditAzure
<1>2. /\ azure' \in [Objects -> AzureSays(Mode) \cup {Gone}]
      /\ \A x \in Objects \ edited' : azure'[x] = azure[x]
      /\ edited' # {} /\ edited' \subseteq Objects
  BY <1>0, <1>1
<1>3. Types'
  BY <1>0, <1>2 DEF SurfaceInv, Types, Mode, Capture
<1>4. ToldRight'
  BY <1>0, <1>2 DEF SurfaceInv, ToldRight, RowsOf, Mode
<1>5. Caught'
  BY <1>0, <1>2 DEF SurfaceInv, Caught, Due, ListsInside, Capture
<1>6. Recorded' /\ Found'
  BY <1>0 DEF SurfaceInv, Recorded, Found
<1>7. QED
  BY <1>3, <1>4, <1>5, <1>6 DEF SurfaceInv

(* Of an object the tool was right about and nobody edits, the row has     *)
(* what Azure says and so has the context, once it is written.             *)
THEOREM SurfaceInvariant == Spec => []SurfaceInv
<1>1. SurfaceInv /\ [Next]_vars => SurfaceInv'
  BY ListObjectsStep, ListMoreStep, ShowObjectStep, ListInsideStep, FailCaptureStep,
     WriteContextStep, CompareStep, EditAzureStep, SurfaceStutter DEF Next
<1>2. QED
  BY SurfaceInit, <1>1, PTL DEF Spec

-----------------------------------------------------------------------------
(* What the comparison concludes *)

LEMMA NothingBlamedWrongly == SurfaceInv => NoFalseAlarm
<1> SUFFICES ASSUME SurfaceInv, stage = "compared", NEW f \in PayloadFindings(file)
             PROVE  /\ f.of # {} => f.of \subseteq wrong \cup edited
                    /\ f.kind = "count" => wrong \cup edited # {}
  BY DEF NoFalseAlarm, SurfaceInv, Found
<1>0. SubjectFits /\ Types /\ ToldRight
  BY SubjectsFit DEF SurfaceInv, Types
<1>1. /\ DOMAIN file \subseteq Objects
      /\ \A o \in Objects \ edited : /\ o \in DOMAIN file <=> azure[o] # Gone
                                     /\ azure[o] # Gone => file[o] = azure[o]
  BY DEF SurfaceInv, Recorded
<1>2. CASE f \in CountFinding(file)
  <2>1. f = [kind |-> "count", of |-> {}] /\ Cardinality(told) # Cardinality(DOMAIN file)
    BY <1>2 DEF CountFinding, Finding
  <2>2. wrong \cup edited = {} => DOMAIN file = Present
    BY <1>1 DEF Present
  <2>3. QED
    BY <1>0, <2>1, <2>2 DEF ToldRight
<1>3. ASSUME NEW o \in DOMAIN file, f \in RowFindings(file, o)
      PROVE  /\ f.of # {} => f.of \subseteq wrong \cup edited
             /\ f.kind = "count" => wrong \cup edited # {}
  <2>1. f = Finding("missing", {o}) \/ f = Finding("drift", {o})
    BY <1>3 DEF RowFindings
  <2>2. f.of = {o} /\ f.kind # "count"
    BY <2>1 DEF Finding
  <2>3. SUFFICES ASSUME o \notin wrong \cup edited PROVE FALSE
    BY <2>2
  <2>4. o \in Objects \ (wrong \cup edited) /\ azure[o] # Gone /\ file[o] = azure[o]
    BY <1>1, <2>3
  <2>5. RowsOf(o) # {} /\ \A r \in RowsOf(o) : r.value \in Spellings(Mode, azure[o])
    BY <1>0, <2>4 DEF ToldRight
  <2>6. azure[o] \in AzureSays(Mode)
    BY <1>0, <2>4 DEF Types
  <2> DEFINE row == CHOOSE r \in RowsOf(o) : TRUE
  <2>7. row \in RowsOf(o)
    BY <2>5
  <2> HIDE DEF row
  <2>8. Agrees(Mode, file[o], row.value)
    BY <1>0, <2>4, <2>5, <2>6, <2>7, SpelledAgrees DEF SubjectFits
  <2>9. QED
    BY <1>3, <2>5, <2>8 DEF RowFindings, row
<1>4. QED
  BY <1>2, <1>3 DEF PayloadFindings

(* NoFalseAlarm: live validation blames the tool for an object only when   *)
(* the tool was wrong about it or it was edited, on every surface and      *)
(* however many resources it lists.                                        *)
THEOREM NobodyIsBlamedWrongly == Spec => []NoFalseAlarm
BY SurfaceInvariant, NothingBlamedWrongly, PTL

(* As many rows as resources, and a row of each resource: no other row.    *)
LEMMA EveryRowIsSomebodys ==
  ASSUME NEW rows, IsFiniteSet(rows), NEW S, IsFiniteSet(S),
         Cardinality(rows) = Cardinality(S), \A o \in S : \E r \in rows : r.of = o
  PROVE  \A r \in rows : r.of \in S
<1> DEFINE theirs == {r \in rows : r.of \in S}
           f == [o \in S |-> CHOOSE r \in rows : r.of = o]
<1>1. \A o \in S : f[o] \in theirs /\ f[o].of = o
  OBVIOUS
<1>2. f \in [S -> theirs]
  BY <1>1
<1> HIDE DEF f
<1>3. f \in Injection(S, theirs)
  BY <1>1, <1>2 DEF Injection, IsInjective
<1>4. IsFiniteSet(theirs) /\ theirs \subseteq rows
  BY FS_Subset
<1> HIDE DEF theirs
<1>5. Cardinality(S) <= Cardinality(theirs)
  BY <1>3, <1>4, FS_Injection
<1>6. theirs = rows
  <2>1. /\ Cardinality(theirs) <= Cardinality(rows)
        /\ Cardinality(rows) = Cardinality(theirs) => rows = theirs
    BY <1>4, FS_Subset
  <2>2. Cardinality(theirs) \in Nat /\ Cardinality(rows) \in Nat
    BY <1>4, FS_CardinalityType
  <2>3. QED
    BY <1>5, <2>1, <2>2
<1>7. QED
  BY <1>6 DEF theirs

LEMMA NothingPassesUnkept == SurfaceInv => PassMeansKept
<1> SUFFICES ASSUME SurfaceInv, stage = "compared", findings = {} PROVE PassMeansKept
  BY DEF PassMeansKept
<1>0. SubjectFits /\ Types
  BY SubjectsFit DEF SurfaceInv, Types
<1>1. /\ DOMAIN file \subseteq Objects
      /\ \A o \in Objects \ edited : /\ o \in DOMAIN file <=> azure[o] # Gone
                                     /\ azure[o] # Gone => file[o] = azure[o]
  BY DEF SurfaceInv, Recorded
<1>2. CountFinding(file) = {} /\ \A o \in DOMAIN file : RowFindings(file, o) = {}
  BY DEF SurfaceInv, Found, PayloadFindings
<1>3. ASSUME NEW o \in Present \ edited
      PROVE  \E r \in RowsOf(o) : Agrees(Mode, azure[o], r.value)
  <2>1. o \in DOMAIN file /\ file[o] = azure[o]
    BY <1>1 DEF Present
  <2>2. RowsOf(o) # {}
    BY <1>2, <2>1 DEF RowFindings
  <2> DEFINE row == CHOOSE r \in RowsOf(o) : TRUE
  <2>3. row \in RowsOf(o)
    BY <2>2
  <2> HIDE DEF row
  <2>4. Agrees(Mode, azure[o], row.value)
    BY <1>2, <2>1, <2>2 DEF RowFindings, row
  <2>5. QED
    BY <2>3, <2>4
<1>4. ASSUME Mode # "size", NEW o \in Present \ edited
      PROVE  \E r \in RowsOf(o) : Kept(Mode, azure[o], r.value)
  <2>1. Mode \in Modes \ {"size"} /\ azure[o] \in AzureSays(Mode)
    BY <1>0, <1>4 DEF SubjectFits, Types, Present
  <2>2. PICK r \in RowsOf(o) : Agrees(Mode, azure[o], r.value)
    BY <1>3
  <2>3. Kept(Mode, azure[o], r.value)
    BY <2>1, <2>2, AgreesKept
  <2>4. QED
    BY <2>3
<1>5. ASSUME Counted, edited = {} PROVE \A r \in told : r.of \in Present
  <2>1. Cardinality(told) = Cardinality(DOMAIN file)
    BY <1>2, <1>5 DEF CountFinding
  <2>2. DOMAIN file = Present
    BY <1>1, <1>5 DEF Present
  <2>3. \A o \in Present : \E r \in told : r.of = o
    BY <1>3, <1>5 DEF RowsOf
  <2>4. IsFiniteSet(Present)
    BY ObjectsAssumption, FS_Subset DEF Present
  <2>5. QED
    BY <1>0, <2>1, <2>2, <2>3, <2>4, EveryRowIsSomebodys DEF Types
<1>6. QED
  BY <1>4, <1>5 DEF PassMeansKept

(* PassMeansKept: a comparison without a finding vouches for every object  *)
(* nobody edited, on every surface: each compared column is filled by some *)
(* query before the context is written, and no rule lets a value through   *)
(* that loses what Azure says.                                             *)
THEOREM APassVouchesForTheRows == Spec => []PassMeansKept
BY SurfaceInvariant, NothingPassesUnkept, PTL

=============================================================================
