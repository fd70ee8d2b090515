------------------------ MODULE NetworkExposure_proofs ------------------------
(***************************************************************************)
(* The two network checks for any number of interfaces, any groups, rules, *)
(* layouts and rights.  What a walk collects is a recursive computation    *)
(* over the interfaces: that it is what EvidenceFor says is shown by       *)
(* induction over a least counterexample.                                  *)
(***************************************************************************)
EXTENDS NetworkExposure, SequenceTheorems, FiniteSetTheorems, WellFoundedInduction, TLAPS

-----------------------------------------------------------------------------
(* Least elements *)

LEMMA LessIsWellFounded == IsWellFoundedOn({ss \in Nat \X Nat : ss[1] < ss[2]}, Nat)
BY NatLessThanWellFounded DEF OpToRel

LEMMA Least ==
  ASSUME NEW T, T \subseteq Nat, T # {}
  PROVE  \E x \in T : \A y \in T : x <= y
<1> DEFINE R == {ss \in Nat \X Nat : ss[1] < ss[2]}
<1>1. IsWellFoundedOn(R, Nat)
  BY LessIsWellFounded
<1> HIDE DEF R
<1>2. PICK x \in T : \A y \in T : ~ (<<y, x>> \in R)
  BY <1>1, WFMin
<1>3. \A y \in T : ~ (y < x)
  BY <1>2 DEF R
<1>4. QED
  BY <1>2, <1>3

LEMMA MinIs ==
  ASSUME NEW T, T \subseteq Nat, T # {}
  PROVE  Min(T) \in T
BY Least DEF Min

(* A set of numbers that holds the first and with each the next holds all. *)
LEMMA StepByStep ==
  ASSUME NEW n \in Nat, NEW T, 0 \in T, \A i \in 1..n : i - 1 \in T => i \in T
  PROVE  0..n \subseteq T
<1> DEFINE U == (0..n) \ T
<1> SUFFICES ASSUME U # {} PROVE FALSE
  OBVIOUS
<1>1. PICK x \in U : \A y \in U : x <= y
  <2>1. U \subseteq Nat
    OBVIOUS
  <2> HIDE DEF U
  <2>2. QED
    BY <2>1, Least
<1>2. x # 0 /\ x - 1 \in 0..n
  BY <1>1
<1>3. x - 1 \in T
  BY <1>1, <1>2
<1>4. QED
  BY <1>1, <1>2, <1>3

-----------------------------------------------------------------------------
(* Sequences joined together *)

Accumulates(f, seqs, n) ==
  f = [i \in 1..n |-> IF i = 1 THEN seqs[i] ELSE f[i - 1] \o seqs[i]]

LEMMA AccumulationExists ==
  ASSUME NEW seqs, NEW n \in Nat
  PROVE  \E f : Accumulates(f, seqs, n)
<1> DEFINE T == {i \in 0..n : \E f : Accumulates(f, seqs, i)}
<1>1. 0 \in T
  <2>1. Accumulates([i \in 1..0 |-> i], seqs, 0)
    BY DEF Accumulates
  <2>2. QED
    BY <2>1
<1>2. ASSUME NEW i \in 1..n, i - 1 \in T PROVE i \in T
  <2>1. PICK f : Accumulates(f, seqs, i - 1)
    BY <1>2
  <2> DEFINE g == [k \in 1..i |-> IF k < i THEN f[k]
                                  ELSE IF k = 1 THEN seqs[k] ELSE f[k - 1] \o seqs[k]]
  <2>2. \A k \in 1..i : g[k] = IF k = 1 THEN seqs[k] ELSE g[k - 1] \o seqs[k]
    <3>1. \A k \in 1..i - 1 : f[k] = IF k = 1 THEN seqs[k] ELSE f[k - 1] \o seqs[k]
      BY <2>1 DEF Accumulates
    <3> SUFFICES ASSUME NEW k \in 1..i
                 PROVE  g[k] = IF k = 1 THEN seqs[k] ELSE g[k - 1] \o seqs[k]
      OBVIOUS
    <3>2. k # 1 => g[k - 1] = f[k - 1]
      OBVIOUS
    <3>3. CASE k < i
      BY <3>1, <3>2, <3>3
    <3>4. CASE k = i
      BY <3>2, <3>4
    <3>5. QED
      BY <3>3, <3>4
  <2>3. Accumulates(g, seqs, i)
    BY <2>2 DEF Accumulates
  <2>4. QED
    BY <2>3
<1> HIDE DEF T
<1>3. 0..n \subseteq T
  BY <1>1, <1>2, StepByStep
<1>4. QED
  BY <1>3 DEF T

(* FlattenSeq joins them one after the other.                              *)
LEMMA FlattenFacts ==
  ASSUME NEW S, NEW n \in Nat, NEW seqs \in [1..n -> Seq(S)]
  PROVE  \E f \in [0..n -> Seq(S)] :
           /\ f[0] = <<>> /\ \A i \in 1..n : f[i] = f[i - 1] \o seqs[i]
           /\ f[n] = FlattenSeq(seqs)
<1>0. Len(seqs) = n /\ seqs \in Seq(Seq(S))
  OBVIOUS
<1>1. CASE n = 0
  <2>1. FlattenSeq(seqs) = <<>>
    BY <1>0, <1>1 DEF FlattenSeq
  <2> DEFINE f == [i \in 0..n |-> <<>>]
  <2>2. f \in [0..n -> Seq(S)] /\ f[0] = <<>> /\ f[n] = <<>>
    BY <1>1
  <2>3. \A i \in 1..n : f[i] = f[i - 1] \o seqs[i]
    BY <1>1
  <2>4. QED
    BY <2>1, <2>2, <2>3
<1>2. CASE n # 0
  <2> DEFINE g == CHOOSE g : g = [i \in 1..n |-> IF i = 1 THEN seqs[i] ELSE g[i - 1] \o seqs[i]]
  <2>1. FlattenSeq(seqs) = g[n]
    BY <1>0, <1>2 DEF FlattenSeq
  <2>2. Accumulates(g, seqs, n)
    BY AccumulationExists DEF Accumulates
  <2> HIDE DEF g
  <2>3. \A i \in 1..n : g[i] = IF i = 1 THEN seqs[i] ELSE g[i - 1] \o seqs[i]
    BY <2>2 DEF Accumulates
  <2> DEFINE f == [i \in 0..n |-> IF i = 0 THEN <<>> ELSE g[i]]
  <2>4. \A i \in 1..n : f[i] = f[i - 1] \o seqs[i]
    <3> SUFFICES ASSUME NEW i \in 1..n PROVE f[i] = f[i - 1] \o seqs[i]
      OBVIOUS
    <3>1. CASE i = 1
      BY <3>1, <2>3, ConcatEmptySeq
    <3>2. CASE i # 1
      <4>1. f[i - 1] = g[i - 1] /\ f[i] = g[i]
        BY <3>2
      <4>2. QED
        BY <3>2, <4>1, <2>3
    <3>3. QED
      BY <3>1, <3>2
  <2>0. f[0] = <<>> /\ f[n] = g[n] /\ DOMAIN f = 0..n /\ f = [i \in 0..n |-> f[i]]
    BY <1>2
  <2> HIDE DEF f
  <2>5. 0..n \subseteq {i \in 0..n : f[i] \in Seq(S)}
    <3> DEFINE T == {i \in 0..n : f[i] \in Seq(S)}
    <3>1. 0 \in T
      <4>1. f[0] = <<>>
        BY <2>0
      <4>2. <<>> \in Seq(S)
        OBVIOUS
      <4>3. f[0] \in Seq(S)
        BY <4>1, <4>2
      <4>4. QED
        BY <4>3
    <3>2. ASSUME NEW i \in 1..n, i - 1 \in T PROVE i \in T
      <4>1. f[i - 1] \in Seq(S) /\ seqs[i] \in Seq(S)
        BY <3>2
      <4>2. f[i - 1] \o seqs[i] \in Seq(S)
        BY <4>1, ConcatProperties
      <4>3. f[i] \in Seq(S)
        BY <4>2, <2>4
      <4>4. QED
        BY <4>3
    <3> HIDE DEF T
    <3>3. 0..n \subseteq T
      BY <3>1, <3>2, StepByStep
    <3>4. QED
      BY <3>3 DEF T
  <2>6. f \in [0..n -> Seq(S)] /\ f[0] = <<>> /\ f[n] = FlattenSeq(seqs)
    BY <2>0, <2>1, <2>5
  <2>7. QED
    BY <2>4, <2>6
<1>3. QED
  BY <1>1, <1>2

LEMMA FlattenNone == FlattenSeq([i \in 1..0 |-> <<>>]) = <<>>
BY DEF FlattenSeq

LEMMA FlattenType ==
  ASSUME NEW S, NEW n \in Nat, NEW seqs \in [1..n -> Seq(S)]
  PROVE  FlattenSeq(seqs) \in Seq(S)
<1>1. PICK f \in [0..n -> Seq(S)] :
        /\ f[0] = <<>> /\ \A i \in 1..n : f[i] = f[i - 1] \o seqs[i]
        /\ f[n] = FlattenSeq(seqs)
  BY FlattenFacts
<1>2. n \in 0..n
  OBVIOUS
<1>3. QED
  BY <1>1, <1>2

LEMMA FlattenStep ==
  ASSUME NEW S, NEW n \in Nat, NEW seqs \in [1..n + 1 -> Seq(S)]
  PROVE  FlattenSeq(seqs) = FlattenSeq([i \in 1..n |-> seqs[i]]) \o seqs[n + 1]
<1> DEFINE before == [i \in 1..n |-> seqs[i]]
<1>0. before \in [1..n -> Seq(S)] /\ \A i \in 1..n : before[i] = seqs[i]
  OBVIOUS
<1>1. PICK f \in [0..n + 1 -> Seq(S)] :
        /\ f[0] = <<>> /\ \A i \in 1..n + 1 : f[i] = f[i - 1] \o seqs[i]
        /\ f[n + 1] = FlattenSeq(seqs)
  <2>1. n + 1 \in Nat
    OBVIOUS
  <2>2. QED
    BY <2>1, FlattenFacts
<1> HIDE DEF before
<1>2. PICK g \in [0..n -> Seq(S)] :
        /\ g[0] = <<>> /\ \A i \in 1..n : g[i] = g[i - 1] \o before[i]
        /\ g[n] = FlattenSeq(before)
  BY <1>0, FlattenFacts
<1>3. f[n] = g[n]
  <2> DEFINE T == {i \in 0..n : f[i] = g[i]}
  <2>1. 0 \in T
    BY <1>1, <1>2
  <2>2. ASSUME NEW i \in 1..n, i - 1 \in T PROVE i \in T
    <3>1. f[i] = f[i - 1] \o seqs[i]
      <4>1. i \in 1..n + 1
        OBVIOUS
      <4>2. QED
        BY <1>1, <4>1
    <3>2. g[i] = g[i - 1] \o seqs[i]
      BY <1>0, <1>2
    <3>3. f[i - 1] = g[i - 1]
      BY <2>2
    <3>4. f[i] = g[i]
      BY <3>1, <3>2, <3>3
    <3>5. QED
      BY <3>4
  <2> HIDE DEF T
  <2>3. 0..n \subseteq T
    BY <2>1, <2>2, StepByStep
  <2>4. n \in 0..n
    OBVIOUS
  <2>5. QED
    BY <2>3, <2>4 DEF T
<1>4. f[n + 1] = f[n] \o seqs[n + 1]
  <2>1. n + 1 \in 1..n + 1 /\ (n + 1) - 1 = n
    OBVIOUS
  <2>2. QED
    BY <1>1, <2>1
<1>5. QED
  BY <1>1, <1>2, <1>3, <1>4 DEF before

LEMMA ToSetOfConcat ==
  ASSUME NEW S, NEW s \in Seq(S), NEW t \in Seq(S)
  PROVE  ToSet(s \o t) = ToSet(s) \cup ToSet(t)
<1>1. /\ Len(s \o t) = Len(s) + Len(t) /\ s \o t \in Seq(S)
      /\ \A i \in 1..Len(s) + Len(t) :
           (s \o t)[i] = IF i <= Len(s) THEN s[i] ELSE t[i - Len(s)]
  BY ConcatProperties
<1>2. ASSUME NEW x \in ToSet(s \o t) PROVE x \in ToSet(s) \cup ToSet(t)
  <2>1. PICK i \in 1..Len(s) + Len(t) : x = (s \o t)[i]
    BY <1>1 DEF ToSet
  <2>2. CASE i <= Len(s)
    BY <1>1, <2>1, <2>2 DEF ToSet
  <2>3. CASE i > Len(s)
    <3>1. i - Len(s) \in DOMAIN t /\ x = t[i - Len(s)]
      BY <1>1, <2>1, <2>3
    <3>2. QED
      BY <3>1 DEF ToSet
  <2>4. QED
    BY <2>1, <2>2, <2>3
<1>3. ASSUME NEW x \in ToSet(s) PROVE x \in ToSet(s \o t)
  <2>1. PICK i \in 1..Len(s) : x = s[i]
    BY <1>3 DEF ToSet
  <2>2. i \in DOMAIN (s \o t) /\ x = (s \o t)[i]
    BY <1>1, <2>1
  <2>3. QED
    BY <2>2 DEF ToSet
<1>4. ASSUME NEW x \in ToSet(t) PROVE x \in ToSet(s \o t)
  <2>1. PICK i \in 1..Len(t) : x = t[i]
    BY <1>4 DEF ToSet
  <2>2. i + Len(s) \in DOMAIN (s \o t) /\ x = (s \o t)[i + Len(s)]
    BY <1>1, <2>1
  <2>3. QED
    BY <2>2 DEF ToSet
<1>5. QED
  BY <1>2, <1>3, <1>4

LEMMA InjectiveConcat ==
  ASSUME NEW S, NEW s \in Seq(S), NEW t \in Seq(S), IsInjective(s), IsInjective(t),
         ToSet(s) \cap ToSet(t) = {}
  PROVE  IsInjective(s \o t)
<1>1. /\ DOMAIN (s \o t) = 1..Len(s) + Len(t)
      /\ \A i \in 1..Len(s) + Len(t) :
           (s \o t)[i] = IF i <= Len(s) THEN s[i] ELSE t[i - Len(s)]
  BY ConcatProperties
<1>2. SUFFICES ASSUME NEW i \in 1..Len(s) + Len(t), NEW j \in 1..Len(s) + Len(t), i <= j,
                      (s \o t)[i] = (s \o t)[j]
               PROVE  i = j
  BY <1>1 DEF IsInjective
<1>3. CASE j <= Len(s)
  BY <1>1, <1>2, <1>3 DEF IsInjective
<1>4. CASE i > Len(s)
  <2>1. i - Len(s) \in DOMAIN t /\ j - Len(s) \in DOMAIN t
    BY <1>2, <1>4
  <2>2. t[i - Len(s)] = t[j - Len(s)]
    BY <1>1, <1>2, <1>4
  <2>3. i - Len(s) = j - Len(s)
    BY <2>1, <2>2 DEF IsInjective
  <2>4. QED
    BY <2>3
<1>5. CASE i <= Len(s) /\ j > Len(s)
  <2>1. s[i] \in ToSet(s) /\ t[j - Len(s)] \in ToSet(t)
    <3>1. i \in DOMAIN s /\ j - Len(s) \in DOMAIN t
      BY <1>5
    <3>2. QED
      BY <3>1 DEF ToSet
  <2>2. s[i] = t[j - Len(s)]
    BY <1>1, <1>2, <1>5
  <2>3. QED
    BY <2>1, <2>2
<1>6. QED
  BY <1>2, <1>3, <1>4, <1>5

(* Nothing is lost or added, and what was apart stays apart.               *)
LEMMA FlattenMembers ==
  ASSUME NEW S, NEW n \in Nat, NEW seqs \in [1..n -> Seq(S)]
  PROVE  ToSet(FlattenSeq(seqs)) = UNION {ToSet(seqs[i]) : i \in 1..n}
<1>1. PICK f \in [0..n -> Seq(S)] :
        /\ f[0] = <<>> /\ \A i \in 1..n : f[i] = f[i - 1] \o seqs[i]
        /\ f[n] = FlattenSeq(seqs)
  BY FlattenFacts
<1> DEFINE T == {k \in 0..n : ToSet(f[k]) = UNION {ToSet(seqs[i]) : i \in 1..k}}
<1>2. 0 \in T
  <2>1. ToSet(f[0]) = {}
    BY <1>1 DEF ToSet
  <2>2. UNION {ToSet(seqs[i]) : i \in 1..0} = {}
    OBVIOUS
  <2>3. QED
    BY <2>1, <2>2
<1>3. ASSUME NEW k \in 1..n, k - 1 \in T PROVE k \in T
  <2>0. f[k] = f[k - 1] \o seqs[k]
    BY <1>1
  <2>1. ToSet(f[k]) = ToSet(f[k - 1]) \cup ToSet(seqs[k])
    <3>1. f[k - 1] \in Seq(S) /\ seqs[k] \in Seq(S)
      <4>1. k - 1 \in 0..n
        OBVIOUS
      <4>2. QED
        BY <4>1
    <3>2. QED
      BY <2>0, <3>1, ToSetOfConcat
  <2>2. UNION {ToSet(seqs[i]) : i \in 1..k}
        = (UNION {ToSet(seqs[i]) : i \in 1..k - 1}) \cup ToSet(seqs[k])
    <3>1. 1..k = 1..k - 1 \cup {k}
      OBVIOUS
    <3>2. QED
      BY <3>1
  <2>3. ToSet(f[k - 1]) = UNION {ToSet(seqs[i]) : i \in 1..k - 1}
    BY <1>3
  <2>4. ToSet(f[k]) = UNION {ToSet(seqs[i]) : i \in 1..k}
    BY <2>1, <2>2, <2>3
  <2>5. QED
    BY <2>4
<1> HIDE DEF T
<1>4. 0..n \subseteq T
  BY <1>2, <1>3, StepByStep
<1>5. QED
  BY <1>1, <1>4 DEF T

LEMMA FlattenInjective ==
  ASSUME NEW S, NEW n \in Nat, NEW seqs \in [1..n -> Seq(S)]
  PROVE  /\ \A i \in 1..n : IsInjective(seqs[i])
         /\ \A i, j \in 1..n : i # j => ToSet(seqs[i]) \cap ToSet(seqs[j]) = {}
         => IsInjective(FlattenSeq(seqs))
<1>1. PICK f \in [0..n -> Seq(S)] :
        /\ f[0] = <<>> /\ \A i \in 1..n : f[i] = f[i - 1] \o seqs[i]
        /\ f[n] = FlattenSeq(seqs)
  BY FlattenFacts
<1>0. HAVE /\ \A i \in 1..n : IsInjective(seqs[i])
           /\ \A i, j \in 1..n : i # j => ToSet(seqs[i]) \cap ToSet(seqs[j]) = {}
<1> DEFINE T == {k \in 0..n : /\ IsInjective(f[k])
                              /\ \A i \in k + 1..n : ToSet(f[k]) \cap ToSet(seqs[i]) = {}}
<1>2. 0 \in T
  BY <1>1 DEF IsInjective, ToSet
<1>3. ASSUME NEW k \in 1..n, k - 1 \in T PROVE k \in T
  <2>0. k - 1 \in 0..n
    OBVIOUS
  <2>1. f[k] = f[k - 1] \o seqs[k] /\ f[k - 1] \in Seq(S) /\ seqs[k] \in Seq(S)
    BY <1>1, <2>0
  <2>2. IsInjective(f[k - 1]) /\ \A i \in k..n : ToSet(f[k - 1]) \cap ToSet(seqs[i]) = {}
    BY <1>3
  <2>3. IsInjective(f[k])
    BY <1>0, <2>1, <2>2, InjectiveConcat
  <2>4. ToSet(f[k]) = ToSet(f[k - 1]) \cup ToSet(seqs[k])
    BY <2>1, ToSetOfConcat
  <2>5. \A i \in k + 1..n : ToSet(f[k]) \cap ToSet(seqs[i]) = {}
    BY <1>0, <2>2, <2>4
  <2>6. QED
    BY <2>3, <2>5
<1> HIDE DEF T
<1>4. 0..n \subseteq T
  BY <1>2, <1>3, StepByStep
<1>5. QED
  BY <1>1, <1>4 DEF T

LEMMA SetToSeqIs ==
  ASSUME NEW S, IsFiniteSet(S)
  PROVE  /\ SetToSeq(S) \in Seq(S) /\ IsInjective(SetToSeq(S)) /\ ToSet(SetToSeq(S)) = S
<1> DEFINE n == Cardinality(S)
           f == SetToSeq(S)
<1>1. n \in Nat /\ ExistsBijection(1..n, S)
  BY FS_CardinalityType
<1>2. \E g \in [1..n -> S] : IsInjective(g)
  BY <1>1 DEF ExistsBijection, Bijection, Injection
<1>3. f \in [1..n -> S] /\ IsInjective(f)
  BY <1>2 DEF SetToSeq
<1>4. f \in Injection(1..n, S)
  BY <1>3 DEF Injection
<1>5. f \in Surjection(1..n, S)
  <2>1. IsFiniteSet(1..n) /\ Cardinality(1..n) = n
    BY <1>1, FS_Interval
  <2>2. QED
    BY <1>4, <2>1, FS_Injection
<1> HIDE DEF n, f
<1>6. S \subseteq ToSet(f)
  BY <1>3, <1>5 DEF Surjection, ToSet
<1>7. f \in Seq(S) /\ ToSet(f) \subseteq S
  BY <1>1, <1>3 DEF ToSet
<1>8. QED
  BY <1>3, <1>6, <1>7 DEF f

-----------------------------------------------------------------------------
(* The rows *)

Held == Groups \cup {NoGroup}
Words == {"Any", "any", "none"} \cup UNION {r.sources \cup r.ports \cup {r.name} : r \in Rules}
Rows == [sources : SUBSET Words, scope : {"none", "nic", "subnet"} \X Held, rule : Words,
         port : Words, confidence : {"low", "medium", "high"},
         related : SUBSET (ToSet(Nics) \cup Held)]

AzureType ==
  /\ azure.rules \in [Groups -> RuleLists]
  /\ azure.nic \in [ToSet(Nics) -> Held] /\ azure.subnet \in [ToSet(Nics) -> Held]

(* A row of a rule carries its sources' confidence, in the scope of the    *)
(* group it was found in.                                                  *)
Found(row, type, group, nic) ==
  /\ row \in Rows /\ row.scope = <<type, group>> /\ row.related = {nic, group}
  /\ row.sources # {} /\ row.confidence = networkEffectiveConfidence(row.sources)

LEMMA RowsOfRuleAre ==
  ASSUME NEW rule \in Rules, IsFiniteSet(rule.ports), NEW type \in {"nic", "subnet"},
         NEW group \in Groups, NEW nic \in ToSet(Nics)
  PROVE  /\ IsFiniteSet(RowsOfRule(rule, type, group, nic))
         /\ \A r \in RowsOfRule(rule, type, group, nic) :
              Found(r, type, group, nic) /\ r.rule = rule.name
<1> DEFINE sources == IF rule.sources = {} THEN {"Any"} ELSE rule.sources
           ports == IF rule.ports = {} THEN {"any"} ELSE rule.ports
           rows == RowsOfRule(rule, type, group, nic)
           row(p) == Evidence(sources, <<type, group>>, rule.name, p, nic, group)
<1>1. rows = {row(p) : p \in ports}
  BY DEF RowsOfRule
<1>2. sources \in SUBSET Words /\ sources # {} /\ ports \in SUBSET Words
  BY DEF Words
<1>3. rule.name \in Words
  BY DEF Words
<1>4. networkEffectiveConfidence(sources) \in {"low", "medium", "high"}
  BY DEF networkEffectiveConfidence
<1>5. IsFiniteSet(ports)
  BY FS_Singleton
<1> HIDE DEF sources, ports, rows
<1>6. IsFiniteSet(rows)
  <2> DEFINE f == [p \in ports |-> row(p)]
  <2>1. f \in Surjection(ports, rows)
    BY <1>1 DEF Surjection
  <2> HIDE DEF f
  <2>2. QED
    BY <1>5, <2>1, FS_Surjection
<1>7. ASSUME NEW p \in ports PROVE Found(row(p), type, group, nic) /\ row(p).rule = rule.name
  BY <1>2, <1>3, <1>4, <1>7 DEF Found, Evidence, Rows, Held
<1>8. QED
  BY <1>1, <1>6, <1>7 DEF rows

LEMMA NoRows ==
  ASSUME NEW S
  PROVE  <<>> \in Seq(S) /\ IsInjective(<<>>) /\ ToSet(<<>>) = {}
<1>1. DOMAIN <<>> = {}
  OBVIOUS
<1>2. QED
  BY <1>1 DEF IsInjective, ToSet

LEMMA RowsOfGroupAre ==
  ASSUME AzureType, NEW type \in {"nic", "subnet"}, NEW group \in Groups,
         NEW nic \in ToSet(Nics)
  PROVE  /\ RowsOfGroup(type, group, nic) \in Seq(Rows)
         /\ IsInjective(RowsOfGroup(type, group, nic))
         /\ \A r \in ToSet(RowsOfGroup(type, group, nic)) : Found(r, type, group, nic)
<1> DEFINE rules == azure.rules[group]
           n == Len(rules)
           seqs == [i \in DOMAIN rules |->
                      IF rules[i].allow THEN SetToSeq(RowsOfRule(rules[i], type, group, nic))
                      ELSE <<>>]
<1>1. rules \in RuleLists
  BY DEF AzureType
<1>2. rules \in Seq(Rules) /\ DOMAIN rules = 1..n /\ n \in Nat
  BY <1>1, RulesAssumption
<1>3. \A i \in 1..n : rules[i] \in Rules /\ IsFiniteSet(rules[i].ports)
  BY <1>1, <1>2, RulesAssumption
<1>4. \A i, j \in 1..n : rules[i].name = rules[j].name => i = j
  BY <1>1, <1>2, RulesAssumption
<1>5. RowsOfGroup(type, group, nic) = FlattenSeq(seqs)
  BY DEF RowsOfGroup
<1> HIDE DEF rules, n
<1>6. ASSUME NEW i \in 1..n
      PROVE  /\ seqs[i] \in Seq(Rows) /\ IsInjective(seqs[i])
             /\ \A r \in ToSet(seqs[i]) : Found(r, type, group, nic) /\ r.rule = rules[i].name
  <2> DEFINE rows == RowsOfRule(rules[i], type, group, nic)
  <2>1. /\ IsFiniteSet(rows)
        /\ \A r \in rows : Found(r, type, group, nic) /\ r.rule = rules[i].name
    BY <1>3, RowsOfRuleAre
  <2> HIDE DEF rows
  <2>2. /\ SetToSeq(rows) \in Seq(rows) /\ IsInjective(SetToSeq(rows))
        /\ ToSet(SetToSeq(rows)) = rows
    BY <2>1, SetToSeqIs
  <2>3. rows \subseteq Rows
    BY <2>1 DEF Found
  <2>4. SetToSeq(rows) \in Seq(Rows)
    BY <2>2, <2>3, SeqMonotonic
  <2>5. CASE rules[i].allow
    <3>1. seqs[i] = SetToSeq(rows)
      BY <1>2, <2>5 DEF rows
    <3>2. QED
      BY <2>1, <2>2, <2>4, <3>1
  <2>6. CASE ~rules[i].allow
    <3>1. seqs[i] = <<>>
      BY <1>2, <2>6
    <3>2. QED
      BY <3>1, NoRows
  <2>7. QED
    BY <2>5, <2>6
<1>7. seqs \in [1..n -> Seq(Rows)]
  BY <1>2, <1>6
<1> HIDE DEF seqs
<1>8. \A i, j \in 1..n : i # j => ToSet(seqs[i]) \cap ToSet(seqs[j]) = {}
  BY <1>4, <1>6
<1>9. FlattenSeq(seqs) \in Seq(Rows)
  BY <1>2, <1>7, FlattenType
<1>10. IsInjective(FlattenSeq(seqs))
  BY <1>2, <1>6, <1>7, <1>8, FlattenInjective
<1>11. \A r \in ToSet(FlattenSeq(seqs)) : Found(r, type, group, nic)
  <2>1. ToSet(FlattenSeq(seqs)) = UNION {ToSet(seqs[i]) : i \in 1..n}
    BY <1>2, <1>7, FlattenMembers
  <2>2. QED
    BY <1>6, <2>1
<1>12. QED
  BY <1>5, <1>9, <1>10, <1>11

(* What an interface shows a viewpoint with these rights.                  *)
OwnRows(nic, rights) ==
  IF azure.nic[nic] \in rights THEN RowsOfGroup("nic", azure.nic[nic], nic) ELSE <<>>
SubnetRows(nic, rights) ==
  IF {Subnets, azure.subnet[nic]} \subseteq rights
  THEN RowsOfGroup("subnet", azure.subnet[nic], nic) ELSE <<>>

Rights == SUBSET (Groups \cup {Subnets})

LEMMA RowsOfNicAre ==
  ASSUME AzureType, NEW rights \in Rights, NEW nic \in ToSet(Nics)
  PROVE  /\ OwnRows(nic, rights) \in Seq(Rows) /\ IsInjective(OwnRows(nic, rights))
         /\ \A r \in ToSet(OwnRows(nic, rights)) : Found(r, "nic", azure.nic[nic], nic)
         /\ SubnetRows(nic, rights) \in Seq(Rows) /\ IsInjective(SubnetRows(nic, rights))
         /\ \A r \in ToSet(SubnetRows(nic, rights)) : Found(r, "subnet", azure.subnet[nic], nic)
<1>2. azure.nic[nic] \in Held /\ azure.subnet[nic] \in Held
  BY DEF AzureType
<1>3. NoGroup \notin rights
  BY GroupsAssumption DEF Rights
<1>4. ASSUME NEW type \in {"nic", "subnet"}, NEW group \in Held, group \in rights
      PROVE  /\ RowsOfGroup(type, group, nic) \in Seq(Rows)
             /\ IsInjective(RowsOfGroup(type, group, nic))
             /\ \A r \in ToSet(RowsOfGroup(type, group, nic)) : Found(r, type, group, nic)
  <2>1. group \in Groups
    BY <1>3, <1>4 DEF Held
  <2>2. QED
    BY <2>1, RowsOfGroupAre
<1>5. /\ OwnRows(nic, rights) \in Seq(Rows) /\ IsInjective(OwnRows(nic, rights))
      /\ \A r \in ToSet(OwnRows(nic, rights)) : Found(r, "nic", azure.nic[nic], nic)
  <2>1. CASE azure.nic[nic] \in rights
    BY <1>2, <1>4, <2>1 DEF OwnRows
  <2>2. CASE azure.nic[nic] \notin rights
    BY <2>2, NoRows DEF OwnRows
  <2>3. QED
    BY <2>1, <2>2
<1>6. /\ SubnetRows(nic, rights) \in Seq(Rows) /\ IsInjective(SubnetRows(nic, rights))
      /\ \A r \in ToSet(SubnetRows(nic, rights)) : Found(r, "subnet", azure.subnet[nic], nic)
  <2>1. CASE {Subnets, azure.subnet[nic]} \subseteq rights
    BY <1>2, <1>4, <2>1 DEF SubnetRows
  <2>2. CASE ~({Subnets, azure.subnet[nic]} \subseteq rights)
    BY <2>2, NoRows DEF SubnetRows
  <2>3. QED
    BY <2>1, <2>2
<1>7. QED
  BY <1>5, <1>6

(* A row of an interface is that of a rule of one of its groups, or says   *)
(* that none is visible.                                                   *)
RowOf(r, nic) ==
  \/ Found(r, "nic", azure.nic[nic], nic) \/ Found(r, "subnet", azure.subnet[nic], nic)
  \/ r = NoRuleVisible(nic)

LEMMA NoRuleVisibleIs ==
  ASSUME NEW nic \in ToSet(Nics)
  PROVE  NoRuleVisible(nic) \in Rows
<1>1. {nic} \subseteq ToSet(Nics) \cup Held
  OBVIOUS
<1>2. NoScope \in {"none", "nic", "subnet"} \X Held
  BY DEF NoScope, Held
<1>3. "none" \in Words /\ "any" \in Words
  BY DEF Words
<1>4. QED
  BY <1>1, <1>2, <1>3 DEF NoRuleVisible, Rows

LEMMA EvidenceOfNicIs ==
  ASSUME AzureType, NEW rights \in Rights, NEW nic \in ToSet(Nics)
  PROVE  /\ EvidenceOfNic(nic, rights) = IF OwnRows(nic, rights) \o SubnetRows(nic, rights) = <<>>
                                         THEN <<NoRuleVisible(nic)>>
                                         ELSE OwnRows(nic, rights) \o SubnetRows(nic, rights)
         /\ EvidenceOfNic(nic, rights) \in Seq(Rows) /\ IsInjective(EvidenceOfNic(nic, rights))
         /\ ToSet(EvidenceOfNic(nic, rights)) # {}
         /\ \A r \in ToSet(EvidenceOfNic(nic, rights)) : RowOf(r, nic)
<1> DEFINE own == OwnRows(nic, rights)
           sub == SubnetRows(nic, rights)
<1>1. EvidenceOfNic(nic, rights) = IF own \o sub = <<>> THEN <<NoRuleVisible(nic)>> ELSE own \o sub
  BY DEF EvidenceOfNic, OwnRows, SubnetRows
<1>2. /\ own \in Seq(Rows) /\ IsInjective(own)
      /\ \A r \in ToSet(own) : Found(r, "nic", azure.nic[nic], nic)
      /\ sub \in Seq(Rows) /\ IsInjective(sub)
      /\ \A r \in ToSet(sub) : Found(r, "subnet", azure.subnet[nic], nic)
  BY RowsOfNicAre
<1> HIDE DEF own, sub
<1>3. ToSet(own) \cap ToSet(sub) = {}
  BY <1>2 DEF Found
<1>4. own \o sub \in Seq(Rows) /\ IsInjective(own \o sub)
  BY <1>2, <1>3, InjectiveConcat
<1>5. ToSet(own \o sub) = ToSet(own) \cup ToSet(sub)
  BY <1>2, ToSetOfConcat
<1>6. CASE own \o sub = <<>>
  <2> DEFINE row == NoRuleVisible(nic)
  <2>1. EvidenceOfNic(nic, rights) = <<row>>
    BY <1>1, <1>6
  <2>2. row \in Rows
    BY NoRuleVisibleIs
  <2>3. RowOf(row, nic)
    BY DEF RowOf
  <2> HIDE DEF row
  <2>4. <<row>> \in Seq(Rows) /\ IsInjective(<<row>>) /\ ToSet(<<row>>) = {row}
    BY <2>2 DEF IsInjective, ToSet
  <2>5. QED
    BY <1>1, <2>1, <2>3, <2>4 DEF own, sub
<1>7. CASE own \o sub # <<>>
  <2>1. EvidenceOfNic(nic, rights) = own \o sub
    BY <1>1, <1>7
  <2>2. ToSet(own \o sub) # {}
    <3>1. Len(own \o sub) >= 1
      BY <1>4, <1>7, EmptySeq
    <3>2. 1 \in DOMAIN (own \o sub)
      BY <1>4, <3>1
    <3>3. (own \o sub)[1] \in ToSet(own \o sub)
      BY <3>2 DEF ToSet
    <3>4. QED
      BY <3>3
  <2>3. \A r \in ToSet(own \o sub) : RowOf(r, nic)
    BY <1>2, <1>5 DEF RowOf
  <2>4. QED
    BY <1>1, <1>4, <2>1, <2>2, <2>3 DEF own, sub
<1>8. QED
  BY <1>6, <1>7

(* Interfaces have no row in common, even when they share a group.         *)
LEMMA InterfacesApart ==
  ASSUME NEW nic, NEW other, NEW r, RowOf(r, nic), RowOf(r, other)
  PROVE  nic = other
<1>1. r.scope[1] \in {"nic", "subnet", "none"}
  BY DEF RowOf, Found, NoRuleVisible, NoScope
<1>2. CASE r = NoRuleVisible(nic)
  BY <1>2 DEF RowOf, Found, NoRuleVisible, NoScope
<1>3. CASE r = NoRuleVisible(other)
  BY <1>3 DEF RowOf, Found, NoRuleVisible, NoScope
<1>4. CASE \E type, group : Found(r, type, group, nic) /\ Found(r, type, group, other)
  <2>1. PICK type, group : Found(r, type, group, nic) /\ Found(r, type, group, other)
    BY <1>4
  <2>2. {nic, group} = {other, group}
    BY <2>1 DEF Found
  <2>3. QED
    BY <2>2
<1>5. QED
  BY <1>2, <1>3, <1>4 DEF RowOf, Found

LEMMA NicsAre ==
  /\ Nics \in Seq(STRING) /\ Len(Nics) \in Nat /\ DOMAIN Nics = 1..Len(Nics)
  /\ \A i \in 1..Len(Nics) : Nics[i] \in ToSet(Nics)
  /\ \A i, j \in 1..Len(Nics) : Nics[i] = Nics[j] => i = j
BY NicsAssumption DEF ToSet, IsInjective

LEMMA EvidenceIs ==
  ASSUME AzureType, NEW rights \in Rights
  PROVE  /\ EvidenceFor(rights) \in Seq(Rows) /\ IsInjective(EvidenceFor(rights))
         /\ ToSet(EvidenceFor(rights))
              = UNION {ToSet(EvidenceOfNic(Nics[i], rights)) : i \in 1..Len(Nics)}
<1> DEFINE n == Len(Nics)
           seqs == [i \in 1..n |-> EvidenceOfNic(Nics[i], rights)]
<1>1. EvidenceFor(rights) = FlattenSeq(seqs) /\ n \in Nat
  BY NicsAre DEF EvidenceFor
<1>2. ASSUME NEW i \in 1..n
      PROVE  /\ seqs[i] = EvidenceOfNic(Nics[i], rights)
             /\ seqs[i] \in Seq(Rows) /\ IsInjective(seqs[i])
             /\ \A r \in ToSet(seqs[i]) : RowOf(r, Nics[i])
  BY NicsAre, EvidenceOfNicIs
<1>3. seqs \in [1..n -> Seq(Rows)]
  BY <1>2
<1> HIDE DEF seqs, n
<1>4. \A i, j \in 1..n : i # j => ToSet(seqs[i]) \cap ToSet(seqs[j]) = {}
  BY <1>2, InterfacesApart, NicsAre DEF n
<1>5. FlattenSeq(seqs) \in Seq(Rows)
  BY <1>1, <1>3, FlattenType
<1>6. IsInjective(FlattenSeq(seqs))
  BY <1>1, <1>2, <1>3, <1>4, FlattenInjective
<1>7. ToSet(FlattenSeq(seqs)) = UNION {ToSet(seqs[i]) : i \in 1..n}
  BY <1>1, <1>3, FlattenMembers
<1>8. QED
  BY <1>1, <1>2, <1>5, <1>6, <1>7 DEF n

(* What a walk has collected when it has been through k interfaces.        *)
Upto(k) == FlattenSeq([i \in 1..k |-> EvidenceOfNic(Nics[i], sight)])

LEMMA UptoIs ==
  ASSUME AzureType, sight \in Rights
  PROVE  /\ Upto(0) = <<>> /\ Upto(Len(Nics)) = EvidenceFor(sight)
         /\ \A k \in 0..Len(Nics) : Upto(k) \in Seq(Rows)
         /\ \A k \in 1..Len(Nics) : Upto(k) = Upto(k - 1) \o EvidenceOfNic(Nics[k], sight)
<1>1. Upto(0) = <<>>
  BY DEF Upto, FlattenSeq
<1>2. Upto(Len(Nics)) = EvidenceFor(sight)
  BY NicsAre DEF Upto, EvidenceFor
<1> DEFINE seqs(k) == [i \in 1..k |-> EvidenceOfNic(Nics[i], sight)]
<1>3. \A i \in 1..Len(Nics) : EvidenceOfNic(Nics[i], sight) \in Seq(Rows)
  BY NicsAre, EvidenceOfNicIs
<1>4. \A k \in 0..Len(Nics) : k \in Nat /\ seqs(k) \in [1..k -> Seq(Rows)]
  BY <1>3, NicsAre
<1>5. ASSUME NEW k \in 0..Len(Nics) PROVE Upto(k) \in Seq(Rows)
  BY <1>4, FlattenType DEF Upto
<1>6. ASSUME NEW k \in 1..Len(Nics)
      PROVE  Upto(k) = Upto(k - 1) \o EvidenceOfNic(Nics[k], sight)
  <2>1. PICK m \in Nat : k = m + 1
    <3>1. k - 1 \in Nat /\ k = (k - 1) + 1
      BY NicsAre
    <3>2. QED
      BY <3>1
  <2>2. seqs(m + 1) \in [1..m + 1 -> Seq(Rows)]
    BY <1>4, <2>1, NicsAre
  <2>3. FlattenSeq(seqs(m + 1)) = FlattenSeq([i \in 1..m |-> seqs(m + 1)[i]]) \o seqs(m + 1)[m + 1]
    <3> HIDE DEF seqs
    <3>1. QED
      BY <2>2, FlattenStep
  <2>4. [i \in 1..m |-> seqs(m + 1)[i]] = seqs(m) /\ seqs(m + 1)[m + 1] = EvidenceOfNic(Nics[k], sight)
    BY <2>1
  <2>5. Upto(m + 1) = FlattenSeq(seqs(m + 1)) /\ Upto(m) = FlattenSeq(seqs(m))
    BY DEF Upto
  <2>6. Upto(m + 1) = Upto(m) \o EvidenceOfNic(Nics[k], sight)
    <3> HIDE DEF seqs
    <3>1. QED
      BY <2>3, <2>4, <2>5
  <2>7. k - 1 = m
    BY <2>1
  <2>8. QED
    BY <2>1, <2>6, <2>7
<1>7. QED
  BY <1>1, <1>2, <1>5, <1>6

-----------------------------------------------------------------------------
(* Confidence *)

LEMMA RankIs == Rank("low") = 0 /\ Rank("medium") = 1 /\ Rank("high") = 2
BY DEF Rank

Confidences(rows) == {r.confidence : r \in rows} \cup {"low"}
HighestOf(rows) == CHOOSE c \in Confidences(rows) : \A r \in rows : Rank(r.confidence) <= Rank(c)

(* The highest confidence is that of a set of rows.                        *)
LEMMA HighestIs ==
  ASSUME NEW rows, ToSet(rows) \subseteq Rows
  PROVE  /\ Highest(rows) = HighestOf(ToSet(rows))
         /\ Highest(rows) \in {"low", "medium", "high"}
         /\ Highest(rows) = "low" \/ \E r \in ToSet(rows) : r.confidence = Highest(rows)
         /\ \A r \in ToSet(rows) : Rank(r.confidence) <= Rank(Highest(rows))
<1> DEFINE S == ToSet(rows)
<1>1. Highest(rows) = HighestOf(S)
  BY DEF Highest, HighestOf, Confidences
<1> HIDE DEF S
<1>2. \A r \in S : r.confidence \in {"low", "medium", "high"}
  BY DEF Rows, S
<1>3. \E c \in Confidences(S) : \A r \in S : Rank(r.confidence) <= Rank(c)
  <2>1. CASE \E r \in S : r.confidence = "high"
    <3>1. "high" \in Confidences(S)
      BY <2>1 DEF Confidences
    <3>2. \A r \in S : Rank(r.confidence) <= Rank("high")
      BY <1>2, RankIs
    <3>3. QED
      BY <3>1, <3>2
  <2>2. CASE (\A r \in S : r.confidence # "high") /\ \E r \in S : r.confidence = "medium"
    <3>1. "medium" \in Confidences(S)
      BY <2>2 DEF Confidences
    <3>2. \A r \in S : Rank(r.confidence) <= Rank("medium")
      BY <1>2, <2>2, RankIs
    <3>3. QED
      BY <3>1, <3>2
  <2>3. CASE \A r \in S : r.confidence # "high" /\ r.confidence # "medium"
    <3>1. "low" \in Confidences(S)
      BY DEF Confidences
    <3>2. \A r \in S : Rank(r.confidence) <= Rank("low")
      BY <1>2, <2>3, RankIs
    <3>3. QED
      BY <3>1, <3>2
  <2>4. QED
    BY <2>1, <2>2, <2>3
<1>4. HighestOf(S) \in Confidences(S) /\ \A r \in S : Rank(r.confidence) <= Rank(HighestOf(S))
  BY <1>3 DEF HighestOf
<1>5. QED
  BY <1>1, <1>2, <1>4 DEF Confidences, S

LEMMA EvidenceMembers ==
  ASSUME AzureType, NEW rights \in Rights, NEW nic \in ToSet(Nics), NEW r
  PROVE  r \in ToSet(EvidenceOfNic(nic, rights)) <=>
           \/ r \in ToSet(OwnRows(nic, rights)) \/ r \in ToSet(SubnetRows(nic, rights))
           \/ /\ r = NoRuleVisible(nic)
              /\ OwnRows(nic, rights) \o SubnetRows(nic, rights) = <<>>
<1> DEFINE own == OwnRows(nic, rights)
           sub == SubnetRows(nic, rights)
           rows == EvidenceOfNic(nic, rights)
<1>1. rows = IF own \o sub = <<>> THEN <<NoRuleVisible(nic)>> ELSE own \o sub
  BY EvidenceOfNicIs
<1>2. own \in Seq(Rows) /\ sub \in Seq(Rows)
  BY RowsOfNicAre
<1> HIDE DEF own, sub, rows
<1>3. ToSet(own \o sub) = ToSet(own) \cup ToSet(sub)
  BY <1>2, ToSetOfConcat
<1>4. CASE own \o sub = <<>>
  <2>1. ToSet(own) = {} /\ ToSet(sub) = {}
    BY <1>3, <1>4, NoRows
  <2>2. rows = <<NoRuleVisible(nic)>>
    BY <1>1, <1>4
  <2>3. ToSet(<<NoRuleVisible(nic)>>) = {NoRuleVisible(nic)}
    BY DEF ToSet
  <2>4. QED
    BY <1>4, <2>1, <2>2, <2>3 DEF own, sub, rows
<1>5. CASE own \o sub # <<>>
  BY <1>1, <1>3, <1>5 DEF own, sub, rows
<1>6. QED
  BY <1>4, <1>5

(* Who may read less sees fewer rules, and for what is hidden the row that *)
(* says so, of the lowest confidence.                                      *)
LEMMA LessIsSeen ==
  ASSUME AzureType, sight \in Rights, NEW less \in SUBSET sight,
         NEW r \in ToSet(EvidenceFor(less))
  PROVE  \/ r \in ToSet(EvidenceFor(sight))
         \/ r.confidence = "low" /\ r.scope = NoScope
<1>0. less \in Rights
  BY DEF Rights
<1>1. PICK i \in 1..Len(Nics) : r \in ToSet(EvidenceOfNic(Nics[i], less))
  BY <1>0, EvidenceIs
<1> DEFINE nic == Nics[i]
<1>2. nic \in ToSet(Nics)
  BY NicsAre
<1>3. r \in ToSet(EvidenceOfNic(nic, sight)) => r \in ToSet(EvidenceFor(sight))
  BY EvidenceIs
<1> HIDE DEF nic
<1>4. CASE r = NoRuleVisible(nic)
  BY <1>4 DEF NoRuleVisible
<1>5. CASE r \in ToSet(OwnRows(nic, less))
  <2>1. OwnRows(nic, less) = OwnRows(nic, sight)
    BY <1>5, NoRows DEF OwnRows
  <2>2. QED
    BY <1>2, <1>3, <1>5, <2>1, EvidenceMembers
<1>6. CASE r \in ToSet(SubnetRows(nic, less))
  <2>1. SubnetRows(nic, less) = SubnetRows(nic, sight)
    BY <1>6, NoRows DEF SubnetRows
  <2>2. QED
    BY <1>2, <1>3, <1>6, <2>1, EvidenceMembers
<1>7. QED
  BY <1>0, <1>1, <1>2, <1>4, <1>5, <1>6, EvidenceMembers DEF nic

LEMMA SightLowersNothing ==
  ASSUME AzureType, sight \in Rights
  PROVE  SightNeverLowers
<1> SUFFICES ASSUME NEW less \in SUBSET sight
             PROVE  /\ Rank(Highest(EvidenceFor(less))) <= Rank(Highest(EvidenceFor(sight)))
                    /\ InternetPorts(EvidenceFor(less)) \subseteq InternetPorts(EvidenceFor(sight))
  BY DEF SightNeverLowers
<1> DEFINE seen == EvidenceFor(sight)
           hidden == EvidenceFor(less)
<1>1. less \in Rights
  BY DEF Rights
<1>2. seen \in Seq(Rows) /\ hidden \in Seq(Rows)
  BY <1>1, EvidenceIs
<1>3. \A r \in ToSet(hidden) : r \in ToSet(seen) \/ (r.confidence = "low" /\ r.scope = NoScope)
  BY LessIsSeen
<1> HIDE DEF seen, hidden
<1>4. ToSet(seen) \subseteq Rows /\ ToSet(hidden) \subseteq Rows
  BY <1>2 DEF ToSet
<1>5. Rank(Highest(hidden)) <= Rank(Highest(seen))
  <2>1. Rank(Highest(seen)) \in Nat
    BY <1>4, HighestIs, RankIs
  <2>2. CASE Highest(hidden) = "low"
    BY <2>1, <2>2, RankIs
  <2>3. CASE Highest(hidden) # "low"
    <3>1. PICK r \in ToSet(hidden) : r.confidence = Highest(hidden)
      BY <1>4, <2>3, HighestIs
    <3>2. r \in ToSet(seen)
      BY <1>3, <2>3, <3>1
    <3>3. QED
      BY <1>4, <3>1, <3>2, HighestIs
  <2>4. QED
    BY <2>2, <2>3
<1>6. InternetPorts(hidden) \subseteq InternetPorts(seen)
  BY <1>3 DEF InternetPorts, Stated
<1>7. QED
  BY <1>5, <1>6 DEF seen, hidden

-----------------------------------------------------------------------------
(* The walk *)

(* What a command may have told, by the slip of the tool.                  *)
ToldFor(i) ==
  \E rows \in {EvidenceFor(sight), Reverse(EvidenceFor(sight))} :
     told[i] \in Mistaken(Commands[i], Payload(Commands[i], rows))

FindingsOf(i) ==
  IF Commands[i] = "network-effective" THEN EffectiveFindings(told[i], truth[i])
  ELSE PortFindings(told[i], truth[i])

(* A context that was written is the evidence of the whole machine, and    *)
(* the findings are those of what was told against it.                     *)
Settled ==
  \A i \in 1..2 :
     truth[i] # NotYet =>
       /\ i < at /\ truth[i] = Payload(Commands[i], EvidenceFor(sight))
       /\ ToldFor(i) /\ findings[i] = FindingsOf(i)

Step(k, query, group) == walk = [nic |-> k, query |-> query, group |-> group]
Own(k) == OwnRows(Nics[k], sight)
Behind(k) == SubnetRows(Nics[k], sight)

(* At interface k the rows of all before it are in, and its own as far as  *)
(* the query has come.                                                     *)
Midway(k) ==
  \/ Step(k, "nic", NoGroup) /\ evidence = Upto(k - 1) /\ visible = FALSE
  \/ /\ k <= Len(Nics) /\ Step(k, "nicGroup", azure.nic[Nics[k]])
     /\ evidence = Upto(k - 1) /\ visible = FALSE
  \/ /\ k <= Len(Nics) /\ Step(k, "subnet", NoGroup)
     /\ evidence = Upto(k - 1) \o Own(k) /\ visible = (Own(k) # <<>>)
  \/ /\ k <= Len(Nics)
     /\ Step(k, "subnetGroup", IF Subnets \in sight THEN azure.subnet[Nics[k]] ELSE NoGroup)
     /\ evidence = Upto(k - 1) \o Own(k) /\ visible = (Own(k) # <<>>)
  \/ /\ k <= Len(Nics) /\ Step(k, "close", NoGroup)
     /\ evidence = Upto(k - 1) \o (Own(k) \o Behind(k))
     /\ visible = (Own(k) \o Behind(k) # <<>>)

OnTheWay ==
  \/ walk = Nowhere
  \/ /\ at \in 1..2 /\ ToldFor(at)
     /\ \E k \in 1..Len(Nics) + 1 : Midway(k)

Given == AzureType /\ sight \in Rights /\ slip \in Slips

WalkInv ==
  /\ Given /\ at \in 1..3 /\ Settled /\ OnTheWay
  /\ DOMAIN told = 1..2 /\ DOMAIN truth = 1..2 /\ DOMAIN findings = 1..2

LEMMA CommandsAre ==
  /\ DOMAIN Commands = 1..2 /\ Len(Commands) = 2
  /\ Commands[1] = "network-effective" /\ Commands[2] = "network-ports"
BY DEF Commands

LEMMA InitWalk == Init => WalkInv
<1> SUFFICES ASSUME Init PROVE WalkInv
  OBVIOUS
<1>1. Given
  <2>1. PICK l \in Layouts, r \in [Groups -> RuleLists] :
          azure = [nic |-> l.nic, subnet |-> l.subnet, rules |-> r]
    BY DEF Init
  <2>2. l.nic \in [ToSet(Nics) -> Held] /\ l.subnet \in [ToSet(Nics) -> Held]
    BY LayoutsAssumption DEF Held
  <2>3. AzureType
    BY <2>1, <2>2 DEF AzureType
  <2>4. QED
    BY <2>3 DEF Given, Init, Rights
<1>2. at \in 1..3 /\ OnTheWay
  BY DEF Init, OnTheWay
<1>3. /\ DOMAIN told = 1..2 /\ DOMAIN truth = 1..2 /\ DOMAIN findings = 1..2
      /\ \A i \in 1..2 : truth[i] = NotYet
  BY CommandsAre DEF Init, Untold
<1>4. QED
  BY <1>1, <1>2, <1>3 DEF WalkInv, Settled

(* Azure and the rights stay, and with them what there is to be seen.      *)
LEMMA Stays ==
  ASSUME UNCHANGED <<azure, sight, slip>>
  PROVE  /\ (EvidenceFor(sight))' = EvidenceFor(sight)
         /\ \A k : (Upto(k))' = Upto(k) /\ (Own(k))' = Own(k) /\ (Behind(k))' = Behind(k)
         /\ Given => Given'
<1>1. \A type, group, nic : (RowsOfGroup(type, group, nic))' = RowsOfGroup(type, group, nic)
  BY DEF RowsOfGroup
<1>2. \A nic : (EvidenceOfNic(nic, sight))' = EvidenceOfNic(nic, sight)
  BY <1>1 DEF EvidenceOfNic
<1>3. (EvidenceFor(sight))' = EvidenceFor(sight)
  BY <1>2 DEF EvidenceFor
<1>4. \A k : (Upto(k))' = Upto(k)
  BY <1>2 DEF Upto
<1>5. \A k : (Own(k))' = Own(k) /\ (Behind(k))' = Behind(k)
  BY <1>1 DEF Own, Behind, OwnRows, SubnetRows
<1>6. Given => Given'
  BY DEF Given, AzureType
<1>7. QED
  BY <1>3, <1>4, <1>5, <1>6

(* Told stays, or its other part does.                                     *)
LEMMA ToldStays ==
  ASSUME UNCHANGED <<azure, sight, slip>>, NEW i \in 1..2, told'[i] = told[i]
  PROVE  ToldFor(i)' <=> ToldFor(i)
<1>1. (EvidenceFor(sight))' = EvidenceFor(sight)
  BY Stays
<1>2. \A c, p : (Mistaken(c, p))' = Mistaken(c, p)
  BY DEF Mistaken
<1>3. QED
  BY <1>1, <1>2 DEF ToldFor

LEMMA SettledStays ==
  ASSUME WalkInv, UNCHANGED <<azure, sight, slip, truth, findings>>,
         at' \in 1..3, at <= at', \A i \in 1..2 : i < at => told'[i] = told[i]
  PROVE  Settled'
<1> SUFFICES ASSUME NEW i \in 1..2, truth'[i] # NotYet
             PROVE  /\ i < at' /\ truth'[i] = (Payload(Commands[i], EvidenceFor(sight)))'
                    /\ ToldFor(i)' /\ findings'[i] = (FindingsOf(i))'
  BY DEF Settled, NotYet
<1>1. /\ i < at /\ truth[i] = Payload(Commands[i], EvidenceFor(sight))
      /\ ToldFor(i) /\ findings[i] = FindingsOf(i)
  BY DEF WalkInv, Settled, NotYet
<1>2. told'[i] = told[i]
  BY <1>1
<1>3. ToldFor(i)'
  BY <1>1, <1>2, ToldStays
<1>4. (FindingsOf(i))' = FindingsOf(i)
  BY <1>2 DEF FindingsOf
<1>5. (Payload(Commands[i], EvidenceFor(sight)))' = Payload(Commands[i], EvidenceFor(sight))
  BY Stays DEF Payload
<1>6. QED
  BY <1>1, <1>3, <1>4, <1>5 DEF WalkInv

LEMMA TellKeeps ==
  ASSUME WalkInv, Tell
  PROVE  WalkInv'
<1>1. UNCHANGED <<azure, sight, slip, at, truth, findings>> /\ at \in 1..2
  BY CommandsAre DEF Tell, Running
<1>2. PICK rows \in {EvidenceFor(sight), Reverse(EvidenceFor(sight))} :
      \E payload \in Mistaken(Current, Payload(Current, rows)) :
          told' = [told EXCEPT ![at] = payload]
  BY DEF Tell
<1>3. PICK payload \in Mistaken(Current, Payload(Current, rows)) :
          told' = [told EXCEPT ![at] = payload]
  BY <1>2
<1>4. told'[at] = payload /\ DOMAIN told' = 1..2 /\ \A i \in 1..2 : i < at => told'[i] = told[i]
  BY <1>1, <1>3 DEF WalkInv
<1>5. Settled'
  <2>1. at \in 1..3
    BY DEF WalkInv
  <2>2. QED
    BY <1>1, <1>4, <2>1, SettledStays
<1>6. ToldFor(at)'
  <2>1. (EvidenceFor(sight))' = EvidenceFor(sight)
    BY <1>1, Stays
  <2>2. \A c, p : (Mistaken(c, p))' = Mistaken(c, p)
    BY <1>1 DEF Mistaken
  <2>3. payload \in Mistaken(Commands[at], Payload(Commands[at], rows))
    BY DEF Current
  <2>4. QED
    BY <1>1, <1>2, <1>4, <2>1, <2>2, <2>3 DEF ToldFor
<1>7. OnTheWay'
  <2>1. Step(1, "nic", NoGroup)' /\ evidence' = <<>> /\ visible' = FALSE
    BY DEF Tell, Step
  <2>2. (Upto(0))' = <<>>
    BY <1>1, Stays, UptoIs DEF WalkInv, Given
  <2>3. 1 - 1 = 0 /\ 1 \in 1..Len(Nics) + 1
    BY NicsAre
  <2>4. Midway(1)'
    BY <2>1, <2>2, <2>3 DEF Midway
  <2>5. QED
    BY <1>1, <1>6, <2>3, <2>4 DEF OnTheWay
<1>8. QED
  BY <1>1, <1>4, <1>5, <1>7, Stays DEF WalkInv

(* A query that asks Azure moves the walk and nothing behind it.           *)
LEMMA QueryKeeps ==
  ASSUME WalkInv, UNCHANGED <<azure, sight, slip, at, told, truth, findings>>,
         walk # Nowhere, NEW k \in 1..Len(Nics) + 1, Midway(k)'
  PROVE  WalkInv'
<1>1. at \in 1..2 /\ ToldFor(at)
  BY DEF WalkInv, OnTheWay
<1>2. at' \in 1..2 /\ ToldFor(at)'
  BY <1>1, ToldStays
<1>3. OnTheWay'
  BY <1>2 DEF OnTheWay
<1>4. Settled'
  BY SettledStays DEF WalkInv
<1>5. QED
  BY <1>3, <1>4, Stays DEF WalkInv

LEMMA Where ==
  ASSUME WalkInv, NEW query, Asked(query)
  PROVE  /\ walk # Nowhere
         /\ \E k \in 1..Len(Nics) : /\ k \in 1..Len(Nics) + 1 /\ Midway(k) /\ walk.nic = k
                                    /\ Nic = Nics[k] /\ Nics[k] \in ToSet(Nics)
<1>1. walk.nic \in 1..Len(Nics)
  BY NicsAre DEF Asked, Capturing
<1>2. walk # Nowhere
  BY <1>1, NicsAre DEF Nowhere
<1>3. PICK k \in 1..Len(Nics) + 1 : Midway(k)
  BY <1>2 DEF WalkInv, OnTheWay
<1>4. walk.nic = k
  BY <1>3 DEF Midway, Step
<1>5. QED
  BY <1>1, <1>2, <1>3, <1>4, NicsAre DEF Nic

LEMMA ShowNicKeeps ==
  ASSUME WalkInv, ShowNic
  PROVE  WalkInv'
<1>1. Asked("nic") /\ UNCHANGED <<azure, sight, slip, at, evidence, visible, told, truth, findings>>
  BY DEF ShowNic
<1>2. PICK k \in 1..Len(Nics) : /\ k \in 1..Len(Nics) + 1 /\ Midway(k) /\ walk.nic = k
                                /\ Nic = Nics[k] /\ Nics[k] \in ToSet(Nics)
  BY <1>1, Where
<1>3. Step(k, "nic", NoGroup) /\ evidence = Upto(k - 1) /\ visible = FALSE
  BY <1>1, <1>2 DEF Asked, Midway, Step
<1>4. Step(k, "nicGroup", azure.nic[Nics[k]])'
  BY <1>1, <1>2, <1>3 DEF ShowNic, Go, Step
<1>5. Midway(k)'
  BY <1>1, <1>2, <1>3, <1>4, Stays DEF Midway
<1>6. QED
  BY <1>1, <1>2, <1>5, Where, QueryKeeps

LEMMA ShowSubnetKeeps ==
  ASSUME WalkInv, ShowSubnet
  PROVE  WalkInv'
<1>1. /\ Asked("subnet")
      /\ UNCHANGED <<azure, sight, slip, at, evidence, visible, told, truth, findings>>
  BY DEF ShowSubnet
<1>2. PICK k \in 1..Len(Nics) : /\ k \in 1..Len(Nics) + 1 /\ Midway(k) /\ walk.nic = k
                                /\ Nic = Nics[k] /\ Nics[k] \in ToSet(Nics)
  BY <1>1, Where
<1>3. /\ Step(k, "subnet", NoGroup)
      /\ evidence = Upto(k - 1) \o Own(k) /\ visible = (Own(k) # <<>>)
  BY <1>1, <1>2 DEF Asked, Midway, Step
<1>4. Step(k, "subnetGroup", IF Subnets \in sight THEN azure.subnet[Nics[k]] ELSE NoGroup)'
  BY <1>1, <1>2, <1>3 DEF ShowSubnet, Go, Step
<1>5. Midway(k)'
  <2>1. /\ (Upto(k - 1))' = Upto(k - 1) /\ (Own(k))' = Own(k) /\ (Behind(k))' = Behind(k)
        /\ k <= Len(Nics)
    BY <1>1, <1>2, Stays
  <2>2. evidence' = (Upto(k - 1) \o Own(k))' /\ visible' = (Own(k) # <<>>)'
    BY <1>1, <1>2, <1>3, <1>4, <2>1
  <2>3. QED
    BY <1>4, <2>1, <2>2 DEF Midway
<1>6. QED
  BY <1>1, <1>2, <1>5, Where, QueryKeeps

(* The own group's rows are collected when the group may be read.          *)
LEMMA ShowNicGroupKeeps ==
  ASSUME WalkInv, ShowNicGroup
  PROVE  WalkInv'
<1>1. /\ Asked("nicGroup") /\ UNCHANGED <<azure, sight, slip, at, told, truth, findings>>
      /\ CollectRules("nic")
  BY DEF ShowNicGroup
<1>2. PICK k \in 1..Len(Nics) : /\ k \in 1..Len(Nics) + 1 /\ Midway(k) /\ walk.nic = k
                                /\ Nic = Nics[k] /\ Nics[k] \in ToSet(Nics)
  BY <1>1, Where
<1>3. /\ Step(k, "nicGroup", azure.nic[Nics[k]])
      /\ evidence = Upto(k - 1) /\ visible = FALSE
  BY <1>1, <1>2 DEF Asked, Midway, Step
<1>4. Step(k, "subnet", NoGroup)'
  BY <1>1, <1>2, <1>3 DEF ShowNicGroup, Go, Step
<1>5. walk.group = azure.nic[Nics[k]]
  BY <1>3 DEF Step
<1>6. evidence' = Upto(k - 1) \o Own(k) /\ visible' = (Own(k) # <<>>)
  <2>1. CASE walk.group \in sight
    BY <1>1, <1>2, <1>3, <1>5, <2>1 DEF CollectRules, Own, OwnRows
  <2>2. CASE walk.group \notin sight
    <3>1. Own(k) = <<>>
      BY <1>5, <2>2 DEF Own, OwnRows
    <3>2. Upto(k - 1) \o <<>> = Upto(k - 1)
      <4>1. k - 1 \in 0..Len(Nics)
        BY NicsAre
      <4>2. Upto(k - 1) \in Seq(Rows)
        BY <4>1, UptoIs DEF WalkInv, Given
      <4>3. QED
        BY <4>2, ConcatEmptySeq
    <3>3. QED
      BY <1>1, <1>3, <2>2, <3>1, <3>2 DEF CollectRules
  <2>3. QED
    BY <2>1, <2>2
<1>7. Midway(k)'
  <2>1. /\ (Upto(k - 1))' = Upto(k - 1) /\ (Own(k))' = Own(k) /\ (Behind(k))' = Behind(k)
        /\ k <= Len(Nics)
    BY <1>1, <1>2, Stays
  <2>2. evidence' = (Upto(k - 1) \o Own(k))' /\ visible' = (Own(k) # <<>>)'
    BY <1>1, <1>2, <1>4, <1>6, <2>1
  <2>3. QED
    BY <1>4, <2>1, <2>2 DEF Midway
<1>8. QED
  BY <1>1, <1>2, <1>7, Where, QueryKeeps

LEMMA ShowSubnetGroupKeeps ==
  ASSUME WalkInv, ShowSubnetGroup
  PROVE  WalkInv'
<1>1. /\ Asked("subnetGroup") /\ UNCHANGED <<azure, sight, slip, at, told, truth, findings>>
      /\ CollectRules("subnet")
  BY DEF ShowSubnetGroup
<1>2. PICK k \in 1..Len(Nics) : /\ k \in 1..Len(Nics) + 1 /\ Midway(k) /\ walk.nic = k
                                /\ Nic = Nics[k] /\ Nics[k] \in ToSet(Nics)
  BY <1>1, Where
<1>3. /\ Step(k, "subnetGroup", IF Subnets \in sight THEN azure.subnet[Nics[k]] ELSE NoGroup)
      /\ evidence = Upto(k - 1) \o Own(k) /\ visible = (Own(k) # <<>>)
  BY <1>1, <1>2 DEF Asked, Midway, Step
<1>4. Step(k, "close", NoGroup)'
  BY <1>1, <1>2, <1>3 DEF ShowSubnetGroup, Go, Step
<1>5. walk.group = IF Subnets \in sight THEN azure.subnet[Nics[k]] ELSE NoGroup
  BY <1>3 DEF Step
<1>6. Own(k) \in Seq(Rows) /\ Behind(k) \in Seq(Rows) /\ Upto(k - 1) \in Seq(Rows)
  <2>1. k - 1 \in 0..Len(Nics)
    BY NicsAre
  <2>2. QED
    BY <1>2, <2>1, UptoIs, RowsOfNicAre DEF WalkInv, Given, Own, Behind
<1>7. (Upto(k - 1) \o Own(k)) \o Behind(k) = Upto(k - 1) \o (Own(k) \o Behind(k))
  BY <1>6, ConcatAssociative
<1>8. evidence' = evidence \o Behind(k) /\ visible' = (visible \/ Behind(k) # <<>>)
  <2>1. CASE walk.group \in sight
    <3>1. Subnets \in sight /\ walk.group = azure.subnet[Nics[k]]
      BY <1>5, <2>1, GroupsAssumption DEF WalkInv, Given, Rights
    <3>2. Behind(k) = RowsOfGroup("subnet", walk.group, Nic)
      BY <1>2, <2>1, <3>1 DEF Behind, SubnetRows
    <3>3. QED
      BY <1>1, <2>1, <3>2 DEF CollectRules
  <2>2. CASE walk.group \notin sight
    <3>1. Behind(k) = <<>>
      BY <1>5, <2>2 DEF Behind, SubnetRows
    <3>2. evidence \o <<>> = evidence
      <4>1. evidence \in Seq(Rows)
        BY <1>3, <1>6, ConcatProperties
      <4>2. QED
        BY <4>1, ConcatEmptySeq
    <3>3. visible \in BOOLEAN
      BY <1>3
    <3>4. QED
      BY <1>1, <2>2, <3>1, <3>2, <3>3 DEF CollectRules
  <2>3. QED
    BY <2>1, <2>2
<1>9. evidence' = Upto(k - 1) \o (Own(k) \o Behind(k)) /\ visible' = (Own(k) \o Behind(k) # <<>>)
  <2>1. evidence' = Upto(k - 1) \o (Own(k) \o Behind(k))
    BY <1>3, <1>7, <1>8
  <2>2. (Own(k) # <<>> \/ Behind(k) # <<>>) <=> Own(k) \o Behind(k) # <<>>
    BY <1>6, ConcatEqualIffEmpty
  <2>3. QED
    BY <1>3, <1>8, <2>1, <2>2
<1>10. Midway(k)'
  <2>1. /\ (Upto(k - 1))' = Upto(k - 1) /\ (Own(k))' = Own(k) /\ (Behind(k))' = Behind(k)
        /\ k <= Len(Nics)
    BY <1>1, <1>2, Stays
  <2>2. /\ evidence' = (Upto(k - 1) \o (Own(k) \o Behind(k)))'
        /\ visible' = (Own(k) \o Behind(k) # <<>>)'
    BY <1>1, <1>2, <1>4, <1>9, <2>1
  <2>3. QED
    BY <1>4, <2>1, <2>2 DEF Midway
<1>11. QED
  BY <1>1, <1>2, <1>10, Where, QueryKeeps

(* At its end an interface without a row gets the one that says so.        *)
LEMMA CloseNicKeeps ==
  ASSUME WalkInv, CloseNic
  PROVE  WalkInv'
<1>1. /\ Asked("close") /\ UNCHANGED <<azure, sight, slip, at, told, truth, findings>>
      /\ evidence' = (IF visible THEN evidence ELSE Append(evidence, NoRuleVisible(Nic)))
      /\ visible' = FALSE
      /\ walk' = [nic |-> walk.nic + 1, query |-> "nic", group |-> NoGroup]
  BY DEF CloseNic
<1>2. PICK k \in 1..Len(Nics) : /\ k \in 1..Len(Nics) + 1 /\ Midway(k) /\ walk.nic = k
                                /\ Nic = Nics[k] /\ Nics[k] \in ToSet(Nics)
  BY <1>1, Where
<1>3. /\ evidence = Upto(k - 1) \o (Own(k) \o Behind(k))
      /\ visible = (Own(k) \o Behind(k) # <<>>)
  <2>1. walk.query = "close"
    BY <1>1 DEF Asked
  <2>2. \A q, g : Step(k, q, g) => walk.query = q
    BY DEF Step
  <2>3. QED
    BY <1>2, <2>1, <2>2 DEF Midway
<1>4. Step(k + 1, "nic", NoGroup)'
  BY <1>1, <1>2 DEF Step
<1>5. /\ Upto(k) = Upto(k - 1) \o EvidenceOfNic(Nics[k], sight)
      /\ EvidenceOfNic(Nics[k], sight) = IF Own(k) \o Behind(k) = <<>>
                                         THEN <<NoRuleVisible(Nics[k])>> ELSE Own(k) \o Behind(k)
      /\ Upto(k - 1) \in Seq(Rows)
  <2>1. k - 1 \in 0..Len(Nics)
    BY NicsAre
  <2>2. QED
    BY <1>2, <2>1, UptoIs, EvidenceOfNicIs DEF WalkInv, Given, Own, Behind
<1>6. evidence' = Upto(k)
  <2>1. CASE Own(k) \o Behind(k) = <<>>
    <3> DEFINE row == NoRuleVisible(Nics[k])
    <3>1. evidence = Upto(k - 1)
      BY <1>3, <1>5, <2>1, ConcatEmptySeq
    <3>2. row \in Rows
      BY <1>2, NoRuleVisibleIs
    <3> HIDE DEF row
    <3>3. Append(Upto(k - 1), row) = Upto(k - 1) \o <<row>>
      BY <1>5, <3>2, AppendIsConcat
    <3>4. evidence' = Append(evidence, row)
      BY <1>1, <1>2, <1>3, <2>1 DEF row
    <3>5. Upto(k) = Upto(k - 1) \o <<row>>
      BY <1>5, <2>1 DEF row
    <3>6. QED
      BY <3>1, <3>3, <3>4, <3>5
  <2>2. CASE Own(k) \o Behind(k) # <<>>
    BY <1>1, <1>3, <1>5, <2>2
  <2>3. QED
    BY <2>1, <2>2
<1>7. (Upto(k))' = Upto(k) /\ (k + 1) - 1 = k /\ k + 1 \in 1..Len(Nics) + 1
  BY <1>1, Stays, NicsAre
<1>8. Midway(k + 1)'
  <2>1. evidence' = (Upto((k + 1) - 1))'
    BY <1>6, <1>7
  <2>2. QED
    BY <1>1, <1>4, <2>1 DEF Midway
<1>9. walk # Nowhere
  BY <1>1, Where
<1>10. QED
  BY <1>1, <1>7, <1>8, <1>9, QueryKeeps

LEMMA CaptureFailsKeeps ==
  ASSUME WalkInv, CaptureFails
  PROVE  WalkInv'
<1>1. /\ Capturing /\ UNCHANGED <<azure, sight, slip, truth, findings>>
      /\ at' = at + 1 /\ walk' = Nowhere /\ told' = [told EXCEPT ![at] = NotYet]
  BY DEF CaptureFails
<1>2. at \in 1..2
  <2>1. walk # Nowhere
    BY <1>1, NicsAre DEF Capturing, Nowhere
  <2>2. QED
    BY <2>1 DEF WalkInv, OnTheWay
<1>3. DOMAIN told' = 1..2 /\ \A i \in 1..2 : i < at => told'[i] = told[i]
  BY <1>1, <1>2 DEF WalkInv
<1>4. at' \in 1..3 /\ at <= at'
  BY <1>1, <1>2
<1>5. Settled'
  BY <1>1, <1>3, <1>4, SettledStays
<1>6. OnTheWay'
  BY <1>1 DEF OnTheWay, Nowhere
<1>7. QED
  BY <1>1, <1>3, <1>4, <1>5, <1>6, Stays DEF WalkInv

(* What is compared is the evidence of all interfaces.                     *)
LEMMA CompareKeeps ==
  ASSUME WalkInv, Compare
  PROVE  WalkInv'
<1>1. /\ UNCHANGED <<azure, sight, slip, told>> /\ at \in 1..2
      /\ walk.nic = Len(Nics) + 1 /\ walk' = Nowhere /\ at' = at + 1
      /\ truth' = [truth EXCEPT ![at] = Payload(Current, evidence)]
      /\ findings' = [findings EXCEPT ![at] =
            IF Current = "network-effective" THEN EffectiveFindings(told[at], truth'[at])
            ELSE PortFindings(told[at], truth'[at])]
  BY CommandsAre DEF Compare, Running
<1>2. walk # Nowhere
  BY <1>1, NicsAre DEF Nowhere
<1>3. evidence = EvidenceFor(sight) /\ ToldFor(at)
  <2>1. PICK k \in 1..Len(Nics) + 1 : Midway(k)
    BY <1>2 DEF WalkInv, OnTheWay
  <2>2. walk.nic = k
    BY <2>1 DEF Midway, Step
  <2>3. evidence = Upto(k - 1) /\ k - 1 = Len(Nics)
    BY <1>1, <2>1, <2>2, NicsAre DEF Midway
  <2>4. QED
    BY <1>2, <2>3, UptoIs DEF WalkInv, Given, OnTheWay
<1>4. \A i \in 1..2 : ToldFor(i)' <=> ToldFor(i)
  BY <1>1, ToldStays
<1>5. /\ DOMAIN truth' = 1..2 /\ DOMAIN findings' = 1..2
      /\ truth'[at] = Payload(Current, evidence)
      /\ findings'[at] = IF Current = "network-effective" THEN EffectiveFindings(told[at], truth'[at])
                         ELSE PortFindings(told[at], truth'[at])
      /\ \A i \in 1..2 : i # at => truth'[i] = truth[i] /\ findings'[i] = findings[i]
  BY <1>1 DEF WalkInv
<1>6. ASSUME NEW i \in 1..2, truth'[i] # NotYet
      PROVE  /\ i < at + 1 /\ truth'[i] = Payload(Commands[i], EvidenceFor(sight))
             /\ ToldFor(i)
             /\ findings'[i] = IF Commands[i] = "network-effective"
                               THEN EffectiveFindings(told[i], truth'[i])
                               ELSE PortFindings(told[i], truth'[i])
  <2>1. CASE i = at
    BY <1>1, <1>3, <1>5, <2>1 DEF Current
  <2>2. CASE i # at
    <3>1. /\ i < at /\ truth[i] = Payload(Commands[i], EvidenceFor(sight))
          /\ ToldFor(i) /\ findings[i] = FindingsOf(i)
      BY <1>5, <1>6, <2>2 DEF WalkInv, Settled, NotYet
    <3>2. QED
      BY <1>1, <1>5, <2>2, <3>1 DEF FindingsOf
  <2>3. QED
    BY <2>1, <2>2
<1>7. Settled'
  <2> SUFFICES ASSUME NEW i \in 1..2, truth'[i] # NotYet
               PROVE  /\ i < at' /\ truth'[i] = (Payload(Commands[i], EvidenceFor(sight)))'
                      /\ ToldFor(i)' /\ findings'[i] = (FindingsOf(i))'
    BY DEF Settled, NotYet
  <2>1. (Payload(Commands[i], EvidenceFor(sight)))' = Payload(Commands[i], EvidenceFor(sight))
    BY <1>1, Stays DEF Payload
  <2>2. (FindingsOf(i))' = IF Commands[i] = "network-effective"
                           THEN EffectiveFindings(told[i], truth'[i])
                           ELSE PortFindings(told[i], truth'[i])
    BY <1>1 DEF FindingsOf
  <2>3. QED
    BY <1>1, <1>4, <1>6, <2>1, <2>2
<1>8. OnTheWay'
  BY <1>1 DEF OnTheWay, Nowhere
<1>9. QED
  BY <1>1, <1>5, <1>7, <1>8, Stays DEF WalkInv

LEMMA StepWalk == WalkInv /\ [Next]_vars => WalkInv'
<1> SUFFICES ASSUME WalkInv, [Next]_vars PROVE WalkInv'
  OBVIOUS
<1>1. CASE Tell
  BY <1>1, TellKeeps
<1>2. CASE ShowNic
  BY <1>2, ShowNicKeeps
<1>3. CASE ShowNicGroup
  BY <1>3, ShowNicGroupKeeps
<1>4. CASE ShowSubnet
  BY <1>4, ShowSubnetKeeps
<1>5. CASE ShowSubnetGroup
  BY <1>5, ShowSubnetGroupKeeps
<1>6. CASE CloseNic
  BY <1>6, CloseNicKeeps
<1>7. CASE CaptureFails
  BY <1>7, CaptureFailsKeeps
<1>8. CASE Compare
  BY <1>8, CompareKeeps
<1>9. CASE UNCHANGED vars
  <2>0. UNCHANGED <<azure, sight, slip, at, walk, evidence, visible, told, truth, findings>>
    BY <1>9 DEF vars
  <2>1. CASE walk = Nowhere
    <3>1. at' \in 1..3 /\ at <= at'
      BY <2>0 DEF WalkInv
    <3>2. Settled'
      BY <2>0, <3>1, SettledStays
    <3>3. OnTheWay'
      BY <2>0, <2>1 DEF OnTheWay, Nowhere
    <3>4. QED
      BY <2>0, <3>2, <3>3, Stays DEF WalkInv
  <2>2. CASE walk # Nowhere
    <3>1. PICK k \in 1..Len(Nics) + 1 : Midway(k)
      BY <2>2 DEF WalkInv, OnTheWay
    <3>2. /\ (Upto(k - 1))' = Upto(k - 1) /\ (Own(k))' = Own(k) /\ (Behind(k))' = Behind(k)
          /\ \A q, g : Step(k, q, g)' <=> Step(k, q, g)
      BY <2>0, Stays DEF Step
    <3>3. Midway(k)'
      BY <2>0, <3>1, <3>2 DEF Midway
    <3>4. QED
      BY <2>0, <2>2, <3>3, QueryKeeps
  <2>3. QED
    BY <2>1, <2>2
<1>10. QED
  BY <1>1, <1>2, <1>3, <1>4, <1>5, <1>6, <1>7, <1>8, <1>9 DEF Next

(* Every capture, query by query, collects what EvidenceFor says a         *)
(* viewpoint with these rights can see, and every context that was written *)
(* is that (collectVMLiveNetworkEvidence).                                 *)
THEOREM WalkIsEvidence == Spec => []WalkInv
<1>1. Init => WalkInv
  BY InitWalk
<1>2. WalkInv /\ [Next]_vars => WalkInv'
  BY StepWalk
<1>3. QED
  BY <1>1, <1>2, PTL DEF Spec

(* Whoever may read less is shown no greater exposure and no internet port *)
(* that more rights would take away (networkEffectiveTruthFromEvidence).   *)
THEOREM SightIsMonotonic == Spec => []SightNeverLowers
<1>1. WalkInv => SightNeverLowers
  BY SightLowersNothing DEF WalkInv, Given
<1>2. QED
  BY <1>1, WalkIsEvidence, PTL

-----------------------------------------------------------------------------
(* What is told and what is compared *)

LEMMA ReverseIs ==
  ASSUME NEW S, NEW s \in Seq(S)
  PROVE  /\ Reverse(s) \in Seq(S) /\ Len(Reverse(s)) = Len(s) /\ ToSet(Reverse(s)) = ToSet(s)
<1>1. Len(s) \in Nat /\ DOMAIN s = 1..Len(s)
  OBVIOUS
<1>2. /\ DOMAIN Reverse(s) = 1..Len(s)
      /\ \A i \in 1..Len(s) : Reverse(s)[i] = s[(Len(s) - i) + 1]
  BY DEF Reverse
<1>3. \A i \in 1..Len(s) : (Len(s) - i) + 1 \in 1..Len(s)
  BY <1>1
<1>4. Reverse(s) \in Seq(S) /\ Len(Reverse(s)) = Len(s)
  BY <1>1, <1>3 DEF Reverse
<1>5. ToSet(Reverse(s)) \subseteq ToSet(s)
  BY <1>1, <1>2, <1>3 DEF ToSet
<1>6. ASSUME NEW i \in 1..Len(s) PROVE s[i] \in ToSet(Reverse(s))
  <2>1. (Len(s) - i) + 1 \in 1..Len(s) /\ (Len(s) - ((Len(s) - i) + 1)) + 1 = i
    BY <1>1
  <2>2. Reverse(s)[(Len(s) - i) + 1] = s[i]
    BY <1>2, <2>1
  <2>3. QED
    BY <1>2, <2>1, <2>2 DEF ToSet
<1>7. QED
  BY <1>1, <1>4, <1>5, <1>6 DEF ToSet

(* A summary does not depend on the order of the rows.                     *)
LEMMA SummaryOfReverse ==
  ASSUME NEW S, NEW s \in Seq(S)
  PROVE  Summary(Reverse(s)) = Summary(s)
<1>1. ToSet(Reverse(s)) = ToSet(s)
  BY ReverseIs
<1>2. Highest(Reverse(s)) = Highest(s)
  BY <1>1 DEF Highest
<1>3. Stated(Reverse(s)) = Stated(s)
  BY <1>1 DEF Stated
<1>4. QED
  BY <1>1, <1>2, <1>3 DEF Summary, InternetPorts, ConstrainedPorts

(* The rows of the two commands are the same; here is what was told of     *)
(* them, seen from each command.                                           *)
LEMMA EffectiveToldIs ==
  ASSUME Given, ToldFor(1)
  PROVE  told[1] \in Mistaken("network-effective", <<Summary(EvidenceFor(sight))>>)
<1>1. PICK rows \in {EvidenceFor(sight), Reverse(EvidenceFor(sight))} :
         told[1] \in Mistaken(Commands[1], Payload(Commands[1], rows))
  BY DEF ToldFor
<1>2. EvidenceFor(sight) \in Seq(Rows)
  BY EvidenceIs DEF Given
<1>3. Summary(rows) = Summary(EvidenceFor(sight))
  BY <1>1, <1>2, SummaryOfReverse
<1>4. QED
  BY <1>1, <1>3, CommandsAre DEF Payload

AnyRows == [sources : SUBSET Words, scope : {"none", "nic", "subnet"} \X Held, rule : Words,
            port : Words, confidence : {"low", "medium", "high"},
            related : SUBSET (ToSet(Nics) \cup Held \cup {Another})]

LEMMA RemoveAtIs ==
  ASSUME NEW S, NEW s \in Seq(S), NEW i \in DOMAIN s
  PROVE  RemoveAt(s, i) \in Seq(S) /\ Len(RemoveAt(s, i)) = Len(s) - 1
<1>1. Len(s) \in Nat /\ i \in 1..Len(s) /\ \A k \in 1..Len(s) : s[k] \in S
  OBVIOUS
<1>2. /\ SubSeq(s, 1, i - 1) \in Seq(S)
      /\ Len(SubSeq(s, 1, i - 1)) = IF 1 <= i - 1 THEN (i - 1) - 1 + 1 ELSE 0
  BY <1>1, SubSeqProperties
<1>3. /\ SubSeq(s, i + 1, Len(s)) \in Seq(S)
      /\ Len(SubSeq(s, i + 1, Len(s))) = IF i + 1 <= Len(s) THEN Len(s) - (i + 1) + 1 ELSE 0
  BY <1>1, SubSeqProperties
<1>4. QED
  BY <1>1, <1>2, <1>3, ConcatProperties DEF RemoveAt

(* The one row of network-effective cannot be got wrong and pass.          *)
LEMMA EffectivePassed ==
  ASSUME NEW s, NEW payload \in Mistaken("network-effective", <<s>>),
         s = Summary(EvidenceFor(sight)), slip \in Slips,
         EffectiveFindings(payload, <<s>>) = {}
  PROVE  payload = <<s>>
<1> DEFINE wrong == Invented("network-effective")
           rows == {k \in DOMAIN payload : payload[k] # wrong}
<1>1. Len(payload) = Len(<<s>>) /\ rows # {} /\ ~EffectiveDrifts(payload[Min(rows)], <<s>>[1])
  <2> HIDE DEF rows
  <2>1. EffectiveFindings(payload, <<s>>)
          = (IF Len(payload) # Len(<<s>>) THEN {"count-drift"} ELSE {})
            \cup (IF rows = {} THEN {"row-missing"} ELSE {})
            \cup (IF rows # {} /\ EffectiveDrifts(payload[Min(rows)], <<s>>[1])
                  THEN {"row-drift"} ELSE {})
    BY DEF EffectiveFindings, rows
  <2>2. QED
    BY <2>1
<1>2. Len(<<s>>) = 1 /\ <<s>>[1] = s /\ DOMAIN <<s>> = {1} /\ <<s>> \in Seq({s})
  OBVIOUS
<1>3. CASE slip = "none"
  BY <1>3 DEF Mistaken
<1>4. CASE slip = "omits"
  <2>1. PICK i \in DOMAIN <<s>> : payload = RemoveAt(<<s>>, i)
    BY <1>4 DEF Mistaken
  <2>2. Len(payload) = 0
    <3> DEFINE one == <<s>>
    <3>1. one \in Seq({s}) /\ i \in DOMAIN one /\ Len(one) = 1
      BY <1>2
    <3> HIDE DEF one
    <3>2. Len(RemoveAt(one, i)) = Len(one) - 1
      BY <3>1, RemoveAtIs
    <3>3. QED
      BY <2>1, <3>1, <3>2 DEF one
  <2>3. QED
    BY <1>1, <1>2, <2>2
<1>5. CASE slip = "rates"
  <2>1. PICK r \in Rated("network-effective", s) : payload = ReplaceAt(<<s>>, 1, r)
    BY <1>2, <1>5 DEF Mistaken
  <2>2. payload = <<r>>
    BY <2>1 DEF ReplaceAt
  <2>3. r.exposure # s.exposure
    <3>1. PICK c \in {"low", "medium", "high"} \ {s.exposure} : r = [s EXCEPT !.exposure = c]
      BY <2>1 DEF Rated
    <3>2. "exposure" \in DOMAIN s
      BY DEF Summary
    <3>3. QED
      BY <3>1, <3>2
  <2>4. rows = {1}
    BY <1>1, <2>2
  <2>5. Min(rows) = 1
    BY <2>4, MinIs
  <2>6. payload[Min(rows)] = r
    BY <2>2, <2>5
  <2>7. EffectiveDrifts(r, s)
    BY <2>3 DEF EffectiveDrifts
  <2>8. QED
    BY <1>1, <1>2, <2>6, <2>7
<1>6. CASE slip = "invents"
  <2>1. payload = Append(<<s>>, wrong) \/ payload = ReplaceAt(<<s>>, 1, wrong)
    BY <1>2, <1>6 DEF Mistaken
  <2> HIDE DEF wrong
  <2>2. CASE payload = Append(<<s>>, wrong)
    <3>1. Len(payload) = 2
      BY <2>2
    <3>2. QED
      BY <1>1, <1>2, <3>1
  <2>3. CASE payload = ReplaceAt(<<s>>, 1, wrong)
    <3>1. payload = <<wrong>>
      BY <2>3 DEF ReplaceAt
    <3>2. QED
      BY <1>1, <3>1
  <2>4. QED
    BY <2>1, <2>2, <2>3
<1>7. QED
  BY <1>3, <1>4, <1>5, <1>6 DEF Slips

LEMMA InventedRowIs == NoRuleVisible(Another) \in AnyRows
<1>1. {Another} \subseteq ToSet(Nics) \cup Held \cup {Another}
  OBVIOUS
<1>2. NoScope \in {"none", "nic", "subnet"} \X Held
  BY DEF NoScope, Held
<1>3. "none" \in Words /\ "any" \in Words
  BY DEF Words
<1>4. QED
  BY <1>1, <1>2, <1>3 DEF NoRuleVisible, AnyRows

LEMMA PortsToldAre ==
  ASSUME Given, ToldFor(2)
  PROVE  told[2] \in Seq(AnyRows)
<1>1. PICK rows \in {EvidenceFor(sight), Reverse(EvidenceFor(sight))} :
         told[2] \in Mistaken("network-ports", rows)
  BY CommandsAre DEF ToldFor, Payload
<1>2. EvidenceFor(sight) \in Seq(Rows)
  BY EvidenceIs DEF Given
<1>3. rows \in Seq(Rows)
  BY <1>1, <1>2, ReverseIs
<1>4. Rows \subseteq AnyRows
  BY DEF Rows, AnyRows
<1>5. rows \in Seq(AnyRows)
  BY <1>3, <1>4, SeqMonotonic
<1> DEFINE wrong == Invented("network-ports")
<1>6. wrong \in AnyRows
  BY InventedRowIs DEF Invented
<1> HIDE DEF wrong
<1>7. \A i \in DOMAIN rows, r \in AnyRows : ReplaceAt(rows, i, r) \in Seq(AnyRows)
  BY <1>5, ExceptSeq DEF ReplaceAt
<1>8. CASE slip = "none"
  BY <1>1, <1>5, <1>8 DEF Mistaken
<1>9. CASE slip = "omits"
  <2>1. PICK i \in DOMAIN rows : told[2] = RemoveAt(rows, i)
    BY <1>1, <1>9 DEF Mistaken
  <2>2. QED
    BY <1>5, <2>1, RemoveAtIs
<1>10. CASE slip = "rates"
  <2>1. PICK i \in DOMAIN rows : \E r \in Rated("network-ports", rows[i]) :
                                    told[2] = ReplaceAt(rows, i, r)
    BY <1>1, <1>10 DEF Mistaken
  <2>2. PICK r \in Rated("network-ports", rows[i]) : told[2] = ReplaceAt(rows, i, r)
    BY <2>1
  <2>3. rows[i] \in AnyRows
    BY <1>5
  <2>4. r \in AnyRows
    BY <2>2, <2>3 DEF Rated, AnyRows
  <2>5. QED
    BY <1>7, <2>2, <2>4
<1>11. CASE slip = "invents"
  <2>1. told[2] = Append(rows, wrong) \/ \E i \in DOMAIN rows : told[2] = ReplaceAt(rows, i, wrong)
    BY <1>1, <1>11 DEF Mistaken, wrong
  <2>2. Append(rows, wrong) \in Seq(AnyRows)
    BY <1>5, <1>6, AppendProperties
  <2>3. QED
    BY <1>6, <1>7, <2>1, <2>2
<1>12. QED
  BY <1>8, <1>9, <1>10, <1>11 DEF Given, Slips

(* Findings of network-ports, taken apart.                                 *)
Matches(payload, want) == {k \in DOMAIN payload : SameRow(payload[k], want)}

LEMMA NoPortFindings ==
  ASSUME NEW payload, NEW context
  PROVE  PortFindings(payload, context) = {} <=>
           /\ Len(payload) = Len(context)
           /\ \A i \in DOMAIN context :
                /\ Matches(payload, context[i]) # {}
                /\ ~RowDrifts(payload[Min(Matches(payload, context[i]))], context[i])
<1>1. PortFindings(payload, context)
        = (IF Len(payload) # Len(context) THEN {"count-drift"} ELSE {})
          \cup (IF \E i \in DOMAIN context : Matches(payload, context[i]) = {}
                THEN {"row-missing"} ELSE {})
          \cup (IF \E i \in DOMAIN context :
                      /\ Matches(payload, context[i]) # {}
                      /\ RowDrifts(payload[Min(Matches(payload, context[i]))], context[i])
                THEN {"row-drift"} ELSE {})
  BY DEF PortFindings, Matches
<1>2. QED
  BY <1>1

LEMMA FirstMatch ==
  ASSUME NEW S, NEW payload \in Seq(S), NEW want, Matches(payload, want) # {}
  PROVE  /\ Min(Matches(payload, want)) \in DOMAIN payload
         /\ SameRow(payload[Min(Matches(payload, want))], want)
<1> DEFINE T == Matches(payload, want)
<1>1. T \subseteq Nat /\ T # {}
  BY DEF Matches
<1> HIDE DEF T
<1>2. Min(T) \in T
  BY <1>1, MinIs
<1>3. QED
  BY <1>2 DEF T, Matches

LEMMA PassedIs ==
  ASSUME WalkInv, NEW i \in Passed
  PROVE  /\ i \in 1..2 /\ ToldFor(i)
         /\ i = 1 => EffectiveFindings(told[1], <<Summary(EvidenceFor(sight))>>) = {}
         /\ i = 2 => PortFindings(told[2], EvidenceFor(sight)) = {}
         /\ i = 2 => truth[2] = EvidenceFor(sight)
<1>1. i \in 1..2 /\ truth[i] # NotYet /\ findings[i] = {}
  BY CommandsAre DEF Passed, Compared
<1>2. /\ truth[i] = Payload(Commands[i], EvidenceFor(sight))
      /\ ToldFor(i) /\ findings[i] = FindingsOf(i)
  BY <1>1 DEF WalkInv, Settled
<1>3. QED
  BY <1>1, <1>2, CommandsAre DEF FindingsOf, Payload

LEMMA PassedKeeps ==
  ASSUME WalkInv
  PROVE  PassMeansKept
<1> DEFINE due == EvidenceFor(sight)
<1>0. Given
  BY DEF WalkInv
<1>1. ASSUME 1 \in Passed PROVE told[1] = <<Summary(due)>>
  <2>1. /\ told[1] \in Mistaken("network-effective", <<Summary(due)>>) /\ slip \in Slips
        /\ EffectiveFindings(told[1], <<Summary(due)>>) = {}
    BY <1>0, <1>1, PassedIs, EffectiveToldIs DEF Given
  <2>2. QED
    BY <2>1, EffectivePassed
<1>2. ASSUME 2 \in Passed
      PROVE  /\ Len(told[2]) = Len(due)
             /\ \A k \in DOMAIN due : \E r \in ToSet(told[2]) :
                   SameRow(r, due[k]) /\ r.confidence = due[k].confidence
  <2>1. told[2] \in Seq(AnyRows) /\ PortFindings(told[2], due) = {}
    BY <1>0, <1>2, PassedIs, PortsToldAre
  <2> HIDE DEF due
  <2>2. /\ Len(told[2]) = Len(due)
        /\ \A k \in DOMAIN due :
             /\ Matches(told[2], due[k]) # {}
             /\ ~RowDrifts(told[2][Min(Matches(told[2], due[k]))], due[k])
    BY <2>1, NoPortFindings
  <2>3. ASSUME NEW k \in DOMAIN due
        PROVE  \E r \in ToSet(told[2]) : SameRow(r, due[k]) /\ r.confidence = due[k].confidence
    <3> DEFINE m == Min(Matches(told[2], due[k]))
    <3>1. m \in DOMAIN told[2] /\ SameRow(told[2][m], due[k])
      BY <2>1, <2>2, FirstMatch
    <3>2. told[2][m].confidence = due[k].confidence
      BY <2>2 DEF RowDrifts
    <3> HIDE DEF m
    <3>3. told[2][m] \in ToSet(told[2])
      BY <3>1 DEF ToSet
    <3>4. QED
      BY <3>1, <3>2, <3>3
  <2>4. QED
    BY <2>2, <2>3
<1>3. \A i \in Passed : i = 1 \/ i = 2
  BY PassedIs
<1>4. QED
  BY <1>1, <1>2, <1>3, CommandsAre DEF PassMeansKept

(* A check that passes has told every rule the viewpoint can see, with the *)
(* confidence it deserves, and no more (the two checks of                  *)
(* validate_surface_network_exposure.go).                                  *)
THEOREM PassIsKept == Spec => []PassMeansKept
<1>1. WalkInv => PassMeansKept
  BY PassedKeeps
<1>2. QED
  BY <1>1, WalkIsEvidence, PTL

-----------------------------------------------------------------------------
(* Two rows with the same path *)

(* What the path of a row says of its confidence.                          *)
ConfidenceOf(r) == IF r.scope = NoScope THEN "low" ELSE networkEffectiveConfidence(r.sources)

LEMMA RowsAre ==
  ASSUME Given, NEW r \in ToSet(EvidenceFor(sight))
  PROVE  /\ r \in Rows /\ r.confidence = ConfidenceOf(r)
         /\ r.related \cap ToSet(Nics) # {}
<1>1. EvidenceFor(sight) \in Seq(Rows)
      /\ \E i \in 1..Len(Nics) : r \in ToSet(EvidenceOfNic(Nics[i], sight))
  BY EvidenceIs DEF Given
<1>2. PICK i \in 1..Len(Nics) : r \in ToSet(EvidenceOfNic(Nics[i], sight))
  BY <1>1
<1>3. RowOf(r, Nics[i]) /\ Nics[i] \in ToSet(Nics)
  BY <1>2, NicsAre, EvidenceOfNicIs DEF Given
<1>4. r \in Rows
  BY <1>1 DEF ToSet
<1>5. CASE r = NoRuleVisible(Nics[i])
  BY <1>3, <1>4, <1>5 DEF NoRuleVisible, ConfidenceOf
<1>6. ASSUME NEW type \in {"nic", "subnet"}, NEW group, Found(r, type, group, Nics[i])
      PROVE  /\ r.confidence = ConfidenceOf(r) /\ r.related \cap ToSet(Nics) # {}
  BY <1>3, <1>6 DEF Found, ConfidenceOf, NoScope
<1>7. QED
  BY <1>3, <1>4, <1>5, <1>6 DEF RowOf

LEMMA SameRowSameConfidence ==
  ASSUME Given, NEW r \in ToSet(EvidenceFor(sight)), NEW s \in ToSet(EvidenceFor(sight)),
         SameRow(r, s)
  PROVE  r.confidence = s.confidence
BY RowsAre DEF SameRow, Path, ConfidenceOf

LEMMA Apart ==
  ASSUME Given, truth[2] = EvidenceFor(sight), ~RowsCollide,
         NEW r \in ToSet(EvidenceFor(sight)), NEW s \in ToSet(EvidenceFor(sight)), SameRow(r, s)
  PROVE  r.related = s.related /\ r = s
<1>1. PICK i \in DOMAIN EvidenceFor(sight), j \in DOMAIN EvidenceFor(sight) :
         r = EvidenceFor(sight)[i] /\ s = EvidenceFor(sight)[j]
  BY DEF ToSet
<1>2. r.related = s.related
  BY <1>1 DEF RowsCollide, PortsAt
<1>3. r \in Rows /\ s \in Rows /\ r.confidence = s.confidence
  BY RowsAre, SameRowSameConfidence
<1>4. r.port = s.port /\ r.sources = s.sources /\ r.scope = s.scope /\ r.rule = s.rule
  BY DEF SameRow, Path
<1>5. QED
  BY <1>2, <1>3, <1>4 DEF Rows

(* The summary of a machine is not that of an interface elsewhere.         *)
LEMMA SummaryIsNotInvented ==
  ASSUME Given
  PROVE  Summary(EvidenceFor(sight)) # Invented("network-effective")
<1> DEFINE due == EvidenceFor(sight)
           row == NoRuleVisible(Another)
<1>1. Summary(due).related = UNION {r.related : r \in ToSet(due)}
  BY DEF Summary
<1>2. Invented("network-effective").related = UNION {r.related : r \in ToSet(<<row>>)}
  BY DEF Summary, Invented
<1>3. ToSet(<<row>>) = {row} /\ row.related = {Another}
  BY DEF ToSet, NoRuleVisible
<1>4. Invented("network-effective").related = {Another}
  <2> HIDE DEF row
  <2>1. QED
    BY <1>2, <1>3
<1>5. Another \notin ToSet(Nics)
  BY NicsAssumption
<1>6. \A r \in ToSet(due) : r.related \cap ToSet(Nics) # {}
  BY RowsAre
<1>7. Summary(due).related # {Another}
  <2> HIDE DEF due
  <2>1. CASE ToSet(due) = {}
    BY <1>1, <2>1
  <2>2. CASE ToSet(due) # {}
    BY <1>1, <1>5, <1>6, <2>2
  <2>3. QED
    BY <2>1, <2>2
<1>8. QED
  BY <1>4, <1>7

LEMMA TruthPasses ==
  ASSUME WalkInv
  PROVE  TruthIsAccepted
<1> DEFINE due == EvidenceFor(sight)
<1>0. Given /\ due \in Seq(Rows)
  BY EvidenceIs DEF WalkInv, Given
<1>1. ASSUME NEW i \in 1..2, Blameless(i)
      PROVE  /\ ToldFor(i) /\ findings[i] = FindingsOf(i) /\ slip = "none"
             /\ truth[i] = Payload(Commands[i], due)
  BY <1>1 DEF Blameless, Compared, WalkInv, Settled
<1>2. ASSUME Blameless(1) PROVE findings[1] = {}
  <2> DEFINE s == Summary(due)
  <2>1. told[1] \in Mistaken("network-effective", <<s>>)
    BY <1>0, <1>1, <1>2, EffectiveToldIs
  <2>2. told[1] = <<s>> /\ truth[1] = <<s>>
    BY <1>1, <1>2, <2>1, CommandsAre DEF Mistaken, Payload
  <2>3. findings[1] = EffectiveFindings(<<s>>, <<s>>)
    BY <1>1, <1>2, <2>2, CommandsAre DEF FindingsOf
  <2>4. s # Invented("network-effective")
    BY <1>0, SummaryIsNotInvented
  <2> DEFINE rows == {k \in DOMAIN <<s>> : <<s>>[k] # Invented("network-effective")}
  <2>5. rows = {1} /\ <<s>>[1] = s
    <3> HIDE DEF s
    <3>1. QED
      BY <2>4
  <2>6. EffectiveFindings(<<s>>, <<s>>)
          = (IF Len(<<s>>) # Len(<<s>>) THEN {"count-drift"} ELSE {})
            \cup (IF rows = {} THEN {"row-missing"} ELSE {})
            \cup (IF rows # {} /\ EffectiveDrifts(<<s>>[Min(rows)], <<s>>[1])
                  THEN {"row-drift"} ELSE {})
    BY DEF EffectiveFindings
  <2>7. Min(rows) = 1
    <3> HIDE DEF rows
    <3>1. QED
      BY <2>5, MinIs
  <2>8. ~EffectiveDrifts(s, s)
    BY DEF EffectiveDrifts
  <2>9. QED
    <3> HIDE DEF s, rows
    <3>1. QED
      BY <2>3, <2>5, <2>6, <2>7, <2>8
<1>3. ASSUME Blameless(2), ~RowsCollide PROVE findings[2] = {}
  <2>1. truth[2] = due
    BY <1>1, <1>3, CommandsAre DEF Payload
  <2>2. told[2] \in {due, Reverse(due)}
    <3>1. PICK rows \in {EvidenceFor(sight), Reverse(EvidenceFor(sight))} :
             told[2] \in Mistaken(Commands[2], Payload(Commands[2], rows))
      BY <1>1, <1>3 DEF ToldFor
    <3>2. told[2] = rows
      BY <1>1, <1>3, <3>1, CommandsAre DEF Mistaken, Payload
    <3>3. QED
      BY <3>1, <3>2
  <2>3. told[2] \in Seq(Rows) /\ Len(told[2]) = Len(due) /\ ToSet(told[2]) = ToSet(due)
    BY <1>0, <2>2, ReverseIs
  <2>4. ASSUME NEW k \in DOMAIN due
        PROVE  /\ Matches(told[2], due[k]) # {}
               /\ ~RowDrifts(told[2][Min(Matches(told[2], due[k]))], due[k])
    <3>1. due[k] \in ToSet(due)
      BY DEF ToSet
    <3>2. PICK m \in DOMAIN told[2] : told[2][m] = due[k]
      BY <2>3, <3>1 DEF ToSet
    <3>3. Matches(told[2], due[k]) # {}
      BY <3>2 DEF Matches, SameRow
    <3> DEFINE first == told[2][Min(Matches(told[2], due[k]))]
    <3>4. first \in ToSet(told[2]) /\ SameRow(first, due[k])
      BY <2>3, <3>3, FirstMatch DEF ToSet
    <3>5. first = due[k]
      BY <1>0, <1>3, <2>1, <2>3, <3>1, <3>4, Apart
    <3> HIDE DEF first
    <3>6. ~RowDrifts(first, due[k])
      BY <3>5 DEF RowDrifts
    <3>7. QED
      BY <3>3, <3>6 DEF first
  <2>5. PortFindings(told[2], due) = {}
    <3> HIDE DEF due
    <3>1. QED
      BY <2>3, <2>4, NoPortFindings
  <2>6. QED
    BY <1>1, <1>3, <2>1, <2>5, CommandsAre DEF FindingsOf
<1>4. QED
  BY <1>2, <1>3, CommandsAre DEF TruthIsAccepted, PortsAt

(* A tool that tells what the viewpoint can see, in any order, passes both *)
(* checks, unless rows collide (findNetworkPortRow and the comparisons of  *)
(* validate_surface_network_exposure.go).                                  *)
THEOREM TruthPassesChecks == Spec => []TruthIsAccepted
<1>1. WalkInv => TruthIsAccepted
  BY TruthPasses
<1>2. QED
  BY <1>1, WalkIsEvidence, PTL

(* An injection of as many into as many reaches every one.                 *)
LEMMA EveryOneIsReached ==
  ASSUME NEW n \in Nat, NEW f \in [1..n -> 1..n],
         \A i, j \in 1..n : f[i] = f[j] => i = j,
         NEW m \in 1..n
  PROVE  \E i \in 1..n : f[i] = m
<1>1. f \in Injection(1..n, 1..n)
  BY DEF Injection, IsInjective
<1>2. IsFiniteSet(1..n)
  BY FS_Interval
<1>3. f \in Surjection(1..n, 1..n)
  BY <1>1, <1>2, FS_Injection
<1>4. QED
  BY <1>3 DEF Surjection

(* The same port and path, with the same confidence.                       *)
Alike(r, s) == SameRow(r, s) /\ r.confidence = s.confidence

(* Where no rows collide, the rows of a payload that passes are those of   *)
(* the evidence, one for one.                                              *)
LEMMA OneForOne ==
  ASSUME WalkInv, 2 \in Passed, ~RowsCollide
  PROVE  /\ \A r \in ToSet(told[2]) : \E s \in ToSet(EvidenceFor(sight)) : Alike(r, s)
         /\ \A s \in ToSet(EvidenceFor(sight)) : \E r \in ToSet(told[2]) : Alike(r, s)
<1> DEFINE due == EvidenceFor(sight)
           n == Len(due)
           f == [k \in 1..n |-> Min(Matches(told[2], due[k]))]
<1>0. Given
  BY DEF WalkInv
<1>1. /\ told[2] \in Seq(AnyRows) /\ truth[2] = due
      /\ PortFindings(told[2], due) = {}
  BY <1>0, PassedIs, PortsToldAre
<1>2. due \in Seq(Rows) /\ IsInjective(due) /\ n \in Nat /\ DOMAIN due = 1..n
  BY <1>0, EvidenceIs DEF Given
<1>3. \A r, s \in ToSet(due) : SameRow(r, s) => r = s
  BY <1>0, <1>1, Apart
<1> HIDE DEF due, n
<1>4. /\ Len(told[2]) = n /\ DOMAIN told[2] = 1..n
      /\ \A k \in 1..n :
           /\ Matches(told[2], due[k]) # {}
           /\ ~RowDrifts(told[2][Min(Matches(told[2], due[k]))], due[k])
  BY <1>1, <1>2, NoPortFindings DEF n
<1>5. \A k \in 1..n : /\ f[k] \in 1..n /\ SameRow(told[2][f[k]], due[k])
                      /\ told[2][f[k]].confidence = due[k].confidence
  <2> SUFFICES ASSUME NEW k \in 1..n
               PROVE  /\ f[k] \in 1..n /\ SameRow(told[2][f[k]], due[k])
                      /\ told[2][f[k]].confidence = due[k].confidence
    OBVIOUS
  <2>1. f[k] \in 1..n /\ SameRow(told[2][f[k]], due[k])
    BY <1>1, <1>4, FirstMatch
  <2>2. told[2][f[k]].confidence = due[k].confidence
    BY <1>4 DEF RowDrifts
  <2>3. QED
    BY <2>1, <2>2
<1>6. f \in [1..n -> 1..n]
  BY <1>5
<1> HIDE DEF f
<1>7. \A k \in 1..n : due[k] \in ToSet(due)
  BY <1>2 DEF ToSet
<1>8. ASSUME NEW i \in 1..n, NEW j \in 1..n, f[i] = f[j] PROVE i = j
  <2>1. SameRow(due[i], due[j])
    BY <1>5, <1>8 DEF SameRow
  <2>2. due[i] = due[j]
    BY <1>3, <1>7, <2>1
  <2>3. QED
    BY <1>2, <2>2 DEF IsInjective
<1>9. \A m \in 1..n : \E i \in 1..n : f[i] = m
  BY <1>2, <1>6, <1>8, EveryOneIsReached
<1>10. ASSUME NEW r \in ToSet(told[2])
       PROVE  \E s \in ToSet(due) : Alike(r, s)
  <2>1. PICK m \in 1..n : r = told[2][m]
    BY <1>4 DEF ToSet
  <2>2. PICK k \in 1..n : f[k] = m
    BY <1>9
  <2>3. QED
    BY <1>5, <1>7, <2>1, <2>2 DEF Alike
<1>11. ASSUME NEW s \in ToSet(due)
       PROVE  \E r \in ToSet(told[2]) : Alike(r, s)
  <2>1. PICK k \in 1..n : s = due[k]
    BY <1>2 DEF ToSet
  <2>2. told[2][f[k]] \in ToSet(told[2])
    BY <1>4, <1>5 DEF ToSet
  <2>3. QED
    BY <1>5, <2>1, <2>2 DEF Alike
<1>12. QED
  BY <1>10, <1>11 DEF due

(* Rows with the same confidences have the same highest one.               *)
LEMMA SameHighest ==
  ASSUME NEW s, NEW t,
         {r.confidence : r \in ToSet(s)} = {r.confidence : r \in ToSet(t)}
  PROVE  Highest(s) = Highest(t)
<1> DEFINE C(u) == {r.confidence : r \in ToSet(u)} \cup {"low"}
           Top(u, c) == \A r \in ToSet(u) : Rank(r.confidence) <= Rank(c)
<1>1. Highest(s) = CHOOSE c \in C(s) : Top(s, c)
  BY DEF Highest
<1>2. Highest(t) = CHOOSE c \in C(t) : Top(t, c)
  BY DEF Highest
<1>3. C(s) = C(t)
  OBVIOUS
<1>4. \A c : Top(s, c) <=> Top(t, c)
  <2> DEFINE Over(X, c) == \A d \in X : Rank(d) <= Rank(c)
  <2>1. \A c : Top(s, c) <=> Over({r.confidence : r \in ToSet(s)}, c)
    OBVIOUS
  <2>2. \A c : Top(t, c) <=> Over({r.confidence : r \in ToSet(t)}, c)
    OBVIOUS
  <2> HIDE DEF Over, Top, C
  <2>3. QED
    BY <2>1, <2>2
<1> HIDE DEF C, Top
<1>5. QED
  BY <1>1, <1>2, <1>3, <1>4

(* Equal words are contained ones (OpenTextsAssumption), so that a row of  *)
(* high confidence is open; an open row is of high confidence, or has a    *)
(* source that only has a word in its text.                                *)
LEMMA HighIsOpen ==
  ASSUME Given, NEW r \in ToSet(EvidenceFor(sight))
  PROVE  LET open == r.scope # NoScope /\ OpenFragment(r.sources)
         IN  /\ r.confidence = "high" => open
             /\ open => r.confidence = "high" \/ HoldsAWord(r.sources)
<1>1. r.confidence = ConfidenceOf(r)
  BY RowsAre
<1>2. ConfidenceOf(r) = "high" <=> r.scope # NoScope /\ r.sources \cap Open # {}
  BY DEF ConfidenceOf, networkEffectiveConfidence
<1>3. r.sources \cap Open # {} => OpenFragment(r.sources)
  BY OpenTextsAssumption DEF OpenFragment
<1>4. OpenFragment(r.sources) => r.sources \cap Open # {} \/ HoldsAWord(r.sources)
  BY DEF OpenFragment, HoldsAWord
<1>5. QED
  BY <1>1, <1>2, <1>3, <1>4

LEMMA PassedAgree ==
  ASSUME WalkInv
  PROVE  ChecksAgree
<1> DEFINE due == EvidenceFor(sight)
           rows == ToSet(told[2])
           high == {r \in rows : r.confidence = "high"}
           holding == {r \in rows : HoldsAWord(r.sources)}
<1> SUFFICES ASSUME Passed = DOMAIN Commands, ~RowsCollide
             PROVE  /\ told[1][1].exposure = Highest(told[2])
                    /\ {r.port : r \in high} \subseteq told[1][1].internet
                    /\ told[1][1].constrained \subseteq {r.port : r \in rows \ high}
                    /\ told[1][1].internet \subseteq {r.port : r \in high \cup holding}
  BY DEF ChecksAgree, PortsAt
<1>0. 1 \in Passed /\ 2 \in Passed /\ Given
  BY CommandsAre DEF WalkInv
<1>1. told[1] = <<Summary(due)>>
  BY <1>0, PassedKeeps, CommandsAre DEF PassMeansKept
<1>2. /\ told[1][1].exposure = Highest(due)
      /\ told[1][1].internet = InternetPorts(due)
      /\ told[1][1].constrained = ConstrainedPorts(due)
  <2> DEFINE one == Summary(due)
  <2>1. /\ one.exposure = Highest(due) /\ one.internet = InternetPorts(due)
        /\ one.constrained = ConstrainedPorts(due)
    BY DEF Summary
  <2> HIDE DEF one
  <2>2. told[1][1] = one
    BY <1>1 DEF one
  <2>3. QED
    BY <2>1, <2>2
<1>3. /\ \A r \in rows : \E s \in ToSet(due) : Alike(r, s)
      /\ \A s \in ToSet(due) : \E r \in rows : Alike(r, s)
  BY <1>0, OneForOne
<1>4. \A s \in ToSet(due) :
        /\ s.confidence = "high" => s.scope # NoScope /\ OpenFragment(s.sources)
        /\ s.scope # NoScope /\ OpenFragment(s.sources)
             => s.confidence = "high" \/ HoldsAWord(s.sources)
  BY <1>0, HighIsOpen
<1>5. \A r, s : Alike(r, s) => /\ r.port = s.port /\ r.sources = s.sources
                              /\ r.confidence = s.confidence
  BY DEF Alike, SameRow, Path
<1>6. /\ InternetPorts(due) = {s.port : s \in {x \in ToSet(due) :
                                x.scope # NoScope /\ OpenFragment(x.sources)}}
      /\ ConstrainedPorts(due) = {s.port : s \in {x \in ToSet(due) :
                                   x.scope # NoScope /\ ~OpenFragment(x.sources)}}
  BY DEF InternetPorts, ConstrainedPorts, Stated
<1> HIDE DEF due, rows
<1>7. {r.confidence : r \in rows} = {s.confidence : s \in ToSet(due)}
  BY <1>3, <1>5
<1>8. told[1][1].exposure = Highest(told[2])
  BY <1>2, <1>7, SameHighest DEF rows
<1>9. ASSUME NEW r \in high
      PROVE  r.port \in InternetPorts(due)
  <2>1. PICK s \in ToSet(due) : Alike(r, s)
    BY <1>3
  <2>2. s.scope # NoScope /\ OpenFragment(s.sources) /\ r.port = s.port
    BY <1>4, <1>5, <2>1
  <2>3. QED
    BY <1>6, <2>2
<1>10. ASSUME NEW s \in ToSet(due), ~OpenFragment(s.sources)
       PROVE  s.port \in {r.port : r \in rows \ high}
  <2>1. PICK r \in rows : Alike(r, s)
    BY <1>3
  <2>2. r.confidence # "high" /\ r.port = s.port
    BY <1>4, <1>5, <1>10, <2>1
  <2>3. QED
    BY <2>2
<1>11. ASSUME NEW s \in ToSet(due), s.scope # NoScope, OpenFragment(s.sources)
       PROVE  s.port \in {r.port : r \in high \cup holding}
  <2>1. PICK r \in rows : Alike(r, s)
    BY <1>3
  <2>2. r \in high \cup holding /\ r.port = s.port
    BY <1>4, <1>5, <1>11, <2>1
  <2>3. QED
    BY <2>2
<1>12. QED
  BY <1>2, <1>6, <1>8, <1>9, <1>10, <1>11

(* Two payloads that pass against separate captures agree on the exposure; *)
(* the ports of rows of high confidence are internet ports, and an         *)
(* internet port without such a row is owed to a source that only has a    *)
(* word in its text (the two classifications of                            *)
(* run_live_context_network.go, lines 213 and 274).                        *)
THEOREM PassedChecksAgree == Spec => []ChecksAgree
<1>1. WalkInv => ChecksAgree
  BY PassedAgree
<1>2. QED
  BY <1>1, WalkIsEvidence, PTL

=============================================================================
