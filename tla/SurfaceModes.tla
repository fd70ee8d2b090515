---------------------------- MODULE SurfaceModes ----------------------------
(***************************************************************************)
(* How one column of a tool row is compared with what Azure says of it.    *)
(*                                                                         *)
(* The payload validators (validate.go, validate_surface_*.go) repeat a    *)
(* dozen comparisons under different names: an exact string, a string that *)
(* is skipped when Azure says nothing, a set of ids that ignores case, a   *)
(* count whose absence reads as zero.  Each is a rule here, and the table  *)
(* modules Surfaces* say which columns of which surface it governs.        *)
(*                                                                         *)
(* A value is a sequence of atoms: <<>> for a missing string, a missing    *)
(* pointer or an empty list, one atom for a scalar, several for a list.    *)
(* "X" is the atom "x" in another letter case.                             *)
(***************************************************************************)
EXTENDS Naturals, Sequences, SequencesExt

(* strings.ToLower, strings.EqualFold: what folding leaves of an atom.     *)
Lower(a) == IF a = "X" THEN "x" ELSE a
LowerAll(v) == [i \in DOMAIN v |-> Lower(v[i])]

(* A rule: how the lists are related, whether letter case counts, the      *)
(* Azure values that are not compared at all, and what a row without the   *)
(* column reads as.                                                        *)
Rule(related, folded, skipped, missing) ==
    [related |-> related, folded |-> folded, skipped |-> skipped, missing |-> missing]

Unsaid == {<<>>}        \* the comparison is skipped when Azure says nothing
Always == {}            \* the comparison is never skipped

Rules ==
    [same         |-> Rule("equal",  FALSE, Always,    <<>>),
     known        |-> Rule("equal",  FALSE, Unsaid,    <<>>),
     fold         |-> Rule("equal",  TRUE,  Always,    <<>>),
     knownFold    |-> Rule("equal",  TRUE,  Unsaid,    <<>>),
     ordered      |-> Rule("equal",  FALSE, Always,    <<>>),
     knownOrdered |-> Rule("equal",  FALSE, Unsaid,    <<>>),
     set          |-> Rule("set",    FALSE, Always,    <<>>),
     knownSet     |-> Rule("set",    FALSE, Unsaid,    <<>>),
     setFold      |-> Rule("set",    TRUE,  Always,    <<>>),
     knownSetFold |-> Rule("set",    TRUE,  Unsaid,    <<>>),
     subset       |-> Rule("subset", TRUE,  Unsaid,    <<>>),
     size         |-> Rule("size",   TRUE,  Always,    <<>>),
     stated       |-> Rule("equal",  FALSE, Unsaid,    <<>>),
     zero         |-> Rule("equal",  FALSE, Always,    <<"0">>),
     statedZero   |-> Rule("equal",  FALSE, Unsaid,    <<"0">>),
     positive     |-> Rule("equal",  FALSE, {<<"0">>}, <<>>),
     flag         |-> Rule("equal",  FALSE, Always,    <<>>),
     flagFalse    |-> Rule("equal",  FALSE, Always,    <<"0">>)]

Modes == DOMAIN Rules
Texts == {"same", "known", "fold", "knownFold"}
Lists == {"ordered", "knownOrdered", "set", "knownSet", "setFold", "knownSetFold",
          "subset", "size"}
Numbers == Modes \ (Texts \cup Lists)

(* What Azure can say of a column.  A pointer may be nil, a string empty;  *)
(* a plain count or flag is always there.                                  *)
AzureSays(mode) ==
    CASE mode \in Texts -> {<<>>, <<"x">>}
      [] mode \in Lists -> {<<>>, <<"x">>, <<"x", "y">>}
      [] mode = "positive" -> {<<"1">>}     \* a container group has a container
      [] mode \in {"stated", "statedZero"} -> {<<>>, <<"0">>, <<"1">>}
      [] OTHER -> {<<"0">>, <<"1">>}

(* Does the row's value pass the comparison with the recorded one?         *)
Agrees(mode, want, got) ==
    LET rule == Rules[mode]
        read == IF got = <<>> THEN rule.missing ELSE got
        w == IF rule.folded THEN LowerAll(want) ELSE want
        g == IF rule.folded THEN LowerAll(read) ELSE read
    IN  \/ want \in rule.skipped
        \/ rule.related = "equal"  /\ g = w
        \/ rule.related = "set"    /\ ToSet(g) = ToSet(w)
        \/ rule.related = "subset" /\ ToSet(w) \subseteq ToSet(g)
        \/ rule.related = "size"   /\ Cardinality(ToSet(w)) = Cardinality(ToSet(g))

(* The ways a tool that is right may write a value: in another letter case *)
(* or order where the rule allows it, with ids of its own beside Azure's   *)
(* where only a subset is asked for, a zero left out where it reads as one. *)
Spellings(mode, v) ==
    LET rule == Rules[mode]
        If(allowed, w) == IF allowed THEN {w} ELSE {}
    IN  {v} \cup If(rule.folded, [i \in DOMAIN v |-> IF v[i] = "x" THEN "X" ELSE v[i]])
            \cup If(rule.related # "equal", Reverse(v))
            \cup If(rule.related = "subset", Append(v, "z"))
            \cup If(rule.missing = v, <<>>)

(* Does a row keep what Azure says?  Letter case and order aside, a text   *)
(* or number is the same one, a number left out being zero, and a list     *)
(* lacks none of the members.                                              *)
Kept(mode, said, got) ==
    LET s == LowerAll(said)
        g == LowerAll(IF mode \in Numbers /\ got = <<>> THEN <<"0">> ELSE got)
    IN  \/ said = <<>>
        \/ mode \in Lists    /\ ToSet(s) \subseteq ToSet(g)
        \/ mode \notin Lists /\ s = g

(***************************************************************************)
(* The tables.  A surface's Checks: which columns each rule governs, and   *)
(* whether the number of rows must be Azure's.  A surface's Capture: the   *)
(* queries of its captureLive...Context in order, each with the columns it *)
(* fills; the first one lists the objects.  Any query that fails ends the  *)
(* capture.                                                                *)
(***************************************************************************)
Checks(counted, columns) == [counted |-> counted, columns |-> columns]
Query(per, fills) == [per |-> per, fills |-> fills]

Once(fills) == Query("capture", fills)    \* az ... list
Each(fills) == Query("object", fills)     \* az ... show of every object listed
Within(fills) == Query("container", fills) \* az ... list inside every container of an object
=============================================================================
