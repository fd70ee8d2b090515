---------------------------- MODULE SurfaceCheck ----------------------------
(***************************************************************************)
(* One viewpoint's check of one surface, seen through one of its columns:  *)
(* the tool has told its rows, the runner captures what Azure says into    *)
(* live-<surface>-context.json (the captureLive...Context functions), and  *)
(* live validation compares the two (the validate...PayloadAgainstAzure-   *)
(* Context functions).  Azure is a live subscription and may be edited     *)
(* from the moment the tool has read it.                                   *)
(*                                                                         *)
(* The surfaces differ only in their tables, so every one of them is an    *)
(* initial state: a surface, one of its column classes (a rule and the     *)
(* query that fills the column), what Azure says of that column, and what  *)
(* the tool made of it.                                                    *)
(***************************************************************************)
EXTENDS SurfacesCompute, SurfacesPlatform, SurfacesData, FiniteSets

CONSTANTS
    Objects,     \* the resources a surface may list
    Surfaces,    \* the surfaces to check, a subset of the tables
    NoFile       \* what stands for a context artifact that was never written

AllSurfaces ==
    [s \in DOMAIN ComputeSurfaces \cup DOMAIN PlatformSurfaces \cup DOMAIN DataSurfaces |->
        CASE s \in DOMAIN ComputeSurfaces  -> ComputeSurfaces[s]
          [] s \in DOMAIN PlatformSurfaces -> PlatformSurfaces[s]
          [] s \in DOMAIN DataSurfaces     -> DataSurfaces[s]]

ASSUME ObjectsAssumption == IsFiniteSet(Objects)
ASSUME SurfacesAssumption == Surfaces \subseteq DOMAIN AllSurfaces

(* Values that are not what a query returned: the object is not there, and *)
(* its column was not asked for.                                           *)
Gone == <<"gone">>
Unread == <<"unread">>

(* What a query made once for all the objects asks for.                    *)
Everything == <<"everything">>

VARIABLES
    subject,     \* the surface and the column class under test
    azure,       \* what Azure says of the column, object by object
    edited,      \* the objects whose Azure value changed since the tool read it
    told,        \* the rows of the tool's payload
    wrong,       \* the objects the tool told wrongly
    stage,       \* how far the entry has come
    todo,        \* the capture's queries still to run
    listed,      \* the objects the capture found
    seen,        \* what it read of the column
    file,        \* the context artifact
    findings     \* what live validation reports

vars == <<subject, azure, edited, told, wrong, stage, todo, listed, seen, file, findings>>

(* ----- the subject ------------------------------------------------------- *)

Capture == AllSurfaces[subject.surface].capture
Counted == AllSurfaces[subject.surface].checks.counted
Mode == subject.mode

(* The first query that fills a column, 0 if none does.                    *)
FilledBy(surface, column) ==
    LET capture == AllSurfaces[surface].capture
        fillers == {i \in DOMAIN capture : column \in capture[i].fills}
    IN  IF fillers = {} THEN 0 ELSE CHOOSE i \in fillers : \A j \in fillers : i <= j

Classes(surface) ==
    LET columns == AllSurfaces[surface].checks.columns
    IN  UNION {{[surface |-> surface, mode |-> m, by |-> FilledBy(surface, c)] :
                    c \in columns[m]} : m \in DOMAIN columns}

Subjects == UNION {Classes(s) : s \in Surfaces}

Present == {o \in Objects : azure[o] # Gone}

(* ----- what the tool tells ----------------------------------------------- *)

(* A row's id names its object, in Azure's letter case or another.         *)
Row(o, respelled, value) == [of |-> o, respelled |-> respelled, value |-> value]

(* Mutant: the ids are compared as they are spelled.                       *)
RowsOf_AsSpelled(o) == {r \in told : r.of = o /\ ~r.respelled}

(* normalizeResourceID: the row of an object, whatever the case of its id. *)
RowsOf(o) == {r \in told : r.of = o}

(* Rows of a tool that is right about every object.                        *)
Truthful(says, mode) ==
    LET there == {o \in DOMAIN says : says[o] # Gone}
    IN  {{Row(o, respelled, write[o]) : o \in there} :
            respelled \in BOOLEAN,
            write \in {w \in [there -> UNION {Spellings(mode, says[o]) : o \in there}] :
                          \A o \in there : w[o] \in Spellings(mode, says[o])}}

(* The ways it may be wrong about one of them: no row, a row without the   *)
(* value or with another one, a row of something that is not there.        *)
LeftOut(rows, o) == {rows \ {r \in rows : r.of = o}}

Misread(rows, o) ==
    {(rows \ {r}) \cup {[r EXCEPT !.value = v]} :
        r \in {q \in rows : q.of = o}, v \in {<<>>, <<"w">>, <<"w", "y">>}}

MadeUp(rows, o) ==
    {rows \cup {Row(o, FALSE, <<"w">>)} : x \in {y \in {o} : \A r \in rows : r.of # y}}

Mistaken(rows, o) == LeftOut(rows, o) \cup Misread(rows, o) \cup MadeUp(rows, o)

(* ----- the capture ------------------------------------------------------- *)

Task(query, o) == [query |-> query, object |-> o]

(* The queries after the first: those made once for all the objects and    *)
(* those made for each of them.                                            *)
TasksAfterListing(objects) ==
    LET once == {i \in 2..Len(Capture) : Capture[i].per = "capture"}
        each == 2..Len(Capture) \ once
    IN  {Task(i, Everything) : i \in once} \cup {Task(i, o) : i \in each, o \in objects}

Begun(o) == \E i \in 2..Len(Capture) : Capture[i].per # "capture" /\ Task(i, o) \notin todo

(* What is made once comes first.  The objects are gone through one by one, *)
(* in an order of Azure's, and each object's queries in the code's order.  *)
Upcoming ==
    LET once == {t \in todo : t.object = Everything}
        begun == {t \in todo : Begun(t.object)}
        turn == IF once # {} THEN once ELSE IF begun # {} THEN begun ELSE todo
    IN  {t \in turn : \A u \in turn : u.object = t.object => t.query <= u.query}

ListsInside == \E i \in DOMAIN Capture : Capture[i].per = "container"

Reads(query, o) == IF subject.by = query THEN azure[o] ELSE seen[o]

Init ==
    /\ subject \in Subjects
    /\ azure \in [Objects -> AzureSays(Mode) \cup {Gone}]
    /\ \E rows \in Truthful(azure, Mode) :
         \/ told = rows /\ wrong = {}
         \/ \E o \in Objects : told \in Mistaken(rows, o) /\ wrong = {o}
    /\ edited = {}
    /\ stage = "ran"
    /\ todo = {}
    /\ listed = {}
    /\ seen = [o \in Objects |-> Unread]
    /\ file = NoFile
    /\ findings = {}

(* The first query lists the objects and starts the capture.               *)
ListObjects ==
    /\ stage = "ran"
    /\ stage' = "capturing"
    /\ listed' = IF ListsInside THEN {} ELSE Present
    /\ seen' = [o \in Objects |-> IF o \in Present /\ subject.by = 1 THEN azure[o] ELSE Unread]
    /\ todo' = TasksAfterListing(IF ListsInside THEN Objects ELSE Present)
    /\ UNCHANGED <<subject, azure, edited, told, wrong, file, findings>>

(* A query made once fills the column of everything listed.                *)
ListMore(t) ==
    /\ stage = "capturing"
    /\ Capture[t.query].per = "capture"
    /\ seen' = [o \in Objects |-> IF o \in listed \cap Present THEN Reads(t.query, o) ELSE seen[o]]
    /\ todo' = todo \ {t}
    /\ UNCHANGED <<subject, azure, edited, told, wrong, stage, listed, file, findings>>

(* The show of an object that is still there.                              *)
ShowObject(t) ==
    /\ stage = "capturing"
    /\ Capture[t.query].per = "object"
    /\ azure[t.object] # Gone
    /\ seen' = [seen EXCEPT ![t.object] = Reads(t.query, t.object)]
    /\ todo' = todo \ {t}
    /\ UNCHANGED <<subject, azure, edited, told, wrong, stage, listed, file, findings>>

(* The list inside a container finds what is there at that moment.         *)
ListInside(t) ==
    /\ stage = "capturing"
    /\ Capture[t.query].per = "container"
    /\ IF azure[t.object] = Gone
         THEN UNCHANGED <<listed, seen>>
         ELSE /\ listed' = listed \cup {t.object}
              /\ seen' = [seen EXCEPT ![t.object] = Reads(t.query, t.object)]
    /\ todo' = todo \ {t}
    /\ UNCHANGED <<subject, azure, edited, told, wrong, stage, file, findings>>

(* A query that is refused, times out, or asks for an object that has gone *)
(* ends the capture: the entry fails and no context artifact is written.   *)
FailCapture ==
    /\ stage \in {"ran", "capturing"}
    /\ stage = "capturing" => todo # {}
    /\ stage' = "failed"
    /\ todo' = {}
    /\ UNCHANGED <<subject, azure, edited, told, wrong, listed, seen, file, findings>>

(* WriteJSON of the artifact, once every query has answered.               *)
WriteContext ==
    /\ stage = "capturing" /\ todo = {}
    /\ file' = [o \in listed |-> IF seen[o] = Unread THEN <<>> ELSE seen[o]]
    /\ stage' = "captured"
    /\ UNCHANGED <<subject, azure, edited, told, wrong, todo, listed, seen, findings>>

(* ----- the comparison ---------------------------------------------------- *)

Finding(kind, of) == [kind |-> kind, of |-> of]

(* len(rows) against the number of objects recorded.                       *)
CountFinding(context) ==
    IF Counted /\ Cardinality(told) # Cardinality(DOMAIN context)
    THEN {Finding("count", {})} ELSE {}

(* Mutant: an object without a row is passed over.                         *)
RowFindings_PassOver(context, o) ==
    IF RowsOf(o) = {} THEN {}
    ELSE LET row == CHOOSE r \in RowsOf(o) : TRUE
         IN  IF Agrees(Mode, context[o], row.value) THEN {} ELSE {Finding("drift", {o})}

(* A missing row is one finding and ends the comparison of its object.     *)
RowFindings(context, o) ==
    IF RowsOf(o) = {} THEN {Finding("missing", {o})}
    ELSE LET row == CHOOSE r \in RowsOf(o) : TRUE
         IN  IF Agrees(Mode, context[o], row.value) THEN {} ELSE {Finding("drift", {o})}

PayloadFindings(context) ==
    CountFinding(context) \cup UNION {RowFindings(context, o) : o \in DOMAIN context}

Compare ==
    /\ stage = "captured"
    /\ findings' = PayloadFindings(file)
    /\ stage' = "compared"
    /\ UNCHANGED <<subject, azure, edited, told, wrong, todo, listed, seen, file>>

(* ----- Azure ------------------------------------------------------------- *)

(* One edit, of one object, at any moment after the tool has read Azure.   *)
EditAzure ==
    /\ edited = {}
    /\ stage \in {"ran", "capturing"}
    /\ \E o \in Objects : \E v \in (AzureSays(Mode) \cup {Gone}) \ {azure[o]} :
         /\ azure' = [azure EXCEPT ![o] = v]
         /\ edited' = {o}
    /\ UNCHANGED <<subject, told, wrong, stage, todo, listed, seen, file, findings>>

Next == \/ ListObjects \/ FailCapture \/ WriteContext \/ Compare \/ EditAzure
        \/ \E t \in Upcoming : ListMore(t) \/ ShowObject(t) \/ ListInside(t)

Spec == Init /\ [][Next]_vars

(* ----- properties -------------------------------------------------------- *)

(* The variables have their types, a context is complete when it is there, *)
(* and nothing is compared without one.                                    *)
TypeOK ==
    /\ subject \in Subjects
    /\ azure \in [Objects -> AzureSays(Mode) \cup {Gone}]
    /\ edited \subseteq Objects /\ wrong \subseteq Objects
    /\ stage \in {"ran", "capturing", "captured", "compared", "failed"}
    /\ todo \subseteq {Task(i, o) : i \in 2..Len(Capture), o \in Objects \cup {Everything}}
    /\ listed \subseteq Objects
    /\ seen \in [Objects -> AzureSays(Mode) \cup {Unread}]
    /\ (file # NoFile) <=> stage \in {"captured", "compared"}
    /\ file # NoFile => \A o \in listed : subject.by # 0 => seen[o] # Unread
    /\ findings # {} => stage = "compared"

(* Live validation blames the tool for an object only when the tool was    *)
(* wrong about it or Azure was edited under it, whatever else happened and *)
(* however the tool spells what the surface's rules leave it free to spell: *)
(* a column the validator compares strictly and the capture never fills, a *)
(* query that answers for too few objects, an exact comparison of ids      *)
(* would each raise a finding nobody can act on.                           *)
(* The row count of the surfaces that compare it is about no object: it    *)
(* presumes that something was wrong or edited.                            *)
NoFalseAlarm ==
    \A f \in findings :
        /\ f.of # {} => f.of \subseteq wrong \cup edited
        /\ f.kind = "count" => wrong \cup edited # {}

(* A comparison that reports nothing vouches for the payload: of every     *)
(* object Azure still has as it was, the tool has told a row, and the row  *)
(* keeps what Azure says.  A column the capture never fills is compared    *)
(* with nothing, and the object would pass whatever the tool made of it.   *)
(* Where the rows are counted, none is of something Azure does not have.   *)
PassMeansKept ==
    stage = "compared" /\ findings = {} =>
        /\ Mode # "size" => \A o \in Present \ edited :
                             \E r \in RowsOf(o) : Kept(Mode, azure[o], r.value)
        /\ Counted /\ edited = {} => \A r \in told : r.of \in Present

(* validate_surface_controlplane.go reports a drift of related_ids because *)
(* "automation should keep related_ids aligned with the Automation account *)
(* and its visible identity IDs"; what it compares is how many there are.  *)
RelatedIdsAligned ==
    (stage = "compared" /\ findings = {} /\ Mode = "size") =>
        \A o \in Present \ edited :
            \E r \in RowsOf(o) : Kept(Mode, azure[o], r.value)
=============================================================================
