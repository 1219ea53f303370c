------------------------------- MODULE Labels --------------------------------
(***************************************************************************)
(* Tags and review flags of traces.  Both are tables whose rows replace    *)
(* each other: to change one is to insert a row stamped with the time the  *)
(* request was served, and a read looks at the newest row only.  The stamp *)
(* is taken before the insert is awaited, so rows may land out of order.   *)
(***************************************************************************)
EXTENDS Naturals, FiniteSets

CONSTANTS
  Labellers,          \* requests that set a label, each served once
  Labelled,           \* the traces they set one on
  Tags,               \* names of tags
  Nothing             \* no row, no request

\* A flag is no tag: it has a table of its own.
ASSUME LabellersAssumption == IsFiniteSet(Labellers) /\ "flag" \notin Tags

VARIABLES
  labels,             \* rows of trace_tags and review_flags
  setting,            \* the row each request inserts
  landed,             \* the requests whose row is in
  said,               \* what may be shown for a label: what the last request
                      \* on it said, or any of several that overlapped
  crossing            \* requests that overlap another on the same label

labelVars == <<labels, setting, landed, said, crossing>>

Names == Tags \cup {"flag"}
Values(name) == IF name = "flag" THEN {"open", "resolved"} ELSE {"on", "off"}
Rows == {row \in [trace : Labelled, name : Names, stamp : 0..Cardinality(Labellers),
                  value : {"on", "off", "open", "resolved"}] :
           row.value \in Values(row.name)}

ASSUME NothingIsNoRow == Nothing \notin Rows

LabelsInit(before) ==
  /\ labels = before /\ setting = [r \in Labellers |-> Nothing] /\ landed = {}
  /\ said = [l \in Labelled \X Names |->
               {row.value : row \in {x \in before : <<x.trace, x.name>> = l}}]
  /\ crossing = {}

\* A request is stamped and its insert awaited.  It may be awaited in vain.
Stamp(r, trace, name, value) ==
  /\ setting[r] = Nothing
  /\ LET begun == {o \in Labellers : setting[o] # Nothing}
         row == [trace |-> trace, name |-> name, value |-> value,
                 stamp |-> Cardinality(begun) + 1]
         others == {o \in begun \ landed :
                      setting[o].trace = trace /\ setting[o].name = name}
     IN /\ setting' = [setting EXCEPT ![r] = row]
        /\ crossing' = crossing \cup others \cup (IF others = {} THEN {} ELSE {r})
  /\ UNCHANGED <<labels, landed, said>>

AddTag(r)    == \E t \in Labelled, n \in Tags : Stamp(r, t, n, "on")
RemoveTag(r) == \E t \in Labelled, n \in Tags : Stamp(r, t, n, "off")
FlagTrace(r) == \E t \in Labelled : Stamp(r, t, "flag", "open")
ResolveFlag(r) == \E t \in Labelled : Stamp(r, t, "flag", "resolved")

Land(r) ==
  /\ setting[r] # Nothing /\ r \notin landed
  /\ LET row == setting[r] IN
       /\ labels' = labels \cup {row}
       /\ said' = [said EXCEPT ![<<row.trace, row.name>>] =
                     IF r \in crossing THEN @ \cup {row.value} ELSE {row.value}]
  /\ landed' = landed \cup {r}
  /\ UNCHANGED <<setting, crossing>>

\* Seeded fault: the rows are read before they are merged.
AnyPart(trace, name) == {row \in labels : row.trace = trace /\ row.name = name}

\* FINAL: of the rows of a label the newest one counts.
Final(trace, name) ==
  LET rows == {row \in labels : row.trace = trace /\ row.name = name}
  IN {row \in rows : \A other \in rows : other.stamp =< row.stamp}

Shown(trace, name) ==
  IF Final(trace, name) = {} THEN "" ELSE (CHOOSE row \in Final(trace, name) : TRUE).value

TagsOf(trace) == {n \in Tags : Shown(trace, n) = "on"}

\* How often each tag is used, of all traces of the organization.
Uses(tag) == Cardinality({t \in Labelled : tag \in TagsOf(t)})

LabelsStep == \E r \in Labellers :
  AddTag(r) \/ RemoveTag(r) \/ FlagTrace(r) \/ ResolveFlag(r) \/ Land(r)

-----------------------------------------------------------------------------
LabelsTypeOK ==
  /\ labels \subseteq Rows /\ crossing \subseteq Labellers /\ landed \subseteq Labellers
  /\ setting \in [Labellers -> Rows \cup {Nothing}]

\* A label shows what the last request on it said, whatever the order in which
\* overlapping inserts landed; of requests that overlapped, what one of them said.
LabelsShowLastWord ==
  \A t \in Labelled, n \in Names :
    said[<<t, n>>] # {} => Shown(t, n) \in said[<<t, n>>]
=============================================================================
