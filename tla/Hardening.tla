------------------------------ MODULE Hardening ------------------------------
(***************************************************************************)
(* The deployment checklist of src/src/hardening.rs.  Its items are a      *)
(* public vector: a deployment may push items of its own, also under an id *)
(* that is in the list already.                                            *)
(***************************************************************************)
EXTENDS Integers, Sequences, FiniteSets

CONSTANTS
    Ids,        \* ids a caller may name
    Severities, \* severities a pushed item may have
    MaxItems    \* bound: items of the list

VARIABLES
    items,    \* Vec<ChecklistItem>
    marked,   \* history: ids mark_completed returned true for
    response  \* what the last mark_completed returned

vars == <<items, marked, response>>

Item(id, severity) == [id |-> id, severity |-> severity, completed |-> FALSE]

\* The six items, with their severities.
default_items ==
    <<Item("HC-001", 5), Item("HC-002", 5), Item("HC-003", 4), Item("HC-004", 4),
      Item("HC-005", 3), Item("HC-006", 4)>>

\* Variant: the last item of the id is found.
FoundLast(s, id) == {i \in 1 .. Len(s) : s[i].id = id /\ \A j \in (i + 1) .. Len(s) : s[j].id # id}

\* Where the loop of mark_completed returns.
Found(s, id) == {i \in 1 .. Len(s) : s[i].id = id /\ \A j \in 1 .. (i - 1) : s[j].id # id}

\* What report says; the ids are sorted there.
completed_items(s) == Cardinality({i \in 1 .. Len(s) : s[i].completed})
missing_critical(s) ==
    {s[i].id : i \in {j \in 1 .. Len(s) : ~s[j].completed /\ s[j].severity >= 4}}

Init == items = default_items /\ marked = {} /\ response = FALSE

Push(id, severity) ==
    /\ Len(items) < MaxItems
    /\ items' = Append(items, Item(id, severity))
    /\ UNCHANGED <<marked, response>>

mark_completed(id) ==
    \/ /\ Found(items, id) = {}
       /\ response' = FALSE
       /\ UNCHANGED <<items, marked>>
    \/ \E i \in Found(items, id) :
          /\ items' = [items EXCEPT ![i].completed = TRUE]
          /\ marked' = marked \cup {id}
          /\ response' = TRUE

Next ==
    \/ \E id \in Ids, severity \in Severities : Push(id, severity)
    \/ \E id \in Ids : mark_completed(id)

Spec == Init /\ [][Next]_vars

Occurrences(id) == {i \in 1 .. Len(items) : items[i].id = id}

\* The report follows the marks: an id that is listed once is completed exactly when it
\* was marked, and an id listed again is never completed throughout: its later items
\* stay open, and a critical one stays on missing_critical, however often the id is
\* marked.
ReportFollowsMarks ==
    /\ \A id \in Ids :
          /\ Cardinality(Occurrences(id)) = 1
             => \A i \in Occurrences(id) : items[i].completed <=> id \in marked
          /\ \A i \in Occurrences(id) \ Found(items, id) :
                items[i].severity >= 4 => id \in missing_critical(items)
    /\ completed_items(items) = Cardinality(marked)
    /\ marked \subseteq {items[i].id : i \in 1 .. Len(items)}
==============================================================================
