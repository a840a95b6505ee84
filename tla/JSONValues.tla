----------------------------- MODULE JSONValues -----------------------------
(***************************************************************************)
(* What the LDJSON functions promise (launchdarkly/json.h), without links: *)
(* documents are trees, a collection is the sequence of its members, a     *)
(* member of an object has a key, and what is copied has the same value.   *)
(* Copying may stop early for want of memory.                              *)
(***************************************************************************)
EXTENDS Naturals, Sequences, SequencesExt

CONSTANTS Items, Keys, Numbers

VARIABLES
    doc,    \* for each item: type, key, number and members
    owned   \* the items the application owns

valueVars == <<doc, owned>>

None == [type |-> "free", key |-> "", number |-> 0, members |-> <<>>]

Init == doc = [n \in Items |-> None] /\ owned = {}

Exists(d) == {n \in Items : d[n].type # "free"}

RECURSIVE Within(_, _)
Within(d, n) == {n} \union UNION {Within(d, m) : m \in Range(d[n].members)}

\* The value of an item: what remains when the identity of items is forgotten.
RECURSIVE Value(_, _)
Value(d, n) ==
    <<d[n].type, d[n].number,
      [i \in DOMAIN d[n].members |-> <<d[d[n].members[i]].key, Value(d, d[n].members[i])>>]>>

\* Without the items of S.
Without(d, S) == [n \in Items |-> IF n \in S THEN None ELSE d[n]]

\* Members of o that have another key than k, and what hangs below the others.
Others(d, o, k) == SelectSeq(d[o].members, LAMBDA m : d[m].key # k)
Named(d, o, k) == UNION {Within(d, m) : m \in {x \in Range(d[o].members) : d[x].key = k}}

\* `copies' are new documents with the values and keys of `originals'; apart
\* from c, which gets them, and from what is gone, nothing else changes.
CopiesOnly(originals, copies, c, gone) ==
    /\ Len(copies) <= Len(originals)
    /\ \A i \in DOMAIN copies :
          /\ Value(doc', copies[i]) = Value(doc, originals[i])
          /\ doc'[copies[i]].key = doc[originals[i]].key
    /\ \A n \in Exists(doc) \ ({c} \union gone) : doc'[n] = doc[n]
    /\ UNION {Within(doc', copies[i]) : i \in DOMAIN copies} \intersect (Exists(doc) \ gone) = {}
    /\ \A n \in (Items \ Exists(doc)) \union gone : doc'[n] # None =>
          \E i \in DOMAIN copies : n \in Within(doc', copies[i])

-----------------------------------------------------------------------------
Create == \E n \in Items \ Exists(doc) :
    /\ \E t \in {"object", "array", "number"}, v \in Numbers \union {0} :
          doc' = [doc EXCEPT ![n] = [None EXCEPT !.type = t, !.number = v]]
    /\ owned' = owned \union {n}

SetNumber == \E n \in Exists(doc), v \in Numbers :
    doc[n].type = "number" /\ doc' = [doc EXCEPT ![n].number = v] /\ UNCHANGED owned

Destroy == \E r \in owned :
    doc' = Without(doc, Within(doc, r)) /\ owned' = owned \ {r}

Push == \E c \in Exists(doc), i \in owned :
    /\ doc[c].type = "array"
    /\ doc' = [doc EXCEPT ![c].members = Append(@, i)]
    /\ owned' = owned \ {i}

Detach == \E c, i \in Exists(doc) :
    /\ i \in Range(doc[c].members)
    /\ doc' = [doc EXCEPT ![c].members = SelectSeq(@, LAMBDA m : m # i)]
    /\ owned' = owned \union {i}

DeleteKey == \E o \in Exists(doc), k \in Keys :
    /\ doc' = Without([doc EXCEPT ![o].members = Others(doc, o, k)], Named(doc, o, k))
    /\ \/ UNCHANGED owned
       \/ \E i \in owned : owned' = owned \ {i}  \* a value that could not be set

SetKey == \E o \in Exists(doc), i \in owned, k \in Keys :
    /\ doc' = [Without(doc, Named(doc, o, k)) EXCEPT
                  ![o].members = Append(Others(doc, o, k), i), ![i].key = k]
    /\ owned' = owned \ {i}

Copy == \E n \in Exists(doc), m \in Items \ Exists(doc) :
    /\ CopiesOnly(<<n>>, <<m>>, m, {})
    /\ owned' = owned \union {m}

AppendCopies == \E p, s \in Exists(doc) :
    LET old == doc[p].members
        copies == SubSeq(doc'[p].members, Len(old) + 1, Len(doc'[p].members))
    IN /\ doc'[p] = [doc[p] EXCEPT !.members = old \o copies]
       /\ CopiesOnly(doc[s].members, copies, p, {})
       /\ UNCHANGED owned

\* The copies replace the members with the same keys and come last.
MergeCopies == \E t, f \in Exists(doc) : \E j \in 0 .. Len(doc[f].members) :
    LET keys == {doc[doc[f].members[i]].key : i \in 1 .. j}
        kept == SelectSeq(doc[t].members, LAMBDA m : doc[m].key \notin keys)
        copies == SubSeq(doc'[t].members, Len(kept) + 1, Len(doc'[t].members))
    IN /\ doc'[t] = [doc[t] EXCEPT !.members = kept \o copies]
       /\ Len(copies) = j
       /\ CopiesOnly(doc[f].members, copies, t, UNION {Named(doc, t, k) : k \in keys})
       /\ UNCHANGED owned

Next == Create \/ SetNumber \/ Destroy \/ Push \/ Detach \/ DeleteKey \/ SetKey
        \/ Copy \/ AppendCopies \/ MergeCopies

Spec == Init /\ [][Next]_valueVars

=============================================================================
