------------------------------ MODULE JSONTree ------------------------------
(***************************************************************************)
(* The JSON documents of the SDK: the LDJSON functions over the linked     *)
(* items of cJSON.  A collection points at its first child, children are   *)
(* linked both ways, a member of an object carries its key.  Memory is a   *)
(* fixed set of items, so every allocation may fail.                       *)
(*                                                                         *)
(* The application holds `roots', the items that no collection owns.  It   *)
(* may reach any item below them, and gives away only roots, never a       *)
(* collection to something inside it.  Numbers stand for all types without *)
(* children.  Module JSONValues is the specification this implements.      *)
(***************************************************************************)
EXTENDS Naturals, Sequences, FiniteSets, SequencesExt, FiniteSetsExt

CONSTANTS
    Items,    \* memory for items, numbers
    Keys,     \* keys of objects
    Numbers   \* values of numbers

VARIABLES
    heap,   \* the items
    roots,  \* items owned by the application
    lost    \* roots of documents nobody owns any more

treeVars == <<heap, roots, lost>>

-----------------------------------------------------------------------------
NULL == 0

\* Memory that is not allocated, and an item from cJSON_New_Item.
Unallocated == [type |-> "free", next |-> NULL, prev |-> NULL, child |-> NULL,
                string |-> "", value |-> 0]

TreeInit == /\ heap = [n \in Items |-> Unallocated]
            /\ roots = {}
            /\ lost = {}

Allocated(h) == {n \in Items : h[n].type # "free"}
Available(h) == Items \ Allocated(h)

\* The children of a collection, first to last.
RECURSIVE Chain(_, _)
Chain(h, n) == IF n = NULL THEN <<>> ELSE <<n>> \o Chain(h, h[n].next)

Members(h, c) == Chain(h, h[c].child)

RECURSIVE Below(_, _)
Below(h, n) == {n} \union UNION {Below(h, m) : m \in Range(Members(h, n))}

-----------------------------------------------------------------------------
(* The functions of cJSON, on a heap *)

\* cJSON_Delete: an item, what is below it, and what is linked after it.
RECURSIVE Deleted(_, _)
Deleted(h, item) ==
    IF item = NULL THEN h
    ELSE Deleted([Deleted(h, h[item].child) EXCEPT ![item] = Unallocated], h[item].next)

RECURSIVE LastFrom(_, _)
LastFrom(h, n) == IF h[n].next = NULL THEN n ELSE LastFrom(h, h[n].next)

\* Mutated: the link back is left out.
AddItemToArray_OneWay(h, array, item) ==
    IF h[array].child = NULL
    THEN [h EXCEPT ![array].child = item]
    ELSE LET last == LastFrom(h, h[array].child)
         IN [h EXCEPT ![last].next = item]

\* add_item_to_array, which serves objects too.
AddItemToArray(h, array, item) ==
    IF h[array].child = NULL
    THEN [h EXCEPT ![array].child = item]
    ELSE LET last == LastFrom(h, h[array].child)
         IN [h EXCEPT ![last].next = item, ![item].prev = last]

\* add_item_to_object: the item gets a new key.
AddItemToObject(h, object, string, item) ==
    AddItemToArray([h EXCEPT ![item].string = string], object, item)

\* Mutated: the detached item keeps its links.
DetachItemViaPointer_KeepLinks(h, parent, item) ==
    LET next == h[item].next
        prev == h[item].prev
        h1 == IF prev # NULL THEN [h EXCEPT ![prev].next = next] ELSE h
        h2 == IF next # NULL THEN [h1 EXCEPT ![next].prev = prev] ELSE h1
    IN IF h2[parent].child = item THEN [h2 EXCEPT ![parent].child = next] ELSE h2

DetachItemViaPointer(h, parent, item) ==
    LET next == h[item].next
        prev == h[item].prev
        h1 == IF prev # NULL THEN [h EXCEPT ![prev].next = next] ELSE h
        h2 == IF next # NULL THEN [h1 EXCEPT ![next].prev = prev] ELSE h1
        h3 == IF h2[parent].child = item THEN [h2 EXCEPT ![parent].child = next] ELSE h2
    IN [h3 EXCEPT ![item].prev = NULL, ![item].next = NULL]

\* get_object_item: the first member with the key; the search ends early at an
\* item that has none.
RECURSIVE SearchFrom(_, _, _)
SearchFrom(h, n, key) ==
    IF n = NULL \/ h[n].string = "" THEN NULL
    ELSE IF h[n].string = key THEN n ELSE SearchFrom(h, h[n].next, key)

GetObjectItem(h, object, key) == SearchFrom(h, h[object].child, key)

\* cJSON_DeleteItemFromObjectCaseSensitive.
DeleteItemFromObject(h, object, key) ==
    LET item == GetObjectItem(h, object, key)
    IN IF item = NULL THEN h ELSE Deleted(DetachItemViaPointer(h, object, item), item)

\* cJSON_Duplicate of an item and, below it, of a list of items: the new heap
\* and the first new item, NULL when memory is short.
RECURSIVE Duplicate(_, _), DuplicateList(_, _)
Duplicate(h, item) ==
    IF Available(h) = {} THEN [heap |-> h, item |-> NULL]
    ELSE LET new == Min(Available(h))
             copy == [h EXCEPT ![new] = [h[item] EXCEPT !.next = NULL, !.prev = NULL,
                                                        !.child = NULL]]
             below == DuplicateList(copy, h[item].child)
         IN IF h[item].child = NULL THEN [heap |-> copy, item |-> new]
            ELSE IF below.item = NULL THEN [heap |-> h, item |-> NULL]
            ELSE [heap |-> [below.heap EXCEPT ![new].child = below.item], item |-> new]
DuplicateList(h, item) ==
    IF item = NULL THEN [heap |-> h, item |-> NULL]
    ELSE LET first == Duplicate(h, item)
             rest == DuplicateList(first.heap, h[item].next)
         IN IF first.item = NULL THEN first
            ELSE IF h[item].next = NULL THEN first
            ELSE IF rest.item = NULL THEN [heap |-> h, item |-> NULL]
            ELSE [heap |-> [rest.heap EXCEPT ![first.item].next = rest.item,
                                             ![rest.item].prev = first.item],
                  item |-> first.item]

\* Mutated: one way only.
CoveredBy_OneWay(a, b) == {<<a, b>>}

\* Which object must have the keys of which.
CoveredBy(a, b) == {<<a, b>>, <<b, a>>}

\* cJSON_Compare: an array member by member, an object by key both ways round.
RECURSIVE Compare(_, _, _)
Compare(h, a, b) ==
    /\ h[a].type = h[b].type
    /\ CASE h[a].type = "number" -> h[a].value = h[b].value
         [] h[a].type = "array" ->
              LET s == Members(h, a)
                  t == Members(h, b)
              IN Len(s) = Len(t) /\ \A i \in DOMAIN s : Compare(h, s[i], t[i])
         [] h[a].type = "object" ->
              \A pair \in CoveredBy(a, b) : \A m \in Range(Members(h, pair[1])) :
                  LET n == GetObjectItem(h, pair[2], h[m].string)
                  IN n # NULL /\ Compare(h, m, n)

-----------------------------------------------------------------------------
(* The LDJSON functions, as the application calls them *)

Reachable == UNION {Below(heap, r) : r \in roots}
Objects == {n \in Reachable : heap[n].type = "object"}

\* The arguments of the functions are reachable items (TreeNext); the functions
\* refuse those of another type.
IsObject(n) == heap[n].type = "object"
IsArray(n) == heap[n].type = "array"

\* r may be given to c: it is a root, and c is not inside it.
MayGive(r, c) == r \in roots /\ c \notin Below(heap, r)

\* LDNewObject, LDNewArray, LDNewNumber and the other constructors.
New(t, v) ==
    /\ Available(heap) # {}
    /\ LET n == Min(Available(heap))
       IN /\ heap' = [heap EXCEPT ![n] = [Unallocated EXCEPT !.type = t, !.value = v]]
          /\ roots' = roots \union {n}
    /\ UNCHANGED lost

LDSetNumber(n, v) ==
    /\ heap[n].type = "number"
    /\ heap' = [heap EXCEPT ![n].value = v]
    /\ UNCHANGED <<roots, lost>>

LDJSONFree(r) ==
    /\ r \in roots
    /\ heap' = Deleted(heap, r)
    /\ roots' = roots \ {r}
    /\ UNCHANGED lost

LDJSONDuplicate(n) ==
    /\ LET copy == Duplicate(heap, n)
       IN /\ heap' = copy.heap
          /\ roots' = roots \union ({copy.item} \ {NULL})
    /\ UNCHANGED lost

LDArrayPush(array, item) ==
    /\ IsArray(array) /\ MayGive(item, array)
    /\ heap' = AddItemToArray(heap, array, item)
    /\ roots' = roots \ {item}
    /\ UNCHANGED lost

\* The members of the suffix are copied one by one, until one cannot be.
RECURSIVE Appended(_, _, _)
Appended(h, prefix, iter) ==
    IF iter = NULL THEN h
    ELSE LET dupe == Duplicate(h, iter)
         IN IF dupe.item = NULL THEN h
            ELSE Appended(AddItemToArray(dupe.heap, prefix, dupe.item), prefix,
                          h[iter].next)

LDArrayAppend(prefix, suffix) ==
    /\ IsArray(prefix) /\ IsArray(suffix) /\ prefix # suffix
    /\ heap' = Appended(heap, prefix, heap[suffix].child)
    /\ UNCHANGED <<roots, lost>>

SetKey(h, object, key, item) ==
    AddItemToObject(DeleteItemFromObject(h, object, key), object, key, item)

\* The item is consumed; when there is no memory for the key it is lost, the
\* old value is gone, and the call still returns True.
LDObjectSetKey(object, key, item) ==
    /\ IsObject(object) /\ MayGive(item, object)
    /\ roots' = roots \ {item}
    /\ \/ heap' = SetKey(heap, object, key, item) /\ UNCHANGED lost
       \/ /\ heap' = DeleteItemFromObject(heap, object, key)
          /\ lost' = lost \union {item}

LDObjectDeleteKey(object, key) ==
    /\ IsObject(object)
    /\ heap' = DeleteItemFromObject(heap, object, key)
    /\ UNCHANGED <<roots, lost>>

LDObjectDetachKey(object, key) ==
    /\ IsObject(object) /\ GetObjectItem(heap, object, key) # NULL
    /\ LET item == GetObjectItem(heap, object, key)
       IN /\ heap' = DetachItemViaPointer(heap, object, item)
          /\ roots' = roots \union {item}
    /\ UNCHANGED lost

LDCollectionDetachIter(collection, iter) ==
    /\ iter \in Range(Members(heap, collection))
    /\ heap' = DetachItemViaPointer(heap, collection, iter)
    /\ roots' = roots \union {iter}
    /\ UNCHANGED lost

\* The members of `from' are copied and set one by one, until one cannot be.
RECURSIVE Merged(_, _, _)
Merged(h, to, iter) ==
    IF iter = NULL THEN h
    ELSE LET dupe == Duplicate(h, iter)
         IN IF dupe.item = NULL THEN h
            ELSE Merged(SetKey(dupe.heap, to, h[iter].string, dupe.item), to,
                        h[iter].next)

LDObjectMerge(to, from) ==
    /\ IsObject(to) /\ IsObject(from)
    /\ from \notin Below(heap, to) /\ to \notin Below(heap, from)
    /\ heap' = Merged(heap, to, heap[from].child)
    /\ UNCHANGED <<roots, lost>>

TreeNext ==
    \/ \E t \in {"object", "array"} : New(t, 0)
    \/ \E v \in Numbers : New("number", v) \/ \E n \in Reachable : LDSetNumber(n, v)
    \/ \E r \in roots : LDJSONFree(r)
    \/ \E n, m \in Reachable :
          \/ LDArrayPush(n, m) \/ LDArrayAppend(n, m)
          \/ LDCollectionDetachIter(n, m) \/ LDObjectMerge(n, m)
    \/ \E n \in Reachable : LDJSONDuplicate(n)
    \/ \E n \in Reachable, k \in Keys :
          \/ LDObjectDeleteKey(n, k) \/ LDObjectDetachKey(n, k)
          \/ \E r \in roots : LDObjectSetKey(n, k, r)

TreeSpec == TreeInit /\ [][TreeNext]_treeVars

-----------------------------------------------------------------------------
(* Properties *)

\* The links agree: what follows an item points back at it, the first child
\* has nothing before it, a root is linked to nothing, and nothing points at
\* memory that was freed.  So LDJSONFree of a root frees its own tree only,
\* and every loop over a list ends.
LinksAgree ==
    \A n \in Allocated(heap) :
        LET item == heap[n] IN
        /\ {item.next, item.prev, item.child} \subseteq Allocated(heap) \union {NULL}
        /\ item.next # NULL => heap[item.next].prev = n
        /\ item.prev # NULL => heap[item.prev].next = n
        /\ item.child # NULL => heap[item.child].prev = NULL
        /\ n \in roots \union lost => item.next = NULL /\ item.prev = NULL

\* Every item has one owner: the application, one collection, or, after the
\* key of LDObjectSetKey could not be allocated, nobody.
OneOwner ==
    LET tops == roots \union lost
        owners(n) == {c \in Allocated(heap) : n \in Range(Members(heap, c))}
    IN /\ Allocated(heap) = UNION {Below(heap, t) : t \in tops}
       /\ \A n \in Allocated(heap) : Cardinality(owners(n)) = IF n \in tops THEN 0 ELSE 1

\* The keys of an object differ, so LDObjectLookup finds what LDObjectSetKey set.
KeysUnique ==
    \A o \in Objects :
        \A m, n \in Range(Members(heap, o)) :
            heap[m].string # "" /\ (m # n => heap[m].string # heap[n].string)

\* The value of an item, in which the members of an object have no order.
RECURSIVE ValueOf(_, _)
ValueOf(h, n) ==
    CASE h[n].type = "number" -> <<"number", h[n].value>>
      [] h[n].type = "array" -> <<"array", [i \in DOMAIN Members(h, n) |->
                                               ValueOf(h, Members(h, n)[i])]>>
      [] h[n].type = "object" -> <<"object", {<<h[m].string, ValueOf(h, m)>> :
                                               m \in Range(Members(h, n))}>>

\* LDJSONCompare says that two documents are equal just when they have the same
\* value: arrays in order, objects by key in any order, at every depth.
CompareIsEquality ==
    \A m, n \in Reachable :
        Compare(heap, m, n) <=> ValueOf(heap, m) = ValueOf(heap, n)

\* The documents of JSONValues that the linked items stand for: sequences of
\* members that only the calls of the application change.
Values == INSTANCE JSONValues WITH
    doc <- [n \in Items |->
              IF n \in Allocated(heap)
              THEN [type |-> heap[n].type, key |-> heap[n].string,
                    number |-> heap[n].value, members |-> Members(heap, n)]
              ELSE [type |-> "free", key |-> "", number |-> 0, members |-> <<>>]],
    owned <- roots

=============================================================================
