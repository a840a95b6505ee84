------------------------------- MODULE FlagMap -------------------------------
(***************************************************************************)
(* What the flag store promises the rest of the SDK, without nodes, counts *)
(* or threads: a map from flag keys to versioned flags that changes        *)
(* atomically, discards what is out of date, remembers deletions, can be   *)
(* replaced as a whole, and tells the listeners of a key in the very step  *)
(* that changes it.                                                        *)
(***************************************************************************)
EXTENDS Integers

CONSTANTS Keys, Versions, Callbacks

VARIABLES
    open,       \* the map exists
    entry,      \* of every key: {} or the singleton of its flag
    listeners,  \* registered pairs <<key, callback>>
    told        \* what every registered listener was last told

vars == <<open, entry, listeners, told>>

Entries(k) ==
    {{}} \cup {{[key |-> k, version |-> v, deleted |-> d]} :
                  v \in Versions, d \in BOOLEAN}

Init ==
    /\ open = TRUE
    /\ entry = [k \in Keys |-> {}]
    /\ listeners = {}
    /\ told = [l \in Keys \X Callbacks |-> "nothing"]

Tell(ks, what) ==
    told' = [l \in Keys \X Callbacks |->
                IF l \in listeners /\ l[1] \in ks THEN what ELSE told[l]]

\* A flag, or the tombstone of a deleted one, that is newer than the entry.
Update(k, v, d) ==
    /\ open
    /\ UNCHANGED <<open, listeners>>
    /\ \A f \in entry[k] : v > f.version
    /\ entry' = [entry EXCEPT ![k] = {[key |-> k, version |-> v, deleted |-> d]}]
    /\ Tell({k}, IF d THEN "deleted" ELSE "updated")

Replace ==
    /\ open
    /\ UNCHANGED <<open, listeners>>
    /\ Tell({k \in Keys : entry'[k] # {}}, "updated")
    /\ \A k \in Keys : entry'[k] \in Entries(k)
    /\ entry' \in [Keys -> UNION {Entries(k) : k \in Keys}]

Register(l) ==
    /\ open
    /\ listeners' = listeners \cup {l}
    /\ told' = [told EXCEPT ![l] = IF l \in listeners THEN @ ELSE "nothing"]
    /\ UNCHANGED <<open, entry>>

Unregister(l) ==
    /\ open
    /\ listeners' = listeners \ {l}
    /\ told' = [told EXCEPT ![l] = "nothing"]
    /\ UNCHANGED <<open, entry>>

Close ==
    /\ open
    /\ open' = FALSE
    /\ entry' = [k \in Keys |-> {}]
    /\ listeners' = {}
    /\ told' = [l \in Keys \X Callbacks |-> "nothing"]

Open ==
    /\ ~open
    /\ open' = TRUE
    /\ UNCHANGED <<entry, listeners, told>>

Next ==
    \/ \E l \in Keys \X Callbacks : Register(l) \/ Unregister(l)
    \/ \E k \in Keys, v \in Versions, d \in BOOLEAN : Update(k, v, d)
    \/ Replace
    \/ Close
    \/ Open

Spec == Init /\ [][Next]_vars
=============================================================================
