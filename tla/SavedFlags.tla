----------------------------- MODULE SavedFlags -----------------------------
(***************************************************************************)
(* Flags as JSON: what a flag is after the server's JSON has been parsed,  *)
(* what LDClientSaveFlags writes of it, and what LDClientRestoreFlags      *)
(* makes of that in a new process.                                         *)
(*                                                                         *)
(* A JSON value is its type and a number that tells it from others; the    *)
(* number of a JSON number is its value in tenths, so that a fraction can  *)
(* be told from what a conversion to int leaves of it.  That a document    *)
(* survives its way through text is the business of module JSONText.       *)
(* Writers are one step here (their interleavings are in module Store) and *)
(* memory does not run out.                                                *)
(***************************************************************************)
EXTENDS Integers

CONSTANTS
    Keys,
    RawFlags,    \* what the server may send of a flag: field by field, see Missing
    Versions,    \* versions of deletions
    MaxUpdates   \* bound: updates in a behaviour

VARIABLES
    stored,      \* the flags of the store, by key
    updates

savedVars == <<stored, updates>>

\* A field that LDObjectLookup does not find.
Missing == [type |-> "missing", n |-> 0]
Number(tenths) == [type |-> "number", n |-> tenths]
Bool(b) == [type |-> "bool", n |-> IF b THEN 1 ELSE 0]

\* The server's flags have the fields that are looked up, with values of any type.
JSON == [type: {"missing", "null", "bool", "number", "text", "array", "object"}, n: Int]
RawFlagsAreJSON ==
    /\ RawFlags \subseteq [value: JSON, version: JSON, flagVersion: JSON, variation: JSON,
                           trackEvents: JSON, trackReason: JSON, debugEventsUntilDate: JSON,
                           reason: JSON, deleted: JSON]
    /\ Versions \subseteq Int

\* (int) of a double: towards zero.
ToInt(tenths) == IF tenths >= 0 THEN tenths \div 10 ELSE -((-tenths) \div 10)

SavedInit == stored = [k \in {} |-> Missing] /\ updates = 0

-----------------------------------------------------------------------------
(* flag.c *)

Refused == <<>>

\* The key is the caller's.  A flag without a value or a version is refused, one whose other
\* fields have the wrong type is taken without them, except for `deleted'.
LDi_flag_parse(raw) ==
    IF raw.value = Missing \/ raw.version.type # "number" \/ raw.deleted.type \notin {"missing", "bool"}
    THEN Refused
    ELSE <<[value |-> raw.value,
            version |-> ToInt(raw.version.n),
            deleted |-> raw.deleted = Bool(TRUE),
            flagVersion |-> IF raw.flagVersion.type = "number" THEN ToInt(raw.flagVersion.n) ELSE -1,
            variation |-> IF raw.variation.type = "number" THEN ToInt(raw.variation.n) ELSE -1,
            trackEvents |-> raw.trackEvents = Bool(TRUE),
            trackReason |-> raw.trackReason = Bool(TRUE),
            debugEventsUntilDate |->
                IF raw.debugEventsUntilDate.type = "number" THEN raw.debugEventsUntilDate.n ELSE 0,
            reason |-> IF raw.reason.type = "object" THEN raw.reason ELSE Missing]>>

\* Mutated: a zero is not written.
IfNatural_Positive(n) == IF n > 0 THEN Number(10 * n) ELSE Missing

IfTrue(b) == IF b THEN Bool(TRUE) ELSE Missing
IfNatural(n) == IF n >= 0 THEN Number(10 * n) ELSE Missing

LDi_flag_to_json(flag) ==
    [value |-> flag.value,
     version |-> IfNatural(flag.version),
     flagVersion |-> IfNatural(flag.flagVersion),
     variation |-> Number(10 * flag.variation),
     trackEvents |-> IfTrue(flag.trackEvents),
     trackReason |-> IfTrue(flag.trackReason),
     reason |-> flag.reason,
     debugEventsUntilDate |-> IF flag.debugEventsUntilDate = 0 THEN Missing
                              ELSE Number(flag.debugEventsUntilDate),
     deleted |-> IfTrue(flag.deleted)]

-----------------------------------------------------------------------------
(* The store's side *)

\* LDi_onstreameventput: all flags are parsed before any is stored.
Parsed(payload) ==
    IF \E k \in DOMAIN payload : LDi_flag_parse(payload[k]) = Refused THEN Refused
    ELSE <<[k \in DOMAIN payload |-> LDi_flag_parse(payload[k])[1]]>>

AfterPut(payload) == IF Parsed(payload) = Refused THEN stored ELSE Parsed(payload)[1]

Live == {k \in DOMAIN stored : ~stored[k].deleted}

LDi_storeGetJSON == [k \in Live |-> LDi_flag_to_json(stored[k])]

\* LDClientSaveFlags, then LDClientRestoreFlags in a new process: a put of the saved flags.
LDClientSaveFlags == LDi_storeGetJSON
LDClientRestoreFlags(saved) == Parsed(saved)

\* LDi_storeUpsert: only a newer version replaces a flag.
LDi_storeUpsert(k, flag) ==
    stored' = IF k \in DOMAIN stored /\ flag.version <= stored[k].version THEN stored
              ELSE [x \in DOMAIN stored \union {k} |-> IF x = k THEN flag ELSE stored[x]]

Put(payload) == stored' = AfterPut(payload)

Patch(k, raw) == LDi_flag_parse(raw) # Refused /\ LDi_storeUpsert(k, LDi_flag_parse(raw)[1])

\* LDi_storeDelete leaves flagVersion uninitialized, which nobody reads of a deleted flag.
Delete(k, version) ==
    LDi_storeUpsert(k, [value |-> Missing, version |-> version, deleted |-> TRUE,
                        flagVersion |-> 0, variation |-> 0, trackEvents |-> FALSE,
                        trackReason |-> FALSE, debugEventsUntilDate |-> 0, reason |-> Missing])

Restart ==
    LET restored == LDClientRestoreFlags(LDClientSaveFlags)
    IN  stored' = IF restored = Refused THEN [k \in {} |-> Missing] ELSE restored[1]

SavedNext ==
    /\ updates < MaxUpdates /\ updates' = updates + 1
    /\ \/ \E K \in SUBSET Keys, raw \in RawFlags : Put([k \in K |-> raw])
       \/ \E k \in Keys, raw \in RawFlags : Patch(k, raw)
       \/ \E k \in Keys, v \in Versions : Delete(k, v)
       \/ Restart

SavedSpec == SavedInit /\ [][SavedNext]_savedVars

-----------------------------------------------------------------------------
(* Properties *)

\* What a new process restores from the saved flags is what evaluations could see of the old
\* one: every flag that is not deleted, with the same value, variation, reason and tracking,
\* whatever the server sent and whatever fields were missing or had another type.  A negative
\* version is not written, and then nothing is restored at all.
SavedIsRestored ==
    LET restored == LDClientRestoreFlags(LDClientSaveFlags)
        Seen(flag) == [flag EXCEPT !.flagVersion = IF @ < 0 THEN -1 ELSE @]
    IN  IF \E k \in Live : stored[k].version < 0 THEN restored = Refused
        ELSE restored = <<[k \in Live |-> Seen(stored[k])]>>
=============================================================================
