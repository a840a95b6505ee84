-------------------------------- MODULE Store --------------------------------
(***************************************************************************)
(* The flag store of one client environment (src/src/store.c): a hash      *)
(* table from flag keys to reference-counted nodes, the change listeners   *)
(* (flag_change_listener.c), the writers that update it (the stream, the   *)
(* poller, LDClientRestoreFlags) and the application threads that evaluate *)
(* flags (LDi_evalInternal, LDAllFlags in client.c).                       *)
(*                                                                         *)
(* What the store lock protects is one step.  What runs outside of it is a *)
(* step of its own: a reader gives its references back after it dropped    *)
(* the lock, and a put frees the nodes it replaced after it dropped it.    *)
(*                                                                         *)
(* A member of Nodes is one allocation of a node, not an address: it is    *)
(* allocated once.  An allocation that fails leaves the store as it is, so *)
(* it has no action here.  After a put freed a node that a reader holds,   *)
(* the reader goes on as if the memory were intact.  Keys of one put are   *)
(* distinct.                                                               *)
(***************************************************************************)
EXTENDS Integers, FiniteSets

CONSTANTS
    Keys,       \* flag keys
    Versions,   \* flag versions
    Nodes,      \* node allocations; bounds the length of a behaviour
    Readers,    \* application threads that evaluate flags
    Writers,    \* threads that update the store
    Callbacks,  \* listener functions of the application
    NULL        \* no node

ASSUME KeysExist == Keys # {}
ASSUME VersionsAreIntegers == Versions \subseteq Int /\ Versions # {}
ASSUME NullIsNoNode == NULL \notin Nodes
ASSUME ReadersAreFinite == IsFiniteSet(Readers)
ASSUME WritersAreFinite == IsFiniteSet(Writers)

VARIABLES
    open,       \* the store exists: LDi_storeInitialize ran, LDi_storeDestroy did not
    flags,      \* the hash table: the node of every key, or NULL
    state,      \* of every node: "raw" (not allocated yet), "live" or "freed"
    flag,       \* of every node: the flag it holds
    rc,         \* of every node: its reference count
    listeners,  \* registered pairs <<key, callback>>
    told,       \* history: what a registered listener was last told
    mode,       \* of every reader: what it is doing
    held,       \* of every reader: the nodes it holds a counted reference on
    borrowed,   \* of every reader: the node whose text it copies, uncounted
    oldHash     \* of every writer: the nodes its put replaced and has yet to free

nodeVars == <<state, flag, rc>>
readerVars == <<mode, held, borrowed>>
listenerVars == <<listeners, told>>
vars == <<open, flags, nodeVars, listenerVars, readerVars, oldHash>>

(***************************************************************************)
(* struct LDFlag, as far as the store looks at it.                         *)
(***************************************************************************)
Flag == [key: Keys, version: Versions, deleted: BOOLEAN]

TypeOK ==
    /\ open \in BOOLEAN
    /\ flags \in [Keys -> Nodes \cup {NULL}]
    /\ state \in [Nodes -> {"raw", "live", "freed"}]
    /\ flag \in [Nodes -> Flag]
    /\ rc \in [Nodes -> Int]
    /\ listeners \subseteq Keys \X Callbacks
    /\ told \in [Keys \X Callbacks -> {"nothing", "updated", "deleted"}]
    /\ mode \in [Readers -> {"idle", "scalar", "text", "all"}]
    /\ held \in [Readers -> SUBSET Nodes]
    /\ borrowed \in [Readers -> Nodes \cup {NULL}]
    /\ oldHash \in [Writers -> SUBSET Nodes]

Init ==
    /\ open = TRUE
    /\ flags = [k \in Keys |-> NULL]
    /\ state = [n \in Nodes |-> "raw"]
    /\ flag = [n \in Nodes |-> CHOOSE f \in Flag : TRUE]
    /\ rc = [n \in Nodes |-> 0]
    /\ listeners = {}
    /\ told = [l \in Keys \X Callbacks |-> "nothing"]
    /\ mode = [r \in Readers |-> "idle"]
    /\ held = [r \in Readers |-> {}]
    /\ borrowed = [r \in Readers |-> NULL]
    /\ oldHash = [w \in Writers |-> {}]

-----------------------------------------------------------------------------
(***************************************************************************)
(* The nodes: LDi_allocateStoreNode, reference_count.c.                    *)
(***************************************************************************)
InTable(n) == \E k \in Keys : flags[k] = n

Allocated(n, f) ==
    /\ state[n] = "raw"
    /\ state' = [state EXCEPT ![n] = "live"]
    /\ flag' = [flag EXCEPT ![n] = f]

\* Mutated: destroyed one reference too early.
StateAfterDecrement_Early(st, n) ==
    IF rc[n] <= 2 THEN [st EXCEPT ![n] = "freed"] ELSE st

\* LDi_rc_decrement: the last reference destroys the node.
StateAfterDecrement(st, n) ==
    IF rc[n] = 1 THEN [st EXCEPT ![n] = "freed"] ELSE st

\* Mutated: only deletions are dispatched.
Notified_OnlyDeletions(ks, what) ==
    [l \in Keys \X Callbacks |->
        IF l \in listeners /\ l[1] \in ks /\ what = "deleted"
        THEN what ELSE told[l]]

(***************************************************************************)
(* LDi_listenersDispatch: every callback registered for a key is called,   *)
(* under the store's write lock.                                           *)
(***************************************************************************)
Notified(ks, what) ==
    [l \in Keys \X Callbacks |->
        IF l \in listeners /\ l[1] \in ks THEN what ELSE told[l]]

-----------------------------------------------------------------------------
(***************************************************************************)
(* LDi_storeUpsert, with the three cases of versionStatus.                 *)
(***************************************************************************)
VersionNew(f) == flags[f.key] = NULL

\* Mutated: an update of the same version is not stale.
VersionIncreased_OrEqual(f) ==
    flags[f.key] # NULL /\ f.version >= flag[flags[f.key]].version

VersionIncreased(f) ==
    flags[f.key] # NULL /\ f.version > flag[flags[f.key]].version

VersionStale(f) ==
    flags[f.key] # NULL /\ f.version <= flag[flags[f.key]].version

UpsertNew(w, f) ==
    /\ open
    /\ oldHash[w] = {}
    /\ VersionNew(f)
    /\ \E n \in Nodes :
        /\ Allocated(n, f)
        /\ rc' = [rc EXCEPT ![n] = 1]
        /\ flags' = [flags EXCEPT ![f.key] = n]
    /\ told' = Notified({f.key}, IF f.deleted THEN "deleted" ELSE "updated")
    /\ UNCHANGED <<open, listeners, readerVars, oldHash>>

\* Mutated: the table's reference on the old node is not given back.
UpsertIncreased_NoDecrement(w, f) ==
    /\ open
    /\ oldHash[w] = {}
    /\ VersionIncreased(f)
    /\ \E n \in Nodes :
        /\ Allocated(n, f)
        /\ rc' = [rc EXCEPT ![n] = 1]
        /\ flags' = [flags EXCEPT ![f.key] = n]
    /\ told' = Notified({f.key}, IF f.deleted THEN "deleted" ELSE "updated")
    /\ UNCHANGED <<open, listeners, readerVars, oldHash>>

UpsertIncreased(w, f) ==
    /\ open
    /\ oldHash[w] = {}
    /\ VersionIncreased(f)
    /\ \E n \in Nodes : LET existing == flags[f.key] IN
        /\ state[n] = "raw"
        /\ state' = StateAfterDecrement([state EXCEPT ![n] = "live"], existing)
        /\ flag' = [flag EXCEPT ![n] = f]
        /\ rc' = [rc EXCEPT ![existing] = @ - 1, ![n] = 1]
        /\ flags' = [flags EXCEPT ![f.key] = n]
    /\ told' = Notified({f.key}, IF f.deleted THEN "deleted" ELSE "updated")
    /\ UNCHANGED <<open, listeners, readerVars, oldHash>>

\* Mutated: the listeners hear of an update that was discarded.
UpsertStale_Notified(w, f) ==
    /\ open
    /\ oldHash[w] = {}
    /\ VersionStale(f)
    /\ told' = Notified({f.key}, IF f.deleted THEN "deleted" ELSE "updated")
    /\ UNCHANGED <<open, flags, nodeVars, listeners, readerVars, oldHash>>

\* The replacement node is destroyed before anyone sees it.
UpsertStale(w, f) ==
    /\ open
    /\ oldHash[w] = {}
    /\ VersionStale(f)
    /\ UNCHANGED vars

Upsert(w, f) == UpsertNew(w, f) \/ UpsertIncreased(w, f) \/ UpsertStale(w, f)

\* LDi_onstreameventpatch: a flag parsed from the stream.
Patch(w) == \E f \in Flag : Upsert(w, f)

\* LDi_storeDelete: a tombstone that keeps the version of the deletion.
Tombstone(k, v) == [key |-> k, version |-> v, deleted |-> TRUE]

\* LDi_onstreameventdelete: a key and a version parsed from the stream.
Delete(w) == \E k \in Keys, v \in Versions : Upsert(w, Tombstone(k, v))

(***************************************************************************)
(* LDi_storePut: the whole table is replaced, whatever the versions; the   *)
(* listeners of every new key are told that it was updated.  The old nodes *)
(* are freed after the lock was dropped, without a look at their counts.   *)
(***************************************************************************)
PutSwap(w, fs, new) ==
    /\ open
    /\ oldHash[w] = {}
    /\ \A k \in DOMAIN new : state[new[k]] = "raw"
    /\ \A k1, k2 \in DOMAIN new : new[k1] = new[k2] => k1 = k2
    /\ flags' = [k \in Keys |-> IF k \in DOMAIN new THEN new[k] ELSE NULL]
    /\ state' = [n \in Nodes |-> IF \E k \in DOMAIN new : new[k] = n
                                 THEN "live" ELSE state[n]]
    /\ flag' = [n \in Nodes |-> IF \E k \in DOMAIN new : new[k] = n
                                THEN fs[CHOOSE k \in DOMAIN new : new[k] = n]
                                ELSE flag[n]]
    /\ rc' = [n \in Nodes |-> IF \E k \in DOMAIN new : new[k] = n
                              THEN 1 ELSE rc[n]]
    /\ told' = Notified(DOMAIN new, "updated")
    /\ oldHash' = [oldHash EXCEPT ![w] = {n \in Nodes : InTable(n)}]
    /\ UNCHANGED <<open, listeners, readerVars>>

Put(w) ==
    \E ks \in SUBSET Keys :
        \E new \in [ks -> {n \in Nodes : state[n] = "raw"}],
           vs \in [ks -> Versions], ds \in [ks -> BOOLEAN] :
            PutSwap(w, [k \in ks |-> [key |-> k, version |-> vs[k],
                                      deleted |-> ds[k]]], new)

\* LDi_storeFreeHash(oldHash), one node at a time.
PutFree(w, n) ==
    /\ n \in oldHash[w]
    /\ state' = [state EXCEPT ![n] = "freed"]
    /\ oldHash' = [oldHash EXCEPT ![w] = @ \ {n}]
    /\ UNCHANGED <<open, flags, flag, rc, listenerVars, readerVars>>

-----------------------------------------------------------------------------
\* Mutated: the reference is not counted.
Get_Uncounted(r, k, m) ==
    /\ open
    /\ mode[r] = "idle"
    /\ flags[k] # NULL
    /\ ~flag[flags[k]].deleted
    /\ mode' = [mode EXCEPT ![r] = m]
    /\ held' = [held EXCEPT ![r] = {flags[k]}]
    /\ UNCHANGED <<open, flags, nodeVars, listenerVars, borrowed, oldHash>>

(***************************************************************************)
(* Readers.  LDi_storeGet counts a reference on a flag that is there and   *)
(* not deleted (otherwise the caller gets its fallback and holds nothing). *)
(* A scalar variation copies the value before it gives the reference back; *)
(* a text or JSON variation keeps a pointer into the node, gives the       *)
(* reference back, and then copies.                                        *)
(***************************************************************************)
Get(r, k, m) ==
    /\ open
    /\ mode[r] = "idle"
    /\ flags[k] # NULL
    /\ ~flag[flags[k]].deleted
    /\ rc' = [rc EXCEPT ![flags[k]] = @ + 1]
    /\ mode' = [mode EXCEPT ![r] = m]
    /\ held' = [held EXCEPT ![r] = {flags[k]}]
    /\ UNCHANGED <<open, flags, state, flag, listenerVars, borrowed, oldHash>>

\* LDi_storeGetAll, for LDAllFlags: tombstones are counted too.
GetAll(r) ==
    /\ open
    /\ mode[r] = "idle"
    /\ \E n \in Nodes : InTable(n)
    /\ rc' = [n \in Nodes |-> IF InTable(n) THEN rc[n] + 1 ELSE rc[n]]
    /\ mode' = [mode EXCEPT ![r] = "all"]
    /\ held' = [held EXCEPT ![r] = {n \in Nodes : InTable(n)}]
    /\ UNCHANGED <<open, flags, state, flag, listenerVars, borrowed, oldHash>>

Release(r, n) ==
    /\ n \in held[r]
    /\ rc' = [rc EXCEPT ![n] = @ - 1]
    /\ state' = StateAfterDecrement(state, n)
    /\ held' = [held EXCEPT ![r] = @ \ {n}]
    /\ borrowed' = [borrowed EXCEPT ![r] = IF mode[r] = "text" THEN n ELSE NULL]
    /\ mode' = [mode EXCEPT ![r] =
                    IF @ # "text" /\ held[r] = {n} THEN "idle" ELSE @]
    /\ UNCHANGED <<open, flags, flag, listenerVars, oldHash>>

\* memcpy or LDJSONDuplicate in the variation functions.
CopyText(r) ==
    /\ borrowed[r] # NULL
    /\ borrowed' = [borrowed EXCEPT ![r] = NULL]
    /\ mode' = [mode EXCEPT ![r] = "idle"]
    /\ UNCHANGED <<open, flags, nodeVars, listenerVars, held, oldHash>>

-----------------------------------------------------------------------------
(***************************************************************************)
(* LDi_storeRegisterListener and LDi_storeUnregisterListener.  A pair that *)
(* is registered already is left alone.                                    *)
(***************************************************************************)
RegisterListener(l) ==
    /\ open
    /\ listeners' = listeners \cup {l}
    /\ told' = [told EXCEPT ![l] = IF l \in listeners THEN @ ELSE "nothing"]
    /\ UNCHANGED <<open, flags, nodeVars, readerVars, oldHash>>

UnregisterListener(l) ==
    /\ open
    /\ listeners' = listeners \ {l}
    /\ told' = [told EXCEPT ![l] = "nothing"]
    /\ UNCHANGED <<open, flags, nodeVars, readerVars, oldHash>>

(***************************************************************************)
(* LDi_storeDestroy.  clientCloseIsolated calls it once the writer threads *)
(* are joined; LDClientClose is not thread safe, so no evaluation runs     *)
(* beside it.  LDi_storeInitialize serves the next LDClientInit.           *)
(***************************************************************************)
Destroy ==
    /\ open
    /\ \A r \in Readers : mode[r] = "idle"
    /\ \A w \in Writers : oldHash[w] = {}
    /\ open' = FALSE
    /\ flags' = [k \in Keys |-> NULL]
    /\ state' = [n \in Nodes |-> IF InTable(n) THEN "freed" ELSE state[n]]
    /\ listeners' = {}
    /\ told' = [l \in Keys \X Callbacks |-> "nothing"]
    /\ UNCHANGED <<flag, rc, readerVars, oldHash>>

Initialize ==
    /\ ~open
    /\ open' = TRUE
    /\ flags' = [k \in Keys |-> NULL]
    /\ listeners' = {}
    /\ UNCHANGED <<nodeVars, told, readerVars, oldHash>>

Write(w) ==
    \/ Patch(w)
    \/ Delete(w)
    \/ Put(w)
    \/ \E n \in Nodes : PutFree(w, n)

Read(r) ==
    \/ \E k \in Keys, m \in {"scalar", "text"} : Get(r, k, m)
    \/ GetAll(r)
    \/ \E n \in Nodes : Release(r, n)
    \/ CopyText(r)

Next ==
    \/ \E w \in Writers : Write(w)
    \/ \E r \in Readers : Read(r)
    \/ \E l \in Keys \X Callbacks : RegisterListener(l) \/ UnregisterListener(l)
    \/ Destroy
    \/ Initialize

Spec == Init /\ [][Next]_vars

-----------------------------------------------------------------------------
(***************************************************************************)
(* Properties.                                                             *)
(***************************************************************************)
Live(n) == state[n] = "live"

Holders(n) == {r \in Readers : n \in held[r]}

Replacers(n) == {w \in Writers : n \in oldHash[w]}

Refs(n) ==
    (IF InTable(n) THEN 1 ELSE 0)
        + Cardinality(Replacers(n)) + Cardinality(Holders(n))

\* The count of a node that was not freed is exact, however evaluations,
\* upserts and puts interleave: one reference for the table, one while a put
\* that replaced the node has yet to free it, one for every reader between
\* LDi_storeGet or LDi_storeGetAll and its LDi_rc_decrement.
RefCountExact == \A n \in Nodes : Live(n) => rc[n] = Refs(n)

\* No node leaks: what is allocated can still be reached by whoever frees it
\* (the table, a put that replaced it, a reader that holds it).
NoLeak ==
    \A n \in Nodes : Live(n) =>
        InTable(n) \/ Replacers(n) # {} \/ Holders(n) # {}

\* The table never points at a freed node, and finds a flag under its own key,
\* so LDi_storeGet hands out a live node of the key that was asked for.
TableSound ==
    \A k \in Keys : flags[k] # NULL =>
        Live(flags[k]) /\ flag[flags[k]].key = k

HeldNodeFreedByPut ==
    \A n \in Nodes, r \in Readers :
        (Live(n) /\ ~Live(n)' /\ n \in held[r] /\ n \in held'[r])
            => Replacers(n) # {}

\* A node that a reader holds a reference on is freed only by the put that
\* replaced the table: neither an upsert or a delete of the flag nor another
\* reader's release takes it away (reference_count.c).
OnlyPutFreesHeldNode == [][HeldNodeFreedByPut]_vars

EntryReplacedByNewer ==
    \A k \in Keys :
        (flags[k] # NULL /\ flags'[k] # flags[k])
            => \/ ~open'
               \/ \E w \in Writers : flags[k] \in oldHash'[w]
               \/ /\ flags'[k] # NULL
                  /\ flag'[flags'[k]].version > flag[flags[k]].version

\* Out-of-order updates are discarded: unless a put replaces the whole table
\* or the store is destroyed, the entry of a key is only ever replaced by one
\* of a strictly greater version, deletions included (versionStatus).
VersionsOnlyRise == [][EntryReplacedByNewer]_vars

\* A listener whose last call said that its flag was deleted cannot be
\* wrong: the flag is still gone, so an evaluation gives the fallback.
ToldDeletedIsGone ==
    \A l \in listeners :
        (told[l] = "deleted" /\ flags[l[1]] # NULL) => flag[flags[l[1]]].deleted

(***************************************************************************)
(* The store implements the atomic map of module FlagMap: the entry of a   *)
(* key is the flag of the node the table points at.                        *)
(***************************************************************************)
EntryOf(k) == IF flags[k] = NULL THEN {} ELSE {flag[flags[k]]}

Map == INSTANCE FlagMap WITH entry <- [k \in Keys |-> EntryOf(k)]

\* Every step of upserts, deletes, puts and their deferred frees is a step of
\* the atomic versioned map or leaves it alone; the evaluations in flight and
\* the reference counts are invisible to it (LDi_storeUpsert, LDi_storePut).
ImplementsFlagMap == Map!Spec

\* A node is not freed while a reader holds a counted reference on it.
HeldNodesLive == \A r \in Readers : \A n \in held[r] : Live(n)
=============================================================================
