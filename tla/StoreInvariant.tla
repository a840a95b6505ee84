---------------------------- MODULE StoreInvariant ----------------------------
(***************************************************************************)
(* The types of the flag store, and the inductive invariant of its proofs  *)
(* with the steps of the writers that keep it.  The steps of the readers   *)
(* and the theorems are in module StoreProofs.                             *)
(*                                                                         *)
(* RefCountExact is not inductive by itself.  It needs that the table and  *)
(* the puts in progress refer to live nodes only and never to the same     *)
(* one, that nobody refers to a node before it is allocated, and that an   *)
(* idle reader holds nothing.                                              *)
(***************************************************************************)
EXTENDS Store, FiniteSetTheorems, TLAPS

\* What a put has yet to free is live, not in the table, and its own.
OldHashSound ==
    \A w \in Writers : \A n \in oldHash[w] :
        /\ Live(n)
        /\ ~InTable(n)
        /\ \A w2 \in Writers : n \in oldHash[w2] => w2 = w

\* Nobody holds a node that was not allocated.
RawUnheld ==
    \A n \in Nodes, r \in Readers : n \in held[r] => state[n] # "raw"

\* An idle reader holds nothing; a text variation holds at most one node, and
\* none any more when it copies.
ReadersSound ==
    \A r \in Readers :
        /\ mode[r] = "idle" => held[r] = {} /\ borrowed[r] = NULL
        /\ mode[r] = "text" => \A n1, n2 \in held[r] : n1 = n2
        /\ borrowed[r] # NULL => mode[r] = "text" /\ held[r] = {}

\* A store that does not exist has no table.
ClosedIsEmpty == ~open => \A k \in Keys : flags[k] = NULL

IInv ==
    /\ TypeOK
    /\ TableSound
    /\ OldHashSound
    /\ RawUnheld
    /\ ReadersSound
    /\ ClosedIsEmpty
    /\ RefCountExact
    /\ NoLeak

-----------------------------------------------------------------------------
(***************************************************************************)
(* Types.                                                                  *)
(***************************************************************************)
\* The store has a flag to start from.
LEMMA FlagExists == (CHOOSE f \in Flag : TRUE) \in Flag
<1>1. PICK k \in Keys : TRUE
  BY KeysExist
<1>2. PICK v \in Versions : TRUE
  BY VersionsAreIntegers, Zenon
<1>3. [key |-> k, version |-> v, deleted |-> TRUE] \in Flag
  BY <1>1, <1>2 DEF Flag
<1>. QED
  BY <1>3

\* The initial store has its type (LDi_storeInitialize).
LEMMA InitTypeOK == Init => TypeOK
  BY FlagExists DEF Init, TypeOK

\* LDi_storeUpsert preserves the types.
LEMMA UpsertTypeOK ==
    ASSUME TypeOK, NEW w \in Writers, NEW f \in Flag, Upsert(w, f)
    PROVE  TypeOK'
<1>. USE DEF TypeOK, Flag
<1>1. CASE UpsertNew(w, f)
  BY <1>1 DEF UpsertNew, Allocated, Notified, readerVars
<1>2. CASE UpsertIncreased(w, f)
  <2>1. flags[f.key] \in Nodes
    BY <1>2 DEF UpsertIncreased, VersionIncreased
  <2>2. PICK n \in Nodes :
          /\ state' = StateAfterDecrement([state EXCEPT ![n] = "live"], flags[f.key])
          /\ flag' = [flag EXCEPT ![n] = f]
          /\ rc' = [rc EXCEPT ![flags[f.key]] = @ - 1, ![n] = 1]
          /\ flags' = [flags EXCEPT ![f.key] = n]
    BY <1>2, Zenon DEF UpsertIncreased
  <2>3. state' \in [Nodes -> {"raw", "live", "freed"}]
    BY <2>1, <2>2, Zenon DEF StateAfterDecrement
  <2>4. /\ flag' \in [Nodes -> Flag]
        /\ rc' \in [Nodes -> Int]
        /\ flags' \in [Keys -> Nodes \cup {NULL}]
    BY <2>1, <2>2
  <2>5. told' \in [Keys \X Callbacks -> {"nothing", "updated", "deleted"}]
    BY <1>2 DEF UpsertIncreased, Notified
  <2>. QED
    BY <1>2, <2>3, <2>4, <2>5, Zenon DEF UpsertIncreased, readerVars
<1>3. CASE UpsertStale(w, f)
  BY <1>3 DEF UpsertStale, vars, nodeVars, listenerVars, readerVars
<1>. QED
  BY <1>1, <1>2, <1>3 DEF Upsert

\* The swap of LDi_storePut preserves the types.
LEMMA PutSwapTypeOK ==
    ASSUME TypeOK, NEW w \in Writers, NEW ks \in SUBSET Keys,
           NEW new \in [ks -> Nodes], NEW fs \in [ks -> Flag],
           PutSwap(w, fs, new)
    PROVE  TypeOK'
<1>1. flag' \in [Nodes -> Flag]
  <2>1. ASSUME NEW n \in Nodes, \E k \in DOMAIN new : new[k] = n
        PROVE  fs[CHOOSE k \in DOMAIN new : new[k] = n] \in Flag
    BY <2>1
  <2>. QED
    BY <2>1 DEF PutSwap, TypeOK
<1>2. flags' \in [Keys -> Nodes \cup {NULL}]
  BY DEF PutSwap, TypeOK
<1>3. state' \in [Nodes -> {"raw", "live", "freed"}] /\ rc' \in [Nodes -> Int]
  BY DEF PutSwap, TypeOK
<1>4. told' \in [Keys \X Callbacks -> {"nothing", "updated", "deleted"}]
  BY DEF PutSwap, TypeOK, Notified
<1>5. oldHash' \in [Writers -> SUBSET Nodes]
  BY DEF PutSwap, TypeOK
<1>. QED
  BY <1>1, <1>2, <1>3, <1>4, <1>5 DEF PutSwap, TypeOK, readerVars

\* Put builds its flags with the types that PutSwap expects.
LEMMA PutIsPutSwap ==
    ASSUME NEW w \in Writers, Put(w)
    PROVE  \E ks \in SUBSET Keys : \E new \in [ks -> Nodes], fs \in [ks -> Flag] :
              /\ PutSwap(w, fs, new)
              /\ \A k \in ks : fs[k].key = k
<1>0. PICK ks \in SUBSET Keys :
        \E new \in [ks -> Nodes], vs \in [ks -> Versions], ds \in [ks -> BOOLEAN] :
            PutSwap(w, [k \in ks |-> [key |-> k, version |-> vs[k],
                                      deleted |-> ds[k]]], new)
  BY Zenon DEF Put
<1>1. PICK new \in [ks -> Nodes], vs \in [ks -> Versions], ds \in [ks -> BOOLEAN] :
        PutSwap(w, [k \in ks |-> [key |-> k, version |-> vs[k],
                                  deleted |-> ds[k]]], new)
  BY <1>0, Zenon
<1>. DEFINE fs == [k \in ks |-> [key |-> k, version |-> vs[k], deleted |-> ds[k]]]
<1>2. fs \in [ks -> Flag] /\ \A k \in ks : fs[k].key = k
  BY DEF Flag
<1>3. PutSwap(w, fs, new)
  BY <1>1
<1>. HIDE DEF fs
<1>. QED
  BY <1>2, <1>3, ZenonT(40)

\* Patches and deletions are upserts of a flag.
LEMMA PatchDeleteIsUpsert ==
    ASSUME NEW w \in Writers, Patch(w) \/ Delete(w)
    PROVE  \E f \in Flag : Upsert(w, f)
  BY Zenon DEF Patch, Delete, Tombstone, Flag

\* Every step of the store preserves the types.
LEMMA NextTypeOK == TypeOK /\ [Next]_vars => TypeOK'
<1>. SUFFICES ASSUME TypeOK, [Next]_vars PROVE TypeOK'
  OBVIOUS
<1>. USE DEF nodeVars, readerVars, listenerVars
<1>1. ASSUME NEW w \in Writers, Patch(w) \/ Delete(w) PROVE TypeOK'
  BY <1>1, PatchDeleteIsUpsert, UpsertTypeOK
<1>2. ASSUME NEW w \in Writers, Put(w) PROVE TypeOK'
  BY <1>2, PutIsPutSwap, PutSwapTypeOK
<1>3. ASSUME NEW w \in Writers, NEW n \in Nodes, PutFree(w, n) PROVE TypeOK'
  BY <1>3 DEF PutFree, TypeOK
<1>4. ASSUME NEW r \in Readers, NEW k \in Keys, NEW m \in {"scalar", "text"},
             Get(r, k, m)
      PROVE  TypeOK'
  BY <1>4 DEF Get, TypeOK
<1>5. ASSUME NEW r \in Readers, GetAll(r) PROVE TypeOK'
  BY <1>5 DEF GetAll, TypeOK
<1>6. ASSUME NEW r \in Readers, NEW n \in Nodes, Release(r, n) PROVE TypeOK'
  BY <1>6 DEF Release, StateAfterDecrement, TypeOK
<1>7. ASSUME NEW r \in Readers, CopyText(r) PROVE TypeOK'
  BY <1>7 DEF CopyText, TypeOK
<1>8. ASSUME NEW l \in Keys \X Callbacks,
             RegisterListener(l) \/ UnregisterListener(l)
      PROVE  TypeOK'
  <2>1. listeners' \subseteq Keys \X Callbacks
    BY <1>8 DEF RegisterListener, UnregisterListener, TypeOK
  <2>2. told' \in [Keys \X Callbacks -> {"nothing", "updated", "deleted"}]
    BY <1>8 DEF RegisterListener, UnregisterListener, TypeOK
  <2>. QED
    BY <1>8, <2>1, <2>2 DEF RegisterListener, UnregisterListener, TypeOK
<1>9. CASE Destroy
  BY <1>9, Zenon DEF Destroy, TypeOK
<1>10. CASE Initialize
  BY <1>10 DEF Initialize, TypeOK
<1>11. CASE UNCHANGED vars
  BY <1>11 DEF vars, TypeOK
<1>. QED
  BY <1>1, <1>2, <1>3, <1>4, <1>5, <1>6, <1>7, <1>8, <1>9, <1>10, <1>11
  DEF Next, Write, Read

\* The store keeps its types.
THEOREM TypeCorrect == Spec => []TypeOK
<1>1. Init => TypeOK
  BY InitTypeOK
<1>2. TypeOK /\ [Next]_vars => TypeOK'
  BY NextTypeOK
<1>. QED
  BY <1>1, <1>2, PTL DEF Spec

-----------------------------------------------------------------------------
(***************************************************************************)
(* Reference counts.                                                       *)
(***************************************************************************)
\* The number of references on a node is a natural number.
LEMMA RefsAreFinite ==
    ASSUME NEW n
    PROVE  /\ IsFiniteSet(Holders(n)) /\ Cardinality(Holders(n)) \in Nat
           /\ IsFiniteSet(Replacers(n)) /\ Cardinality(Replacers(n)) \in Nat
<1>1. Holders(n) \subseteq Readers /\ Replacers(n) \subseteq Writers
  BY DEF Holders, Replacers
<1>. QED
  BY <1>1, ReadersAreFinite, WritersAreFinite, FS_Subset, FS_CardinalityType

\* A node without any reference has none to count.
LEMMA NoRefs ==
    ASSUME NEW n
    PROVE  /\ (\A r \in Readers : n \notin held[r]) <=> Cardinality(Holders(n)) = 0
           /\ (\A w \in Writers : n \notin oldHash[w]) <=> Cardinality(Replacers(n)) = 0
<1>1. Holders(n) = {} <=> Cardinality(Holders(n)) = 0
  BY RefsAreFinite, FS_EmptySet
<1>2. Replacers(n) = {} <=> Cardinality(Replacers(n)) = 0
  BY RefsAreFinite, FS_EmptySet
<1>. QED
  BY <1>1, <1>2 DEF Holders, Replacers

\* A put that has yet to free a node is the only one.
LEMMA OneReplacer ==
    ASSUME OldHashSound, NEW n, NEW w \in Writers, n \in oldHash[w]
    PROVE  Cardinality(Replacers(n)) = 1
<1>1. Replacers(n) = {w}
  BY DEF OldHashSound, Replacers
<1>. QED
  BY <1>1, FS_Singleton, Zenon

\* LDi_storeUpsert of a flag that is new keeps the counts exact.
LEMMA UpsertNewIInv ==
    ASSUME IInv, NEW w \in Writers, NEW f \in Flag, UpsertNew(w, f)
    PROVE  IInv'
<1>1. TypeOK'
  BY UpsertTypeOK DEF IInv, Upsert
<1>2. PICK n \in Nodes :
        /\ state[n] = "raw"
        /\ state' = [state EXCEPT ![n] = "live"]
        /\ flag' = [flag EXCEPT ![n] = f]
        /\ rc' = [rc EXCEPT ![n] = 1]
        /\ flags' = [flags EXCEPT ![f.key] = n]
  BY Zenon DEF UpsertNew, Allocated
<1>3. open /\ UNCHANGED <<open, mode, held, borrowed, oldHash>>
  BY DEF UpsertNew, readerVars
<1>4. f.key \in Keys /\ flags[f.key] = NULL /\ n # NULL
  BY NullIsNoNode DEF UpsertNew, VersionNew, Flag
<1>5. ASSUME NEW m \in Nodes PROVE InTable(m)' <=> m = n \/ InTable(m)
  BY <1>2, <1>4, NullIsNoNode DEF InTable, IInv, TypeOK
<1>6. ASSUME NEW m \in Nodes, m # n
      PROVE  Live(m)' = Live(m) /\ rc'[m] = rc[m] /\ Refs(m)' = Refs(m)
  <2>1. Holders(m)' = Holders(m) /\ Replacers(m)' = Replacers(m)
    BY <1>3 DEF Holders, Replacers
  <2>2. InTable(m)' <=> InTable(m)
    BY <1>5, <1>6
  <2>3. Refs(m)' = Refs(m)
    BY <2>1, <2>2 DEF Refs
  <2>. QED
    BY <1>2, <1>6, <2>3 DEF IInv, TypeOK, Live
<1>7. TableSound'
  BY <1>2, <1>4 DEF IInv, TypeOK, TableSound, Live
<1>8. OldHashSound'
  BY <1>2, <1>3, <1>5 DEF IInv, TypeOK, OldHashSound, Live
<1>9. RawUnheld' /\ ReadersSound' /\ ClosedIsEmpty'
  BY <1>2, <1>3 DEF IInv, TypeOK, RawUnheld, ReadersSound, ClosedIsEmpty
<1>10. RefCountExact'
  <2>1. rc'[n] = 1 /\ InTable(n)'
    BY <1>2, <1>5 DEF IInv, TypeOK
  <2>2. /\ \A r \in Readers : n \notin held'[r]
        /\ \A w2 \in Writers : n \notin oldHash'[w2]
    BY <1>2, <1>3 DEF IInv, RawUnheld, OldHashSound, Live
  <2>3. Holders(n)' = {} /\ Replacers(n)' = {}
    BY <2>2 DEF Holders, Replacers
  <2>4. Refs(n)' = 1
    BY <2>1, <2>3, FS_EmptySet DEF Refs
  <2>. QED
    BY <1>6, <2>1, <2>4 DEF IInv, RefCountExact
<1>11. NoLeak'
  BY <1>3, <1>5, <1>6 DEF IInv, NoLeak, Holders, Replacers
<1>. QED
  BY <1>1, <1>7, <1>8, <1>9, <1>10, <1>11 DEF IInv

\* A node of the table is referred to by the table and its readers only.
LEMMA TableNodeRefs ==
    ASSUME IInv, NEW k \in Keys, flags[k] # NULL
    PROVE  /\ flags[k] \in Nodes
           /\ Live(flags[k])
           /\ \A w \in Writers : flags[k] \notin oldHash[w]
           /\ rc[flags[k]] = 1 + Cardinality(Holders(flags[k]))
<1>1. flags[k] \in Nodes /\ Live(flags[k]) /\ InTable(flags[k])
  BY DEF IInv, TypeOK, TableSound, InTable
<1>2. \A w \in Writers : flags[k] \notin oldHash[w]
  BY <1>1 DEF IInv, OldHashSound
<1>3. Cardinality(Replacers(flags[k])) = 0
  BY <1>2, NoRefs
<1>4. rc[flags[k]] = 1 + 0 + Cardinality(Holders(flags[k]))
  BY <1>1, <1>3 DEF IInv, RefCountExact, Refs
<1>. QED
  BY <1>1, <1>2, <1>4, RefsAreFinite

\* LDi_storeUpsert of a newer flag keeps the counts exact: the table gives its
\* reference on the old node back, which frees it unless a reader holds it.
LEMMA UpsertIncreasedIInv ==
    ASSUME IInv, NEW w \in Writers, NEW f \in Flag, UpsertIncreased(w, f)
    PROVE  IInv'
<1>0. /\ f.key \in Keys /\ flags[f.key] # NULL
      /\ flags[f.key] \in Nodes
  BY DEF UpsertIncreased, VersionIncreased, Flag, IInv, TypeOK
<1>e. PICK e \in Nodes : e = flags[f.key]
  BY <1>0
<1>1. TypeOK'
  BY UpsertTypeOK DEF IInv, Upsert
<1>2. PICK n \in Nodes :
        /\ state[n] = "raw"
        /\ state' = StateAfterDecrement([state EXCEPT ![n] = "live"], e)
        /\ flag' = [flag EXCEPT ![n] = f]
        /\ rc' = [rc EXCEPT ![e] = @ - 1, ![n] = 1]
        /\ flags' = [flags EXCEPT ![f.key] = n]
  BY <1>e, Zenon DEF UpsertIncreased
<1>3. open /\ UNCHANGED <<open, mode, held, borrowed, oldHash>>
  BY DEF UpsertIncreased, readerVars
<1>4. f.key \in Keys /\ e # NULL /\ n # NULL
  BY <1>0, <1>e, NullIsNoNode
<1>5. /\ e \in Nodes /\ Live(e) /\ e # n
      /\ \A w2 \in Writers : e \notin oldHash[w2]
      /\ rc[e] = 1 + Cardinality(Holders(e))
  BY <1>2, <1>4, <1>e, TableNodeRefs, ZenonT(30) DEF Live
<1>6. ASSUME NEW m \in Nodes
      PROVE  InTable(m)' <=> m = n \/ (InTable(m) /\ m # e)
  <2>1. \A k \in Keys : flags[k] = e => k = f.key
    BY <1>4, <1>e DEF IInv, TableSound
  <2>2. \A k \in Keys : flags'[k] = IF k = f.key THEN n ELSE flags[k]
    BY <1>2, <1>4, ZenonT(30) DEF IInv, TypeOK
  <2>. QED
    BY <1>4, <1>5, <1>e, <2>1, <2>2 DEF InTable
<1>7. ASSUME NEW m \in Nodes, m # n, m # e
      PROVE  Live(m)' = Live(m) /\ state'[m] = state[m] /\ rc'[m] = rc[m]
             /\ Refs(m)' = Refs(m)
  <2>1. Holders(m)' = Holders(m) /\ Replacers(m)' = Replacers(m)
    BY <1>3 DEF Holders, Replacers
  <2>2. InTable(m)' <=> InTable(m)
    BY <1>6, <1>7
  <2>3. Refs(m)' = Refs(m)
    BY <2>1, <2>2 DEF Refs
  <2>. QED
    BY <1>2, <1>5, <1>7, <2>3 DEF IInv, TypeOK, Live, StateAfterDecrement
<1>8. /\ state'[n] = "live" /\ rc'[n] = 1
      /\ rc'[e] = rc[e] - 1
      /\ state'[e] = IF rc[e] = 1 THEN "freed" ELSE "live"
  BY <1>2, <1>5 DEF IInv, TypeOK, Live, StateAfterDecrement
<1>9. TableSound'
  <2>1. ASSUME NEW k \in Keys, flags'[k] # NULL
        PROVE  state'[flags'[k]] = "live" /\ flag'[flags'[k]].key = k
    <3>1. CASE k = f.key
      BY <1>2, <1>4, <1>8, <3>1, ZenonT(30) DEF IInv, TypeOK, Live
    <3>2. CASE k # f.key
      <4>1. flags'[k] = flags[k] /\ flags[k] # NULL
        BY <1>2, <2>1, <3>2, ZenonT(30) DEF IInv, TypeOK
      <4>2. flags[k] \in Nodes /\ Live(flags[k]) /\ flag[flags[k]].key = k
        BY <4>1 DEF IInv, TypeOK, TableSound
      <4>3. flags[k] # e /\ flags[k] # n
        BY <1>2, <1>4, <1>e, <3>2, <4>2, ZenonT(30) DEF IInv, TableSound, Live
      <4>4. flag'[flags[k]] = flag[flags[k]]
        BY <1>2, <4>2, <4>3, ZenonT(30) DEF IInv, TypeOK
      <4>. QED
        BY <1>7, <4>1, <4>2, <4>3, <4>4 DEF Live
    <3>. QED
      BY <3>1, <3>2
  <2>. QED
    BY <2>1 DEF TableSound, Live
<1>10. OldHashSound'
  <2>1. ASSUME NEW w2 \in Writers, NEW m \in oldHash[w2]
        PROVE  m \in Nodes /\ m # n /\ m # e /\ Live(m) /\ ~InTable(m)
    BY <1>2, <1>5, <2>1 DEF IInv, TypeOK, OldHashSound, Live
  <2>. QED
    BY <1>3, <1>6, <1>7, <2>1 DEF IInv, OldHashSound
<1>11. RawUnheld' /\ ReadersSound' /\ ClosedIsEmpty'
  <2>1. RawUnheld'
    BY <1>3, <1>7, <1>8 DEF IInv, RawUnheld
  <2>. QED
    BY <1>3, <2>1, ZenonT(30) DEF IInv, ReadersSound, ClosedIsEmpty
<1>12. Refs(n)' = 1
  <2>1. /\ \A r \in Readers : n \notin held'[r]
        /\ \A w2 \in Writers : n \notin oldHash'[w2]
    BY <1>2, <1>3 DEF IInv, RawUnheld, OldHashSound, Live
  <2>2. Holders(n)' = {} /\ Replacers(n)' = {}
    BY <2>1 DEF Holders, Replacers
  <2>3. InTable(n)'
    BY <1>6
  <2>. QED
    BY <2>2, <2>3, FS_EmptySet DEF Refs
<1>13. Refs(e)' = Cardinality(Holders(e))
  <2>1. Holders(e)' = Holders(e) /\ Replacers(e)' = {}
    BY <1>3, <1>5 DEF Holders, Replacers
  <2>2. ~InTable(e)'
    BY <1>5, <1>6
  <2>. QED
    BY <2>1, <2>2, RefsAreFinite, FS_EmptySet DEF Refs
<1>14. RefCountExact'
  <2>1. rc'[e] = Refs(e)'
    BY <1>5, <1>8, <1>13, RefsAreFinite
  <2>. QED
    BY <1>7, <1>8, <1>12, <2>1, ZenonT(30) DEF IInv, RefCountExact
<1>15. NoLeak'
  <2>1. ASSUME Live(e)' PROVE Holders(e)' # {}
    <3>1. Cardinality(Holders(e)) # 0
      BY <1>5, <1>8, <2>1 DEF Live
    <3>. QED
      BY <1>3, <3>1, FS_EmptySet, ZenonT(30) DEF Holders
  <2>2. InTable(n)'
    BY <1>6
  <2>3. ASSUME NEW m \in Nodes, m # n, m # e, Live(m)'
        PROVE  InTable(m)' \/ Replacers(m)' # {} \/ Holders(m)' # {}
    <3>1. InTable(m) \/ Replacers(m) # {} \/ Holders(m) # {}
      BY <1>7, <2>3, ZenonT(30) DEF IInv, NoLeak
    <3>. QED
      BY <1>3, <1>6, <2>3, <3>1, ZenonT(30) DEF Holders, Replacers
  <2>. QED
    BY <2>1, <2>2, <2>3 DEF NoLeak
<1>. QED
  BY <1>1, <1>9, <1>10, <1>11, <1>14, <1>15, ZenonT(30) DEF IInv

\* LDi_storePut keeps the counts exact when it swaps the table: the reference
\* of the table on the old nodes becomes the one of the put.
LEMMA PutSwapIInv ==
    ASSUME IInv, NEW w \in Writers, NEW ks \in SUBSET Keys,
           NEW new \in [ks -> Nodes], NEW fs \in [ks -> Flag],
           PutSwap(w, fs, new), \A k \in ks : fs[k].key = k
    PROVE  IInv'
<1>. DEFINE IsNew(m) == \E k \in ks : new[k] = m
<1>1. TypeOK'
  BY PutSwapTypeOK DEF IInv
<1>2. open /\ oldHash[w] = {} /\ UNCHANGED <<open, mode, held, borrowed>>
  BY DEF PutSwap, readerVars
<1>3. ASSUME NEW m \in Nodes PROVE InTable(m)' <=> IsNew(m)
  <2>1. \A k \in Keys : flags'[k] = IF k \in ks THEN new[k] ELSE NULL
    BY DEF PutSwap
  <2>. QED
    BY <2>1, NullIsNoNode DEF InTable
<1>4. ASSUME NEW m \in Nodes, IsNew(m)
      PROVE  /\ state[m] = "raw" /\ state'[m] = "live" /\ rc'[m] = 1
             /\ ~InTable(m)
             /\ \A w2 \in Writers : m \notin oldHash[w2]
             /\ \A r \in Readers : m \notin held[r]
  <2>1. state[m] = "raw" /\ state'[m] = "live" /\ rc'[m] = 1
    BY <1>4 DEF PutSwap
  <2>2. ~InTable(m)
    BY <2>1, NullIsNoNode DEF IInv, TableSound, Live, InTable
  <2>3. \A w2 \in Writers : m \notin oldHash[w2]
    BY <2>1 DEF IInv, OldHashSound, Live
  <2>4. \A r \in Readers : m \notin held[r]
    BY <2>1 DEF IInv, RawUnheld
  <2>. QED
    BY <2>1, <2>2, <2>3, <2>4
<1>5. ASSUME NEW m \in Nodes, ~IsNew(m)
      PROVE  state'[m] = state[m] /\ rc'[m] = rc[m] /\ flag'[m] = flag[m]
  BY <1>5 DEF PutSwap
<1>6. \A w2 \in Writers :
        oldHash'[w2] = IF w2 = w THEN {n \in Nodes : InTable(n)} ELSE oldHash[w2]
  BY DEF PutSwap, IInv, TypeOK
<1>7. ASSUME NEW m \in Nodes
      PROVE  /\ InTable(m) => Replacers(m)' = {w}
             /\ ~InTable(m) => Replacers(m)' = Replacers(m)
             /\ Holders(m)' = Holders(m)
  <2>1. ASSUME InTable(m) PROVE Replacers(m)' = {w}
    <3>1. \A w2 \in Writers : m \notin oldHash[w2]
      BY <2>1 DEF IInv, OldHashSound
    <3>. QED
      BY <1>6, <2>1, <3>1, Zenon DEF Replacers
  <2>2. ASSUME ~InTable(m) PROVE Replacers(m)' = Replacers(m)
    BY <1>2, <1>6, <2>2, Zenon DEF Replacers
  <2>3. Holders(m)' = Holders(m)
    BY <1>2 DEF Holders
  <2>. QED
    BY <2>1, <2>2, <2>3
<1>8. TableSound'
  <2>1. ASSUME NEW k \in Keys, flags'[k] # NULL
        PROVE  state'[flags'[k]] = "live" /\ flag'[flags'[k]].key = k
    <3>1. k \in ks /\ flags'[k] = new[k] /\ new[k] \in Nodes
      BY <2>1 DEF PutSwap
    <3>2. flag'[new[k]] = fs[CHOOSE k2 \in ks : new[k2] = new[k]]
      BY <3>1 DEF PutSwap
    <3>3. (CHOOSE k2 \in ks : new[k2] = new[k]) = k
      BY <3>1 DEF PutSwap
    <3>. QED
      BY <1>4, <3>1, <3>2, <3>3, ZenonT(40)
  <2>. QED
    BY <2>1 DEF TableSound, Live
<1>9. OldHashSound'
  <2>1. ASSUME NEW w2 \in Writers, NEW n \in oldHash'[w2]
        PROVE  n \in Nodes /\ Live(n) /\ ~IsNew(n)
    <3>1. CASE w2 = w
      <4>1. n \in Nodes /\ InTable(n)
        BY <1>6, <2>1, <3>1, Zenon
      <4>. QED
        BY <1>4, <4>1, NullIsNoNode DEF IInv, TableSound, InTable
    <3>2. CASE w2 # w
      <4>1. n \in Nodes /\ n \in oldHash[w2]
        BY <1>6, <2>1, <3>2, Zenon DEF IInv, TypeOK
      <4>. QED
        BY <1>4, <4>1 DEF IInv, OldHashSound
    <3>. QED
      BY <3>1, <3>2
  <2>2. ASSUME NEW w2 \in Writers, NEW n \in oldHash'[w2]
        PROVE  Live(n)' /\ ~InTable(n)'
    BY <1>3, <1>5, <2>1, <2>2 DEF Live
  <2>3. ASSUME NEW w2 \in Writers, NEW n \in oldHash'[w2],
               NEW w3 \in Writers, n \in oldHash'[w3]
        PROVE  w3 = w2
    BY <1>2, <1>6, <2>3, Zenon DEF IInv, OldHashSound
  <2>. QED
    BY <2>2, <2>3 DEF OldHashSound
<1>10. RawUnheld' /\ ReadersSound' /\ ClosedIsEmpty'
  <2>1. RawUnheld'
    BY <1>2, <1>4, <1>5 DEF IInv, RawUnheld
  <2>. QED
    BY <1>2, <2>1, ZenonT(30) DEF IInv, ReadersSound, ClosedIsEmpty
<1>11. ASSUME NEW m \in Nodes, Live(m)' PROVE rc'[m] = Refs(m)'
  <2>1. CASE IsNew(m)
    <3>1. InTable(m)' /\ Replacers(m)' = {} /\ Holders(m)' = {} /\ rc'[m] = 1
      BY <1>3, <1>4, <1>7, <2>1, ZenonT(30) DEF Replacers, Holders
    <3>. QED
      BY <3>1, FS_EmptySet DEF Refs
  <2>2. CASE ~IsNew(m) /\ InTable(m)
    <3>1. rc[m] = 1 + Cardinality(Holders(m))
      BY <2>2, TableNodeRefs, NullIsNoNode DEF InTable
    <3>2. ~InTable(m)' /\ Replacers(m)' = {w} /\ Holders(m)' = Holders(m)
      BY <1>3, <1>7, <2>2
    <3>3. Refs(m)' = 0 + 1 + Cardinality(Holders(m))
      BY <3>2, FS_Singleton, Zenon DEF Refs
    <3>. QED
      BY <1>5, <2>2, <3>1, <3>3
  <2>3. CASE ~IsNew(m) /\ ~InTable(m)
    <3>1. Refs(m)' = Refs(m)
      BY <1>3, <1>7, <2>3, ZenonT(30) DEF Refs
    <3>2. rc[m] = Refs(m)
      BY <1>5, <1>11, <2>3 DEF IInv, RefCountExact, Live
    <3>. QED
      BY <1>5, <2>3, <3>1, <3>2, ZenonT(30)
  <2>. QED
    BY <2>1, <2>2, <2>3
<1>12. ASSUME NEW m \in Nodes, Live(m)'
       PROVE  InTable(m)' \/ Replacers(m)' # {} \/ Holders(m)' # {}
  <2>1. CASE IsNew(m) \/ InTable(m)
    BY <1>3, <1>7, <2>1, Zenon
  <2>2. CASE ~IsNew(m) /\ ~InTable(m)
    <3>1. Live(m)
      BY <1>5, <1>12, <2>2, ZenonT(30) DEF Live
    <3>. QED
      BY <1>7, <2>2, <3>1 DEF IInv, NoLeak
  <2>. QED
    BY <2>1, <2>2
<1>. QED
  BY <1>1, <1>8, <1>9, <1>10, <1>11, <1>12 DEF IInv, RefCountExact, NoLeak

\* LDi_storeFreeHash frees a node that is in nobody's table.  A reader that
\* holds the node keeps it; only its count stops to matter.
LEMMA PutFreeIInv ==
    ASSUME IInv, TypeOK', NEW w \in Writers, NEW n \in Nodes, PutFree(w, n)
    PROVE  IInv'
<1>1. /\ n \in oldHash[w]
      /\ UNCHANGED <<open, flags, flag, rc, mode, held, borrowed>>
  BY DEF PutFree, readerVars
<1>2. /\ state'[n] = "freed"
      /\ \A m \in Nodes : m # n => state'[m] = state[m]
  BY DEF PutFree, IInv, TypeOK
<1>3. \A w2 \in Writers :
        oldHash'[w2] = IF w2 = w THEN oldHash[w] \ {n} ELSE oldHash[w2]
  BY ZenonT(30) DEF PutFree, IInv, TypeOK
<1>4. ~InTable(n) /\ \A w2 \in Writers : n \notin oldHash'[w2]
  BY <1>1, <1>3 DEF IInv, OldHashSound
<1>5. ASSUME NEW m \in Nodes
      PROVE  (InTable(m)' <=> InTable(m)) /\ Holders(m)' = Holders(m)
  BY <1>1 DEF InTable, Holders
<1>6. ASSUME NEW m \in Nodes, m # n PROVE Replacers(m)' = Replacers(m)
  BY <1>3, <1>6, ZenonT(30) DEF Replacers
<1>7. TableSound'
  <2>1. ASSUME NEW k \in Keys, flags[k] # NULL
        PROVE  flags[k] # n /\ flags[k] \in Nodes
    BY <1>4, <2>1, ZenonT(30) DEF InTable, IInv, TypeOK
  <2>. QED
    BY <1>1, <1>2, <2>1, ZenonT(30) DEF IInv, TableSound, Live
<1>8. OldHashSound'
  <2>1. ASSUME NEW w2 \in Writers, NEW m \in oldHash'[w2]
        PROVE  m \in Nodes /\ m # n /\ m \in oldHash[w2]
    BY <1>3, <1>4, <2>1, ZenonT(40) DEF IInv, TypeOK
  <2>. QED
    BY <1>2, <1>5, <2>1 DEF IInv, OldHashSound, Live
<1>9. RawUnheld' /\ ReadersSound' /\ ClosedIsEmpty'
  <2>1. RawUnheld'
    BY <1>1, <1>2 DEF IInv, RawUnheld
  <2>. QED
    BY <1>1, <2>1, ZenonT(40) DEF IInv, ReadersSound, ClosedIsEmpty
<1>10. ASSUME NEW m \in Nodes, Live(m)'
       PROVE  /\ rc'[m] = Refs(m)'
              /\ InTable(m)' \/ Replacers(m)' # {} \/ Holders(m)' # {}
  <2>1. m # n /\ Live(m)
    BY <1>2, <1>10 DEF Live
  <2>2. Refs(m)' = Refs(m)
    BY <1>5, <1>6, <2>1 DEF Refs
  <2>. QED
    BY <1>1, <1>5, <1>6, <2>1, <2>2, Zenon DEF IInv, RefCountExact, NoLeak
<1>. QED
  BY <1>7, <1>8, <1>9, <1>10 DEF IInv, RefCountExact, NoLeak
=============================================================================
