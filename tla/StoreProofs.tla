----------------------------- MODULE StoreProofs ------------------------------
(***************************************************************************)
(* Proofs about the flag store, for any number of keys, versions, nodes,   *)
(* readers, writers and callbacks: its reference counts and its table,     *)
(* what a step may never do, that it implements the atomic map of module   *)
(* FlagMap, and that its listeners can rely on the deletions they are told *)
(* of.                                                                     *)
(***************************************************************************)
EXTENDS StoreInvariant

\* A reader that takes counted references on nodes of the table keeps the
\* counts exact (LDi_storeGet, LDi_storeGetAll: LDi_rc_increment).
LEMMA AcquireIInv ==
    ASSUME IInv, TypeOK', NEW r \in Readers, NEW S \in SUBSET Nodes,
           \A n \in S : InTable(n),
           mode[r] = "idle", mode'[r] # "idle",
           mode'[r] = "text" => \A n1, n2 \in S : n1 = n2,
           \A r2 \in Readers : r2 # r => mode'[r2] = mode[r2],
           held' = [held EXCEPT ![r] = S],
           \A n \in Nodes : rc'[n] = IF n \in S THEN rc[n] + 1 ELSE rc[n],
           UNCHANGED <<open, flags, state, flag, borrowed, oldHash>>
    PROVE  IInv'
<1>1. held[r] = {} /\ borrowed[r] = NULL
  BY DEF IInv, ReadersSound
<1>2. \A r2 \in Readers : held'[r2] = IF r2 = r THEN S ELSE held[r2]
  BY DEF IInv, TypeOK
<1>3. ASSUME NEW n \in Nodes
      PROVE  /\ InTable(n)' <=> InTable(n)
             /\ Live(n)' <=> Live(n)
             /\ Replacers(n)' = Replacers(n)
             /\ Holders(n)' = IF n \in S THEN Holders(n) \cup {r} ELSE Holders(n)
  <2>1. Holders(n)' = IF n \in S THEN Holders(n) \cup {r} ELSE Holders(n)
    BY <1>1, <1>2 DEF Holders
  <2>. QED
    BY <2>1 DEF InTable, Live, Replacers
<1>4. TableSound'
  BY DEF IInv, TableSound, Live
<1>5. OldHashSound'
  BY DEF IInv, OldHashSound, Live, InTable
<1>6. RawUnheld'
  <2>1. \A n \in S : state[n] # "raw"
    BY NullIsNoNode DEF IInv, TableSound, InTable, Live
  <2>. QED
    BY <1>2, <2>1 DEF IInv, RawUnheld
<1>7. ReadersSound' /\ ClosedIsEmpty'
  <2>1. ReadersSound'
    BY <1>1, <1>2 DEF IInv, ReadersSound
  <2>. QED
    BY <2>1 DEF IInv, ClosedIsEmpty
<1>8. ASSUME NEW n \in Nodes, Live(n)'
      PROVE  /\ rc'[n] = Refs(n)'
             /\ InTable(n)' \/ Replacers(n)' # {} \/ Holders(n)' # {}
  <2>1. rc[n] = Refs(n) /\ (InTable(n) \/ Replacers(n) # {} \/ Holders(n) # {})
    BY <1>3, <1>8 DEF IInv, RefCountExact, NoLeak
  <2>2. CASE n \in S
    <3>1. r \notin Holders(n)
      BY <1>1 DEF Holders
    <3>2. Cardinality(Holders(n)') = Cardinality(Holders(n)) + 1
      BY <1>3, <2>2, <3>1, RefsAreFinite, FS_AddElement, ZenonT(30)
    <3>3. Refs(n)' = Refs(n) + 1
      BY <1>3, <3>2, RefsAreFinite DEF Refs
    <3>. QED
      BY <1>3, <2>1, <2>2, <3>3
  <2>3. CASE n \notin S
    <3>1. Refs(n)' = Refs(n)
      BY <1>3, <2>3 DEF Refs
    <3>. QED
      BY <1>3, <2>1, <2>3, <3>1
  <2>. QED
    BY <2>2, <2>3
<1>. QED
  BY <1>4, <1>5, <1>6, <1>7, <1>8 DEF IInv, RefCountExact, NoLeak

\* A reader that gives a reference back keeps the counts exact, and destroys
\* the node only when it held the last reference (LDi_rc_decrement).
LEMMA ReleaseIInv ==
    ASSUME IInv, TypeOK', NEW r \in Readers, NEW n \in Nodes, Release(r, n)
    PROVE  IInv'
<1>1. n \in held[r] /\ UNCHANGED <<open, flags, flag, oldHash>>
  BY DEF Release
<1>2. /\ rc'[n] = rc[n] - 1
      /\ \A m \in Nodes : m # n => rc'[m] = rc[m] /\ state'[m] = state[m]
      /\ state'[n] = IF rc[n] = 1 THEN "freed" ELSE state[n]
  BY DEF Release, StateAfterDecrement, IInv, TypeOK
<1>3. \A r2 \in Readers : held'[r2] = IF r2 = r THEN held[r] \ {n} ELSE held[r2]
  BY DEF Release, IInv, TypeOK
<1>4. ASSUME NEW m \in Nodes
      PROVE  /\ InTable(m)' <=> InTable(m)
             /\ Replacers(m)' = Replacers(m)
             /\ Holders(m)' = IF m = n THEN Holders(m) \ {r} ELSE Holders(m)
  <2>1. Holders(m)' = IF m = n THEN Holders(m) \ {r} ELSE Holders(m)
    BY <1>3 DEF Holders
  <2>. QED
    BY <1>1, <2>1 DEF InTable, Replacers
<1>5. Cardinality(Holders(n)') = Cardinality(Holders(n)) - 1
      /\ Cardinality(Holders(n)') \in Nat
  <2>1. r \in Holders(n)
    BY <1>1 DEF Holders
  <2>2. Holders(n)' = Holders(n) \ {r}
    BY <1>4
  <2>3. IsFiniteSet(Holders(n)) /\ Cardinality(Holders(n)) \in Nat
    BY RefsAreFinite
  <2>. QED
    BY <2>1, <2>2, <2>3, FS_RemoveElement, FS_CardinalityType
<1>6. Refs(n)' = Refs(n) - 1
  BY <1>4, <1>5, RefsAreFinite DEF Refs
<1>7. ASSUME Live(n), rc[n] = 1
      PROVE  ~InTable(n) /\ \A w \in Writers : n \notin oldHash[w]
  <2>1. Refs(n) = 1
    BY <1>7 DEF IInv, RefCountExact
  <2>2. ~InTable(n) /\ Cardinality(Replacers(n)) = 0
    BY <1>5, <2>1, RefsAreFinite DEF Refs
  <2>3. Replacers(n) = {}
    BY <2>2, RefsAreFinite, FS_EmptySet
  <2>. QED
    BY <2>2, <2>3 DEF Replacers
<1>8. ASSUME NEW m \in Nodes, Live(m), InTable(m) \/ \E w \in Writers : m \in oldHash[w]
      PROVE  Live(m)'
  BY <1>2, <1>7, <1>8 DEF Live
<1>9. TableSound'
  <2>1. ASSUME NEW k \in Keys, flags[k] # NULL
        PROVE  flags[k] \in Nodes /\ Live(flags[k]) /\ InTable(flags[k])
    BY <2>1 DEF IInv, TypeOK, TableSound, InTable
  <2>. QED
    BY <1>1, <1>8, <2>1 DEF IInv, TableSound, Live
<1>10. OldHashSound'
  <2>1. ASSUME NEW w \in Writers, NEW m \in oldHash[w]
        PROVE  m \in Nodes /\ Live(m)' /\ ~InTable(m)'
    BY <1>4, <1>8, <2>1 DEF IInv, TypeOK, OldHashSound
  <2>. QED
    BY <1>1, <2>1, ZenonT(30) DEF IInv, OldHashSound
<1>11. RawUnheld'
  BY <1>1, <1>2, <1>3, ZenonT(30) DEF IInv, RawUnheld
<1>12. ReadersSound'
  <2>1. ASSUME NEW r2 \in Readers, r2 # r
        PROVE  mode'[r2] = mode[r2] /\ borrowed'[r2] = borrowed[r2]
    BY <2>1 DEF Release, IInv, TypeOK
  <2>2. /\ borrowed'[r] = IF mode[r] = "text" THEN n ELSE NULL
        /\ mode'[r] = IF mode[r] # "text" /\ held[r] = {n} THEN "idle" ELSE mode[r]
    BY DEF Release, IInv, TypeOK
  <2>3. mode[r] # "idle"
    BY <1>1 DEF IInv, ReadersSound
  <2>4. mode[r] = "text" => held'[r] = {}
    BY <1>1, <1>3 DEF IInv, ReadersSound
  <2>5. /\ mode'[r] = "idle" => held'[r] = {} /\ borrowed'[r] = NULL
        /\ mode'[r] = "text" => \A n1, n2 \in held'[r] : n1 = n2
        /\ borrowed'[r] # NULL => mode'[r] = "text" /\ held'[r] = {}
    BY <1>3, <2>2, <2>3, <2>4
  <2>. QED
    BY <1>3, <2>1, <2>5, ZenonT(30) DEF IInv, ReadersSound
<1>13. ClosedIsEmpty'
  BY <1>1 DEF IInv, ClosedIsEmpty
<1>14. ASSUME NEW m \in Nodes, Live(m)'
       PROVE  /\ rc'[m] = Refs(m)'
              /\ InTable(m)' \/ Replacers(m)' # {} \/ Holders(m)' # {}
  <2>1. CASE m # n
    <3>1. Refs(m)' = Refs(m) /\ Live(m)
      BY <1>2, <1>4, <1>14, <2>1, ZenonT(30) DEF Refs, Live
    <3>. QED
      BY <1>2, <1>4, <2>1, <3>1, ZenonT(30) DEF IInv, RefCountExact, NoLeak
  <2>2. CASE m = n
    <3>1. Live(n) /\ rc[n] # 1 /\ rc[n] = Refs(n)
      BY <1>2, <1>14, <2>2 DEF Live, IInv, RefCountExact
    <3>2. Refs(n)' # 0
      BY <1>6, <3>1, RefsAreFinite
    <3>3. InTable(n)' \/ Replacers(n)' # {} \/ Holders(n)' # {}
      BY <3>2, FS_EmptySet DEF Refs
    <3>. QED
      BY <1>2, <1>6, <2>2, <3>1, <3>3, ZenonT(30)
  <2>. QED
    BY <2>1, <2>2
<1>. QED
  BY <1>9, <1>10, <1>11, <1>12, <1>13, <1>14 DEF IInv, RefCountExact, NoLeak

\* LDi_storeDestroy frees what the table holds; no reader and no put is left.
LEMMA DestroyIInv ==
    ASSUME IInv, TypeOK', Destroy
    PROVE  IInv'
<1>1. /\ \A r \in Readers : held[r] = {}
      /\ \A w \in Writers : oldHash[w] = {}
      /\ UNCHANGED <<flag, rc, mode, held, borrowed, oldHash>>
  BY DEF Destroy, IInv, ReadersSound, readerVars
<1>2. \A k \in Keys : flags'[k] = NULL
  BY DEF Destroy
<1>3. ASSUME NEW n \in Nodes PROVE ~Live(n)'
  <2>1. Holders(n) = {} /\ Replacers(n) = {}
    BY <1>1 DEF Holders, Replacers
  <2>2. Live(n) => InTable(n)
    BY <2>1 DEF IInv, NoLeak
  <2>3. state'[n] = IF InTable(n) THEN "freed" ELSE state[n]
    BY DEF Destroy
  <2>. QED
    BY <2>2, <2>3 DEF Live
<1>4. TableSound' /\ OldHashSound' /\ ClosedIsEmpty'
  BY <1>1, <1>2, ZenonT(30) DEF TableSound, OldHashSound, ClosedIsEmpty
<1>5. RawUnheld' /\ ReadersSound'
  BY <1>1 DEF RawUnheld, IInv, ReadersSound
<1>. QED
  BY <1>3, <1>4, <1>5 DEF IInv, RefCountExact, NoLeak

\* The steps that leave the table, the nodes, the references and the puts in
\* progress alone: listeners, LDi_storeInitialize, the copy of a text.
LEMMA OtherIInv ==
    ASSUME IInv, TypeOK', ReadersSound',
           open \/ (\A k \in Keys : flags[k] = NULL),
           flags' = flags,
           ~open' => \A k \in Keys : flags[k] = NULL,
           UNCHANGED <<nodeVars, held, oldHash>>
    PROVE  IInv'
<1>. USE DEF nodeVars
<1>1. ASSUME NEW n \in Nodes
      PROVE  /\ InTable(n)' <=> InTable(n)
             /\ Live(n)' <=> Live(n)
             /\ Holders(n)' = Holders(n) /\ Replacers(n)' = Replacers(n)
             /\ Refs(n)' = Refs(n)
  BY DEF InTable, Live, Holders, Replacers, Refs
<1>2. TableSound' /\ OldHashSound' /\ RawUnheld' /\ ClosedIsEmpty'
  BY DEF IInv, TableSound, OldHashSound, RawUnheld, ClosedIsEmpty, Live, InTable
<1>3. RefCountExact' /\ NoLeak'
  BY <1>1 DEF IInv, RefCountExact, NoLeak
<1>. QED
  BY <1>2, <1>3, ZenonT(30) DEF IInv

\* An empty store satisfies the inductive invariant.
LEMMA InitIInv == Init => IInv
<1>. SUFFICES ASSUME Init PROVE IInv
  OBVIOUS
<1>1. TypeOK
  BY InitTypeOK
<1>. QED
  BY <1>1 DEF Init, IInv, TableSound, OldHashSound, RawUnheld, ReadersSound,
              ClosedIsEmpty, RefCountExact, NoLeak, Live

\* Every step of the store preserves the inductive invariant.
LEMMA NextIInv == IInv /\ [Next]_vars => IInv'
<1>. SUFFICES ASSUME IInv, [Next]_vars PROVE IInv'
  OBVIOUS
<1>0. TypeOK'
  BY NextTypeOK DEF IInv
<1>1. ASSUME NEW w \in Writers, Patch(w) \/ Delete(w) PROVE IInv'
  <2>1. PICK f \in Flag : Upsert(w, f)
    BY <1>1, PatchDeleteIsUpsert
  <2>2. CASE UpsertNew(w, f)
    BY <2>2, UpsertNewIInv
  <2>3. CASE UpsertIncreased(w, f)
    BY <2>3, UpsertIncreasedIInv, ZenonT(30)
  <2>4. CASE UpsertStale(w, f)
    <3>1. UNCHANGED vars
      BY <2>4, ZenonT(30) DEF UpsertStale
    <3>2. ReadersSound'
      BY <3>1 DEF vars, readerVars, IInv, ReadersSound
    <3>. QED
      BY <1>0, <3>1, <3>2, OtherIInv DEF vars, readerVars, IInv, ClosedIsEmpty
  <2>. QED
    BY <2>1, <2>2, <2>3, <2>4 DEF Upsert
<1>2. ASSUME NEW w \in Writers, Put(w) PROVE IInv'
  BY <1>2, PutIsPutSwap, PutSwapIInv, Zenon
<1>3. ASSUME NEW w \in Writers, NEW n \in Nodes, PutFree(w, n) PROVE IInv'
  BY <1>0, <1>3, PutFreeIInv
<1>4. ASSUME NEW r \in Readers, NEW k \in Keys, NEW m \in {"scalar", "text"},
             Get(r, k, m)
      PROVE  IInv'
  <2>1. PICK S \in SUBSET Nodes : S = {flags[k]}
    BY <1>4, TableNodeRefs, Zenon DEF Get
  <2>2. /\ \A n \in S : InTable(n)
        /\ mode[r] = "idle" /\ mode'[r] # "idle"
        /\ \A n1, n2 \in S : n1 = n2
        /\ \A r2 \in Readers : r2 # r => mode'[r2] = mode[r2]
        /\ held' = [held EXCEPT ![r] = S]
    BY <1>4, <2>1, ZenonT(30) DEF Get, InTable, IInv, TypeOK
  <2>3. \A n \in Nodes : rc'[n] = IF n \in S THEN rc[n] + 1 ELSE rc[n]
    BY <1>4, <2>1, ZenonT(30) DEF Get, IInv, TypeOK
  <2>4. UNCHANGED <<open, flags, state, flag, borrowed, oldHash>>
    BY <1>4 DEF Get
  <2>. QED
    BY <1>0, <2>2, <2>3, <2>4, AcquireIInv, Zenon
<1>5. ASSUME NEW r \in Readers, GetAll(r) PROVE IInv'
  <2>1. PICK S \in SUBSET Nodes : S = {n \in Nodes : InTable(n)}
    BY Zenon
  <2>2. /\ \A n \in S : InTable(n)
        /\ mode[r] = "idle" /\ mode'[r] = "all"
        /\ \A r2 \in Readers : r2 # r => mode'[r2] = mode[r2]
        /\ held' = [held EXCEPT ![r] = S]
    BY <1>5, <2>1 DEF GetAll, IInv, TypeOK
  <2>3. \A n \in Nodes : rc'[n] = IF n \in S THEN rc[n] + 1 ELSE rc[n]
    BY <1>5, <2>1 DEF GetAll
  <2>4. UNCHANGED <<open, flags, state, flag, borrowed, oldHash>>
    BY <1>5 DEF GetAll
  <2>. QED
    BY <1>0, <2>2, <2>3, <2>4, AcquireIInv, Zenon
<1>6. ASSUME NEW r \in Readers, NEW n \in Nodes, Release(r, n) PROVE IInv'
  BY <1>0, <1>6, ReleaseIInv
<1>7. ASSUME NEW r \in Readers, CopyText(r) PROVE IInv'
  <2>1. ReadersSound'
    BY <1>7 DEF CopyText, IInv, ReadersSound, TypeOK
  <2>. QED
    BY <1>0, <1>7, <2>1, OtherIInv, ZenonT(30) DEF CopyText, IInv, ClosedIsEmpty
<1>8. ASSUME NEW l \in Keys \X Callbacks,
             RegisterListener(l) \/ UnregisterListener(l)
      PROVE  IInv'
  <2>1. open /\ UNCHANGED <<open, flags, nodeVars, readerVars, oldHash>>
    BY <1>8, ZenonT(30) DEF RegisterListener, UnregisterListener
  <2>2. ReadersSound'
    BY <2>1 DEF readerVars, IInv, ReadersSound
  <2>. QED
    BY <1>0, <2>1, <2>2, OtherIInv, ZenonT(30) DEF readerVars
<1>9. CASE Destroy
  BY <1>0, <1>9, DestroyIInv
<1>10. CASE Initialize
  <2>1. /\ open' /\ flags' = [k \in Keys |-> NULL]
        /\ UNCHANGED <<nodeVars, readerVars, oldHash>>
        /\ \A k \in Keys : flags[k] = NULL
    BY <1>10 DEF Initialize, IInv, ClosedIsEmpty
  <2>2. flags' = flags
    BY <2>1, ZenonT(30) DEF IInv, TypeOK
  <2>3. ReadersSound'
    BY <2>1 DEF readerVars, IInv, ReadersSound
  <2>. QED
    BY <1>0, <2>1, <2>2, <2>3, OtherIInv DEF readerVars
<1>11. CASE UNCHANGED vars
  <2>1. ReadersSound'
    BY <1>11 DEF vars, readerVars, IInv, ReadersSound
  <2>. QED
    BY <1>0, <1>11, <2>1, OtherIInv, ZenonT(30) DEF vars, readerVars, IInv, ClosedIsEmpty
<1>. QED
  BY ZenonT(30), <1>1, <1>2, <1>3, <1>4, <1>5, <1>6, <1>7, <1>8, <1>9, <1>10, <1>11
  DEF Next, Write, Read

\* The inductive invariant holds throughout.
LEMMA Invariance == Spec => []IInv
  BY InitIInv, NextIInv, PTL DEF Spec

\* The reference counts of store.c and reference_count.c are exact, for any
\* number of readers, writers and flags.
THEOREM RefCountsCorrect == Spec => []RefCountExact
<1>1. IInv => RefCountExact
  BY DEF IInv
<1>. QED
  BY <1>1, Invariance, PTL

\* The store leaks no node.
THEOREM NothingLeaks == Spec => []NoLeak
<1>1. IInv => NoLeak
  BY DEF IInv
<1>. QED
  BY <1>1, Invariance, PTL

\* The table points at live nodes, under their own keys.
THEOREM TableCorrect == Spec => []TableSound
<1>1. IInv => TableSound
  BY ZenonT(30) DEF IInv
<1>. QED
  BY <1>1, Invariance, PTL

-----------------------------------------------------------------------------
(***************************************************************************)
(* What a step of the store may never do.                                  *)
(***************************************************************************)
\* Only the put that replaced the table frees a node that a reader keeps.
LEMMA NextHeldNodes == IInv /\ [Next]_vars => [HeldNodeFreedByPut]_vars
<1>. SUFFICES ASSUME IInv, Next,
                     NEW n \in Nodes, NEW r \in Readers,
                     Live(n), ~Live(n)', n \in held[r], n \in held'[r]
              PROVE  \E w \in Writers : n \in oldHash[w]
  BY DEF HeldNodeFreedByPut, Replacers
<1>0. /\ state[n] = "live" /\ state' # state /\ state'[n] # "live"
      /\ Cardinality(Holders(n)) # 0
  <2>1. r \in Holders(n)
    BY ZenonT(30) DEF Holders
  <2>. QED
    BY <2>1, RefsAreFinite, FS_EmptySet DEF Live
<1>1. ASSUME NEW w \in Writers, Patch(w) \/ Delete(w) PROVE FALSE
  <2>1. PICK f \in Flag : Upsert(w, f)
    BY <1>1, PatchDeleteIsUpsert, Zenon
  <2>2. UpsertIncreased(w, f)
    BY <1>0, <2>1, ZenonT(30) DEF Upsert, UpsertNew, Allocated, UpsertStale,
                                vars, nodeVars, IInv, TypeOK
  <2>3. n = flags[f.key] /\ rc[n] = 1
    BY <1>0, <2>2, ZenonT(30) DEF UpsertIncreased, StateAfterDecrement, IInv, TypeOK
  <2>4. rc[n] = 1 + Cardinality(Holders(n))
    BY <2>2, <2>3, TableNodeRefs, ZenonT(30) DEF UpsertIncreased, VersionIncreased, Flag
  <2>. QED
    BY <1>0, <2>3, <2>4, RefsAreFinite
<1>2. ASSUME NEW w \in Writers, Put(w) PROVE FALSE
  <2>0. PICK ks \in SUBSET Keys :
           \E new \in [ks -> Nodes], fs \in [ks -> Flag] : PutSwap(w, fs, new)
    BY <1>2, PutIsPutSwap, Zenon
  <2>1. PICK new \in [ks -> Nodes], fs \in [ks -> Flag] : PutSwap(w, fs, new)
    BY <2>0, ZenonT(30)
  <2>2. state'[n] = IF \E k \in DOMAIN new : new[k] = n THEN "live" ELSE state[n]
    BY <2>1, ZenonT(30) DEF PutSwap
  <2>. QED
    BY <1>0, <2>2
<1>3. ASSUME NEW w \in Writers, NEW m \in Nodes, PutFree(w, m)
      PROVE  n \in oldHash[w]
  BY <1>0, <1>3, ZenonT(30) DEF PutFree, IInv, TypeOK
<1>4. ASSUME NEW r2 \in Readers, NEW m \in Nodes, Release(r2, m) PROVE FALSE
  <2>1. m = n /\ rc[n] = 1 /\ r2 # r /\ n \in held[r2]
    BY <1>0, <1>4, ZenonT(30) DEF Release, StateAfterDecrement, IInv, TypeOK
  <2>2. Refs(n) = 1
    BY <1>0, <2>1 DEF IInv, RefCountExact
  <2>3. Cardinality(Holders(n)) <= 1
    BY <2>2, RefsAreFinite DEF Refs
  <2>4. r \in Holders(n) /\ r2 \in Holders(n)
    BY <2>1, ZenonT(30) DEF Holders
  <2>5. Cardinality(Holders(n) \ {r2}) = 0
    <3>1. Cardinality(Holders(n) \ {r2}) = Cardinality(Holders(n)) - 1
      BY <2>4, RefsAreFinite, FS_RemoveElement, Zenon
    <3>. QED
      BY <1>0, <2>3, <3>1, RefsAreFinite
  <2>6. IsFiniteSet(Holders(n) \ {r2})
    BY RefsAreFinite, FS_Difference, Zenon
  <2>. QED
    BY <2>1, <2>4, <2>5, <2>6, FS_EmptySet
<1>5. CASE Destroy
  BY <1>5, ZenonT(30) DEF Destroy, IInv, ReadersSound
<1>6. ASSUME NEW r2 \in Readers,
             (\E k \in Keys, m \in {"scalar", "text"} : Get(r2, k, m))
                 \/ GetAll(r2) \/ CopyText(r2)
      PROVE  FALSE
  BY <1>0, <1>6 DEF Get, GetAll, CopyText, nodeVars
<1>7. ASSUME (\E l \in Keys \X Callbacks : RegisterListener(l) \/ UnregisterListener(l))
                 \/ Initialize
      PROVE  FALSE
  BY <1>0, <1>7 DEF RegisterListener, UnregisterListener, Initialize, nodeVars
<1>. QED
  BY <1>1, <1>2, <1>3, <1>4, <1>5, <1>6, <1>7, ZenonT(30) DEF Next, Write, Read

\* A counted reference protects its node from upserts, deletions and the other
\* readers, for any number of them.
THEOREM CountsProtectNodes == Spec => OnlyPutFreesHeldNode
  BY Invariance, NextHeldNodes, PTL DEF Spec, OnlyPutFreesHeldNode

\* A step that neither puts nor destroys replaces an entry by a newer one.
LEMMA NextVersions == IInv /\ [Next]_vars => [EntryReplacedByNewer]_vars
<1>. SUFFICES ASSUME IInv, Next,
                     NEW k \in Keys, flags[k] # NULL, flags'[k] # flags[k]
              PROVE  \/ ~open'
                     \/ \E w \in Writers : flags[k] \in oldHash'[w]
                     \/ /\ flags'[k] # NULL
                        /\ flag'[flags'[k]].version > flag[flags[k]].version
  BY DEF EntryReplacedByNewer
<1>0. flags[k] \in Nodes /\ InTable(flags[k])
  BY ZenonT(30) DEF IInv, TypeOK, InTable
<1>1. ASSUME NEW w \in Writers, Patch(w) \/ Delete(w)
      PROVE  flags'[k] # NULL /\ flag'[flags'[k]].version > flag[flags[k]].version
  <2>1. PICK f \in Flag : Upsert(w, f)
    BY <1>1, PatchDeleteIsUpsert
  <2>2. flags' # flags
    OBVIOUS
  <2>3. UpsertIncreased(w, f) /\ k = f.key
    BY <2>1, <2>2, Zenon DEF Upsert, UpsertNew, UpsertIncreased, UpsertStale, vars,
                      VersionNew, IInv, TypeOK
  <2>4. PICK n \in Nodes : /\ flag' = [flag EXCEPT ![n] = f]
                           /\ flags' = [flags EXCEPT ![f.key] = n]
    BY <2>3, Zenon DEF UpsertIncreased
  <2>5. flags'[k] = n /\ flag'[n] = f
    BY <2>3, <2>4, ZenonT(30) DEF IInv, TypeOK
  <2>. QED
    BY <2>3, <2>5, NullIsNoNode, ZenonT(30) DEF UpsertIncreased, VersionIncreased
<1>2. ASSUME NEW w \in Writers, Put(w) PROVE flags[k] \in oldHash'[w]
  BY <1>0, <1>2 DEF Put, PutSwap, IInv, TypeOK
<1>3. CASE Destroy
  BY <1>3, Zenon DEF Destroy
<1>4. CASE Initialize
  BY <1>4 DEF Initialize, IInv, ClosedIsEmpty
<1>5. ASSUME NEW w \in Writers, \E n \in Nodes : PutFree(w, n) PROVE FALSE
  BY <1>5, ZenonT(30) DEF PutFree
<1>6. ASSUME NEW r \in Readers, Read(r) PROVE FALSE
  BY <1>6 DEF Read, Get, GetAll, Release, CopyText
<1>7. ASSUME NEW l \in Keys \X Callbacks,
             RegisterListener(l) \/ UnregisterListener(l)
      PROVE  FALSE
  BY <1>7 DEF RegisterListener, UnregisterListener
<1>. QED
  BY <1>1, <1>2, <1>3, <1>4, <1>5, <1>6, <1>7, ZenonT(30) DEF Next, Write

\* Stale updates never replace a flag, for any versions.
THEOREM StaleUpdatesDiscarded == Spec => VersionsOnlyRise
  BY Invariance, NextVersions, PTL DEF Spec, VersionsOnlyRise


-----------------------------------------------------------------------------
(***************************************************************************)
(* The store implements the atomic map.                                    *)
(***************************************************************************)
\* A store that does not exist has no listeners.
ClosedIsSilent == ~open => listeners = {}

\* LDi_storeDestroy frees the listeners.
LEMMA SilentInvariance == Spec => []ClosedIsSilent
<1>1. Init => ClosedIsSilent
  BY DEF Init, ClosedIsSilent
<1>2. ClosedIsSilent /\ [Next]_vars => ClosedIsSilent'
  <2>. SUFFICES ASSUME ClosedIsSilent, [Next]_vars PROVE ClosedIsSilent'
    OBVIOUS
  <2>. USE DEF ClosedIsSilent, listenerVars
  <2>1. ASSUME NEW w \in Writers, Write(w) PROVE ClosedIsSilent'
    BY <2>1, ZenonT(30) DEF Write, Patch, Delete, Upsert, UpsertNew, UpsertIncreased,
                UpsertStale, vars, Put, PutSwap, PutFree
  <2>2. ASSUME NEW r \in Readers, Read(r) PROVE ClosedIsSilent'
    BY <2>2 DEF Read, Get, GetAll, Release, CopyText
  <2>3. ASSUME NEW l \in Keys \X Callbacks,
               RegisterListener(l) \/ UnregisterListener(l)
        PROVE  ClosedIsSilent'
    BY <2>3 DEF RegisterListener, UnregisterListener
  <2>4. CASE Destroy \/ Initialize
    BY <2>4 DEF Destroy, Initialize
  <2>5. CASE UNCHANGED vars
    BY <2>5 DEF vars
  <2>. QED
    BY <2>1, <2>2, <2>3, <2>4, <2>5 DEF Next
<1>. QED
  BY <1>1, <1>2, PTL DEF Spec

\* An upsert that changes the table is an update of the map.
LEMMA UpsertImplements ==
    ASSUME IInv, NEW w \in Writers, NEW f \in Flag,
           UpsertNew(w, f) \/ UpsertIncreased(w, f)
    PROVE  Map!Update(f.key, f.version, f.deleted)
<1>1. /\ f.key \in Keys
      /\ f = [key |-> f.key, version |-> f.version, deleted |-> f.deleted]
  BY DEF Flag
<1>2. PICK n \in Nodes : /\ state[n] = "raw"
                         /\ flag' = [flag EXCEPT ![n] = f]
                         /\ flags' = [flags EXCEPT ![f.key] = n]
  BY Zenon DEF UpsertNew, Allocated, UpsertIncreased
<1>3. EntryOf(f.key)' = {f}
  BY <1>1, <1>2, NullIsNoNode DEF EntryOf, IInv, TypeOK
<1>4. ASSUME NEW k \in Keys, k # f.key PROVE EntryOf(k)' = EntryOf(k)
  <2>1. flags'[k] = flags[k] /\ flags[k] # n
    BY <1>2, <1>4, NullIsNoNode DEF IInv, TypeOK, TableSound, Live
  <2>2. flags[k] # NULL => flag'[flags[k]] = flag[flags[k]]
    BY <1>2, <2>1, ZenonT(30) DEF IInv, TypeOK
  <2>. QED
    BY <2>1, <2>2 DEF EntryOf
<1>5. \A g \in EntryOf(f.key) : f.version > g.version
  BY DEF EntryOf, UpsertNew, VersionNew, UpsertIncreased, VersionIncreased
<1>6. [k \in Keys |-> EntryOf(k)]'
        = [[k \in Keys |-> EntryOf(k)] EXCEPT ![f.key] = {f}]
  BY <1>1, <1>3, <1>4, Zenon
<1>7. /\ open /\ UNCHANGED <<open, listeners>>
      /\ told' = Notified({f.key}, IF f.deleted THEN "deleted" ELSE "updated")
  BY DEF UpsertNew, UpsertIncreased
<1>. QED
  BY <1>1, <1>5, <1>6, <1>7, Zenon DEF Map!Update, Map!Tell, Notified

\* The swap of a put replaces the map.
LEMMA PutImplements ==
    ASSUME IInv, NEW w \in Writers, NEW ks \in SUBSET Keys,
           NEW new \in [ks -> Nodes], NEW fs \in [ks -> Flag],
           PutSwap(w, fs, new), \A k \in ks : fs[k].key = k
    PROVE  Map!Replace
<1>1. ASSUME NEW k \in Keys
      PROVE  EntryOf(k)' = IF k \in ks THEN {fs[k]} ELSE {}
  <2>1. CASE k \in ks
    <3>1. flags'[k] = new[k] /\ new[k] \in Nodes
      BY <2>1, ZenonT(30) DEF PutSwap
    <3>2. flag'[new[k]] = fs[CHOOSE k2 \in ks : new[k2] = new[k]]
      BY <2>1, <3>1, ZenonT(30) DEF PutSwap
    <3>3. (CHOOSE k2 \in ks : new[k2] = new[k]) = k
      BY <2>1, <3>1, ZenonT(30) DEF PutSwap
    <3>. QED
      BY <2>1, <3>1, <3>2, <3>3, NullIsNoNode, Zenon DEF EntryOf
  <2>2. CASE k \notin ks
    BY <2>2 DEF PutSwap, EntryOf
  <2>. QED
    BY <2>1, <2>2
<1>2. ASSUME NEW k \in Keys PROVE EntryOf(k)' \in Map!Entries(k)
  <2>1. CASE k \in ks
    <3>1. fs[k] = [key |-> k, version |-> fs[k].version, deleted |-> fs[k].deleted]
          /\ fs[k].version \in Versions /\ fs[k].deleted \in BOOLEAN
      BY <2>1, ZenonT(30) DEF Flag
    <3>. QED
      BY <1>1, <2>1, <3>1 DEF Map!Entries
  <2>2. CASE k \notin ks
    BY <1>1, <2>2 DEF Map!Entries
  <2>. QED
    BY <2>1, <2>2
<1>3. [k \in Keys |-> EntryOf(k)]' \in [Keys -> UNION {Map!Entries(k) : k \in Keys}]
  BY <1>2
<1>4. {k \in Keys : EntryOf(k)' # {}} = ks
  BY <1>1, ZenonT(30)
<1>5. open /\ UNCHANGED <<open, listeners>> /\ told' = Notified(ks, "updated")
  BY DEF PutSwap
<1>. QED
  BY <1>2, <1>3, <1>4, <1>5, ZenonT(30) DEF Map!Replace, Map!Tell, Notified

\* A step that changes neither the table nor a flag leaves the map alone.
LEMMA SameEntries ==
    ASSUME UNCHANGED <<flags, flag>>
    PROVE  [k \in Keys |-> EntryOf(k)]' = [k \in Keys |-> EntryOf(k)]
  BY DEF EntryOf

\* Every step of the store is a step of the map or leaves it alone.
LEMMA NextImplements ==
    IInv /\ ClosedIsSilent /\ [Next]_vars => [Map!Next]_(Map!vars)
<1>. SUFFICES ASSUME IInv, ClosedIsSilent, [Next]_vars
              PROVE  [Map!Next]_(Map!vars)
  OBVIOUS
<1>. USE DEF nodeVars, readerVars, listenerVars
<1>1. ASSUME NEW w \in Writers, Patch(w) \/ Delete(w)
      PROVE  [Map!Next]_(Map!vars)
  <2>1. PICK f \in Flag : Upsert(w, f)
    BY <1>1, PatchDeleteIsUpsert
  <2>2. CASE UpsertNew(w, f) \/ UpsertIncreased(w, f)
    <3>1. Map!Update(f.key, f.version, f.deleted)
      BY <2>2, UpsertImplements
    <3>2. f.key \in Keys /\ f.version \in Versions /\ f.deleted \in BOOLEAN
      BY DEF Flag
    <3>. QED
      BY <3>1, <3>2 DEF Map!Next
  <2>3. CASE UpsertStale(w, f)
    BY <2>3, SameEntries DEF UpsertStale, vars, Map!vars
  <2>. QED
    BY <2>1, <2>2, <2>3 DEF Upsert
<1>2. ASSUME NEW w \in Writers, Put(w) PROVE [Map!Next]_(Map!vars)
  <2>1. Map!Replace
    BY <1>2, PutIsPutSwap, PutImplements
  <2>. QED
    BY <2>1 DEF Map!Next
<1>3. ASSUME NEW w \in Writers, NEW n \in Nodes, PutFree(w, n)
      PROVE  UNCHANGED Map!vars
  BY <1>3, SameEntries DEF PutFree, Map!vars
<1>4. ASSUME NEW r \in Readers, Read(r) PROVE UNCHANGED Map!vars
  <2>1. UNCHANGED <<open, flags, flag, listeners, told>>
    BY <1>4 DEF Read, Get, GetAll, Release, CopyText
  <2>. QED
    BY <2>1, SameEntries, ZenonT(30) DEF Map!vars
<1>5. ASSUME NEW l \in Keys \X Callbacks,
             RegisterListener(l) \/ UnregisterListener(l)
      PROVE  [Map!Next]_(Map!vars)
  <2>1. UNCHANGED <<flags, flag>>
    BY <1>5 DEF RegisterListener, UnregisterListener
  <2>2. Map!Register(l) \/ Map!Unregister(l)
    BY <1>5, <2>1, SameEntries
    DEF RegisterListener, UnregisterListener, Map!Register, Map!Unregister
  <2>. QED
    BY <2>2 DEF Map!Next
<1>6. CASE Destroy
  <2>1. ASSUME NEW k \in Keys PROVE EntryOf(k)' = {}
    BY <1>6 DEF Destroy, EntryOf
  <2>2. [k \in Keys |-> EntryOf(k)]' = [k \in Keys |-> {}]
    BY <2>1, ZenonT(30)
  <2>3. Map!Close
    BY <1>6, <2>2 DEF Destroy, Map!Close
  <2>. QED
    BY <2>3 DEF Map!Next
<1>7. CASE Initialize
  <2>1. flags' = flags
    BY <1>7 DEF Initialize, IInv, TypeOK, ClosedIsEmpty
  <2>2. listeners' = listeners
    BY <1>7 DEF Initialize, ClosedIsSilent
  <2>3. Map!Open
    BY <1>7, <2>1, <2>2, SameEntries DEF Initialize, Map!Open
  <2>. QED
    BY <2>3 DEF Map!Next
<1>8. CASE UNCHANGED vars
  BY <1>8, SameEntries DEF vars, Map!vars
<1>. QED
  BY <1>1, <1>2, <1>3, <1>4, <1>5, <1>6, <1>7, <1>8, ZenonT(30) DEF Next, Write

\* The store with its nodes, counts, readers and deferred frees implements the
\* atomic versioned map, for any number of keys, versions, readers and writers.
THEOREM Refinement == Spec => ImplementsFlagMap
<1>1. Init => Map!Init
  BY SMTT(30) DEF Init, EntryOf, Map!Init
<1>. QED
  BY <1>1, Invariance, SilentInvariance, NextImplements, PTL
  DEF Spec, ImplementsFlagMap, Map!Spec

-----------------------------------------------------------------------------
(***************************************************************************)
(* Listeners.                                                              *)
(***************************************************************************)
\* Every step keeps what a listener knows about deletions true.
LEMMA NextToldDeleted ==
    IInv /\ ToldDeletedIsGone /\ [Next]_vars => ToldDeletedIsGone'
<1>. SUFFICES ASSUME IInv, ToldDeletedIsGone, [Next]_vars,
                     NEW l \in listeners', told'[l] = "deleted",
                     flags'[l[1]] # NULL
              PROVE  flag'[flags'[l[1]]].deleted
  BY DEF ToldDeletedIsGone
<1>. USE DEF nodeVars, readerVars, listenerVars
<1>0. l \in Keys \X Callbacks /\ l[1] \in Keys
  <2>1. TypeOK'
    BY NextTypeOK, ZenonT(30) DEF IInv
  <2>. QED
    BY <2>1 DEF TypeOK
<1>1. ASSUME NEW w \in Writers, Patch(w) \/ Delete(w)
      PROVE  flag'[flags'[l[1]]].deleted
  <2>1. PICK f \in Flag : Upsert(w, f)
    BY <1>1, PatchDeleteIsUpsert
  <2>2. CASE UpsertNew(w, f) \/ UpsertIncreased(w, f)
    <3>1. PICK n \in Nodes : /\ state[n] = "raw"
                             /\ flag' = [flag EXCEPT ![n] = f]
                             /\ flags' = [flags EXCEPT ![f.key] = n]
      BY <2>2, Zenon DEF UpsertNew, Allocated, UpsertIncreased
    <3>2. /\ l \in listeners
          /\ told' = Notified({f.key}, IF f.deleted THEN "deleted" ELSE "updated")
      BY <2>2, ZenonT(30) DEF UpsertNew, UpsertIncreased
    <3>3. CASE l[1] = f.key
      <4>1. f.deleted
        BY <1>0, <3>2, <3>3, SMTT(30) DEF Notified, Flag
      <4>. QED
        BY <1>0, <3>1, <3>3, <4>1, ZenonT(30) DEF IInv, TypeOK
    <3>4. CASE l[1] # f.key
      <4>1. told[l] = "deleted" /\ flags'[l[1]] = flags[l[1]]
        BY <1>0, <3>1, <3>2, <3>4, ZenonT(30) DEF Notified, IInv, TypeOK
      <4>2. flags[l[1]] # n /\ flags[l[1]] \in Nodes
        <5>1. flags[l[1]] # NULL /\ l[1] \in Keys
          BY <1>0, <4>1, Zenon
        <5>2. flags[l[1]] \in Nodes
          BY <5>1, SMTT(20) DEF IInv, TypeOK
        <5>3. state[flags[l[1]]] = "live"
          BY <5>1, Zenon DEF IInv, TableSound, Live
        <5>. QED
          BY <3>1, <5>2, <5>3, Zenon
      <4>3. flag'[flags[l[1]]] = flag[flags[l[1]]]
        BY <3>1, <4>2, ZenonT(30) DEF IInv, TypeOK
      <4>. QED
        BY <3>2, <4>1, <4>3, ZenonT(30) DEF ToldDeletedIsGone
    <3>. QED
      BY <3>3, <3>4
  <2>3. CASE UpsertStale(w, f)
    BY <2>3, ZenonT(30) DEF UpsertStale, vars, ToldDeletedIsGone
  <2>. QED
    BY <2>1, <2>2, <2>3 DEF Upsert
<1>2. ASSUME NEW w \in Writers, Put(w) PROVE FALSE
  <2>1. PICK ks \in SUBSET Keys : \E new \in [ks -> Nodes], fs \in [ks -> Flag] :
           PutSwap(w, fs, new)
    BY <1>2, PutIsPutSwap, ZenonT(30)
  <2>2. PICK new \in [ks -> Nodes], fs \in [ks -> Flag] : PutSwap(w, fs, new)
    BY <2>1, ZenonT(30)
  <2>3. l[1] \in ks /\ l \in listeners
    BY <1>0, <2>2, ZenonT(30) DEF PutSwap
  <2>4. told'[l] = "updated"
    BY <1>0, <2>2, <2>3, ZenonT(30) DEF PutSwap, Notified
  <2>. QED
    BY <2>4
<1>3. ASSUME UNCHANGED <<flags, flag, listeners, told>>
      PROVE  flag'[flags'[l[1]]].deleted
  BY <1>3 DEF ToldDeletedIsGone
<1>4. ASSUME NEW w \in Writers, NEW n \in Nodes, PutFree(w, n)
      PROVE  UNCHANGED <<flags, flag, listeners, told>>
  BY <1>4, ZenonT(30) DEF PutFree
<1>5. ASSUME NEW r \in Readers, Read(r)
      PROVE  UNCHANGED <<flags, flag, listeners, told>>
  BY <1>5 DEF Read, Get, GetAll, Release, CopyText
<1>6. ASSUME NEW l2 \in Keys \X Callbacks,
             RegisterListener(l2) \/ UnregisterListener(l2)
      PROVE  flag'[flags'[l[1]]].deleted
  <2>1. UNCHANGED <<flags, flag>>
    BY <1>6, ZenonT(30) DEF RegisterListener, UnregisterListener
  <2>2. l \in listeners /\ told[l] = "deleted"
    BY <1>0, <1>6, ZenonT(30) DEF RegisterListener, UnregisterListener, IInv, TypeOK
  <2>. QED
    BY <2>1, <2>2 DEF ToldDeletedIsGone
<1>7. ASSUME Destroy \/ Initialize PROVE FALSE
  BY <1>0, <1>7 DEF Destroy, Initialize
<1>8. CASE UNCHANGED vars
  BY <1>3, <1>8 DEF vars
<1>. QED
  BY <1>1, <1>2, <1>3, <1>4, <1>5, <1>6, <1>7, <1>8, ZenonT(30) DEF Next, Write

\* A listener that was told of a deletion can rely on it, whatever happens to
\* the flag and to the other listeners.
THEOREM ToldDeletedCorrect == Spec => []ToldDeletedIsGone
<1>1. Init => ToldDeletedIsGone
  BY DEF Init, ToldDeletedIsGone
<1>. QED
  BY <1>1, Invariance, NextToldDeleted, PTL DEF Spec
=============================================================================
