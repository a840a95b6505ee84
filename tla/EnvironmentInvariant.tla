------------------------ MODULE EnvironmentInvariant ------------------------
(***************************************************************************)
(* The inductive invariant of module Environments, for any number of       *)
(* secondary environments, keys, users and calls, and the proof that       *)
(* LDConfigAddSecondaryMobileKey and LDClientInit keep it: the entries of  *)
(* the object of mobile keys, the steps of LDi_clientInitIsolated and the  *)
(* labels that undo them.                                                  *)
(***************************************************************************)
EXTENDS Environments, TLAPS

\* What LDi_clientInitIsolated has made after its first n steps.
Prefix(n) == {Steps[i] : i \in 1 .. n}

Entries == [name : Secondaries \ {Primary}, key : Keys]

Statuses == {"Initializing", "Initialized", "Failed", "Shuttingdown"}

ThreadStates == {"none", "idle", "request", "reading", "waiting", "stored", "refused",
                 "callback", "exit"}

Calls == {"configure", "init", "unwind", "aborted", "idle", "offline", "online",
          "identify", "close", "join", "closed", "undefined"}

TypeOK ==
    /\ config \in [mobileKey : Keys, secondary : Seq(Entries)]
    /\ accepted \in [Secondaries -> Keys \union {None}]
    /\ callback \in BOOLEAN
    /\ table \in Seq(Envs)
    /\ built \in [Envs -> SUBSET Resources]
    /\ status \in [Envs -> Statuses]
    /\ offline \in [Envs -> BOOLEAN]
    /\ flagsOf \in [Envs -> Users \union {None}]
    /\ net \in [Envs -> ThreadStates]
    /\ pending \in [Envs -> Users \union {None}]
    /\ user \in Users
    /\ freed \subseteq Users
    /\ call \in Calls
    /\ todo \in Seq(Envs)
    /\ previous \in Users
    /\ relock \in BOOLEAN
    /\ calls \in Nat

\* No name is repeated among the entries of an object.
OneEntryEach(s) == \A i, j \in DOMAIN s : s[i].name = s[j].name => i = j

\* The object of secondary mobile keys has one entry for every name that was accepted, with
\* the key accepted last.
ConfigAgrees ==
    /\ \A i \in DOMAIN config.secondary :
          accepted[config.secondary[i].name] = config.secondary[i].key
    /\ OneEntryEach(config.secondary)
    /\ \A n \in Secondaries : accepted[n] # None =>
          \E i \in DOMAIN config.secondary : config.secondary[i].name = n

\* What the table has and a call still has to visit, call by call.
Visiting ==
    /\ call = "configure" => table = <<>> /\ todo = <<>>
    /\ call \in {"init", "unwind"} => table \o todo = Configured
    /\ call \in {"unwind", "aborted"} => todo # <<>>
    /\ call \in {"idle", "offline", "online", "identify"} => table = Configured
    /\ call \in {"close", "join"} => IsInjective(todo)
    /\ call = "close" /\ ~relock => table = todo
    /\ call = "join" => todo # <<>> /\ table = Tail(todo)
    /\ relock => /\ call \in {"online", "identify", "close"} /\ todo # <<>>
                 /\ call = "close" => table = Tail(todo)

\* What every client has of its resources.
BuiltAgrees ==
    /\ call = "configure" => \A e \in Envs : built[e] = {}
    /\ call \in {"init", "unwind"} =>
          /\ \A e \in Range(table) : built[e] = Resources
          /\ \A e \in Envs \ Range(table) : (todo = <<>> \/ e # Head(todo)) => built[e] = {}
          /\ todo # <<>> => \E n \in 0 .. 14 :
                /\ built[Head(todo)] = Prefix(n)
                /\ call = "unwind" => n >= 12
    /\ call = "aborted" => built[Head(todo)] = {}
    /\ call \in {"idle", "offline", "online", "identify"} =>
          \A e \in Envs : built[e] = IF e \in Range(table) THEN Resources ELSE {}
    /\ call \in {"close", "join", "closed"} =>
          \A e \in Envs : IF call # "closed" /\ e \in Range(todo) THEN built[e] = Resources
                          ELSE built[e] \subseteq {"streamCond"}

\* A feature thread runs only if it was created and not joined.
ThreadsAgree ==
    Up => \A e \in Envs : net[e] \in {"none", "exit"} \/ "pollingThread" \in built[e]

\* A thread that serialises the user reads the shared user, which is live.
UsersAgree ==
    /\ \A e \in Envs : net[e] = "reading" => pending[e] = user /\ call # "identify"
    /\ call # "closed" => user \notin freed

EnvInv ==
    /\ TypeOK /\ ConfigAgrees /\ Visiting /\ BuiltAgrees /\ ThreadsAgree /\ UsersAgree


-----------------------------------------------------------------------------
(* The steps of LDi_clientInitIsolated and its error labels *)

\* The steps are all different, so what was made tells the next step.
LEMMA FirstNotTaken ==
    ASSUME NEW n \in 0 .. 14
    PROVE  Min({i \in DOMAIN Steps : Steps[i] \notin Prefix(n)}) = n + 1
<1> DEFINE S == {i \in DOMAIN Steps : Steps[i] \notin Prefix(n)}
<1>1. DOMAIN Steps = 1 .. 15 /\ \A i, j \in 1 .. 15 : Steps[i] = Steps[j] => i = j
      BY DEF Steps
<1>2. \A i \in 1 .. 15 : i \in 1 .. n <=> Steps[i] \in Prefix(n)
      BY <1>1 DEF Prefix
<1>3. n + 1 \in S /\ \A i \in S : i \in Nat /\ n + 1 <= i
      BY <1>1, <1>2
<1> HIDE DEF S
<1>4. \A x \in S : (\A y \in S : x <= y) => x = n + 1
      BY <1>3
<1>5. Min(S) = n + 1
      BY <1>3, <1>4 DEF Min
<1> QED BY <1>5 DEF S

\* The label of a failing step is the number of things made before it, up to the threads.
LEMMA LabelOfStep ==
    ASSUME NEW n \in 0 .. 14
    PROVE  ErrorLabel[Steps[n + 1]] = IF n < 12 THEN n ELSE 12
BY DEF ErrorLabel, Steps

\* The labels below the one of the threads undo one step each.
LEMMA LabelsUndo ==
    /\ \A n \in 0 .. 11 : DestroyedFrom(n) = Prefix(n)
    /\ DestroyedFrom(12) = Prefix(11) \union Threads
<1>1. \A i \in 1 .. 11 : DestroyedAt[i] = {Steps[i]}
      BY DEF DestroyedAt, Steps
<1>2. DestroyedAt[12] = Threads
      BY DEF DestroyedAt
<1>3. \A n \in 0 .. 11 : DestroyedFrom(n) = Prefix(n)
      BY <1>1 DEF DestroyedFrom, Prefix
<1>4. DestroyedFrom(12) = Prefix(11) \union Threads
  <2>1. DestroyedFrom(12) = DestroyedFrom(11) \union DestroyedAt[12]
        BY DEF DestroyedFrom
  <2> QED BY <2>1, <1>2, <1>3
<1> QED BY <1>3, <1>4

\* All steps but the last one make something to release.
LEMMA Everything ==
    /\ Prefix(0) = {} /\ Prefix(14) = Resources /\ Resources = Prefix(11) \union Threads
    /\ \A n \in 0 .. 13 : Prefix(n + 1) = Prefix(n) \union {Steps[n + 1]}
    /\ \A n \in 0 .. 14 : Prefix(n) \subseteq Resources
    /\ \A n \in 0 .. 14 : Steps[n + 1] = "identify" <=> n = 14
    /\ \A n \in 0 .. 14 : "pollingThread" \in Prefix(n) <=> n >= 13
    /\ \A n \in 0 .. 14 : Steps[n + 1] = "pollingThread" <=> n = 12
<1>1. DOMAIN Steps = 1 .. 15
      BY DEF Steps
<1>2. Prefix(0) = {}
      BY DEF Prefix
<1>3. Prefix(14) = Resources
  <2>1. Steps[15] = "identify" /\ \A i \in 1 .. 14 : Steps[i] # "identify"
        BY DEF Steps
  <2> QED BY <1>1, <2>1 DEF Prefix, Resources, Range
<1>4. \A n \in 0 .. 13 : Prefix(n + 1) = Prefix(n) \union {Steps[n + 1]}
      BY DEF Prefix
<1>5. Prefix(14) = Prefix(11) \union Threads
  <2>1. Steps[12] = "eventThread" /\ Steps[13] = "pollingThread" /\ Steps[14] = "streamingThread"
        BY DEF Steps
  <2> QED BY <2>1 DEF Prefix, Threads
<1>6. \A n \in 0 .. 14 : Prefix(n) \subseteq Prefix(14)
      BY DEF Prefix
<1>7. \A n \in 0 .. 14 : Steps[n + 1] = "identify" <=> n = 14
      BY DEF Steps
<1>8. \A n \in 0 .. 14 : Steps[n + 1] = "pollingThread" <=> n = 12
      BY DEF Steps
<1>9. \A n \in 0 .. 14 : "pollingThread" \in Prefix(n) <=> n >= 13
  <2>1. \A i \in 1 .. 14 : Steps[i] = "pollingThread" <=> i = 13
        BY DEF Steps
  <2> QED BY <2>1 DEF Prefix
<1> QED BY <1>2, <1>3, <1>4, <1>5, <1>6, <1>7, <1>8, <1>9


-----------------------------------------------------------------------------
(* Sequences of environments and of entries *)

\* The first element and the rest, element by element.
LEMMA HeadTail ==
    ASSUME NEW S, NEW s \in Seq(S), s # <<>>
    PROVE  /\ Head(s) \in S /\ Tail(s) \in Seq(S)
           /\ Range(s) = {Head(s)} \union Range(Tail(s))
           /\ IsInjective(s) => IsInjective(Tail(s)) /\ Head(s) \notin Range(Tail(s))
<1>1. /\ Len(s) \in Nat \ {0} /\ DOMAIN s = 1 .. Len(s)
      /\ Head(s) = s[1] /\ Head(s) \in S
      /\ Tail(s) \in Seq(S) /\ DOMAIN Tail(s) = 1 .. Len(s) - 1
      /\ \A i \in 1 .. Len(s) - 1 : Tail(s)[i] = s[i + 1]
      OBVIOUS
<1>2. Range(s) = {Head(s)} \union Range(Tail(s))
  <2>1. ASSUME NEW i \in 1 .. Len(s)
        PROVE  s[i] \in {Head(s)} \union Range(Tail(s))
    <3>1. CASE i = 1
          BY <3>1, <1>1
    <3>2. CASE i # 1
      <4>1. i - 1 \in 1 .. Len(s) - 1 /\ Tail(s)[i - 1] = s[i]
            BY <3>2, <1>1
      <4> QED BY <4>1, <1>1, Zenon DEF Range
    <3> QED BY <3>1, <3>2
  <2> QED BY <1>1, <2>1 DEF Range
<1>3. ASSUME IsInjective(s)
      PROVE  IsInjective(Tail(s)) /\ Head(s) \notin Range(Tail(s))
      BY <1>1, <1>3 DEF IsInjective, Range
<1> QED BY <1>1, <1>2, <1>3

\* Two sequences that have no element twice have none in common.
LEMMA Disjoint ==
    ASSUME NEW S, NEW s \in Seq(S), NEW t \in Seq(S), IsInjective(s \o t)
    PROVE  /\ Range(s) \cap Range(t) = {} /\ IsInjective(t)
           /\ Range(s \o t) = Range(s) \union Range(t)
<1> DEFINE u == s \o t
<1>1. PICK m \in Nat, n \in Nat : m = Len(s) /\ n = Len(t)
      OBVIOUS
<1>2. /\ DOMAIN s = 1 .. m /\ DOMAIN t = 1 .. n /\ DOMAIN u = 1 .. m + n
      /\ \A i \in 1 .. m : u[i] = s[i]
      /\ \A i \in 1 .. n : u[m + i] = t[i]
      BY <1>1
<1> HIDE DEF u
<1>3. \A i, j \in 1 .. m + n : u[i] = u[j] => i = j
      BY <1>2, Zenon DEF IsInjective, u
<1>4. ASSUME NEW i \in 1 .. m, NEW j \in 1 .. n PROVE s[i] # t[j]
  <2>1. i \in 1 .. m + n /\ m + j \in 1 .. m + n /\ i # m + j
        OBVIOUS
  <2> QED BY <2>1, <1>2, <1>3
<1>5. ASSUME NEW i \in 1 .. n, NEW j \in 1 .. n, t[i] = t[j] PROVE i = j
  <2>1. m + i \in 1 .. m + n /\ m + j \in 1 .. m + n /\ (m + i = m + j => i = j)
        OBVIOUS
  <2> QED BY <2>1, <1>2, <1>3, <1>5
<1>6. ASSUME NEW i \in 1 .. m + n PROVE u[i] \in Range(s) \union Range(t)
  <2>1. CASE i <= m
        BY <2>1, <1>2 DEF Range
  <2>2. CASE i > m
    <3>1. i - m \in 1 .. n /\ m + (i - m) = i
          BY <2>2
    <3> QED BY <3>1, <1>2 DEF Range
  <2> QED BY <2>1, <2>2
<1>7. Range(s) \subseteq Range(u) /\ Range(t) \subseteq Range(u)
  <2>1. \A i \in 1 .. n : m + i \in 1 .. m + n
        OBVIOUS
  <2>2. \A i \in 1 .. m : i \in 1 .. m + n
        OBVIOUS
  <2> QED BY <1>2, <2>1, <2>2 DEF Range
<1>8. Range(u) \subseteq Range(s) \union Range(t)
      BY <1>2, <1>6, ZenonT(30) DEF Range
<1>9. Range(s) \cap Range(t) = {} /\ IsInjective(t)
      BY <1>2, <1>4, <1>5 DEF Range, IsInjective
<1> QED BY <1>7, <1>8, <1>9 DEF u

\* What LDClientInit has built and has yet to build is the same list at every turn.
LEMMA TakeHead ==
    ASSUME NEW S, NEW s \in Seq(S), NEW t \in Seq(S), t # <<>>
    PROVE  Append(s, Head(t)) \o Tail(t) = s \o t /\ Range(Append(s, Head(t))) = Range(s) \union {Head(t)}
<1>1. /\ Len(s) \in Nat /\ Len(t) \in Nat \ {0} /\ DOMAIN s = 1 .. Len(s)
      /\ Append(s, Head(t)) \in Seq(S) /\ Len(Append(s, Head(t))) = Len(s) + 1
      /\ Tail(t) \in Seq(S) /\ Len(Tail(t)) = Len(t) - 1
      OBVIOUS
<1>2. Append(s, Head(t)) \o Tail(t) \in Seq(S) /\ s \o t \in Seq(S)
      BY <1>1
<1>3. Len(Append(s, Head(t)) \o Tail(t)) = Len(s) + Len(t) /\ Len(s \o t) = Len(s) + Len(t)
      BY <1>1
<1>4. ASSUME NEW i \in 1 .. Len(s) + Len(t)
      PROVE  (Append(s, Head(t)) \o Tail(t))[i] = (s \o t)[i]
      BY <1>1, <1>4
<1>5. Append(s, Head(t)) \o Tail(t) = s \o t
      BY <1>2, <1>3, <1>4
<1>6. Range(Append(s, Head(t))) = Range(s) \union {Head(t)}
  <2>1. /\ DOMAIN Append(s, Head(t)) = 1 .. Len(s) + 1
        /\ \A i \in 1 .. Len(s) : Append(s, Head(t))[i] = s[i]
        /\ Append(s, Head(t))[Len(s) + 1] = Head(t)
        OBVIOUS
  <2> QED BY <1>1, <2>1 DEF Range
<1> QED BY <1>5, <1>6


-----------------------------------------------------------------------------
(* The configuration *)

\* q is what is left of the object s without the entry of a name.
Without(s, q, name) ==
    /\ q \in Seq(Entries) /\ OneEntryEach(q)
    /\ \A i \in DOMAIN q : q[i].name # name /\ \E j \in DOMAIN s : s[j] = q[i]
    /\ \A j \in DOMAIN s : s[j].name # name => \E i \in DOMAIN q : q[i] = s[j]

\* r is the object s with the key of a name set.
WithEntry(s, r, e) ==
    /\ r \in Seq(Entries) /\ OneEntryEach(r)
    /\ \A i \in DOMAIN r : r[i] = e \/ (r[i].name # e.name /\ \E j \in DOMAIN s : s[j] = r[i])
    /\ \E i \in DOMAIN r : r[i] = e
    /\ \A j \in DOMAIN s : s[j].name # e.name => \E i \in DOMAIN r : r[i] = s[j]

\* A sequence without its k-th element, element by element.
LEMMA Removal ==
    ASSUME NEW S, NEW s \in Seq(S), NEW k \in 1 .. Len(s)
    PROVE  LET q == SubSeq(s, 1, k - 1) \o SubSeq(s, k + 1, Len(s))
           IN  /\ q \in Seq(S) /\ DOMAIN q = 1 .. Len(s) - 1
               /\ \A i \in 1 .. Len(s) - 1 : q[i] = IF i < k THEN s[i] ELSE s[i + 1]
<1>1. PICK n \in Nat : n = Len(s) /\ k \in 1 .. n
      OBVIOUS
<1> DEFINE a == SubSeq(s, 1, k - 1)
           b == SubSeq(s, k + 1, n)
<1>2. a \in Seq(S) /\ Len(a) = k - 1 /\ \A i \in 1 .. k - 1 : a[i] = s[i]
      BY <1>1
<1>3. b \in Seq(S) /\ Len(b) = n - k /\ \A i \in 1 .. n - k : b[i] = s[k + i]
      BY <1>1
<1> HIDE DEF a, b
<1>4. a \o b \in Seq(S) /\ Len(a \o b) = n - 1
      BY <1>1, <1>2, <1>3
<1>5. ASSUME NEW i \in 1 .. n - 1
      PROVE  (a \o b)[i] = IF i < k THEN s[i] ELSE s[i + 1]
  <2>1. CASE i < k
        BY <2>1, <1>1, <1>2, <1>3
  <2>2. CASE ~(i < k)
    <3>1. i - (k - 1) \in 1 .. n - k /\ k + (i - (k - 1)) = i + 1
          BY <2>2, <1>1
    <3>2. (a \o b)[i] = b[i - (k - 1)]
          BY <2>2, <1>1, <1>2, <1>3
    <3> QED BY <2>2, <3>1, <3>2, <1>3, Zenon
  <2> QED BY <2>1, <2>2, Zenon
<1>6. DOMAIN (a \o b) = 1 .. n - 1
      BY <1>4
<1> QED BY <1>1, <1>4, <1>5, <1>6, Zenon DEF a, b

\* Deleting the first entry of a name deletes its only one.
LEMMA RemovedEntry ==
    ASSUME NEW s \in Seq(Entries), NEW name, OneEntryEach(s)
    PROVE  Without(s, WithoutName(s, name), name)
<1> DEFINE q == WithoutName(s, name)
<1>1. PICK n \in Nat : n = Len(s) /\ DOMAIN s = 1 .. n
      OBVIOUS
<1>2. CASE \A i \in 1 .. n : s[i].name # name
  <2>1. q = s
        BY <1>1, <1>2, ZenonT(30) DEF WithoutName
  <2> HIDE DEF q
  <2> QED BY <1>1, <1>2, <2>1, Zenon DEF Without, q
<1>3. ASSUME NEW k \in 1 .. n, s[k].name = name
      PROVE  Without(s, q, name)
  <2>1. {i \in DOMAIN s : s[i].name = name} = {k}
        BY <1>1, <1>3 DEF OneEntryEach
  <2>2. Min({k}) = k
        BY DEF Min
  <2>4. q = SubSeq(s, 1, k - 1) \o SubSeq(s, k + 1, Len(s))
        BY <2>1, <2>2, Zenon DEF WithoutName
  <2> HIDE DEF q
  <2>5. q \in Seq(Entries) /\ DOMAIN q = 1 .. n - 1
        BY <1>1, <2>4, Removal, Zenon
  <2>6. \A i \in 1 .. n - 1 : q[i] = IF i < k THEN s[i] ELSE s[i + 1]
        BY <1>1, <2>4, Removal, Zenon
  <2>7. \A i, j \in 1 .. n : s[i].name = s[j].name => i = j
        BY <1>1, Zenon DEF OneEntryEach
  <2>8. ASSUME NEW i \in 1 .. n - 1
        PROVE  \E j \in 1 .. n : s[j] = q[i] /\ s[j].name # name /\ j = IF i < k THEN i ELSE i + 1
    <3>1. PICK j \in 1 .. n : j = IF i < k THEN i ELSE i + 1
          OBVIOUS
    <3>2. j # k /\ s[j] = q[i]
          BY <3>1, <2>6
    <3> QED BY <3>1, <3>2, <2>7, <1>3, ZenonT(30)
  <2>9. ASSUME NEW i \in 1 .. n - 1, NEW j \in 1 .. n - 1, q[i].name = q[j].name
        PROVE  i = j
    <3>1. PICK a \in 1 .. n : s[a] = q[i] /\ a = IF i < k THEN i ELSE i + 1
          BY <2>8, ZenonT(30)
    <3>2. PICK b \in 1 .. n : s[b] = q[j] /\ b = IF j < k THEN j ELSE j + 1
          BY <2>8
    <3>3. a = b
          BY <3>1, <3>2, <2>7, <2>9, ZenonT(30)
    <3> QED BY <3>1, <3>2, <3>3
  <2>10. ASSUME NEW j \in 1 .. n, s[j].name # name
         PROVE  \E i \in 1 .. n - 1 : q[i] = s[j]
    <3>1. j # k
          BY <2>10, <1>3
    <3>2. CASE j < k
          BY <3>2, <2>6
    <3>3. CASE j > k
      <4>1. j - 1 \in 1 .. n - 1 /\ ~(j - 1 < k) /\ (j - 1) + 1 = j
            BY <3>3
      <4> QED BY <4>1, <2>6
    <3> QED BY <3>1, <3>2, <3>3
  <2>11. \A i \in 1 .. n - 1 : q[i].name # name /\ \E j \in 1 .. n : s[j] = q[i]
         BY <2>8, Zenon
  <2> QED BY <1>1, <2>5, <2>9, <2>10, <2>11, Zenon DEF Without, OneEntryEach
<1> HIDE DEF q
<1> QED BY <1>2, <1>3 DEF q

\* LDObjectSetKey on an object without repeated names: the name has the new key, all other
\* entries are as they were, and no name is repeated.
LEMMA WithKeyEntries ==
    ASSUME NEW s \in Seq(Entries), NEW name \in Secondaries \ {Primary}, NEW key \in Keys,
           OneEntryEach(s)
    PROVE  WithEntry(s, WithKey(s, name, key), [name |-> name, key |-> key])
<1> DEFINE e == [name |-> name, key |-> key]
           q == WithoutName(s, name)
           r == Append(q, e)
<1>1. e \in Entries /\ e.name = name
      BY SMT DEF Entries
<1>2. r = WithKey(s, name, key)
      BY Zenon DEF WithKey
<1>3. Without(s, q, name)
      BY RemovedEntry
<1> HIDE DEF e, q
<1>4. PICK m \in Nat : m = Len(q) /\ DOMAIN q = 1 .. m
      BY <1>3 DEF Without
<1>7. /\ r \in Seq(Entries) /\ DOMAIN r = 1 .. m + 1 /\ r[m + 1] = e
      /\ \A i \in 1 .. m : r[i] = q[i]
      BY <1>1, <1>3, <1>4 DEF Without
<1> HIDE DEF r
<1>8. /\ \A i \in 1 .. m + 1 : i = m + 1 \/ i \in 1 .. m
      /\ m + 1 \in 1 .. m + 1 /\ \A i \in 1 .. m : i \in 1 .. m + 1
      OBVIOUS
<1>9. \A i \in 1 .. m : r[i].name # name /\ \E j \in DOMAIN s : s[j] = r[i]
  <2>1. \A i \in 1 .. m : q[i].name # name /\ \E j \in DOMAIN s : s[j] = q[i]
        BY <1>3, <1>4, Zenon DEF Without
  <2> QED BY <1>7, <2>1, Zenon
<1>10. OneEntryEach(r)
  <2>1. \A i, j \in 1 .. m : r[i].name = r[j].name => i = j
    <3>1. \A i, j \in 1 .. m : q[i].name = q[j].name => i = j
          BY <1>3, <1>4, Zenon DEF Without, OneEntryEach
    <3> QED BY <1>7, <3>1
  <2>2. ASSUME NEW i \in 1 .. m + 1, NEW j \in 1 .. m + 1, r[i].name = r[j].name
        PROVE  i = j
        BY <1>1, <1>7, <1>8, <1>9, <2>1, <2>2
  <2> QED BY <1>7, <2>2, Zenon DEF OneEntryEach
<1>11. \A i \in 1 .. m + 1 : r[i] = e \/ (r[i].name # e.name /\ \E j \in DOMAIN s : s[j] = r[i])
      BY <1>1, <1>7, <1>8, <1>9, Zenon
<1>12. \A j \in DOMAIN s : s[j].name # e.name => \E i \in 1 .. m + 1 : r[i] = s[j]
  <2>1. ASSUME NEW j \in DOMAIN s, s[j].name # name
        PROVE  \E i \in 1 .. m + 1 : r[i] = s[j]
    <3>1. PICK i \in 1 .. m : q[i] = s[j]
          BY <1>3, <1>4, <2>1, Zenon DEF Without
    <3> QED BY <3>1, <1>7, <1>8, Zenon
  <2> QED BY <2>1, <1>1, Zenon
<1>13. \E i \in 1 .. m + 1 : r[i] = e
      BY <1>7, <1>8, Zenon
<1>14. WithEntry(s, r, e)
      BY <1>7, <1>10, <1>11, <1>12, <1>13, Zenon DEF WithEntry
<1> QED BY <1>2, <1>14 DEF e


\* The environments to build: the primary one and those that were accepted, each once.
LEMMA ConfiguredOnce ==
    ASSUME TypeOK, ConfigAgrees
    PROVE  /\ Configured \in Seq(Envs) /\ IsInjective(Configured)
           /\ Range(Configured) = {Primary} \union {n \in Secondaries : accepted[n] # None}
<1>1. PICK s \in Seq(Entries) : s = config.secondary
      BY DEF TypeOK
<1>2. PICK n \in Nat : n = Len(s) /\ DOMAIN s = 1 .. n
      OBVIOUS
<1> DEFINE names == [i \in 1 .. n |-> s[i].name]
           c == <<Primary>> \o names
<1>3. c = Configured
      BY <1>1, <1>2 DEF Configured
<1>4. \A i \in 1 .. n : s[i].name \in Secondaries /\ s[i].name # Primary
  <2>1. \A i \in 1 .. n : s[i] \in Entries
        BY <1>2
  <2>2. \A x \in Entries : x.name \in Secondaries /\ x.name # Primary
        BY DEF Entries
  <2> QED BY <2>1, <2>2, Zenon
<1>5. names \in Seq(Envs) /\ Len(names) = n /\ <<Primary>> \in Seq(Envs) /\ Len(<<Primary>>) = 1
      BY <1>4 DEF Envs
<1>6. \A i \in 1 .. n : names[i] = s[i].name
      OBVIOUS
<1> HIDE DEF names
<1>7. /\ c \in Seq(Envs) /\ DOMAIN c = 1 .. n + 1 /\ c[1] = Primary
      /\ \A i \in 1 .. n : c[i + 1] = names[i]
      BY <1>5
<1> HIDE DEF c
<1>8. ASSUME NEW i \in 1 .. n + 1 PROVE i = 1 \/ \E j \in 1 .. n : i = j + 1
  <2>1. i # 1 => i - 1 \in 1 .. n /\ i = (i - 1) + 1
        OBVIOUS
  <2> QED BY <2>1
<1>9. \A i, j \in 1 .. n : s[i].name = s[j].name => i = j
      BY <1>1, <1>2, Zenon DEF ConfigAgrees, OneEntryEach
<1>10. ASSUME NEW i \in 1 .. n + 1, NEW j \in 1 .. n + 1, c[i] = c[j] PROVE i = j
  <2>1. CASE i = 1
    <3>1. j # 1 => \E k \in 1 .. n : c[j] = s[k].name
          BY <1>6, <1>7, <1>8, Zenon
    <3> QED BY <2>1, <3>1, <1>4, <1>7, <1>10, Zenon
  <2>2. CASE i # 1
    <3>1. PICK k \in 1 .. n : i = k + 1
          BY <1>8, <2>2, Zenon
    <3>2. c[i] = s[k].name
          BY <1>6, <1>7, <3>1, Zenon
    <3>2a. j # 1
          BY <1>4, <1>7, <1>10, <3>2, Zenon
    <3>3. PICK l \in 1 .. n : j = l + 1
          BY <1>8, <3>2a, Zenon
    <3>4. c[j] = s[l].name
          BY <1>6, <1>7, <3>3, Zenon
    <3> QED BY <1>9, <1>10, <3>1, <3>2, <3>3, <3>4, Zenon
  <2> QED BY <2>1, <2>2
<1>11. \A i \in 1 .. n : accepted[s[i].name] # None
  <2>1. \A i \in 1 .. n : s[i].key \in Keys
    <3>1. \A i \in 1 .. n : s[i] \in Entries
          BY <1>2
    <3>2. \A x \in Entries : x.key \in Keys
          BY DEF Entries
    <3> QED BY <3>1, <3>2, Zenon
  <2>2. \A i \in 1 .. n : accepted[s[i].name] = s[i].key
        BY <1>1, <1>2, Zenon DEF ConfigAgrees
  <2> QED BY <2>1, <2>2, NoneIsNothing, Zenon
<1>12. \A x \in Secondaries : accepted[x] # None => \E i \in 1 .. n : s[i].name = x
      BY <1>1, <1>2, Zenon DEF ConfigAgrees
<1>13. \A i \in 1 .. n : i + 1 \in 1 .. n + 1
      OBVIOUS
<1>14. 1 \in 1 .. n + 1
      OBVIOUS
<1>15. Range(c) = {Primary} \union {x \in Secondaries : accepted[x] # None}
  <2>1. ASSUME NEW i \in 1 .. n + 1
        PROVE  c[i] \in {Primary} \union {x \in Secondaries : accepted[x] # None}
    <3>1. i = 1 \/ \E j \in 1 .. n : i = j + 1 /\ c[i] = s[j].name
          BY <1>6, <1>7, <1>8, Zenon
    <3> QED BY <3>1, <1>4, <1>7, <1>11, Zenon
  <2>2. ASSUME NEW x \in {Primary} \union {x \in Secondaries : accepted[x] # None}
        PROVE  \E i \in 1 .. n + 1 : c[i] = x
        BY <1>6, <1>7, <1>12, <1>13, <1>14
  <2> QED BY <1>7, <2>1, <2>2 DEF Range
<1>16. IsInjective(c)
      BY <1>7, <1>10, Zenon DEF IsInjective
<1> QED BY <1>3, <1>7, <1>15, <1>16

-----------------------------------------------------------------------------
(* The invariant *)

LEMMA InitInv == Init => EnvInv
<1> SUFFICES ASSUME Init PROVE EnvInv
    OBVIOUS
<1>1. TypeOK
  <2>1. <<>> \in Seq(Entries) /\ <<>> \in Seq(Envs)
        OBVIOUS
  <2>2. config \in [mobileKey : Keys, secondary : Seq(Entries)]
        BY <2>1, Zenon DEF Init
  <2>3. /\ built \in [Envs -> SUBSET Resources] /\ status \in [Envs -> Statuses]
        /\ offline \in [Envs -> BOOLEAN] /\ net \in [Envs -> ThreadStates]
        BY Zenon DEF Init, Statuses, ThreadStates
  <2> QED BY <2>1, <2>2, <2>3, Zenon DEF Init, TypeOK, Calls
<1>2. ConfigAgrees
      BY DEF Init, ConfigAgrees, OneEntryEach
<1>3. Visiting /\ BuiltAgrees /\ ThreadsAgree /\ UsersAgree
      BY DEF Init, Visiting, BuiltAgrees, ThreadsAgree, UsersAgree
<1> QED BY <1>1, <1>2, <1>3 DEF EnvInv

\* A step that changes no variable but the number of calls.
LEMMA Stutters ==
    ASSUME EnvInv, calls' \in Nat,
           UNCHANGED <<configVars, callback, table, built, clientVars, user, freed, callVars>>
    PROVE  EnvInv'
<1> USE DEF EnvInv, configVars, clientVars, callVars
<1>1. TypeOK'
      BY Zenon DEF TypeOK
<1>2. ConfigAgrees' /\ Configured' = Configured
      BY Zenon DEF ConfigAgrees, Configured
<1>3. Visiting'
      BY <1>2, Zenon DEF Visiting
<1>4. (BuiltAgrees /\ ThreadsAgree /\ UsersAgree)'
      BY Zenon DEF BuiltAgrees, ThreadsAgree, UsersAgree, Up
<1> QED BY <1>1, <1>2, <1>3, <1>4

\* Setting a key keeps the configuration in agreement with what was accepted.
LEMMA AddInv ==
    ASSUME EnvInv, NEW name \in Envs, NEW key \in Keys, LDConfigAddSecondaryMobileKey(name, key)
    PROVE  EnvInv'
<1> USE DEF EnvInv
<1>1. CASE Refused(name, key)
  <2>1. UNCHANGED <<configVars, callback, table, built, clientVars, user, freed, callVars>> /\ calls' \in Nat
        BY <1>1 DEF LDConfigAddSecondaryMobileKey, TypeOK
  <2> QED BY <2>1, Stutters
<1>2. CASE ~Refused(name, key)
  <2> DEFINE s == config.secondary
             e == [name |-> name, key |-> key]
             r == WithKey(s, name, key)
  <2>1. /\ config' = [config EXCEPT !.secondary = r]
        /\ accepted' = [n \in DOMAIN accepted \union {name} |-> IF n = name THEN key ELSE accepted[n]]
        /\ call = "configure" /\ calls' = calls + 1
        BY <1>2 DEF LDConfigAddSecondaryMobileKey
  <2>2. UNCHANGED <<callback, table, built, clientVars, user, freed, callVars>>
        BY DEF LDConfigAddSecondaryMobileKey
  <2>3. name \in Secondaries \ {Primary} /\ e.name = name /\ e.key = key
        BY <1>2 DEF Refused, Envs
  <2>4. WithEntry(s, r, e)
        BY <2>3, WithKeyEntries DEF TypeOK, ConfigAgrees
  <2>5. accepted \in [Secondaries -> Keys \union {None}] /\ s \in Seq(Entries)
        BY DEF TypeOK
  <2>6. accepted' = [n \in Secondaries |-> IF n = name THEN key ELSE accepted[n]]
        BY <2>1, <2>3, <2>5
  <2> HIDE DEF s, e, r
  <2>7. TypeOK'
    <3>1. config' \in [mobileKey : Keys, secondary : Seq(Entries)]
          BY <2>1, <2>4, Zenon DEF TypeOK, WithEntry
    <3>2. accepted' \in [Secondaries -> Keys \union {None}] /\ calls' \in Nat
          BY <2>1, <2>5, <2>6 DEF TypeOK
    <3> QED BY <2>2, <3>1, <3>2, Zenon DEF TypeOK, clientVars, callVars
  <2>8. config'.secondary = r
        BY <2>1 DEF TypeOK
  <2>9. ConfigAgrees'
    <3>1. \A i \in DOMAIN s : s[i] \in Entries /\ accepted[s[i].name] = s[i].key
          BY <2>5 DEF ConfigAgrees, s
    <3>2. ASSUME NEW i \in DOMAIN r PROVE accepted'[r[i].name] = r[i].key
      <4>1. CASE r[i] = e
            BY <4>1, <2>3, <2>6
      <4>2. CASE r[i] # e
        <5>1. PICK j \in DOMAIN s : s[j] = r[i] /\ r[i].name # name
              BY <4>2, <2>3, <2>4, Zenon DEF WithEntry
        <5>2. s[j].name \in Secondaries
              BY <3>1 DEF Entries
        <5> QED BY <5>1, <5>2, <3>1, <2>6
      <4> QED BY <4>1, <4>2
    <3>3. ASSUME NEW n \in Secondaries, accepted'[n] # None
          PROVE  \E i \in DOMAIN r : r[i].name = n
      <4>1. CASE n = name
            BY <4>1, <2>3, <2>4 DEF WithEntry
      <4>2. CASE n # name
        <5>1. PICK j \in DOMAIN s : s[j].name = n
              BY <4>2, <3>3, <2>6 DEF ConfigAgrees, s
        <5> QED BY <4>2, <5>1, <2>3, <2>4, Zenon DEF WithEntry
      <4> QED BY <4>1, <4>2
    <3>4. OneEntryEach(r)
          BY <2>4 DEF WithEntry
    <3> QED BY <2>8, <3>2, <3>3, <3>4, Zenon DEF ConfigAgrees
  <2>10. (Visiting /\ BuiltAgrees /\ ThreadsAgree /\ UsersAgree)'
        BY <2>1, <2>2 DEF Visiting, BuiltAgrees, ThreadsAgree, UsersAgree, Up, clientVars, callVars
  <2> QED BY <2>7, <2>9, <2>10
<1> QED BY <1>1, <1>2

-----------------------------------------------------------------------------
(* The steps of LDClientInit *)

\* After the configuration is given to LDClientInit it stays as it is.
LEMMA ConfigStays ==
    ASSUME ConfigAgrees, UNCHANGED configVars
    PROVE  ConfigAgrees' /\ Configured' = Configured
BY Zenon DEF configVars, ConfigAgrees, Configured

LEMMA LDClientInitInv ==
    ASSUME EnvInv, LDClientInit
    PROVE  EnvInv'
<1> USE DEF EnvInv
<1>1. /\ call = "configure" /\ call' = "init" /\ todo' = Configured /\ calls' = 0
      /\ UNCHANGED <<configVars, callback, table, built, clientVars, user, freed,
                     target, previous, relock>>
      BY DEF LDClientInit
<1>2. ConfigAgrees' /\ Configured' = Configured
      BY <1>1, ConfigStays
<1>3. Configured \in Seq(Envs)
      BY ConfiguredOnce
<1>4. TypeOK'
      BY <1>1, <1>3, Zenon DEF TypeOK, configVars, clientVars, Calls
<1>5. Visiting'
  <2>1. table = <<>> /\ <<>> \o Configured = Configured
        BY <1>1, <1>3 DEF Visiting
  <2>2. ~relock
        BY <1>1 DEF Visiting
  <2> QED BY <1>1, <1>2, <2>1, <2>2 DEF Visiting
<1>6. BuiltAgrees'
  <2>1. \A e \in Envs : built[e] = {}
        BY <1>1 DEF BuiltAgrees
  <2>2. Range(<<>>) = {} /\ table = <<>> /\ 0 \in 0 .. 14
        BY <1>1 DEF Visiting, Range
  <2>3. Configured # <<>> => Head(Configured) \in Envs
        BY <1>3, HeadTail, Zenon
  <2>4. \A e \in Range(table') : built'[e] = Resources
        BY <1>1, <2>2, Zenon
  <2>5. todo' # <<>> => built'[Head(todo')] = Prefix(0)
        BY <1>1, <2>1, <2>3, Everything, Zenon
  <2> QED BY <1>1, <2>1, <2>2, <2>4, <2>5, Zenon DEF BuiltAgrees
<1>7. (ThreadsAgree /\ UsersAgree)'
      BY <1>1 DEF ThreadsAgree, UsersAgree, Up, clientVars
<1> QED BY <1>2, <1>4, <1>5, <1>6, <1>7

\* The client under construction is not in the table, and what it has tells the step it is at.
LEMMA UnderConstruction ==
    ASSUME EnvInv, call \in {"init", "unwind"}, todo # <<>>
    PROVE  /\ Head(todo) \in Envs /\ Tail(todo) \in Seq(Envs)
           /\ Head(todo) \notin Range(table)
           /\ Tail(todo) # <<>> => /\ Head(Tail(todo)) \in Envs
                                   /\ Head(Tail(todo)) # Head(todo)
                                   /\ Head(Tail(todo)) \notin Range(table)
           /\ \E n \in 0 .. 14 :
                 /\ built[Head(todo)] = Prefix(n) /\ NextStep(Head(todo)) = Steps[n + 1]
                 /\ ErrorLabel[NextStep(Head(todo))] = IF n < 12 THEN n ELSE 12
                 /\ call = "unwind" => n >= 12
<1> USE DEF EnvInv
<1>1. table \in Seq(Envs) /\ todo \in Seq(Envs)
      BY DEF TypeOK
<1>2. IsInjective(table \o todo)
      BY ConfiguredOnce, Zenon DEF Visiting
<1>3. Range(table) \cap Range(todo) = {} /\ IsInjective(todo)
      BY <1>1, <1>2, Disjoint, Zenon
<1>4. /\ Head(todo) \in Envs /\ Tail(todo) \in Seq(Envs)
      /\ Range(todo) = {Head(todo)} \union Range(Tail(todo))
      /\ Head(todo) \notin Range(Tail(todo))
      BY <1>1, <1>3, HeadTail, Zenon
<1>5. Tail(todo) # <<>> => Head(Tail(todo)) \in Envs /\ Head(Tail(todo)) \in Range(Tail(todo))
  <2> SUFFICES ASSUME Tail(todo) # <<>>
               PROVE  Head(Tail(todo)) \in Envs /\ Head(Tail(todo)) \in Range(Tail(todo))
      OBVIOUS
  <2> DEFINE t == Tail(todo)
  <2>1. t \in Seq(Envs) /\ t # <<>>
        BY <1>4
  <2> HIDE DEF t
  <2>2. Head(t) \in Envs /\ Range(t) = {Head(t)} \union Range(Tail(t))
        BY <2>1, HeadTail, Zenon
  <2> QED BY <2>2 DEF t
<1>6. PICK n \in 0 .. 14 : built[Head(todo)] = Prefix(n) /\ (call = "unwind" => n >= 12)
      BY Zenon DEF BuiltAgrees
<1>7. NextStep(Head(todo)) = Steps[n + 1]
      BY <1>6, FirstNotTaken, Zenon DEF NextStep
<1>8. ErrorLabel[Steps[n + 1]] = IF n < 12 THEN n ELSE 12
      BY LabelOfStep, Zenon
<1>9. \E m \in 0 .. 14 :
         /\ built[Head(todo)] = Prefix(m) /\ NextStep(Head(todo)) = Steps[m + 1]
         /\ ErrorLabel[NextStep(Head(todo))] = IF m < 12 THEN m ELSE 12
         /\ call = "unwind" => m >= 12
      BY <1>6, <1>7, <1>8, ZenonT(30)
<1> QED BY <1>3, <1>4, <1>5, <1>9

\* A step of LDi_clientInitIsolated succeeds.
LEMMA InitStepInv ==
    ASSUME EnvInv, NEW e \in Envs, InitStep(e)
    PROVE  EnvInv'
<1> USE DEF EnvInv
<1>1. /\ call = "init" /\ todo # <<>> /\ e = Head(todo)
      /\ UNCHANGED <<configVars, callback, user, freed, call, target, previous, relock, calls>>
      BY DEF InitStep, Starting
<1>2. ConfigAgrees' /\ Configured' = Configured
      BY <1>1, ConfigStays
<1>3. /\ Tail(todo) \in Seq(Envs) /\ e \notin Range(table)
      /\ Tail(todo) # <<>> => /\ Head(Tail(todo)) \in Envs \ {e}
                              /\ Head(Tail(todo)) \notin Range(table)
      BY <1>1, UnderConstruction, Zenon
<1>4. PICK n \in 0 .. 14 : built[e] = Prefix(n) /\ NextStep(e) = Steps[n + 1]
      BY <1>1, UnderConstruction, Zenon
<1>5. ~relock
      BY <1>1, ZenonT(30) DEF Visiting
<1>6. /\ \A x \in Range(table) : built[x] = Resources
      /\ \A x \in Envs \ Range(table) : x # e => built[x] = {}
      BY <1>1 DEF BuiltAgrees
<1>7. CASE n = 14
  <2>1. table' = Append(table, e) /\ todo' = Tail(todo) /\ UNCHANGED <<built, clientVars>>
        BY <1>4, <1>7, Everything, ZenonT(30) DEF InitStep
  <2>2. TypeOK'
    <3>1. table' \in Seq(Envs) /\ todo' \in Seq(Envs)
          BY <2>1, <1>3 DEF TypeOK
    <3> QED BY <1>1, <2>1, <3>1, Zenon DEF TypeOK, configVars, clientVars
  <2>3. table' \o todo' = Configured /\ Range(table') = Range(table) \union {e}
    <3>1. table \in Seq(Envs) /\ todo \in Seq(Envs) /\ table \o todo = Configured
          BY <1>1 DEF TypeOK, Visiting
    <3>2. /\ Append(table, Head(todo)) \o Tail(todo) = table \o todo
          /\ Range(Append(table, Head(todo))) = Range(table) \union {Head(todo)}
          BY <1>1, <3>1, TakeHead, Zenon
    <3> QED BY <1>1, <2>1, <3>1, <3>2, ZenonT(30)
  <2>4. Visiting'
        BY <1>1, <1>2, <1>5, <2>3 DEF Visiting
  <2>5. BuiltAgrees'
    <3>1. built[e] = Resources
          BY <1>4, <1>7, Everything
    <3>2. \A x \in Range(table') : built'[x] = Resources
          BY <1>6, <2>1, <2>3, <3>1, Zenon
    <3>3. \A x \in Envs \ Range(table') : built'[x] = {}
          BY <1>6, <2>1, <2>3, Zenon
    <3>4. todo' # <<>> => built'[Head(todo')] = Prefix(0)
          BY <1>3, <1>6, <2>1, Everything, Zenon
    <3>5. 0 \in 0 .. 14 /\ call' = "init"
          BY <1>1
    <3> QED BY <3>2, <3>3, <3>4, <3>5, Zenon DEF BuiltAgrees
  <2>6. (ThreadsAgree /\ UsersAgree)'
        BY <1>1, <2>1, Zenon DEF ThreadsAgree, UsersAgree, Up, clientVars
  <2> QED BY <1>2, <2>2, <2>4, <2>5, <2>6, ZenonT(30)
<1>8. CASE n # 14
  <2>1. /\ built' = [built EXCEPT ![e] = @ \union {Steps[n + 1]}]
        /\ net' = IF Steps[n + 1] = "pollingThread" THEN [net EXCEPT ![e] = "idle"] ELSE net
        /\ UNCHANGED <<table, todo, status, offline, flagsOf, pending>>
        BY <1>4, <1>8, Everything, Zenon DEF InitStep
  <2>2. n \in 0 .. 13 /\ n + 1 \in 0 .. 14
        BY <1>8
  <2>3. built' = [built EXCEPT ![e] = Prefix(n + 1)]
        BY <1>4, <2>1, <2>2, Everything, Zenon
  <2>4. Prefix(n + 1) \subseteq Resources
        BY <2>2, Everything, Zenon
  <2>5. built \in [Envs -> SUBSET Resources] /\ net \in [Envs -> ThreadStates]
        BY DEF TypeOK
  <2>6. /\ built'[e] = Prefix(n + 1)
        /\ \A x \in Envs : x # e => built'[x] = built[x]
        BY <2>3, <2>5, ZenonT(30)
  <2>7. /\ net'[e] \in {net[e], "idle"}
        /\ \A x \in Envs : x # e => net'[x] = net[x]
        /\ net'[e] # net[e] => n = 12
        BY <2>1, <2>2, <2>5, Everything
  <2>8. TypeOK'
    <3>1. built' \in [Envs -> SUBSET Resources]
          BY <2>3, <2>4, <2>5, Zenon
    <3>2. net' \in [Envs -> ThreadStates]
          BY <2>1, <2>5, ZenonT(30) DEF ThreadStates
    <3> QED BY <1>1, <2>1, <3>1, <3>2, Zenon DEF TypeOK, configVars
  <2>9. Visiting'
        BY <1>1, <1>2, <1>5, <2>1, ZenonT(30) DEF Visiting
  <2>10. BuiltAgrees'
    <3>1. table \in Seq(Envs) /\ Range(table) \subseteq Envs
          BY DEF TypeOK, Range
    <3>2. \A x \in Range(table) : built'[x] = Resources
          BY <1>3, <1>6, <2>6, <3>1, Zenon
    <3>3. \A x \in Envs \ Range(table) : x # e => built'[x] = {}
          BY <1>6, <2>6, Zenon
    <3>4. table' = table /\ todo' = todo /\ call' = "init"
          BY <1>1, <2>1, ZenonT(30)
    <3> QED BY <1>1, <2>2, <2>6, <3>2, <3>3, <3>4, ZenonT(30) DEF BuiltAgrees
  <2>11. ThreadsAgree'
    <3>1. n = 12 => "pollingThread" \in Prefix(n + 1)
          BY <2>2, Everything
    <3>2. "pollingThread" \in Prefix(n) => "pollingThread" \in Prefix(n + 1)
          BY <2>2, Everything, ZenonT(30)
    <3> QED BY <1>1, <1>4, <2>6, <2>7, <3>1, <3>2, ZenonT(30) DEF ThreadsAgree, Up
  <2>12. UsersAgree'
        BY <1>1, <2>1, <2>7 DEF UsersAgree
  <2> QED BY <1>2, <2>8, <2>9, <2>10, <2>11, <2>12
<1> QED BY <1>7, <1>8

\* It fails before there are threads: the labels undo what was made.
LEMMA InitFailInv ==
    ASSUME EnvInv, NEW e \in Envs, InitFail(e)
    PROVE  EnvInv'
<1> USE DEF EnvInv
<1>1. /\ call = "init" /\ todo # <<>> /\ e = Head(todo) /\ call' = "aborted"
      /\ ErrorLabel[NextStep(e)] < 12
      /\ built' = [built EXCEPT ![e] = @ \ DestroyedFrom(ErrorLabel[NextStep(e)])]
      /\ UNCHANGED <<configVars, callback, table, clientVars, user, freed, target,
                     todo, previous, relock, calls>>
      BY DEF InitFail, Starting
<1>2. PICK n \in 0 .. 14 :
         built[e] = Prefix(n) /\ ErrorLabel[NextStep(e)] = IF n < 12 THEN n ELSE 12
      BY <1>1, UnderConstruction, Zenon
<1>3. n \in 0 .. 11 /\ ErrorLabel[NextStep(e)] = n
      BY <1>1, <1>2
<1>4. DestroyedFrom(ErrorLabel[NextStep(e)]) = built[e]
      BY <1>2, <1>3, LabelsUndo, Zenon
<1>5. built \in [Envs -> SUBSET Resources]
      BY DEF TypeOK
<1>6. built' = [built EXCEPT ![e] = {}]
  <2>1. built[e] \ DestroyedFrom(ErrorLabel[NextStep(e)]) = {}
        BY <1>4, Zenon
  <2> QED BY <1>1, <2>1, Zenon
<1>7. built' \in [Envs -> SUBSET Resources] /\ built'[e] = {}
      BY <1>5, <1>6
<1>8. TypeOK'
      BY <1>1, <1>7, Zenon DEF TypeOK, configVars, clientVars, Calls
<1>9. ConfigAgrees'
      BY <1>1, ConfigStays, ZenonT(30)
<1>10. (Visiting /\ BuiltAgrees /\ ThreadsAgree /\ UsersAgree)'
      BY <1>1, <1>7, ZenonT(30) DEF Visiting, BuiltAgrees, ThreadsAgree, UsersAgree, Up, clientVars
<1> QED BY <1>8, <1>9, <1>10, ZenonT(30)

\* It fails when threads run.
LEMMA InitFailRunningInv ==
    ASSUME EnvInv, NEW e \in Envs, InitFailRunning(e)
    PROVE  EnvInv'
<1> USE DEF EnvInv
<1>1. /\ call = "init" /\ todo # <<>> /\ e = Head(todo) /\ call' = "unwind"
      /\ ErrorLabel[NextStep(e)] = 12 /\ status' = [status EXCEPT ![e] = "Shuttingdown"]
      /\ UNCHANGED <<configVars, callback, table, built, offline, flagsOf, net, pending,
                     user, freed, target, todo, previous, relock, calls>>
      BY DEF InitFailRunning, Starting
<1>2. PICK n \in 0 .. 14 :
         built[e] = Prefix(n) /\ ErrorLabel[NextStep(e)] = IF n < 12 THEN n ELSE 12
      BY <1>1, UnderConstruction, Zenon
<1>3. n >= 12
      BY <1>1, <1>2
<1>4. status' \in [Envs -> Statuses]
      BY <1>1 DEF TypeOK, Statuses
<1>5. TypeOK'
      BY <1>1, <1>4, Zenon DEF TypeOK, configVars, Calls
<1>6. ConfigAgrees' /\ Configured' = Configured
      BY <1>1, ConfigStays, ZenonT(30)
<1>7. Visiting'
      BY <1>1, <1>6, ZenonT(30) DEF Visiting
<1>8. BuiltAgrees'
  <2>1. /\ \A x \in Range(table) : built[x] = Resources
        /\ \A x \in Envs \ Range(table) : x # e => built[x] = {}
        BY <1>1, ZenonT(30) DEF BuiltAgrees
  <2> QED BY <1>1, <1>2, <1>3, <2>1, ZenonT(30) DEF BuiltAgrees
<1>9. (ThreadsAgree /\ UsersAgree)'
      BY <1>1 DEF ThreadsAgree, UsersAgree, Up
<1> QED BY <1>5, <1>6, <1>7, <1>8, <1>9, ZenonT(30)

\* The threads were joined, and everything is destroyed.
LEMMA InitUnwindInv ==
    ASSUME EnvInv, NEW e \in Envs, InitUnwind(e)
    PROVE  EnvInv'
<1> USE DEF EnvInv
<1>1. /\ call = "unwind" /\ e = Head(todo) /\ call' = "aborted"
      /\ built' = [built EXCEPT ![e] = @ \ DestroyedFrom(12)]
      /\ UNCHANGED <<configVars, callback, table, clientVars, user, freed, target,
                     todo, previous, relock, calls>>
      BY DEF InitUnwind
<1>2. todo # <<>>
      BY <1>1 DEF Visiting
<1>3. built \in [Envs -> SUBSET Resources]
      BY DEF TypeOK
<1>4. DestroyedFrom(12) = Resources
      BY LabelsUndo, Everything, Zenon
<1>5. built' = [built EXCEPT ![e] = {}]
  <2>1. built[e] \ DestroyedFrom(12) = {}
        BY <1>3, <1>4
  <2> QED BY <1>1, <2>1, Zenon
<1>6. built' \in [Envs -> SUBSET Resources] /\ built'[e] = {}
      BY <1>3, <1>5
<1>7. TypeOK'
      BY <1>1, <1>6, Zenon DEF TypeOK, configVars, clientVars, Calls
<1>8. ConfigAgrees'
      BY <1>1, ConfigStays, ZenonT(30)
<1>9. (Visiting /\ BuiltAgrees /\ ThreadsAgree /\ UsersAgree)'
      BY <1>1, <1>2, <1>6, ZenonT(30) DEF Visiting, BuiltAgrees, ThreadsAgree, UsersAgree, Up, clientVars
<1> QED BY <1>7, <1>8, <1>9, ZenonT(30)

\* Every client is built, and LDClientInit returns.
LEMMA InitReturnInv ==
    ASSUME EnvInv, InitReturn
    PROVE  EnvInv'
<1> USE DEF EnvInv
<1>1. /\ call = "init" /\ todo = <<>> /\ call' = "idle"
      /\ UNCHANGED <<configVars, callback, table, built, clientVars, user, freed,
                     target, todo, previous, relock, calls>>
      BY DEF InitReturn
<1>2. TypeOK'
      BY <1>1, Zenon DEF TypeOK, configVars, clientVars, Calls
<1>3. ConfigAgrees' /\ Configured' = Configured
      BY <1>1, ConfigStays
<1>4. table = Configured
  <2>1. table \o <<>> = Configured /\ table \in Seq(Envs)
        BY <1>1 DEF Visiting, TypeOK
  <2>2. table \o <<>> = table
        BY <2>1
  <2> QED BY <2>1, <2>2, ZenonT(30)
<1>5. Visiting'
      BY <1>1, <1>3, <1>4 DEF Visiting
<1>6. (BuiltAgrees /\ ThreadsAgree /\ UsersAgree)'
      BY <1>1, Zenon DEF BuiltAgrees, ThreadsAgree, UsersAgree, Up, clientVars
<1> QED BY <1>2, <1>3, <1>5, <1>6

=============================================================================
