----------------------------- MODULE EventProofs ------------------------------
(***************************************************************************)
(* Proofs about module EventProcessor, for any users, counters, threads,   *)
(* capacity and failures.  First types, the counters, and that every       *)
(* evaluation is reported once.  Then order and completeness, an argument  *)
(* about places: bundling turns the queue into the last batch and leaves   *)
(* every event at its place; LDi_addEvent makes one new place behind all   *)
(* others, with a number above all others.  Then whose events they are:    *)
(* sharedUserLock keeps every evaluation on one side of a call of          *)
(* LDClientIdentify, so evaluations under way are for the current user and *)
(* the last identify event is the current user's.                          *)
(***************************************************************************)
EXTENDS EventProcessor, WellFoundedInduction, TLAPS

\* A counter counts evaluations.
CountersCount == \A c \in Counters : counters[c] <= evaluated[c]

Typed == TypeOK /\ CountersCount

\* The bounds are numbers.
LEMMA BoundsTyped == /\ EventsCapacity \in Nat /\ MaxMade \in Nat /\ MaxEvaluations \in Nat
                     /\ 1 <= MaxMade
  BY BoundsAreNat, FirstEventIsMade

\* LDi_addEvent makes an event with the next number, and queues it or drops it.
Adds(e) ==
    /\ e \in Events /\ e.n = made + 1 /\ made' = made + 1
    /\ \/ events' = events /\ dropped' = dropped \cup {e}
       \/ Len(events) < EventsCapacity /\ events' = Append(events, e) /\ dropped' = dropped

\* LDi_addEvent queues the event or drops it.
LEMMA AddEventAdds ==
  ASSUME TypeOK, NEW kind \in EventKinds, NEW u \in Users, AddEvent(kind, u)
  PROVE  Adds(Event(kind, u, made + 1))
  <1> DEFINE e == Event(kind, u, made + 1)
  <1>1. made \in 0 .. MaxMade /\ made < MaxMade /\ made' = made + 1
    BY DEF TypeOK, AddEvent
  <1>2. made + 1 \in 1 .. MaxMade
    BY <1>1, BoundsTyped
  <1>3. e \in Events /\ e.n = made + 1
    BY <1>2 DEF Event, Events
  <1>4. events \in Seq(Events)
    BY DEF TypeOK
  <1>5. Len(events) \in Nat
    BY <1>4
  <1> QED BY <1>1, <1>3, <1>5, BoundsTyped DEF AddEvent, Adds

\* Either way the queue keeps its type.
LEMMA AddsTyped ==
  ASSUME TypeOK, NEW e, Adds(e)
  PROVE  /\ made' \in 0 .. MaxMade
         /\ events' \in Seq(Events)
         /\ dropped' \subseteq Events
  <1>1. made \in 0 .. MaxMade /\ events \in Seq(Events) /\ dropped \subseteq Events
    BY DEF TypeOK
  <1>2. e \in Events /\ e.n \in 1 .. MaxMade
    BY DEF Adds, Events
  <1>3. made' \in 0 .. MaxMade
    BY <1>1, <1>2, BoundsTyped DEF Adds
  <1>4. events' \in Seq(Events)
    BY <1>1, <1>2 DEF Adds
  <1> QED BY <1>1, <1>2, <1>3, <1>4, SMTT(30) DEF Adds

\* A payload is made of events and at most one summary.
LEMMA BundledTyped ==
  ASSUME TypeOK
  PROVE  /\ Bundled \in Payloads
         /\ Len(Bundled) <= Len(events) + 1
         /\ summaryStart => Bundled = Append(events, Summary) /\ Summary \in Summaries
         /\ ~summaryStart => Bundled = events
  <1>1. events \in Seq(Events) /\ counters \in [Counters -> 0 .. MaxEvaluations]
    BY DEF TypeOK
  <1>2. events \in Payloads
    BY <1>1 DEF Payloads
  <1>3. Summary \in Summaries
    BY <1>1 DEF Summary, Summaries
  <1>4. Append(events, Summary) \in Payloads
    BY <1>2, <1>3 DEF Payloads
  <1>5. Len(events) \in Nat /\ Len(Append(events, Summary)) = Len(events) + 1
    BY <1>1
  <1> QED BY <1>2, <1>3, <1>4, <1>5, SMTT(30) DEF Bundled

-----------------------------------------------------------------------------
(* Types *)

\* An evaluation is recorded.
LEMMA RecordTyped ==
  ASSUME Typed, NEW t \in Threads, EvalRecord(t)
  PROVE  Typed'
  <1>1. PICK e \in eval[t] : /\ Summarize(e.counter)
                             /\ IF e.tracked THEN AddEvent("feature", e.user)
                                             ELSE UNCHANGED <<made, events, dropped>>
    BY DEF EvalRecord
  <1>2. e \in Evaluations /\ e.counter \in Counters /\ e.user \in Users
    BY DEF Typed, TypeOK, Evaluations
  <1>3. made' \in 0 .. MaxMade /\ events' \in Seq(Events) /\ dropped' \subseteq Events
    <2>1. CASE e.tracked
      BY <1>1, <1>2, <2>1, AddEventAdds, AddsTyped, SMTT(30) DEF Typed, EventKinds
    <2>2. CASE ~e.tracked
      BY <1>1, <2>2, SMTT(30) DEF Typed, TypeOK
    <2> QED BY <2>1, <2>2
  <1>4. /\ evaluated' \in [Counters -> 0 .. MaxEvaluations]
        /\ counters' \in [Counters -> 0 .. MaxEvaluations]
        /\ CountersCount'
    BY <1>1, <1>2, BoundsTyped, SMTT(30) DEF Typed, TypeOK, CountersCount, Summarize
  <1>5. summaryStart' \in BOOLEAN /\ contexts' \in BOOLEAN
    BY <1>1, Zenon DEF Summarize
  <1>6. DOMAIN eval' = Threads /\ \A x \in Threads : eval'[x] \in SUBSET Evaluations
    BY DEF EvalRecord, Typed, TypeOK
  <1> QED BY <1>3, <1>4, <1>5, <1>6, SMTT(30) DEF EvalRecord, Typed, TypeOK, senderVars

\* The summary of an evaluation fails.
LEMMA FailTyped ==
  ASSUME Typed, NEW t \in Threads, EvalFail(t)
  PROVE  Typed'
  <1>1. PICK e \in eval[t] :
          \/ /\ e.tracked
             /\ AddEvent("feature", e.user)
             /\ defect' = IF events' = events THEN "none" ELSE "freed"
          \/ /\ ~e.tracked
             /\ defect' = "null"
             /\ UNCHANGED <<made, events, dropped>>
    BY DEF EvalFail
  <1>2. e.user \in Users
    BY SMTT(30) DEF Typed, TypeOK, Evaluations
  <1>3. made' \in 0 .. MaxMade /\ events' \in Seq(Events) /\ dropped' \subseteq Events
    <2>1. CASE e.tracked
      BY <1>1, <1>2, <2>1, AddEventAdds, AddsTyped, SMTT(30) DEF Typed, EventKinds
    <2>2. CASE ~e.tracked
      BY <1>1, <2>2, SMTT(30) DEF Typed, TypeOK
    <2> QED BY <2>1, <2>2
  <1>4. defect' \in {"none", "null", "freed"}
    BY <1>1
  <1>5. summaryStart' \in BOOLEAN /\ contexts' \in BOOLEAN
    BY Zenon DEF EvalFail, Typed, TypeOK
  <1>6. DOMAIN eval' = Threads /\ \A x \in Threads : eval'[x] \in SUBSET Evaluations
    BY DEF EvalFail, Typed, TypeOK
  <1> QED BY <1>3, <1>4, <1>5, <1>6, SMTT(30)
          DEF EvalFail, Typed, TypeOK, CountersCount, senderVars

\* LDi_identify.
LEMMA IdentifyTyped ==
  ASSUME Typed, NEW u \in Users, Identify(u)
  PROVE  Typed'
  <1>1. made' \in 0 .. MaxMade /\ events' \in Seq(Events) /\ dropped' \subseteq Events
    BY AddEventAdds, AddsTyped DEF Identify, Typed, EventKinds
  <1>2. user' \in Users /\ identifying' \in SUBSET Users
    BY DEF Identify
  <1> QED BY <1>1, <1>2 DEF Identify, Typed, TypeOK, CountersCount, summaryVars, senderVars

\* Track, Alias and the alias event of Identify.
LEMMA AddOnlyTyped ==
  ASSUME Typed, NEW kind \in EventKinds, NEW u \in Users, AddEvent(kind, u),
         identifying' \in {identifying, {}},
         UNCHANGED <<user, eval, summaryVars, senderVars, defect, evaluated>>
  PROVE  Typed'
  <1>1. made' \in 0 .. MaxMade /\ events' \in Seq(Events) /\ dropped' \subseteq Events
    BY AddEventAdds, AddsTyped, SMTT(30) DEF Typed
  <1>2. identifying' \in SUBSET Users
    BY DEF Typed, TypeOK
  <1> QED BY <1>1, <1>2 DEF Typed, TypeOK, CountersCount, summaryVars, senderVars

\* LDi_bundleEventPayload.
LEMMA BundleTyped ==
  ASSUME Typed, SenderBundle
  PROVE  Typed'
  <1>1. payload' \in Payloads /\ bundles' \in Seq(Payloads) /\ payloadId' \in Nat
    BY BundledTyped DEF SenderBundle, Typed, TypeOK
  <1>2. events' \in Seq(Events)
    BY DEF SenderBundle
  <1>3. contexts' \in BOOLEAN /\ summaryStart' \in BOOLEAN
    BY Zenon DEF SenderBundle, CountersTaken, summaryVars, Typed, TypeOK
  <1>4. counters' \in [Counters -> 0 .. MaxEvaluations] /\ CountersCount'
    <2>1. counters' = counters \/ counters' = NoCounts
      BY DEF SenderBundle, CountersTaken, summaryVars
    <2>2. evaluated' = evaluated /\ evaluated \in [Counters -> 0 .. MaxEvaluations]
      BY DEF SenderBundle, Typed, TypeOK
    <2> QED BY <2>1, <2>2, BoundsTyped DEF NoCounts, Typed, TypeOK, CountersCount
  <1> QED BY <1>1, <1>2, <1>3, <1>4, SMTT(30) DEF SenderBundle, Typed, TypeOK

\* What the sender does with a payload.
LEMMA DeliveryTyped ==
  ASSUME Typed,
         \/ SenderSent \/ SenderUnauthorized
         \/ \E b \in BOOLEAN : SenderRetry(b) \/ SenderDiscard(b)
  PROVE  Typed'
  <1>1. received' \subseteq Nat \X Payloads
    BY DEF SenderSent, SenderUnauthorized, SenderRetry, SenderDiscard, Arrives, Typed, TypeOK
  <1>2. payload' \in Payloads
    <2>1. <<>> \in Payloads
      BY DEF Payloads
    <2>2. payload' = payload \/ payload' = <<>>
      BY DEF SenderSent, SenderUnauthorized, SenderRetry, SenderDiscard, BatchDone
    <2> QED BY <2>1, <2>2 DEF Typed, TypeOK
  <1>3. sender' \in {"idle", "send", "resend", "exit"}
    BY DEF SenderSent, SenderUnauthorized, SenderRetry, SenderDiscard, BatchDone
  <1> QED BY <1>1, <1>2, <1>3, SMTT(30)
          DEF SenderSent, SenderUnauthorized, SenderRetry, SenderDiscard, Typed, TypeOK,
              CountersCount, queueVars, summaryVars

\* Every step keeps the types.
LEMMA TypedInvariant == Spec => []Typed
  <1>1. Init => Typed
    <2> SUFFICES ASSUME Init PROVE Typed
      OBVIOUS
    <2>1. made \in 0 .. MaxMade /\ payloadId \in Nat
      BY BoundsTyped DEF Init
    <2>2. user \in Users /\ Event("identify", user, 1) \in Events
      BY BoundsTyped DEF Init, Event, Events, EventKinds
    <2>3. events \in Seq(Events) /\ dropped \subseteq Events
      BY <2>2 DEF Init
    <2>4. contexts \in BOOLEAN /\ summaryStart \in BOOLEAN
      BY Zenon DEF Init
    <2>5. /\ counters \in [Counters -> 0 .. MaxEvaluations]
          /\ evaluated \in [Counters -> 0 .. MaxEvaluations]
          /\ CountersCount
      BY BoundsTyped DEF Init, NoCounts, CountersCount
    <2>6. DOMAIN eval = Threads /\ \A t \in Threads : eval[t] \in SUBSET Evaluations
      BY DEF Init
    <2>7. payload \in Payloads /\ bundles \in Seq(Payloads) /\ received \subseteq Nat \X Payloads
      BY DEF Init, Payloads
    <2>8. /\ identifying \in SUBSET Users /\ sender \in {"idle", "send", "resend", "exit"}
          /\ defect \in {"none", "null", "freed"}
      BY DEF Init
    <2> QED BY <2>1, <2>2, <2>3, <2>4, <2>5, <2>6, <2>7, <2>8, SMTT(30) DEF Typed, TypeOK
  <1>2. Typed /\ [Next]_vars => Typed'
    <2> SUFFICES ASSUME Typed, [Next]_vars PROVE Typed'
      OBVIOUS
    <2>1. ASSUME NEW t \in Threads, EvalStart(t) PROVE Typed'
      <3>1. DOMAIN eval' = Threads /\ \A x \in Threads : eval'[x] \in SUBSET Evaluations
        BY <2>1 DEF EvalStart, Typed, TypeOK, Evaluations
      <3> QED BY <2>1, <3>1
              DEF EvalStart, Typed, TypeOK, CountersCount, queueVars, summaryVars, senderVars
    <2>2. ASSUME Track PROVE Typed'
      <3>1. user \in Users /\ "custom" \in EventKinds
        BY DEF Typed, TypeOK, EventKinds
      <3> QED BY <2>2, <3>1, AddOnlyTyped DEF Track
    <2>3. ASSUME NEW u \in Users, Alias(u) PROVE Typed'
      BY <2>3, AddOnlyTyped DEF Alias, EventKinds
    <2>4. ASSUME IdentifyAlias PROVE Typed'
      <3>1. PICK u \in identifying : AddEvent("alias", u)
        BY <2>4 DEF IdentifyAlias
      <3>2. u \in Users /\ "alias" \in EventKinds
        BY DEF Typed, TypeOK, EventKinds
      <3> QED BY <2>4, <3>1, <3>2, AddOnlyTyped, SMTT(30) DEF IdentifyAlias
    <2>5. ASSUME UNCHANGED vars PROVE Typed'
      BY <2>5 DEF vars, queueVars, summaryVars, senderVars, Typed, TypeOK, CountersCount
    <2> QED
      BY <2>1, <2>2, <2>3, <2>4, <2>5, RecordTyped, FailTyped, IdentifyTyped, BundleTyped, SMTT(30),
         DeliveryTyped DEF Next, Sender, SenderNothing, Terminated
  <1> QED BY <1>1, <1>2, PTL DEF Spec

\* The event processor and its sender keep their types: counts stay within the number of
\* evaluations, and what is queued, bundled and received is made of events and summaries.
THEOREM EventsTypeCorrect == Spec => []TypeOK
  BY TypedInvariant, PTL DEF Typed

-----------------------------------------------------------------------------
(* Counters *)

\* No evaluation is counted without a summary that will report it.
THEOREM CountersCorrect == Spec => []CountersAreStarted
  <1>1. Init => CountersAreStarted
    BY DEF Init, CountersAreStarted
  <1>2. CountersAreStarted /\ [Next]_vars => CountersAreStarted'
    <2> SUFFICES ASSUME CountersAreStarted, [Next]_vars PROVE CountersAreStarted'
      OBVIOUS
    <2> USE DEF CountersAreStarted
    <2>1. ASSUME NEW t \in Threads, EvalRecord(t) PROVE CountersAreStarted'
      BY <2>1 DEF EvalRecord, Summarize
    <2>2. ASSUME NEW t \in Threads, EvalFail(t) PROVE CountersAreStarted'
      <3>1. counters' = counters /\ NoCounts' = NoCounts /\ summaryStart'
        BY <2>2, Zenon DEF EvalFail, NoCounts
      <3>2. contexts => contexts'
        BY <2>2, Zenon DEF EvalFail
      <3> QED BY <3>1, <3>2, Zenon
    <2>3. ASSUME SenderBundle PROVE CountersAreStarted'
      BY <2>3 DEF SenderBundle, CountersTaken, summaryVars, NoCounts
    <2>4. ASSUME UNCHANGED summaryVars PROVE CountersAreStarted'
      BY <2>4, ZenonT(30) DEF summaryVars, NoCounts
    <2>5. \/ \E t \in Threads : EvalRecord(t) \/ EvalFail(t)
          \/ SenderBundle
          \/ UNCHANGED summaryVars
      BY DEF Next, Sender, EvalStart, Track, Alias, Identify, IdentifyAlias, SenderSent,
             SenderUnauthorized, SenderRetry, SenderDiscard, SenderNothing, Terminated, vars,
             queueVars, summaryVars
    <2> QED BY <2>1, <2>2, <2>3, <2>4, <2>5, SMTT(30)
  <1> QED BY <1>1, <1>2, PTL DEF Spec

-----------------------------------------------------------------------------
(* What happens to the queue in a step *)

Bundles == /\ payloadId' = payloadId + 1 /\ payload' = Bundled
           /\ bundles' = Append(bundles, Bundled) /\ events' = <<>>
           /\ sender' = "send"
           /\ UNCHANGED <<made, dropped, received, user, eval>>

Delivers == /\ UNCHANGED <<made, events, dropped, bundles, payloadId, user, eval>>
            /\ received' = received \/ (Arrives /\ sender \in {"send", "resend"})
            /\ \/ payload' = payload /\ (sender' = sender \/ sender = "send")
               \/ payload' = <<>> /\ sender' \in {"idle", "exit"}

\* Every step is one of these.
LEMMA QueueSteps ==
  ASSUME Typed, [Next]_vars
  PROVE  \/ \E e : Adds(e) /\ UNCHANGED <<payload, payloadId, received, bundles, sender>>
         \/ Bundles
         \/ Delivers
         \/ UNCHANGED <<made, events, dropped, payload, payloadId, received, bundles, sender>>
  <1> USE DEF senderVars, queueVars, summaryVars
  <1>1. ASSUME NEW kind \in EventKinds, NEW u \in Users, AddEvent(kind, u), UNCHANGED senderVars
        PROVE  \E e : Adds(e) /\ UNCHANGED <<payload, payloadId, received, bundles, sender>>
    BY <1>1, AddEventAdds DEF Typed
  <1>2. "custom" \in EventKinds /\ "alias" \in EventKinds /\ "identify" \in EventKinds
        /\ "feature" \in EventKinds
    BY DEF EventKinds
  <1>3. user \in Users /\ identifying \subseteq Users
        /\ \A t \in Threads : \A e \in eval[t] : e.user \in Users
    BY DEF Typed, TypeOK, Evaluations
  <1>4. CASE \E t \in Threads : EvalStart(t) \/ EvalRecord(t) \/ EvalFail(t)
    BY <1>1, <1>2, <1>3, <1>4, Zenon DEF EvalStart, EvalRecord, EvalFail
  <1>5. CASE Track \/ IdentifyAlias \/ \E u \in Users : Alias(u) \/ Identify(u)
    BY <1>1, <1>2, <1>3, <1>5, Zenon DEF Track, IdentifyAlias, Alias, Identify
  <1>6. CASE SenderBundle
    BY <1>6, SMTT(30) DEF SenderBundle, Bundles
  <1>7. CASE SenderSent \/ SenderUnauthorized \/ \E b \in BOOLEAN : SenderRetry(b) \/ SenderDiscard(b)
    BY <1>7 DEF SenderSent, SenderUnauthorized, SenderRetry, SenderDiscard, BatchDone, Arrives,
                Delivers
  <1>8. CASE UNCHANGED vars
    BY <1>8 DEF vars
  <1> QED BY <1>4, <1>5, <1>6, <1>7, <1>8, SMTT(30) DEF Next, Sender, SenderNothing, Terminated

\* The queue and the payloads stay within the configured capacity, whatever the order of
\* evaluations, calls and bundling.
THEOREM CapacityCorrect == Spec => []CapacityRespected
  <1>1. Init => CapacityRespected
    BY BoundsTyped DEF Init, CapacityRespected
  <1>2. Typed /\ CapacityRespected /\ [Next]_vars => CapacityRespected'
    <2> SUFFICES ASSUME Typed, CapacityRespected, [Next]_vars PROVE CapacityRespected'
      OBVIOUS
    <2>1. events \in Seq(Events) /\ Len(events) \in Nat
      BY DEF Typed, TypeOK
    <2>2. ASSUME NEW e, Adds(e), UNCHANGED payload PROVE CapacityRespected'
      BY <2>1, <2>2, BoundsTyped, SMTT(30) DEF Adds, CapacityRespected
    <2>3. ASSUME Bundles PROVE CapacityRespected'
      BY <2>1, <2>3, BundledTyped, BoundsTyped, SMTT(30) DEF Bundles, Typed, CapacityRespected
    <2>4. ASSUME UNCHANGED events, payload' \in {payload, <<>>} PROVE CapacityRespected'
      BY <2>4, BoundsTyped DEF CapacityRespected
    <2> QED BY <2>2, <2>3, <2>4, QueueSteps, SMTT(30) DEF Delivers
  <1> QED BY <1>1, <1>2, TypedInvariant, PTL DEF Spec

-----------------------------------------------------------------------------
(* Sums *)

\* A set of numbers that has 0, and with every number the next one, has them all.
LEMMA SetInduction ==
  ASSUME NEW S, 0 \in S, \A n \in Nat : n \in S => n + 1 \in S
  PROVE  Nat \subseteq S
  <1> DEFINE T == Nat \ S
             R == OpToRel(<, Nat)
  <1>1. SUFFICES ASSUME T # {} PROVE FALSE
    OBVIOUS
  <1>2. IsWellFoundedOn(R, Nat) /\ T \subseteq Nat
    BY NatLessThanWellFounded, Zenon
  <1>3. PICK x \in T : \A y \in T : ~(<<y, x>> \in R)
    <2> HIDE DEF T, R
    <2> QED BY <1>1, <1>2, WFMin, Zenon
  <1>4. x - 1 \in T
    OBVIOUS
  <1>5. <<x - 1, x>> \in R
    BY <1>4 DEF OpToRel
  <1> QED BY <1>3, <1>4, <1>5, Zenon

\* The sums of the beginnings of a sequence.
IsSums(f, s, n) == /\ f \in [0 .. n -> Nat] /\ f[0] = 0
                   /\ \A i \in 1 .. n : f[i] = f[i - 1] + s[i]

\* Every sequence of numbers has its partial sums.
LEMMA SumsExist ==
  ASSUME NEW s \in Seq(Nat)
  PROVE  \E f : IsSums(f, s, Len(s))
  <1> DEFINE S == {n \in Nat : n <= Len(s) => \E f : IsSums(f, s, n)}
  <1>1. 0 \in S
    <2>1. IsSums([i \in 0 .. 0 |-> 0], s, 0)
      BY DEF IsSums
    <2> QED BY <2>1
  <1>2. ASSUME NEW n \in Nat, n \in S PROVE n + 1 \in S
    <2> SUFFICES ASSUME n + 1 <= Len(s) PROVE \E f : IsSums(f, s, n + 1)
      OBVIOUS
    <2>1. PICK f : IsSums(f, s, n)
      BY <1>2
    <2>2. s[n + 1] \in Nat /\ f[n] \in Nat
      BY <2>1 DEF IsSums
    <2> DEFINE g == [i \in 0 .. n + 1 |-> IF i = n + 1 THEN f[n] + s[n + 1] ELSE f[i]]
    <2>3. /\ g \in [0 .. n + 1 -> Nat] /\ g[0] = 0 /\ g[n + 1] = f[n] + s[n + 1]
          /\ \A i \in 0 .. n : g[i] = f[i]
      BY <2>1, <2>2 DEF IsSums
    <2> HIDE DEF g
    <2>4. ASSUME NEW i \in 1 .. n + 1 PROVE g[i] = g[i - 1] + s[i]
      <3>1. CASE i = n + 1
        BY <2>3, <3>1
      <3>2. CASE i # n + 1
        <4>1. i \in 1 .. n /\ i \in 0 .. n /\ i - 1 \in 0 .. n
          BY <3>2
        <4> QED BY <2>1, <2>3, <4>1 DEF IsSums
      <3> QED BY <3>1, <3>2
    <2> QED BY <2>3, <2>4, Zenon DEF IsSums
  <1>3. Nat \subseteq S
    <2> HIDE DEF S
    <2> QED BY <1>1, <1>2, SetInduction, Zenon
  <1>4. Len(s) \in Nat
    OBVIOUS
  <1> QED BY <1>3, <1>4

\* It has them only once.
LEMMA SumsUnique ==
  ASSUME NEW s, NEW n \in Nat, NEW f, NEW g, IsSums(f, s, n), IsSums(g, s, n)
  PROVE  f[n] = g[n]
  <1> DEFINE S == {i \in Nat : i <= n => f[i] = g[i]}
  <1>1. 0 \in S
    BY DEF IsSums
  <1>2. ASSUME NEW i \in Nat, i \in S PROVE i + 1 \in S
    <2> SUFFICES ASSUME i + 1 <= n PROVE f[i + 1] = g[i + 1]
      OBVIOUS
    <2>1. i + 1 \in 1 .. n /\ (i + 1) - 1 = i /\ f[i] = g[i]
      BY <1>2
    <2>2. f[i + 1] = f[(i + 1) - 1] + s[i + 1] /\ g[i + 1] = g[(i + 1) - 1] + s[i + 1]
      BY <2>1 DEF IsSums
    <2> QED BY <2>1, <2>2
  <1>3. Nat \subseteq S
    <2> HIDE DEF S
    <2> QED BY <1>1, <1>2, SetInduction
  <1> QED BY <1>3

\* Total is the last of them.
LEMMA TotalIs ==
  ASSUME NEW s \in Seq(Nat), NEW f, IsSums(f, s, Len(s))
  PROVE  Total(s) = f[Len(s)] /\ Total(s) \in Nat
  <1> DEFINE n == Len(s)
             P(h) == h = [i \in 0 .. n |-> IF i = 0 THEN 0 ELSE h[i - 1] + s[i]]
             g == CHOOSE h : P(h)
  <1>1. n \in Nat
    OBVIOUS
  <1>2. P(f)
    <2>1. f \in [0 .. n -> Nat] /\ f[0] = 0
      BY DEF IsSums
    <2>2. \A i \in 0 .. n : f[i] = IF i = 0 THEN 0 ELSE f[i - 1] + s[i]
      BY <1>1 DEF IsSums
    <2> QED BY <2>1, <2>2
  <1>3. P(g)
    BY <1>2, Zenon
  <1>4. Total(s) = g[n]
    BY DEF Total
  <1> HIDE DEF g
  <1>5. IsSums(g, s, n)
    <2>1. /\ DOMAIN g = 0 .. n /\ g = [i \in 0 .. n |-> g[i]] /\ g[0] = 0
          /\ \A i \in 1 .. n : g[i] = g[i - 1] + s[i]
      BY <1>1, <1>3
    <2> DEFINE S == {i \in Nat : i <= n => g[i] \in Nat}
    <2>2. 0 \in S
      BY <2>1
    <2>3. ASSUME NEW i \in Nat, i \in S PROVE i + 1 \in S
      <3> SUFFICES ASSUME i + 1 <= n PROVE g[i + 1] \in Nat
        OBVIOUS
      <3>1. i + 1 \in 1 .. n /\ (i + 1) - 1 = i /\ s[i + 1] \in Nat /\ g[i] \in Nat
        BY <2>3
      <3>2. g[i + 1] = g[(i + 1) - 1] + s[i + 1]
        BY <2>1, <3>1, Zenon
      <3> QED BY <3>1, <3>2
    <2>4. Nat \subseteq S
      <3> HIDE DEF S
      <3> QED BY <2>2, <2>3, SetInduction
    <2>5. \A i \in 0 .. n : g[i] \in Nat
      BY <1>1, <2>4
    <2> HIDE DEF S
    <2> QED BY <2>1, <2>5, Zenon DEF IsSums
  <1>6. g[n] = f[n]
    BY <1>1, <1>5, SumsUnique
  <1>7. f[n] \in Nat
    BY <1>1 DEF IsSums
  <1> QED BY <1>4, <1>6, <1>7

\* The sum of a sequence with one more.
LEMMA TotalAppend ==
  ASSUME NEW s \in Seq(Nat), NEW x \in Nat
  PROVE  Total(Append(s, x)) = Total(s) + x /\ Total(s) \in Nat
  <1> DEFINE n == Len(s)
             t == Append(s, x)
  <1>1. /\ n \in Nat /\ t \in Seq(Nat) /\ Len(t) = n + 1 /\ t[n + 1] = x
        /\ \A i \in 1 .. n : t[i] = s[i]
    OBVIOUS
  <1> HIDE DEF t
  <1>2. PICK f : IsSums(f, t, n + 1)
    BY <1>1, SumsExist
  <1> DEFINE g == [i \in 0 .. n |-> f[i]]
  <1>3. IsSums(g, s, n)
    <2>1. f \in [0 .. n + 1 -> Nat] /\ f[0] = 0 /\ \A i \in 1 .. n + 1 : f[i] = f[i - 1] + t[i]
      BY <1>2, Zenon DEF IsSums
    <2>2. g \in [0 .. n -> Nat] /\ g[0] = 0
      BY <1>1, <2>1
    <2>3. ASSUME NEW i \in 1 .. n PROVE g[i] = g[i - 1] + s[i]
      <3>1. i \in 0 .. n /\ i - 1 \in 0 .. n /\ i \in 1 .. n + 1
        BY <1>1
      <3>2. g[i] = f[i] /\ g[i - 1] = f[i - 1] /\ t[i] = s[i]
        BY <3>1, <1>1, Zenon
      <3> QED BY <3>1, <3>2, <2>1, Zenon
    <2> QED BY <2>2, <2>3, Zenon DEF IsSums
  <1>4. f[n + 1] = g[n] + x
    <2>1. n + 1 \in 1 .. n + 1 /\ (n + 1) - 1 = n /\ n \in 0 .. n
      BY <1>1
    <2>2. f[n + 1] = f[n] + t[n + 1]
      BY <2>1, <1>2, Zenon DEF IsSums
    <2> QED BY <2>1, <2>2, <1>1, Zenon
  <1> HIDE DEF g
  <1>5. Total(s) = g[n] /\ Total(s) \in Nat
    BY <1>3, TotalIs
  <1>6. Total(t) = f[n + 1]
    BY <1>1, <1>2, TotalIs
  <1> QED BY <1>4, <1>5, <1>6 DEF t

\* The sum of zeros.
LEMMA TotalZero ==
  ASSUME NEW s \in Seq(Nat), \A i \in DOMAIN s : s[i] = 0
  PROVE  Total(s) = 0
  <1> DEFINE f == [i \in 0 .. Len(s) |-> 0]
  <1>1. IsSums(f, s, Len(s)) /\ f[Len(s)] = 0
    BY DEF IsSums
  <1> QED BY <1>1, TotalIs

-----------------------------------------------------------------------------
(* Every evaluation is reported once *)

\* Events report nothing, and a summary reports the counters it was made of.
LEMMA ReportedByBundle ==
  ASSUME TypeOK, NEW c \in Counters
  PROVE  /\ Reported(Bundled, c) = IF summaryStart THEN counters[c] ELSE 0
         /\ Reported(Bundled, c) \in Nat
  <1> DEFINE z == [i \in DOMAIN events |-> CountIn(events[i], c)]
  <1>1. events \in Seq(Events) /\ counters[c] \in Nat
    BY BoundsTyped DEF TypeOK
  <1>2. \A i \in DOMAIN events : CountIn(events[i], c) = 0
    <2>1. \A e \in Events : IsEvent(e)
      BY DEF Events, EventKinds, IsEvent
    <2> QED BY <1>1, <2>1 DEF CountIn
  <1>3. z \in Seq(Nat) /\ Len(z) = Len(events) /\ \A i \in DOMAIN z : z[i] = 0
    BY <1>1, <1>2
  <1>4. Total(z) = 0
    <2> HIDE DEF z
    <2> QED BY <1>3, TotalZero
  <1>5. CASE ~summaryStart
    <2>1. Bundled = events
      BY <1>5 DEF Bundled
    <2> QED BY <1>4, <1>5, <2>1 DEF Reported
  <1>6. CASE summaryStart
    <2>1. Bundled = Append(events, Summary) /\ CountIn(Summary, c) = counters[c]
      BY <1>6 DEF Bundled, Summary, CountIn, IsEvent
    <2>2. [i \in DOMAIN Bundled |-> CountIn(Bundled[i], c)] = Append(z, counters[c])
      <3> DEFINE b == [i \in DOMAIN Bundled |-> CountIn(Bundled[i], c)]
                 a == Append(z, counters[c])
      <3>1. PICK n \in Nat : n = Len(events) /\ DOMAIN events = 1 .. n
        BY <1>1
      <3>2. /\ DOMAIN Bundled = 1 .. n + 1 /\ Bundled[n + 1] = Summary
            /\ \A i \in 1 .. n : Bundled[i] = events[i]
        BY <1>1, <2>1, <3>1
      <3>3. /\ a = [i \in 1 .. n + 1 |-> a[i]] /\ a[n + 1] = counters[c]
            /\ \A i \in 1 .. n : a[i] = CountIn(events[i], c)
        BY <1>1, <1>3, <3>1
      <3>4. \A i \in 1 .. n + 1 : i \in 1 .. n \/ i = n + 1
        OBVIOUS
      <3> HIDE DEF a, z
      <3>5. \A i \in 1 .. n + 1 : CountIn(Bundled[i], c) = a[i]
        BY <2>1, <3>2, <3>3, <3>4, Zenon
      <3>6. b = a
        BY <3>2, <3>3, <3>5
      <3> QED BY <3>6, Zenon DEF a
    <2> HIDE DEF z
    <2>3. Total(Append(z, counters[c])) = Total(z) + counters[c]
      BY <1>1, <1>3, TotalAppend, ZenonT(30)
    <2>4. Reported(Bundled, c) = Total(Append(z, counters[c]))
      BY <2>2, Zenon DEF Reported
    <2> QED BY <1>1, <1>4, <1>6, <2>3, <2>4
  <1> QED BY <1>5, <1>6

\* What all payloads report is a number, and one more payload adds what it reports.
ReportsAreNumbers ==
    \A c \in Counters : \A i \in DOMAIN bundles : Reported(bundles[i], c) \in Nat

\* What all payloads report is a number.
LEMMA NumberReported ==
  ASSUME TypeOK, ReportsAreNumbers, NEW c \in Counters
  PROVE  AllReported(c) \in Nat
  <1> DEFINE r == [i \in DOMAIN bundles |-> Reported(bundles[i], c)]
  <1>1. r \in Seq(Nat)
    BY DEF TypeOK, ReportsAreNumbers
  <1> HIDE DEF r
  <1>2. Total(r) \in Nat
    BY <1>1, SumsExist, TotalIs
  <1> QED BY <1>2 DEF AllReported, r

\* A new payload adds what it reports.
LEMMA OneMoreBundle ==
  ASSUME TypeOK, ReportsAreNumbers, NEW c \in Counters, bundles' = Append(bundles, Bundled)
  PROVE  /\ AllReported(c)' = AllReported(c) + Reported(Bundled, c)
         /\ AllReported(c) \in Nat
         /\ \A i \in DOMAIN bundles' : Reported(bundles'[i], c) \in Nat
  <1> DEFINE r == [i \in DOMAIN bundles |-> Reported(bundles[i], c)]
             x == Reported(Bundled, c)
             q == [i \in DOMAIN bundles' |-> Reported(bundles'[i], c)]
             a == Append(r, x)
  <1>0. bundles \in Seq(Payloads)
    BY DEF TypeOK
  <1>1. PICK n \in Nat : n = Len(bundles) /\ DOMAIN bundles = 1 .. n /\ bundles \in Seq(Payloads)
    BY <1>0
  <1>2. x \in Nat
    BY ReportedByBundle
  <1>3. r \in Seq(Nat) /\ Len(r) = n /\ \A i \in 1 .. n : r[i] = Reported(bundles[i], c)
    BY <1>1 DEF ReportsAreNumbers
  <1>4. /\ DOMAIN bundles' = 1 .. n + 1 /\ bundles'[n + 1] = Bundled
        /\ \A i \in 1 .. n : bundles'[i] = bundles[i]
    BY <1>1
  <1> HIDE DEF r, x
  <1>5. /\ a \in Seq(Nat) /\ a = [i \in 1 .. n + 1 |-> a[i]] /\ a[n + 1] = x
        /\ \A i \in 1 .. n : a[i] = r[i]
    <2>1. a \in Seq(Nat) /\ Len(a) = n + 1
      BY <1>2, <1>3
    <2>2. a[n + 1] = x /\ \A i \in 1 .. n : a[i] = r[i]
      BY <1>2, <1>3
    <2> HIDE DEF a
    <2>3. a = [i \in 1 .. n + 1 |-> a[i]]
      BY <2>1
    <2> QED BY <2>1, <2>2, <2>3, Zenon
  <1>6. \A i \in 1 .. n + 1 : i \in 1 .. n \/ i = n + 1
    OBVIOUS
  <1> HIDE DEF a
  <1>7. \A i \in 1 .. n + 1 : Reported(bundles'[i], c) = a[i]
    BY <1>3, <1>4, <1>5, <1>6, Zenon DEF x
  <1>8. q = a
    BY <1>4, <1>5, <1>7, ZenonT(30)
  <1>9. \A i \in DOMAIN bundles' : Reported(bundles'[i], c) \in Nat
    BY <1>1, <1>2, <1>3, <1>4, <1>6, Zenon DEF x, ReportsAreNumbers
  <1>10. Total(a) = Total(r) + x /\ Total(r) \in Nat
    BY <1>2, <1>3, TotalAppend DEF a
  <1>11. AllReported(c) = Total(r)
    BY DEF AllReported, r
  <1>12. AllReported(c)' = Total(q)
    BY DEF AllReported, Reported, Total, CountIn, IsEvent
  <1> QED BY <1>8, <1>9, <1>10, <1>11, <1>12, Zenon DEF x

\* Every recorded evaluation is counted once: in the counters, or in the summary of one payload.
THEOREM CountsCorrect == Spec => []CountsConserved
  <1> DEFINE Inv == CountsConserved /\ ReportsAreNumbers
  <1>1. Init => Inv
    <2> SUFFICES ASSUME Init PROVE Inv
      OBVIOUS
    <2>1. bundles = <<>> /\ DOMAIN bundles = {}
      BY DEF Init
    <2>2. ASSUME NEW c \in Counters PROVE AllReported(c) = 0
      <3> DEFINE r == [i \in DOMAIN bundles |-> Reported(bundles[i], c)]
      <3>1. r \in Seq(Nat) /\ \A i \in DOMAIN r : r[i] = 0
        BY <2>1
      <3> HIDE DEF r
      <3>2. Total(r) = 0
        BY <3>1, TotalZero
      <3> QED BY <3>2 DEF AllReported, r
    <2>3. \A c \in Counters : counters[c] = 0 /\ evaluated[c] = 0
      BY DEF Init, NoCounts
    <2> QED BY <2>1, <2>2, <2>3 DEF CountsConserved, ReportsAreNumbers
  <1>2. Typed /\ CountersAreStarted /\ Inv /\ [Next]_vars => Inv'
    <2> SUFFICES ASSUME Typed, CountersAreStarted, Inv, [Next]_vars PROVE Inv'
      OBVIOUS
    <2>1. ASSUME UNCHANGED bundles
          PROVE  ReportsAreNumbers' /\ \A c \in Counters : AllReported(c)' = AllReported(c)
      <3>1. ASSUME NEW c \in Counters
            PROVE  AllReported(c)' = Total([i \in DOMAIN bundles' |-> Reported(bundles'[i], c)])
        BY ZenonT(30) DEF AllReported, Reported, Total, CountIn, IsEvent
      <3>2. ReportsAreNumbers' <=>
              \A c \in Counters : \A i \in DOMAIN bundles' : Reported(bundles'[i], c) \in Nat
        BY DEF ReportsAreNumbers, Reported, Total, CountIn, IsEvent
      <3> QED BY <2>1, <3>1, <3>2, Zenon DEF AllReported, ReportsAreNumbers
    <2>2. /\ counters \in [Counters -> Nat] /\ evaluated \in [Counters -> Nat]
      BY BoundsTyped DEF Typed, TypeOK
    <2>3. ASSUME UNCHANGED <<counters, evaluated, bundles>> PROVE Inv'
      BY <2>1, <2>3 DEF CountsConserved
    <2>4. ASSUME NEW t \in Threads, EvalRecord(t) PROVE Inv'
      <3>1. PICK e \in eval[t] : Summarize(e.counter)
        BY <2>4 DEF EvalRecord
      <3>2. e.counter \in Counters
        BY DEF Typed, TypeOK, Evaluations
      <3>3. UNCHANGED bundles
        BY <2>4, ZenonT(30) DEF EvalRecord, senderVars
      <3>4. ASSUME NEW c \in Counters PROVE evaluated'[c] = counters'[c] + AllReported(c)'
        <4>1. evaluated[c] = counters[c] + AllReported(c) /\ AllReported(c)' = AllReported(c)
          BY <2>1, <3>3 DEF CountsConserved
        <4>2. /\ c # e.counter => evaluated'[c] = evaluated[c] /\ counters'[c] = counters[c]
              /\ c = e.counter => evaluated'[c] = evaluated[c] + 1 /\ counters'[c] = counters[c] + 1
          BY <2>2, <3>1, <3>2 DEF Summarize
        <4>3. evaluated[c] \in Nat /\ counters[c] \in Nat /\ AllReported(c) \in Nat
          BY <2>2, NumberReported DEF Typed
        <4> QED BY <4>1, <4>2, <4>3
      <3> QED BY <2>1, <3>3, <3>4, Zenon DEF CountsConserved
    <2>5. ASSUME SenderBundle PROVE Inv'
      <3>1. bundles' = Append(bundles, Bundled) /\ evaluated' = evaluated /\ CountersTaken
        BY <2>5 DEF SenderBundle
      <3>2. ASSUME NEW c \in Counters
            PROVE  /\ evaluated'[c] = counters'[c] + AllReported(c)'
                   /\ \A i \in DOMAIN bundles' : Reported(bundles'[i], c) \in Nat
        <4>1. /\ AllReported(c)' = AllReported(c) + Reported(Bundled, c)
              /\ AllReported(c) \in Nat
              /\ \A i \in DOMAIN bundles' : Reported(bundles'[i], c) \in Nat
          BY <3>1, OneMoreBundle DEF Typed
        <4>2. Reported(Bundled, c) = IF summaryStart THEN counters[c] ELSE 0
          BY ReportedByBundle DEF Typed
        <4>3. counters'[c] = IF summaryStart THEN 0 ELSE counters[c]
          BY <3>1 DEF CountersTaken, NoCounts, summaryVars
        <4>4. evaluated[c] = counters[c] + AllReported(c)
          BY DEF CountsConserved
        <4> QED BY <2>2, <3>1, <4>1, <4>2, <4>3, <4>4
      <3>3. CountsConserved'
        BY <3>2, Zenon DEF CountsConserved
      <3>4. ReportsAreNumbers'
        BY <3>2, Zenon DEF ReportsAreNumbers
      <3> QED BY <3>3, <3>4
    <2>6. \/ \E t \in Threads : EvalRecord(t)
          \/ SenderBundle
          \/ UNCHANGED <<counters, evaluated, bundles>>
      BY Zenon DEF Next, Sender, EvalStart, EvalFail, Track, Alias, Identify, IdentifyAlias, SenderSent,
             SenderUnauthorized, SenderRetry, SenderDiscard, SenderNothing, Terminated, vars,
             queueVars, summaryVars, senderVars
    <2> HIDE DEF Inv
    <2> QED BY <2>3, <2>4, <2>5, <2>6
  <1> QED BY <1>1, <1>2, TypedInvariant, CountersCorrect, PTL DEF Spec


-----------------------------------------------------------------------------
(* Places *)

LEMMA PlacesTyped ==
  ASSUME TypeOK
  PROVE  /\ bundles \in Seq(Payloads) /\ Len(bundles) \in Nat
         /\ DOMAIN bundles = 1 .. Len(bundles)
         /\ events \in Seq(Events) /\ Len(events) \in Nat /\ DOMAIN events = 1 .. Len(events)
  BY DEF TypeOK

LEMMA EventOrSummary ==
  ASSUME TypeOK, NEW p \in Batches, NEW i \in DOMAIN Batch(p), IsEvent(Batch(p)[i])
  PROVE  Batch(p)[i] \in Events
  <1>1. Batch(p) \in Payloads
    <2>1. CASE p \in DOMAIN bundles
      BY <2>1, PlacesTyped DEF Batch
    <2>2. CASE p \notin DOMAIN bundles
      BY <2>2, PlacesTyped DEF Batch, Payloads
    <2> QED BY <2>1, <2>2
  <1>2. Batch(p)[i] \in Events \cup Summaries
    BY <1>1 DEF Payloads
  <1> QED BY <1>2 DEF IsEvent, Summaries

\* A new event is behind all others, and nothing else moves.
LEMMA AddedPlaces ==
  ASSUME TypeOK, NEW e, Adds(e), UNCHANGED bundles
  PROVE  /\ Batches' = Batches
         /\ \A p \in Batches : \A i \in DOMAIN Batch(p) :
                i \in DOMAIN (Batch(p)') /\ (Batch(p)')[i] = Batch(p)[i]
         /\ \A p \in Batches : \A i \in DOMAIN (Batch(p)') :
                \/ i \in DOMAIN Batch(p) /\ (Batch(p)')[i] = Batch(p)[i]
                \/ /\ p = Len(bundles) + 1 /\ i = Len(events) + 1 /\ (Batch(p)')[i] = e
                   /\ dropped' = dropped
  <1>1. Batches' = Batches
    BY DEF Batches
  <1>2. ASSUME NEW p \in Batches
        PROVE  /\ p \in DOMAIN bundles => Batch(p) = bundles[p] /\ Batch(p)' = bundles[p]
               /\ p \notin DOMAIN bundles =>
                    Batch(p) = events /\ Batch(p)' = events' /\ p = Len(bundles) + 1
    BY PlacesTyped DEF Batch, Batches
  <1>3. \/ events' = events
        \/ /\ dropped' = dropped
           /\ \A i \in DOMAIN events : i \in DOMAIN events' /\ events'[i] = events[i]
           /\ \A i \in DOMAIN events' : \/ i \in DOMAIN events /\ events'[i] = events[i]
                                        \/ i = Len(events) + 1 /\ events'[i] = e
    BY PlacesTyped DEF Adds
  <1> QED BY <1>1, <1>2, <1>3

\* Bundling adds a summary at most.
LEMMA BundledPlaces ==
  ASSUME TypeOK, Bundles
  PROVE  /\ \A p \in Batches : /\ p \in Batches'
                               /\ \A i \in DOMAIN Batch(p) :
                                     i \in DOMAIN (Batch(p)') /\ (Batch(p)')[i] = Batch(p)[i]
         /\ \A p \in Batches' : \A i \in DOMAIN (Batch(p)') :
                IsEvent((Batch(p)')[i]) =>
                    p \in Batches /\ i \in DOMAIN Batch(p) /\ (Batch(p)')[i] = Batch(p)[i]
  <1> PICK n \in Nat : n = Len(bundles)
    BY PlacesTyped, Zenon
  <1>1. bundles' = Append(bundles, Bundled) /\ events' = <<>>
    BY DEF Bundles
  <1>2. /\ n \in Nat /\ Len(bundles') = n + 1 /\ DOMAIN bundles' = 1 .. n + 1
        /\ bundles'[n + 1] = Bundled /\ \A p \in 1 .. n : bundles'[p] = bundles[p]
    BY <1>1, PlacesTyped, BundledTyped, SMTT(30)
  <1>3. /\ \A i \in DOMAIN events : i \in DOMAIN Bundled /\ Bundled[i] = events[i]
        /\ \A i \in DOMAIN Bundled : IsEvent(Bundled[i]) =>
               i \in DOMAIN events /\ Bundled[i] = events[i]
    <2>1. CASE summaryStart
      <3>1. Bundled = Append(events, Summary) /\ ~IsEvent(Summary)
        BY <2>1, BundledTyped, SMTT(30) DEF IsEvent, Summary
      <3> QED BY <3>1, PlacesTyped
    <2>2. CASE ~summaryStart
      BY <2>2, BundledTyped, SMTT(30)
    <2> QED BY <2>1, <2>2, SMTT(30)
  <1>4. Batches = 1 .. n + 1 /\ Batches' = 1 .. n + 2
    BY <1>2 DEF Batches
  <1>5. /\ \A p \in 1 .. n : Batch(p) = bundles[p] /\ Batch(p)' = bundles[p]
        /\ Batch(n + 1) = events /\ Batch(n + 1)' = Bundled
        /\ Batch(n + 2)' = <<>>
    BY <1>1, <1>2, PlacesTyped, SMTT(30) DEF Batch
  <1>6. \A p \in Batches : p \in 1 .. n \/ p = n + 1
    BY <1>2, <1>4, SMTT(30)
  <1>7. \A p \in Batches' : p \in 1 .. n \/ p = n + 1 \/ p = n + 2
    BY <1>2, <1>4, SMTT(30)
  <1>8. \A p \in Batches : p \in Batches'
    BY <1>2, <1>4, SMTT(30)
  <1>9. DOMAIN <<>> = {}
    OBVIOUS
  <1> QED BY <1>3, <1>4, <1>5, <1>6, <1>7, <1>8, <1>9, SMTT(30)

LEMMA LeavingPlaces ==
  /\ \A e : e \in Leaving <=>
        \E p \in Batches : \E i \in DOMAIN Batch(p) : e = Batch(p)[i] /\ IsEvent(e)
  /\ \A e : e \in Leaving' <=>
        \E p \in Batches' : \E i \in DOMAIN (Batch(p)') : e = (Batch(p)')[i] /\ IsEvent(e)
  <1>1. \A e : e \in Leaving <=>
          \E p \in Batches : \E i \in DOMAIN Batch(p) : e = Batch(p)[i] /\ IsEvent(e)
    BY DEF Leaving, Range
  <1>2. \A e : e \in Leaving' <=>
          \E p \in Batches' : \E i \in DOMAIN (Batch(p)') : e = (Batch(p)')[i] /\ IsEvent(e)
    BY DEF Leaving, Range, IsEvent
  <1> QED BY <1>1, <1>2, ZenonT(30)

LEMMA AddedLeaving ==
  ASSUME TypeOK, NEW e, Adds(e), UNCHANGED bundles
  PROVE  \/ Leaving' = Leaving /\ dropped' = dropped \cup {e}
         \/ Leaving' = Leaving \cup {e} /\ dropped' = dropped
  <1>1. IsEvent(e)
    BY DEF Adds, Events, EventKinds, IsEvent
  <1>2. CASE events' = events /\ dropped' = dropped \cup {e}
    BY <1>2 DEF Leaving, Batches, Batch, IsEvent
  <1>3. CASE Len(events) < EventsCapacity /\ events' = Append(events, e) /\ dropped' = dropped
    <2>1. ASSUME NEW x \in Leaving' PROVE x \in Leaving \cup {e}
      BY <2>1, AddedPlaces, LeavingPlaces, SMTT(30)
    <2>2. ASSUME NEW x \in Leaving PROVE x \in Leaving'
      BY <2>2, AddedPlaces, LeavingPlaces, SMTT(30)
    <2>3. e \in Leaving'
      <3>1. PICK p \in Nat : p = Len(bundles) + 1
        BY PlacesTyped
      <3>2. p \in Batches' /\ Batch(p)' = events'
        BY <3>1, PlacesTyped, SMTT(30) DEF Batches, Batch
      <3>3. Len(events) + 1 \in DOMAIN events' /\ events'[Len(events) + 1] = e
        BY <1>3, PlacesTyped, SMTT(30)
      <3> QED BY <1>1, <3>2, <3>3, LeavingPlaces, ZenonT(30)
    <2> QED BY <1>3, <2>1, <2>2, <2>3, ZenonT(30)
  <1> QED BY <1>2, <1>3 DEF Adds

LEMMA BundledLeaving ==
  ASSUME TypeOK, Bundles
  PROVE  Leaving' = Leaving
  <1>1. ASSUME NEW x \in Leaving' PROVE x \in Leaving
    BY <1>1, BundledPlaces, LeavingPlaces, SMTT(30)
  <1>2. ASSUME NEW x \in Leaving PROVE x \in Leaving'
    BY <1>2, BundledPlaces, LeavingPlaces, SMTT(30)
  <1> QED BY <1>1, <1>2, ZenonT(30)

LEMMA SameLeaving ==
  ASSUME UNCHANGED <<events, bundles>>
  PROVE  Leaving' = Leaving
  BY ZenonT(30) DEF Leaving, Batches, Batch, IsEvent

-----------------------------------------------------------------------------
(* Drops and order *)

\* Nothing is lost but what met a full queue, for every capacity and interleaving.
THEOREM DropsCorrect == Spec => []OnlyCapacityDrops
  <1>1. Init => OnlyCapacityDrops
    <2> SUFFICES ASSUME Init PROVE OnlyCapacityDrops
      OBVIOUS
    <2> DEFINE e == Event("identify", user, 1)
    <2>1. Batches = {1} /\ Batch(1) = events
      BY DEF Init, Batches, Batch
    <2>2. IsEvent(e) /\ e.n = 1
      BY DEF Event, IsEvent
    <2>3. Leaving \cup dropped = {e}
      <3>1. CASE EventsCapacity > 0
        <4>1. events = <<e>> /\ dropped = {}
          BY <3>1 DEF Init
        <4>2. DOMAIN events = {1} /\ events[1] = e
          BY <4>1
        <4> QED BY <2>1, <2>2, <4>1, <4>2, LeavingPlaces, SMTT(30)
      <3>2. CASE ~(EventsCapacity > 0)
        <4>1. events = <<>> /\ dropped = {e}
          BY <3>2, SMTT(30) DEF Init
        <4>2. DOMAIN events = {}
          BY <4>1
        <4> QED BY <2>1, <4>1, <4>2, LeavingPlaces, SMTT(30)
      <3> QED BY <3>1, <3>2, ZenonT(30)
    <2>4. made = 1
      BY DEF Init
    <2> HIDE DEF e
    <2> QED BY <2>2, <2>3, <2>4, SMTT(30) DEF OnlyCapacityDrops
  <1>2. Typed /\ OnlyCapacityDrops /\ [Next]_vars => OnlyCapacityDrops'
    <2> SUFFICES ASSUME Typed, OnlyCapacityDrops, [Next]_vars PROVE OnlyCapacityDrops'
      OBVIOUS
    <2>1. made \in Nat
      BY DEF Typed, TypeOK
    <2>2. ASSUME NEW e, Adds(e), UNCHANGED bundles PROVE OnlyCapacityDrops'
      <3>1. Leaving' \cup dropped' = (Leaving \cup dropped) \cup {e}
        BY <2>2, AddedLeaving, SMTT(30) DEF Typed
      <3>2. made' = made + 1 /\ e.n = made + 1
        BY <2>2 DEF Adds
      <3>3. 1 .. made + 1 = (1 .. made) \cup {made + 1}
        BY <2>1
      <3>4. {x.n : x \in Leaving' \cup dropped'} = {x.n : x \in Leaving \cup dropped} \cup {e.n}
        BY <3>1
      <3> QED BY <3>2, <3>3, <3>4, SMTT(30) DEF OnlyCapacityDrops
    <2>3. ASSUME Leaving' = Leaving, UNCHANGED <<made, dropped>> PROVE OnlyCapacityDrops'
      BY <2>3 DEF OnlyCapacityDrops
    <2>4. ASSUME Bundles PROVE OnlyCapacityDrops'
      BY <2>3, <2>4, BundledLeaving, SMTT(30) DEF Bundles, Typed
    <2>5. ASSUME UNCHANGED <<made, events, dropped, bundles>> PROVE OnlyCapacityDrops'
      BY <2>3, <2>5, SameLeaving, SMTT(30)
    <2> QED BY <2>2, <2>4, <2>5, QueueSteps, ZenonT(30) DEF Delivers
  <1> QED BY <1>1, <1>2, TypedInvariant, PTL DEF Spec

\* Events leave in the order in which they were made, each of them once.
THEOREM OrderCorrect == Spec => []QueueOrder
  <1>1. Init => QueueOrder
    <2> SUFFICES ASSUME Init PROVE QueueOrder
      OBVIOUS
    <2>1. Batches = {1} /\ Batch(1) = events
      BY DEF Init, Batches, Batch
    <2>2. \A i, j \in DOMAIN events : ~(i < j)
      BY DEF Init
    <2> QED BY <2>1, <2>2, SMTT(30) DEF QueueOrder, After
  <1>2. Typed /\ OnlyCapacityDrops /\ QueueOrder /\ [Next]_vars => QueueOrder'
    <2> SUFFICES ASSUME Typed, OnlyCapacityDrops, QueueOrder, [Next]_vars PROVE QueueOrder'
      OBVIOUS
    <2>1. ASSUME NEW e, Adds(e), UNCHANGED bundles PROVE QueueOrder'
      <3> SUFFICES ASSUME NEW p \in Batches', NEW q \in Batches',
                          NEW i \in DOMAIN (Batch(p)'), NEW j \in DOMAIN (Batch(q)'),
                          After(q, j, p, i), IsEvent((Batch(p)')[i]), IsEvent((Batch(q)')[j])
                   PROVE  (Batch(p)')[i].n < (Batch(q)')[j].n
        BY DEF QueueOrder, After, IsEvent
      <3>1. p \in Batches /\ q \in Batches /\ p \in 1 .. Len(bundles) + 1
            /\ q \in 1 .. Len(bundles) + 1 /\ Len(bundles) \in Nat
        BY <2>1, AddedPlaces, PlacesTyped, ZenonT(30) DEF Typed, Batches
      <3>2. CASE j \in DOMAIN Batch(q) /\ (Batch(q)')[j] = Batch(q)[j]
        <4>1. i \in DOMAIN Batch(p) /\ (Batch(p)')[i] = Batch(p)[i]
          <5> SUFFICES ASSUME p = Len(bundles) + 1, i = Len(events) + 1 PROVE FALSE
            BY <2>1, <3>1, AddedPlaces, SMTT(30) DEF Typed
          <5>1. p = q /\ i < j
            BY <3>1 DEF After
          <5>0. PICK m \in Nat, n \in Nat : /\ m = Len(bundles) /\ DOMAIN bundles = 1 .. m
                                            /\ n = Len(events) /\ DOMAIN events = 1 .. n
            BY PlacesTyped, Zenon DEF Typed
          <5>2. Batch(q) = events
            <6>1. q = m + 1 /\ ~(m + 1 \in 1 .. m)
              BY <5>0, <5>1
            <6> QED BY <6>1, <5>0, Zenon DEF Batch
          <5>3. j \in 1 .. n
            BY <3>2, <5>0, <5>2, Zenon
          <5>4. i = n + 1
            BY <5>0, Zenon
          <5> QED BY <5>1, <5>3, <5>4
        <4> QED BY <3>1, <3>2, <4>1, SMTT(30) DEF QueueOrder
      <3>3. CASE (Batch(q)')[j] = e /\ q = Len(bundles) + 1 /\ j = Len(events) + 1
        <4>1. e.n = made + 1 /\ made \in Nat
          BY <2>1 DEF Adds, Typed, TypeOK
        <4>2. i \in DOMAIN Batch(p) /\ (Batch(p)')[i] = Batch(p)[i]
          <5> SUFFICES ASSUME p = Len(bundles) + 1, i = Len(events) + 1 PROVE FALSE
            BY <2>1, <3>1, AddedPlaces DEF Typed
          <5>1. PICK m \in Nat, n \in Nat : m = Len(bundles) /\ n = Len(events)
            BY PlacesTyped, Zenon DEF Typed
          <5>2. p = m + 1 /\ q = m + 1 /\ i = n + 1 /\ j = n + 1
            BY <3>3, <5>1, Zenon
          <5>3. ~(m + 1 < m + 1) /\ ~(n + 1 < n + 1)
            OBVIOUS
          <5> QED BY <5>2, <5>3, Zenon DEF After
        <4>3. Batch(p)[i] \in Leaving
          BY <3>1, <4>2, LeavingPlaces, ZenonT(30)
        <4>4. Batch(p)[i].n \in 1 .. made
          BY <4>3, ZenonT(30) DEF OnlyCapacityDrops
        <4> QED BY <3>3, <4>1, <4>2, <4>4, SMTT(30)
      <3> QED BY <2>1, <3>1, <3>2, <3>3, AddedPlaces, ZenonT(30) DEF Typed
    <2>2. ASSUME Bundles PROVE QueueOrder'
      BY <2>2, BundledPlaces, SMTT(30) DEF Typed, QueueOrder, After, IsEvent
    <2>3. ASSUME UNCHANGED <<events, bundles>> PROVE QueueOrder'
      BY <2>3 DEF QueueOrder, Batches, Batch, After, IsEvent
    <2> QED BY <2>1, <2>2, <2>3, QueueSteps, SMTT(30) DEF Delivers
  <1> QED BY <1>1, <1>2, TypedInvariant, DropsCorrect, PTL DEF Spec

-----------------------------------------------------------------------------
(* Retries *)

\* Identifiers number the payloads, and whatever arrived is the payload of its identifier.
Identified ==
    /\ Len(bundles) = payloadId
    /\ sender \in {"send", "resend"} => payloadId > 0 /\ payload = bundles[payloadId]
    /\ \A r \in received : r[1] \in 1 .. payloadId /\ r[2] = bundles[r[1]]

LEMMA IdentifiedInvariant == Spec => []Identified
  <1>1. Init => Identified
    BY DEF Init, Identified
  <1>2. Typed /\ Identified /\ [Next]_vars => Identified'
    <2> SUFFICES ASSUME Typed, Identified, [Next]_vars PROVE Identified'
      OBVIOUS
    <2>1. payloadId \in Nat /\ bundles \in Seq(Payloads) /\ DOMAIN bundles = 1 .. payloadId
      BY PlacesTyped DEF Typed, TypeOK, Identified
    <2>2. ASSUME Bundles PROVE Identified'
      <3>1. /\ bundles' = Append(bundles, Bundled) /\ payload' = Bundled
            /\ payloadId' = payloadId + 1 /\ received' = received
        BY <2>2, SMTT(30) DEF Bundles
      <3>2. /\ Len(bundles') = payloadId' /\ bundles'[payloadId'] = Bundled
            /\ \A p \in 1 .. payloadId : bundles'[p] = bundles[p]
        BY <2>1, <3>1, BundledTyped, SMTT(30) DEF Typed, Identified
      <3>3. \A r \in received : r[1] \in 1 .. payloadId' /\ r[2] = bundles'[r[1]]
        BY <2>1, <3>1, <3>2, SMTT(30) DEF Identified
      <3> QED BY <2>1, <3>1, <3>2, <3>3, SMTT(30) DEF Identified
    <2>3. ASSUME Delivers PROVE Identified'
      <3>1. payloadId' = payloadId /\ bundles' = bundles
        BY <2>3 DEF Delivers
      <3>2. sender' \in {"send", "resend"} => sender \in {"send", "resend"} /\ payload' = payload
        BY <2>3 DEF Delivers
      <3>3. ASSUME NEW r \in received' PROVE r[1] \in 1 .. payloadId /\ r[2] = bundles[r[1]]
        <4>1. \/ r \in received
              \/ r = <<payloadId, payload>> /\ sender \in {"send", "resend"}
          BY <2>3 DEF Delivers, Arrives
        <4> QED BY <2>1, <4>1, SMTT(30) DEF Identified
      <3> QED BY <3>1, <3>2, <3>3, SMTT(30) DEF Identified
    <2>4. ASSUME UNCHANGED <<payload, payloadId, received, bundles, sender>> PROVE Identified'
      BY <2>4 DEF Identified
    <2> QED BY <2>2, <2>3, <2>4, QueueSteps, SMTT(30)
  <1> QED BY <1>1, <1>2, TypedInvariant, PTL DEF Spec

\* The server can tell a repeated delivery from a new one by its identifier, and no event
\* comes under two identifiers.
THEOREM RetriesCorrect == Spec => []RetriesRecognisable
  <1>1. Typed /\ QueueOrder /\ Identified => RetriesRecognisable
    <2> SUFFICES ASSUME Typed, QueueOrder, Identified,
                        NEW r \in received, NEW q \in received, r # q
                 PROVE  /\ r[1] # q[1]
                        /\ \A i \in DOMAIN r[2], j \in DOMAIN q[2] :
                             r[2][i].kind = "summary" \/ r[2][i] # q[2][j]
      BY ZenonT(30) DEF RetriesRecognisable
    <2>1. /\ r = <<r[1], r[2]>> /\ q = <<q[1], q[2]>> /\ r[1] \in Nat /\ q[1] \in Nat
          /\ r[1] \in 1 .. payloadId /\ q[1] \in 1 .. payloadId
          /\ r[2] = bundles[r[1]] /\ q[2] = bundles[q[1]]
      BY DEF Typed, TypeOK, Identified
    <2>2. r[1] # q[1]
      BY <2>1, ZenonT(30)
    <2>3. /\ r[1] \in Batches /\ q[1] \in Batches
          /\ Batch(r[1]) = r[2] /\ Batch(q[1]) = q[2]
      BY <2>1, PlacesTyped, SMTT(30) DEF Typed, TypeOK, Identified, Batches, Batch
    <2>4. ASSUME NEW i \in DOMAIN r[2], NEW j \in DOMAIN q[2],
                 r[2][i].kind # "summary", r[2][i] = q[2][j]
          PROVE  FALSE
      <3>1. IsEvent(r[2][i]) /\ IsEvent(q[2][j])
        BY <2>4, ZenonT(30) DEF IsEvent
      <3>2. r[2][i] \in Events /\ r[2][i].n \in Nat
        BY <2>3, <3>1, EventOrSummary, SMTT(30) DEF Typed, Events
      <3>3. r[2][i].n < q[2][j].n \/ q[2][j].n < r[2][i].n
        BY <2>1, <2>2, <2>3, <3>1, SMTT(30) DEF QueueOrder, After
      <3> QED BY <2>4, <3>2, <3>3, SMTT(30)
    <2> QED BY <2>2, <2>4, ZenonT(30)
  <1> QED BY <1>1, TypedInvariant, OrderCorrect, IdentifiedInvariant, PTL

-----------------------------------------------------------------------------
(* Users *)

NoIdentifyDropped == \A e \in dropped : e.kind # "identify"

\* An evaluation under way is for the current user, whose identify event is the last one.
Attributed ==
    /\ \A t \in Threads : \A e \in eval[t] : e.user = user
    /\ NoIdentifyDropped =>
          \E d \in Leaving : /\ d.kind = "identify" /\ d.user = user
                             /\ \A x \in Leaving : x.kind = "identify" => x.n <= d.n

\* What a step adds, and for whom.
AddsFor(e) ==
    /\ Adds(e) /\ UNCHANGED bundles
    /\ \/ e.kind = "identify" /\ e.user = user'
       \/ e.kind = "alias" /\ UNCHANGED user
       \/ e.kind \in {"feature", "custom"} /\ e.user = user /\ UNCHANGED user

LEMMA UserSteps ==
  ASSUME Typed, Attributed, [Next]_vars
  PROVE  /\ \A t \in Threads : \A e \in eval'[t] : e.user = user'
         /\ \/ \E e : AddsFor(e)
            \/ Leaving' = Leaving /\ UNCHANGED <<user, made, dropped>>
  <1> USE DEF senderVars, queueVars, summaryVars
  <1>1. ASSUME NEW kind \in EventKinds, NEW u \in Users, AddEvent(kind, u), UNCHANGED bundles,
               \/ kind = "identify" /\ u = user'
               \/ kind = "alias" /\ UNCHANGED user
               \/ kind \in {"feature", "custom"} /\ u = user /\ UNCHANGED user
        PROVE  \E e : AddsFor(e)
    <2> DEFINE e == Event(kind, u, made + 1)
    <2>1. Adds(e)
      BY <1>1, AddEventAdds, SMTT(30) DEF Typed
    <2>2. e.kind = kind /\ e.user = u
      BY DEF Event
    <2> QED BY <1>1, <2>1, <2>2, SMTT(30) DEF AddsFor
  <1>2. /\ "custom" \in EventKinds /\ "alias" \in EventKinds /\ "identify" \in EventKinds
        /\ "feature" \in EventKinds
    BY DEF EventKinds
  <1>3. /\ user \in Users /\ identifying \subseteq Users /\ DOMAIN eval = Threads
        /\ \A t \in Threads : \A e \in eval[t] : e.user \in Users /\ e.user = user
    BY ZenonT(30) DEF Typed, TypeOK, Evaluations, Attributed
  <1>4. CASE \E t \in Threads : EvalStart(t)
    BY <1>3, <1>4, SameLeaving, SMTT(30) DEF EvalStart
  <1>5. ASSUME NEW t \in Threads, EvalRecord(t) \/ EvalFail(t)
        PROVE  /\ \A x \in Threads : \A e \in eval'[x] : e.user = user'
               /\ \/ \E e : AddsFor(e)
                  \/ Leaving' = Leaving /\ UNCHANGED <<user, made, dropped>>
    <2>1. UNCHANGED <<user, bundles>> /\ eval' = [eval EXCEPT ![t] = {}]
      BY <1>5, Zenon DEF EvalRecord, EvalFail
    <2>2. PICK e \in eval[t] : \/ AddEvent("feature", e.user)
                               \/ UNCHANGED <<made, events, dropped>>
      BY <1>5, Zenon DEF EvalRecord, EvalFail
    <2>3. \A x \in Threads : \A f \in eval'[x] : f.user = user'
      BY <1>3, <2>1, ZenonT(30)
    <2> QED BY <1>1, <1>2, <1>3, <2>1, <2>2, <2>3, SameLeaving, SMTT(30)
  <1>6. CASE Track
    BY <1>1, <1>2, <1>3, <1>6, ZenonT(30) DEF Track
  <1>7. CASE IdentifyAlias
    BY <1>1, <1>2, <1>3, <1>7, ZenonT(30) DEF IdentifyAlias
  <1>8. ASSUME NEW u \in Users, Alias(u)
        PROVE  (\A t \in Threads : \A e \in eval'[t] : e.user = user') /\ \E e : AddsFor(e)
    BY <1>1, <1>2, <1>3, <1>8, ZenonT(30) DEF Alias
  <1>9. ASSUME NEW u \in Users, Identify(u)
        PROVE  (\A t \in Threads : \A e \in eval'[t] : e.user = user') /\ \E e : AddsFor(e)
    <2>1. \A t \in Threads : eval'[t] = {}
      BY <1>9 DEF Identify, UserWritable
    <2>2. user' = u /\ AddEvent("identify", u) /\ UNCHANGED bundles
      BY <1>9, ZenonT(30) DEF Identify
    <2> QED BY <1>1, <1>2, <2>1, <2>2, ZenonT(30)
  <1>10. CASE Sender
    <2>1. UNCHANGED <<user, eval, made, dropped>>
      BY <1>10, ZenonT(30) DEF Sender, SenderBundle, SenderSent, SenderUnauthorized, SenderRetry,
                   SenderDiscard
    <2>2. Bundles \/ UNCHANGED <<events, bundles>>
      BY <1>10, ZenonT(30) DEF Sender, SenderBundle, SenderSent, SenderUnauthorized, SenderRetry,
                   SenderDiscard, Bundles
    <2> QED BY <1>3, <2>1, <2>2, BundledLeaving, SameLeaving, ZenonT(30) DEF Typed
  <1>11. CASE UNCHANGED vars
    BY <1>3, <1>11, SameLeaving, ZenonT(30) DEF vars
  <1> QED BY <1>4, <1>5, <1>6, <1>7, <1>8, <1>9, <1>10, <1>11, ZenonT(30)
          DEF Next, SenderNothing, Terminated

\* A new identify event becomes the last one; other events leave it so.
LEMMA AttributedStep ==
  ASSUME Typed, OnlyCapacityDrops, Attributed, [Next]_vars
  PROVE  Attributed'
  <1>1. \A t \in Threads : \A e \in eval'[t] : e.user = user'
    BY UserSteps, ZenonT(30)
  <1> SUFFICES ASSUME NoIdentifyDropped'
               PROVE  \E d \in Leaving' :
                        /\ d.kind = "identify" /\ d.user = user'
                        /\ \A x \in Leaving' : x.kind = "identify" => x.n <= d.n
    BY <1>1, ZenonT(30) DEF Attributed
  <1>2. made \in Nat /\ \A x \in Leaving : x.n \in 1 .. made
    BY DEF OnlyCapacityDrops, Typed, TypeOK
  <1>3. ASSUME NEW e, AddsFor(e)
        PROVE  \E d \in Leaving' : /\ d.kind = "identify" /\ d.user = user'
                                   /\ \A x \in Leaving' : x.kind = "identify" => x.n <= d.n
    <2>1. \/ Leaving' = Leaving /\ dropped' = dropped \cup {e}
          \/ Leaving' = Leaving \cup {e} /\ dropped' = dropped
      BY <1>3, AddedLeaving, SMTT(30) DEF AddsFor, Typed
    <2>2. e.n = made + 1
      BY <1>3 DEF AddsFor, Adds
    <2>3. CASE e.kind = "identify"
      <3>1. Leaving' = Leaving \cup {e} /\ e.user = user'
        BY <1>3, <2>1, <2>3, ZenonT(30) DEF AddsFor, NoIdentifyDropped
      <3> QED BY <1>2, <2>2, <2>3, <3>1, SMTT(30)
    <2>4. CASE e.kind # "identify"
      <3>1. NoIdentifyDropped /\ user' = user
        BY <1>3, <2>1, <2>4, ZenonT(30) DEF AddsFor, NoIdentifyDropped
      <3> QED BY <2>1, <2>4, <3>1, ZenonT(30) DEF Attributed
    <2> QED BY <2>3, <2>4, ZenonT(30)
  <1>4. CASE Leaving' = Leaving /\ UNCHANGED <<user, made, dropped>>
    BY <1>4 DEF Attributed, NoIdentifyDropped
  <1> QED BY <1>3, <1>4, UserSteps, ZenonT(30)

\* Events are attributed to the user they were recorded for: between the identify events of
\* two users there are only the first one's feature and custom events.
THEOREM AttributionCorrect == Spec => []EventsFollowIdentify
  <1>1. Init => Attributed /\ EventsFollowIdentify
    <2> SUFFICES ASSUME Init PROVE Attributed /\ EventsFollowIdentify
      OBVIOUS
    <2> DEFINE e == Event("identify", user, 1)
    <2>1. e.kind = "identify" /\ e.user = user /\ e.n = 1 /\ IsEvent(e)
      BY DEF Event, IsEvent
    <2>2. Batches = {1} /\ Batch(1) = events
      BY DEF Init, Batches, Batch
    <2>3. \A t \in Threads : eval[t] = {}
      BY ZenonT(30) DEF Init
    <2>4. CASE EventsCapacity > 0
      <3>0. events = <<e>>
        BY <2>4, Zenon DEF Init
      <3> HIDE DEF e
      <3>1. DOMAIN events = {1} /\ events[1] = e
        BY <3>0
      <3>2. Leaving = {e}
        <4>1. \A x : x \in Leaving <=>
                \E p \in {1} : \E i \in DOMAIN Batch(p) : x = Batch(p)[i] /\ IsEvent(x)
          BY <2>2, LeavingPlaces, Zenon
        <4>2. \A x : x \in Leaving <=> \E i \in {1} : x = events[i] /\ IsEvent(x)
          BY <2>2, <3>1, <4>1, Zenon
        <4> QED BY <2>1, <3>1, <4>2, Zenon
      <3> QED BY <2>1, <2>3, <3>2, SMTT(30) DEF Attributed, EventsFollowIdentify
    <2>5. CASE ~(EventsCapacity > 0)
      <3>1. dropped = {e}
        BY <2>5 DEF Init
      <3> HIDE DEF e
      <3> QED BY <2>1, <2>3, <3>1, SMTT(30) DEF Attributed, EventsFollowIdentify, NoIdentifyDropped
    <2> QED BY <2>4, <2>5, SMTT(30)
  <1>2. Typed /\ OnlyCapacityDrops /\ Attributed /\ [Next]_vars => Attributed'
    BY AttributedStep, ZenonT(30)
  <1>3. Typed /\ OnlyCapacityDrops /\ Attributed /\ EventsFollowIdentify /\ [Next]_vars
            => EventsFollowIdentify'
    <2> SUFFICES ASSUME Typed, OnlyCapacityDrops, Attributed, EventsFollowIdentify,
                        [Next]_vars, NoIdentifyDropped',
                        NEW f \in Leaving', f.kind \in {"feature", "custom"}
                 PROVE  \E d \in Leaving' :
                          /\ d.kind = "identify" /\ d.n < f.n /\ d.user = f.user
                          /\ \A x \in Leaving' : x.kind = "identify" => x.n <= d.n \/ x.n >= f.n
      BY DEF EventsFollowIdentify, LastIdentify, NoIdentifyDropped
    <2>1. made \in Nat /\ \A x \in Leaving : x.n \in 1 .. made
      BY DEF OnlyCapacityDrops, Typed, TypeOK
    <2>2. ASSUME f \in Leaving, NoIdentifyDropped
          PROVE  \E d \in Leaving : /\ d.kind = "identify" /\ d.n < f.n /\ d.user = f.user
                                    /\ \A x \in Leaving : x.kind = "identify" =>
                                            x.n <= d.n \/ x.n >= f.n
      BY <2>2, ZenonT(30) DEF EventsFollowIdentify, LastIdentify, NoIdentifyDropped
    <2>3. ASSUME NEW e, AddsFor(e)
          PROVE  \E d \in Leaving' :
                   /\ d.kind = "identify" /\ d.n < f.n /\ d.user = f.user
                   /\ \A x \in Leaving' : x.kind = "identify" => x.n <= d.n \/ x.n >= f.n
      <3>1. \/ Leaving' = Leaving /\ dropped' = dropped \cup {e}
            \/ Leaving' = Leaving \cup {e} /\ dropped' = dropped
        BY <2>3, AddedLeaving, ZenonT(30) DEF AddsFor, Typed
      <3>2. e.n = made + 1
        BY <2>3 DEF AddsFor, Adds
      <3>3. NoIdentifyDropped
        BY <3>1, ZenonT(30) DEF NoIdentifyDropped
      <3>4. CASE f \in Leaving
        BY <2>1, <2>2, <3>1, <3>2, <3>3, <3>4, SMTT(30)
      <3>5. CASE f = e /\ Leaving' = Leaving \cup {e}
        <4>1. e.user = user /\ e.kind # "identify"
          BY <2>3, <3>5, ZenonT(30) DEF AddsFor
        <4> QED BY <2>1, <3>2, <3>3, <3>5, <4>1, SMTT(30) DEF Attributed
      <3> QED BY <3>1, <3>4, <3>5, ZenonT(30)
    <2>4. CASE Leaving' = Leaving /\ UNCHANGED <<user, made, dropped>>
      BY <2>2, <2>4 DEF NoIdentifyDropped
    <2> QED BY <2>3, <2>4, UserSteps, ZenonT(30)
  <1> QED BY <1>1, <1>2, <1>3, TypedInvariant, DropsCorrect, PTL DEF Spec

=============================================================================
