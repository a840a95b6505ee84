---------------------------- MODULE ClientProofs ----------------------------
(***************************************************************************)
(* Proofs about module Client, for any users, configuration, failures and  *)
(* number of calls, and about module SavedFlags, for any flags the server  *)
(* may send.  NoLostShutdown and StreamCanBeCut are inductive once types   *)
(* are known; InitializedHasFlags and FinalFlush need to know what the     *)
(* threads carry with them; SavedIsRestored needs to know what the parser  *)
(* lets into the store.                                                    *)
(***************************************************************************)
EXTENDS Client, SavedFlags, TLAPS

-----------------------------------------------------------------------------
(* Types *)

LEMMA SenderTyped == TypeOK /\ Sender => TypeOK'
  <1> SUFFICES ASSUME TypeOK, Sender PROVE TypeOK'
    OBVIOUS
  <1> USE DEF TypeOK, Status, clientVars, senderVars, pollerVars, streamerVars, apiVars,
              UpdateStatus, AwaitSignalled, SenderSignalled
  <1>1. CASE SenderTop BY <1>1 DEF SenderTop
  <1>2. CASE SenderSleep BY <1>2 DEF SenderSleep
  <1>3. CASE SenderTimeout BY <1>3 DEF SenderTimeout
  <1>4. CASE SenderCheck BY <1>4 DEF SenderCheck
  <1>5. CASE SenderBundle
    <2>1. queued' \in BOOLEAN BY <1>5, Zenon DEF SenderBundle
    <2> QED BY <1>5, <2>1 DEF SenderBundle
  <1>6. CASE SenderBundleFailed BY <1>6 DEF SenderBundleFailed
  <1>7. CASE SenderSent BY <1>7 DEF SenderSent
  <1>8. CASE SenderUnauthorized BY <1>8 DEF SenderUnauthorized
  <1>9. CASE SenderSendFailed BY <1>9 DEF SenderSendFailed
  <1>10. CASE SenderRetrySleep BY <1>10, SMTT(20) DEF SenderRetrySleep
  <1> QED BY <1>1, <1>2, <1>3, <1>4, <1>5, <1>6, <1>7, <1>8, <1>9, <1>10 DEF Sender

LEMMA PollerTyped == TypeOK /\ Poller => TypeOK'
  <1> SUFFICES ASSUME TypeOK, Poller PROVE TypeOK'
    OBVIOUS
  <1> USE DEF TypeOK, Status, clientVars, senderVars, pollerVars, streamerVars, apiVars,
              UpdateStatus, AwaitSignalled, PollerSignalled
  <1>1. CASE PollerTop BY <1>1, ConfigIsBoolean DEF PollerTop, SkipPolling
  <1>2. CASE PollerSleep BY <1>2 DEF PollerSleep
  <1>3. CASE PollerTimeout
    <2>1. skippolling' \in BOOLEAN BY <1>3, Zenon DEF PollerTimeout
    <2> QED BY <1>3, <2>1 DEF PollerTimeout
  <1>4. CASE PollerRecheck BY <1>4 DEF PollerRecheck
  <1>5. CASE PollerFetch BY <1>5 DEF PollerFetch
  <1>6. CASE PollerStore BY <1>6 DEF PollerStore
  <1>7. CASE PollerInitialized BY <1>7 DEF PollerInitialized
  <1>8. CASE PollerFailed BY <1>8 DEF PollerFailed
  <1>9. CASE PollerRetryLater BY <1>9, SMTT(30) DEF PollerRetryLater
  <1> QED BY <1>1, <1>2, <1>3, <1>4, <1>5, <1>6, <1>7, <1>8, <1>9
          DEF Poller, PollerStoreFailed

LEMMA StreamerTyped == TypeOK /\ Streamer => TypeOK'
  <1> SUFFICES ASSUME TypeOK, Streamer PROVE TypeOK'
    OBVIOUS
  <1> USE DEF TypeOK, Status, clientVars, senderVars, pollerVars, streamerVars, apiVars,
              UpdateStatus, AwaitSignalled, StreamerSignalled, Responses
  <1>1. CASE StreamerTop BY <1>1 DEF StreamerTop
  <1>2. CASE StreamerTimeout BY <1>2 DEF StreamerTimeout
  <1>3. CASE StreamerEnter
    <2>1. backoff' \in BOOLEAN BY <1>3, Zenon DEF StreamerEnter
    <2> QED BY <1>3, <2>1 DEF StreamerEnter
  <1>4. CASE StreamerSleep BY <1>4 DEF StreamerSleep
  <1>5. CASE StreamerPrepare BY <1>5 DEF StreamerPrepare
  <1>6. CASE StreamerAbandon BY <1>6 DEF StreamerAbandon
  <1>7. CASE StreamerConnect BY <1>7 DEF StreamerConnect
  <1>8. CASE StreamerUnresolved BY <1>8 DEF StreamerUnresolved
  <1>9. CASE StreamerStore BY <1>9 DEF StreamerStore
  <1>10. CASE StreamerInitialized BY <1>10 DEF StreamerInitialized
  <1>11. CASE StreamerStoreFailed BY <1>11 DEF StreamerStoreFailed
  <1>12. CASE StreamerDisconnect BY <1>12 DEF StreamerDisconnect
  <1>13. CASE StreamerFailed BY <1>13 DEF StreamerFailed
  <1>14. CASE StreamerRetry
    <2>1. backoff' \in BOOLEAN BY <1>14, ZenonT(30) DEF StreamerRetry
    <2> QED BY <1>14, <2>1 DEF StreamerRetry
  <1> QED BY ZenonT(30), <1>1, <1>2, <1>3, <1>4, <1>5, <1>6, <1>7, <1>8, <1>9, <1>10, <1>11, <1>12,
             <1>13, <1>14 DEF Streamer

LEMMA ApiTyped == TypeOK /\ Api => TypeOK'
  <1> SUFFICES ASSUME TypeOK, Api PROVE TypeOK'
    OBVIOUS
  <1> USE MaxCallsIsNat
      DEF TypeOK, Status, clientVars, senderVars, pollerVars, streamerVars, apiVars,
          UpdateStatus, AwaitSignalled, SenderSignalled, PollerSignalled, StreamerSignalled,
          FeatureThreadsSignalled, ReinitializeConnection, Call
  <1>1. CASE SetOffline BY <1>1 DEF SetOffline
  <1>2. CASE SetOnline
    <2>1. offline' \in BOOLEAN BY <1>2, Zenon DEF SetOnline
    <2> QED BY <1>2, <2>1 DEF SetOnline
  <1>3. CASE Track BY <1>3 DEF Track
  <1>4. CASE Flush BY <1>4 DEF Flush
  <1>5. CASE RestoreInitialized BY <1>5 DEF RestoreInitialized
  <1>6. CASE RestoreFailed BY <1>6 DEF RestoreFailed
  <1>7. ASSUME NEW b \in BOOLEAN, SetBackground(b) PROVE TypeOK'
    BY <1>7 DEF SetBackground
  <1>8. ASSUME NEW u \in Users, Identify(u) PROVE TypeOK'
    BY <1>8 DEF Identify
  <1>9. ASSUME NEW u \in Users, RestoreFlags(u) PROVE TypeOK'
    BY <1>9 DEF RestoreFlags
  <1>10. CASE AwaitCheck BY <1>10 DEF AwaitCheck
  <1>11. CASE Await BY <1>11 DEF Await, AwaitSleep, AwaitTimeout, AwaitReturn
  <1>12. CASE CloseBegin BY <1>12 DEF CloseBegin
  <1>13. CASE CloseSignal BY <1>13 DEF CloseSignal
  <1>14. CASE CloseJoin BY <1>14 DEF CloseJoin
  <1> QED BY <1>1, <1>2, <1>3, <1>4, <1>5, <1>6, <1>7, <1>8, <1>9, <1>10, <1>11, <1>12, Zenon,
             <1>13, <1>14 DEF Api, Close

LEMMA Stuttering == TypeOK /\ UNCHANGED vars => TypeOK'
  BY DEF TypeOK, vars, clientVars, senderVars, pollerVars, streamerVars, apiVars

\* A client environment keeps its types under every interleaving of its threads and calls.
THEOREM ClientTypeCorrect == Spec => []TypeOK
  <1>1. Init => TypeOK
    <2> SUFFICES ASSUME Init PROVE TypeOK
      OBVIOUS
    <2>1. /\ offline \in BOOLEAN /\ background \in BOOLEAN /\ queued \in BOOLEAN
          /\ finalflush \in BOOLEAN /\ skippolling \in BOOLEAN /\ backoff \in BOOLEAN
      BY Zenon DEF Init
    <2>2. /\ status \in Status /\ user \in Users /\ flagsOf = Nobody /\ sender = "top"
          /\ poller = "top" /\ pollUser = Nobody /\ streamer = "enter"
          /\ streamUser = Nobody /\ response = "transient" /\ conn = "none"
          /\ handle = "unset" /\ close = "open" /\ await = "idle" /\ restore = "idle"
          /\ calls = 0
      BY Zenon DEF Init, Status
    <2> QED BY <2>1, <2>2, MaxCallsIsNat DEF TypeOK
  <1>2. TypeOK /\ [Next]_vars => TypeOK'
    BY SenderTyped, PollerTyped, StreamerTyped, ApiTyped, Stuttering, ZenonT(30) DEF Next, Terminated
  <1> QED BY <1>1, <1>2, PTL DEF Spec

-----------------------------------------------------------------------------
(* Safety *)

\* Whoever is about to report flags has stored them, and a request carries a user.
Carried ==
    /\ InitializedHasFlags
    /\ poller = "inflight" => pollUser # Nobody
    /\ streamer \in {"connect", "reading", "stored"} => streamUser # Nobody
    /\ "stored" \in {poller, streamer, restore} => flagsOf # Nobody

\* The last flush starts after the last call, so nothing is queued after it.
LastFlush ==
    /\ finalflush \/ status = "Shuttingdown" => close # "open"
    /\ "bundle" \notin Failures => (finalflush /\ ~offline /\ queued => sender = "bundle")

Safe == NoLostShutdown /\ StreamCanBeCut /\ Carried /\ LastFlush

LEMMA SenderSafe == TypeOK /\ Safe /\ Sender => Safe'
  <1> SUFFICES ASSUME TypeOK, Safe, Sender PROVE Safe'
    OBVIOUS
  <1> USE NobodyIsNoUser
      DEF Safe, NoLostShutdown, StreamCanBeCut, Carried, InitializedHasFlags, LastFlush, TypeOK,
          clientVars, senderVars, pollerVars, streamerVars, apiVars, UpdateStatus,
          AwaitSignalled, SenderSignalled, CondMtxFree
  <1>1. CASE SenderTop BY <1>1 DEF SenderTop
  <1>2. CASE SenderSleep BY <1>2 DEF SenderSleep
  <1>3. CASE SenderTimeout BY <1>3 DEF SenderTimeout
  <1>4. CASE SenderCheck BY <1>4, ZenonT(30) DEF SenderCheck
  <1>5. CASE SenderBundle BY <1>5 DEF SenderBundle
  <1>6. CASE SenderBundleFailed BY <1>6 DEF SenderBundleFailed
  <1>7. CASE SenderSent BY <1>7 DEF SenderSent
  <1>8. CASE SenderUnauthorized BY <1>8 DEF SenderUnauthorized
  <1>9. CASE SenderSendFailed BY <1>9 DEF SenderSendFailed
  <1>10. CASE SenderRetrySleep BY <1>10, ZenonT(30) DEF SenderRetrySleep
  <1> QED BY <1>1, <1>2, <1>3, <1>4, <1>5, <1>6, <1>7, <1>8, <1>9, <1>10 DEF Sender

LEMMA PollerSafe == TypeOK /\ Safe /\ Poller => Safe'
  <1> SUFFICES ASSUME TypeOK, Safe, Poller PROVE Safe'
    OBVIOUS
  <1> USE NobodyIsNoUser
      DEF Safe, NoLostShutdown, StreamCanBeCut, Carried, InitializedHasFlags, LastFlush, TypeOK,
          clientVars, senderVars, pollerVars, streamerVars, apiVars, UpdateStatus,
          AwaitSignalled, PollerSignalled, CondMtxFree, Dying
  <1>1. CASE PollerTop BY <1>1 DEF PollerTop
  <1>2. CASE PollerSleep BY <1>2 DEF PollerSleep
  <1>3. CASE PollerTimeout BY <1>3 DEF PollerTimeout
  <1>4. CASE PollerRecheck BY <1>4 DEF PollerRecheck
  <1>5. CASE PollerFetch BY <1>5 DEF PollerFetch
  <1>6. CASE PollerStore BY <1>6 DEF PollerStore
  <1>7. CASE PollerInitialized BY <1>7 DEF PollerInitialized
  <1>8. CASE PollerFailed BY <1>8 DEF PollerFailed
  <1>9. CASE PollerRetryLater BY <1>9, SMTT(30) DEF PollerRetryLater
  <1> QED BY <1>1, <1>2, <1>3, <1>4, <1>5, <1>6, <1>7, <1>8, <1>9, ZenonT(30) DEF Poller, PollerStoreFailed

LEMMA StreamerSafe == TypeOK /\ Safe /\ Streamer => Safe'
  <1> SUFFICES ASSUME TypeOK, Safe, Streamer PROVE Safe'
    OBVIOUS
  <1> USE NobodyIsNoUser
      DEF Safe, NoLostShutdown, StreamCanBeCut, Carried, InitializedHasFlags, LastFlush, TypeOK,
          clientVars, senderVars, pollerVars, streamerVars, apiVars, UpdateStatus,
          AwaitSignalled, StreamerSignalled, CondMtxFree, Dying
  <1>1. CASE StreamerTop BY <1>1, ZenonT(30) DEF StreamerTop
  <1>2. CASE StreamerTimeout BY <1>2 DEF StreamerTimeout
  <1>3. CASE StreamerEnter BY <1>3, ZenonT(30) DEF StreamerEnter
  <1>4. CASE StreamerSleep BY <1>4, ZenonT(30) DEF StreamerSleep
  <1>5. CASE StreamerPrepare BY <1>5, ZenonT(30) DEF StreamerPrepare
  <1>6. CASE StreamerAbandon BY <1>6, SMTT(20) DEF StreamerAbandon
  <1>7. CASE StreamerConnect BY <1>7, ZenonT(30) DEF StreamerConnect
  <1>8. CASE StreamerUnresolved BY <1>8, ZenonT(30) DEF StreamerUnresolved
  <1>9. CASE StreamerStore BY <1>9 DEF StreamerStore
  <1>10. CASE StreamerInitialized BY <1>10, ZenonT(30) DEF StreamerInitialized
  <1>11. CASE StreamerStoreFailed BY <1>11, ZenonT(30) DEF StreamerStoreFailed
  <1>12. CASE StreamerDisconnect BY <1>12, SMTT(20) DEF StreamerDisconnect
  <1>13. CASE StreamerFailed BY <1>13, ZenonT(30) DEF StreamerFailed
  <1>14. CASE StreamerRetry BY <1>14, SMTT(30) DEF StreamerRetry
  <1> QED BY <1>1, <1>2, <1>3, <1>4, <1>5, <1>6, <1>7, <1>8, <1>9, <1>10, <1>11, <1>12, Zenon,
             <1>13, <1>14 DEF Streamer

LEMMA ApiSafe == TypeOK /\ Safe /\ Api => Safe'
  <1> SUFFICES ASSUME TypeOK, Safe, Api PROVE Safe'
    OBVIOUS
  <1> USE NobodyIsNoUser
      DEF Safe, NoLostShutdown, StreamCanBeCut, Carried, InitializedHasFlags, LastFlush, TypeOK,
          clientVars, senderVars, pollerVars, streamerVars, apiVars, UpdateStatus,
          AwaitSignalled, SenderSignalled, PollerSignalled, StreamerSignalled, CondMtxFree,
          FeatureThreadsSignalled, ReinitializeConnection, Call
  <1>1. CASE SetOffline BY <1>1 DEF SetOffline
  <1>2. CASE SetOnline BY <1>2 DEF SetOnline
  <1>3. CASE Track BY <1>3 DEF Track
  <1>4. CASE Flush BY <1>4 DEF Flush
  <1>5. CASE RestoreInitialized BY <1>5, ZenonT(30) DEF RestoreInitialized
  <1>6. CASE RestoreFailed BY <1>6 DEF RestoreFailed
  <1>7. ASSUME NEW b \in BOOLEAN, SetBackground(b) PROVE Safe'
    BY <1>7, ZenonT(30) DEF SetBackground
  <1>8. ASSUME NEW u \in Users, Identify(u) PROVE Safe'
    BY <1>8, ZenonT(30) DEF Identify
  <1>9. ASSUME NEW u \in Users, RestoreFlags(u) PROVE Safe'
    BY <1>9 DEF RestoreFlags
  <1>10. CASE AwaitCheck BY <1>10, ZenonT(30) DEF AwaitCheck
  <1>11. CASE Await BY <1>11, SMTT(20) DEF Await, AwaitSleep, AwaitTimeout, AwaitReturn
  <1>12. CASE CloseBegin BY <1>12, SMTT(20) DEF CloseBegin
  <1>13. CASE CloseSignal BY <1>13 DEF CloseSignal
  <1>14. CASE CloseJoin BY <1>14 DEF CloseJoin
  <1> QED BY <1>1, <1>2, <1>3, <1>4, <1>5, <1>6, <1>7, <1>8, <1>9, <1>10, <1>11, <1>12, Zenon,
             <1>13, <1>14 DEF Api, Close

LEMMA SafeInvariant == Spec => []Safe
  <1>1. Init => Safe
    BY DEF Init, Safe, NoLostShutdown, StreamCanBeCut, Carried, InitializedHasFlags, LastFlush
  <1>2. TypeOK /\ Safe /\ [Next]_vars => Safe'
    <2>1. Safe /\ UNCHANGED vars => Safe'
      BY DEF Safe, NoLostShutdown, StreamCanBeCut, Carried, InitializedHasFlags, LastFlush,
             vars, clientVars, senderVars, pollerVars, streamerVars, apiVars
    <2> QED BY <2>1, SenderSafe, PollerSafe, StreamerSafe, ApiSafe, ZenonT(30) DEF Next, Terminated
  <1> QED BY <1>1, <1>2, ClientTypeCorrect, PTL DEF Spec

\* The broadcast of LDClientClose is never lost: condMtx covers the time between a thread's
\* look at the status and its sleep.
THEOREM ShutdownIsNotLost == Spec => []NoLostShutdown
  BY SafeInvariant, PTL DEF Safe

\* client->streamhandle is open as long as the stream is up, so it can be cut.
THEOREM StreamIsUnderControl == Spec => []StreamCanBeCut
  BY SafeInvariant, PTL DEF Safe

\* The status Initialized is not set before flags are stored, by none of the three ways to it:
\* a poll, a stream and LDClientRestoreFlags.
THEOREM InitializedCorrect == Spec => []InitializedHasFlags
  BY SafeInvariant, PTL DEF Safe, Carried

\* When memory does not run out while a payload is made, an online client has sent what was
\* queued before its event sender ends in a shutdown.
THEOREM FinalFlushCorrect == ASSUME "bundle" \notin Failures PROVE Spec => []FinalFlush
  <1>1. Safe => FinalFlush
    BY DEF Safe, LastFlush, FinalFlush
  <1> QED BY <1>1, SafeInvariant, PTL

-----------------------------------------------------------------------------
(* Flags that are saved *)

\* (int) takes a whole number for what it is.
LEMMA WholeNumbers == /\ \A t \in Int : ToInt(t) \in Int
                      /\ \A n \in Int : ToInt(10 * n) = n
  BY SMT DEF ToInt

\* A flag in the store: what LDi_flag_parse and LDi_storeDelete make.
StoredFlags ==
    {f \in [value: JSON, version: Int, deleted: BOOLEAN, flagVersion: Int, variation: Int,
            trackEvents: BOOLEAN, trackReason: BOOLEAN, debugEventsUntilDate: Int,
            reason: JSON] :
        /\ f.reason = Missing \/ f.reason.type = "object"
        /\ ~f.deleted => f.value # Missing}

\* What evaluations see of a flag.
Seen(f) == [f EXCEPT !.flagVersion = IF @ < 0 THEN -1 ELSE @]

\* LDi_flag_parse refuses a payload, or makes such a flag.
LEMMA ParsedFlags ==
    ASSUME RawFlagsAreJSON, NEW raw \in RawFlags, LDi_flag_parse(raw) # Refused
    PROVE  \E f \in StoredFlags : LDi_flag_parse(raw) = <<f>>
<1> DEFINE f == [value |-> raw.value,
            version |-> ToInt(raw.version.n),
            deleted |-> raw.deleted = Bool(TRUE),
            flagVersion |-> IF raw.flagVersion.type = "number" THEN ToInt(raw.flagVersion.n) ELSE -1,
            variation |-> IF raw.variation.type = "number" THEN ToInt(raw.variation.n) ELSE -1,
            trackEvents |-> raw.trackEvents = Bool(TRUE),
            trackReason |-> raw.trackReason = Bool(TRUE),
            debugEventsUntilDate |->
                IF raw.debugEventsUntilDate.type = "number" THEN raw.debugEventsUntilDate.n ELSE 0,
            reason |-> IF raw.reason.type = "object" THEN raw.reason ELSE Missing]
<1>1. LDi_flag_parse(raw) = <<f>> /\ raw.value # Missing
      BY Zenon DEF LDi_flag_parse
<1>2. /\ raw.value \in JSON /\ raw.reason \in JSON
      /\ raw.version.n \in Int /\ raw.flagVersion.n \in Int /\ raw.variation.n \in Int
      /\ raw.debugEventsUntilDate.n \in Int
  <2>1. \A j \in JSON : j.n \in Int
        BY DEF JSON
  <2>2. RawFlags \subseteq [value: JSON, version: JSON, flagVersion: JSON, variation: JSON,
                            trackEvents: JSON, trackReason: JSON,
                            debugEventsUntilDate: JSON, reason: JSON, deleted: JSON]
        BY DEF RawFlagsAreJSON
  <2>3. /\ raw.value \in JSON /\ raw.reason \in JSON /\ raw.version \in JSON
        /\ raw.flagVersion \in JSON /\ raw.variation \in JSON
        /\ raw.debugEventsUntilDate \in JSON
        BY <2>2
  <2> QED BY <2>1, <2>3
<1>3. Missing \in JSON
      BY SMTT(20) DEF Missing, JSON
<1>4. f \in [value: JSON, version: Int, deleted: BOOLEAN, flagVersion: Int, variation: Int,
            trackEvents: BOOLEAN, trackReason: BOOLEAN, debugEventsUntilDate: Int,
            reason: JSON]
  <2>1. f.value \in JSON /\ f.reason \in JSON
        BY <1>2, <1>3, Zenon
  <2>2. f.version \in Int /\ f.flagVersion \in Int
        BY <1>2, WholeNumbers
  <2>3. f.variation \in Int /\ f.debugEventsUntilDate \in Int
        BY <1>2, WholeNumbers
  <2>4. f.deleted \in BOOLEAN /\ f.trackEvents \in BOOLEAN /\ f.trackReason \in BOOLEAN
        BY Zenon
  <2> QED BY <2>1, <2>2, <2>3, <2>4, Zenon
<1>5. (f.reason = Missing \/ f.reason.type = "object") /\ f.value = raw.value
      OBVIOUS
<1> HIDE DEF f
<1>6. f \in StoredFlags
      BY <1>1, <1>4, <1>5 DEF StoredFlags
<1> QED BY <1>1, <1>6

\* Written and parsed again.
LEMMA WrittenAndParsed ==
    ASSUME NEW f \in StoredFlags, ~f.deleted
    PROVE  LDi_flag_parse(LDi_flag_to_json(f)) = IF f.version < 0 THEN Refused ELSE <<Seen(f)>>
<1> DEFINE raw == LDi_flag_to_json(f)
<1>1. /\ raw.value = f.value /\ raw.version = IfNatural(f.version)
      /\ raw.flagVersion = IfNatural(f.flagVersion) /\ raw.variation = Number(10 * f.variation)
      /\ raw.trackEvents = IfTrue(f.trackEvents) /\ raw.trackReason = IfTrue(f.trackReason)
      /\ raw.reason = f.reason /\ raw.deleted = IfTrue(f.deleted)
      /\ raw.debugEventsUntilDate = IF f.debugEventsUntilDate = 0 THEN Missing
                                    ELSE Number(f.debugEventsUntilDate)
      BY Zenon DEF LDi_flag_to_json
<1> HIDE DEF raw
<1>2. /\ f.value # Missing /\ f.version \in Int /\ f.flagVersion \in Int /\ f.variation \in Int
      /\ f.trackEvents \in BOOLEAN /\ f.trackReason \in BOOLEAN /\ f.deleted = FALSE
      /\ f.debugEventsUntilDate \in Int /\ (f.reason = Missing \/ f.reason.type = "object")
      BY DEF StoredFlags
<1>3. /\ Missing.type = "missing" /\ Missing # Bool(TRUE)
      /\ \A n : Number(n).type = "number" /\ Number(n).n = n
      BY DEF Missing, Bool, Number
<1>4. \A b \in BOOLEAN : (IfTrue(b) = Bool(TRUE)) = b
      BY <1>3, Zenon DEF IfTrue
<1>5. \A n \in Int : IF n < 0 THEN IfNatural(n) = Missing ELSE IfNatural(n) = Number(10 * n)
      BY SMTT(20) DEF IfNatural
<1>6. raw.deleted = Missing
      BY <1>1, <1>2, ZenonT(30) DEF IfTrue
<1>7. CASE f.version < 0
  <2>1. raw.version.type # "number"
        BY <1>1, <1>2, <1>3, <1>5, <1>7
  <2> QED BY <2>1, <1>7, ZenonT(30) DEF LDi_flag_parse, raw
<1>8. CASE ~(f.version < 0)
  <2>1. raw.version = Number(10 * f.version)
        BY <1>1, <1>2, <1>5, <1>8, ZenonT(30)
  <2>2. raw.version.type = "number" /\ ToInt(raw.version.n) = f.version
        BY <2>1, <1>2, <1>3, WholeNumbers, SMTT(20)
  <2>3. (IF raw.flagVersion.type = "number" THEN ToInt(raw.flagVersion.n) ELSE -1)
        = IF f.flagVersion < 0 THEN -1 ELSE f.flagVersion
        BY <1>1, <1>2, <1>3, <1>5, WholeNumbers, SMTT(20)
  <2>4. (IF raw.variation.type = "number" THEN ToInt(raw.variation.n) ELSE -1) = f.variation
        BY <1>1, <1>2, <1>3, WholeNumbers
  <2>5. /\ (raw.trackEvents = Bool(TRUE)) = f.trackEvents
        /\ (raw.trackReason = Bool(TRUE)) = f.trackReason
        /\ (raw.deleted = Bool(TRUE)) = f.deleted
        BY <1>1, <1>2, <1>4, Zenon
  <2>6. (IF raw.debugEventsUntilDate.type = "number" THEN raw.debugEventsUntilDate.n ELSE 0)
        = f.debugEventsUntilDate
        BY <1>1, <1>2, <1>3, ZenonT(30)
  <2>7. (IF raw.reason.type = "object" THEN raw.reason ELSE Missing) = f.reason
        BY <1>1, <1>2, <1>3
  <2>8. LDi_flag_parse(raw) =
          <<[value |-> f.value, version |-> f.version, deleted |-> f.deleted,
             flagVersion |-> IF f.flagVersion < 0 THEN -1 ELSE f.flagVersion,
             variation |-> f.variation, trackEvents |-> f.trackEvents,
             trackReason |-> f.trackReason, debugEventsUntilDate |-> f.debugEventsUntilDate,
             reason |-> f.reason]>>
        BY <2>2, <2>3, <2>4, <2>5, <2>6, <2>7, <1>1, <1>2, <1>3, <1>6, Zenon DEF LDi_flag_parse
  <2>9. Seen(f) = [value |-> f.value, version |-> f.version, deleted |-> f.deleted,
             flagVersion |-> IF f.flagVersion < 0 THEN -1 ELSE f.flagVersion,
             variation |-> f.variation, trackEvents |-> f.trackEvents,
             trackReason |-> f.trackReason, debugEventsUntilDate |-> f.debugEventsUntilDate,
             reason |-> f.reason]
        BY DEF Seen, StoredFlags
  <2> QED BY <2>8, <2>9, <1>8, Zenon DEF raw
<1> QED BY <1>7, <1>8, SMTT(20)

\* All flags of a store.
IsStore(s) == s \in [DOMAIN s -> StoredFlags]

\* What a put of JSON leaves is a store.
LEMMA ParsedPayload ==
    ASSUME NEW payload, Parsed(payload) # Refused,
           \A k \in DOMAIN payload : LDi_flag_parse(payload[k]) # Refused =>
               \E f \in StoredFlags : LDi_flag_parse(payload[k]) = <<f>>
    PROVE  Parsed(payload) # <<>> /\ IsStore(Parsed(payload)[1])
<1>1. \A k \in DOMAIN payload : LDi_flag_parse(payload[k]) # Refused
      BY Zenon DEF Parsed
<1> DEFINE s == [k \in DOMAIN payload |-> LDi_flag_parse(payload[k])[1]]
<1>2. Parsed(payload) = <<s>>
      BY <1>1, Zenon DEF Parsed
<1>3. \A k \in DOMAIN payload : LDi_flag_parse(payload[k])[1] \in StoredFlags
      BY <1>1
<1>4. IsStore(s)
      BY <1>3, ZenonT(30) DEF IsStore
<1> HIDE DEF s
<1> QED BY <1>2, <1>4

\* What LDClientRestoreFlags makes of what LDClientSaveFlags wrote.
LEMMA RestoredFlags ==
    ASSUME IsStore(stored)
    PROVE  SavedIsRestored
<1> DEFINE live == Live
           saved == LDClientSaveFlags
<1>1. /\ DOMAIN saved = live /\ live \subseteq DOMAIN stored
      /\ \A k \in live : saved[k] = LDi_flag_to_json(stored[k])
      BY DEF LDClientSaveFlags, LDi_storeGetJSON, Live
<1>2. \A k \in live : stored[k] \in StoredFlags /\ ~stored[k].deleted
      BY DEF Live, IsStore
<1> HIDE DEF live, saved
<1>3. \A k \in live : LDi_flag_parse(saved[k])
                      = IF stored[k].version < 0 THEN Refused ELSE <<Seen(stored[k])>>
      BY <1>1, <1>2, WrittenAndParsed, Zenon
<1>4. \A x : <<x>> # Refused /\ <<x>>[1] = x
      BY DEF Refused
<1>5. CASE \E k \in live : stored[k].version < 0
  <2>1. Parsed(saved) = Refused
        BY <1>1, <1>3, <1>5, Zenon DEF Parsed
  <2> QED BY <2>1, <1>5, Zenon DEF SavedIsRestored, LDClientRestoreFlags, live, saved
<1>6. CASE ~\E k \in live : stored[k].version < 0
  <2>1. \A k \in DOMAIN saved : LDi_flag_parse(saved[k]) = <<Seen(stored[k])>>
        BY <1>1, <1>3, <1>6, Zenon
  <2>2. \A k \in DOMAIN saved : /\ LDi_flag_parse(saved[k]) # Refused
                                /\ LDi_flag_parse(saved[k])[1] = Seen(stored[k])
        BY <2>1, <1>4, Zenon
  <2>3. Parsed(saved) = <<[k \in DOMAIN saved |-> LDi_flag_parse(saved[k])[1]]>>
        BY <2>2, Zenon DEF Parsed
  <2>4. Parsed(saved) = <<[k \in live |-> Seen(stored[k])]>>
        BY <2>2, <2>3, <1>1
  <2> QED BY <2>4, <1>6, Zenon DEF SavedIsRestored, LDClientRestoreFlags, live, saved, Seen
<1> QED BY <1>5, <1>6, ZenonT(30)

\* A newer flag is stored.
LEMMA UpsertedFlag ==
    ASSUME IsStore(stored), NEW k, NEW f \in StoredFlags, LDi_storeUpsert(k, f)
    PROVE  IsStore(stored')
<1>1. CASE stored' = stored
      BY <1>1
<1>2. CASE stored' = [x \in DOMAIN stored \union {k} |-> IF x = k THEN f ELSE stored[x]]
      BY <1>2 DEF IsStore
<1> QED BY <1>1, <1>2 DEF LDi_storeUpsert

\* SavedIsRestored, for all flags the server may send, and any sequence of puts, patches,
\* deletions and restarts.
THEOREM SavedFlagsCorrect ==
    ASSUME RawFlagsAreJSON
    PROVE  SavedSpec => []SavedIsRestored
<1>1. SavedInit => IsStore(stored)
      BY DEF SavedInit, IsStore
<1>2. IsStore(stored) /\ [SavedNext]_(savedVars) => IsStore(stored)'
  <2> SUFFICES ASSUME IsStore(stored), [SavedNext]_(savedVars) PROVE IsStore(stored')
      OBVIOUS
  <2>1. ASSUME NEW K \in SUBSET Keys, NEW raw \in RawFlags, Put([k \in K |-> raw])
        PROVE  IsStore(stored')
    <3> DEFINE payload == [k \in K |-> raw]
    <3>1. \A k \in DOMAIN payload : payload[k] = raw
          OBVIOUS
    <3> HIDE DEF payload
    <3>2. Parsed(payload) # Refused => IsStore(Parsed(payload)[1])
          BY <3>1, ParsedFlags, ParsedPayload, Zenon
    <3> QED BY <2>1, <3>2, Zenon DEF Put, AfterPut, payload
  <2>2. ASSUME NEW k \in Keys, NEW raw \in RawFlags, Patch(k, raw)
        PROVE  IsStore(stored')
    <3>1. PICK f \in StoredFlags : LDi_flag_parse(raw) = <<f>>
          BY <2>2, ParsedFlags DEF Patch
    <3>2. LDi_storeUpsert(k, f)
          BY <2>2, <3>1 DEF Patch
    <3> QED BY <3>2, UpsertedFlag
  <2>3. ASSUME NEW k \in Keys, NEW v \in Versions, Delete(k, v)
        PROVE  IsStore(stored')
    <3>1. PICK f : f = [value |-> Missing, version |-> v, deleted |-> TRUE, flagVersion |-> 0,
                        variation |-> 0, trackEvents |-> FALSE, trackReason |-> FALSE,
                        debugEventsUntilDate |-> 0, reason |-> Missing]
          BY Zenon
    <3>2. Missing \in JSON /\ v \in Int
      <4>1. Missing \in JSON
            BY DEF Missing, JSON
      <4>2. Versions \subseteq Int
            BY ZenonT(30) DEF RawFlagsAreJSON
      <4> QED BY <4>1, <4>2
    <3>3. f \in StoredFlags
          BY <3>1, <3>2, SMTT(20) DEF StoredFlags
    <3>4. LDi_storeUpsert(k, f)
          BY <2>3, <3>1 DEF Delete
    <3> QED BY <3>3, <3>4, UpsertedFlag
  <2>4. CASE Restart
    <3>1. SavedIsRestored
          BY RestoredFlags
    <3> DEFINE live == Live
               restored == LDClientRestoreFlags(LDClientSaveFlags)
               seen == [k \in live |-> Seen(stored[k])]
    <3>2. restored = Refused \/ restored = <<seen>>
          BY <3>1 DEF SavedIsRestored, Seen
    <3>3. \A f \in StoredFlags : Seen(f) \in StoredFlags
          BY DEF Seen, StoredFlags
    <3>4. IsStore(seen)
          BY <3>3 DEF IsStore, Live
    <3>5. IsStore([k \in {} |-> Missing])
          BY DEF IsStore
    <3>6. stored' = IF restored = Refused THEN [k \in {} |-> Missing] ELSE restored[1]
          BY <2>4 DEF Restart
    <3> HIDE DEF seen, restored
    <3> QED BY <3>2, <3>4, <3>5, <3>6
  <2>5. CASE UNCHANGED savedVars
        BY <2>5 DEF savedVars
  <2> QED BY <2>1, <2>2, <2>3, <2>4, <2>5, Zenon DEF SavedNext
<1> QED BY <1>1, <1>2, RestoredFlags, PTL DEF SavedSpec


====
