--------------------------- MODULE EventProcessor ----------------------------
(***************************************************************************)
(* The analytics events of one client environment: the queue and the       *)
(* summary counters of src/src/event_processor.c, the application threads  *)
(* that fill them, and the delivery of a payload by LDi_bgeventsender and  *)
(* LDi_sendevents to the events server.                                    *)
(*                                                                         *)
(* What ep->lock protects is one step.  An evaluation builds its feature   *)
(* event before it takes ep->lock, holding sharedUserLock for reading, so  *)
(* it is two steps; LDClientIdentify holds that lock for writing.  When    *)
(* the sender wakes up is the business of module Client: here it bundles   *)
(* whenever there is something to send.                                    *)
(*                                                                         *)
(* An event is its kind, its user and its number in the order of calls of  *)
(* LDi_addEvent.  A counter stands for one flag key with one version and   *)
(* variation, or for "unknown".  When memory for an event runs out nothing *)
(* is recorded, which has no action here; running out in the middle of     *)
(* LDi_summarizeEvent has one.                                             *)
(***************************************************************************)
EXTENDS Naturals, Sequences, Functions

CONSTANTS
    Users,           \* users of the application
    Anonymous,       \* those of them that are anonymous
    Counters,        \* what evaluations are counted under
    Threads,         \* application threads that evaluate flags
    EventsCapacity,  \* config: eventsCapacity
    AutoAlias,       \* config: not autoAliasOptOut
    Failures,        \* where memory may run out
    MaxMade,         \* bound: events made
    MaxEvaluations   \* bound: evaluations

ASSUME AnonymousAreUsers == Anonymous \subseteq Users
ASSUME BoundsAreNat == {EventsCapacity, MaxMade, MaxEvaluations} \subseteq Nat
ASSUME FirstEventIsMade == MaxMade > 0

VARIABLES
    user,          \* sharedUser
    identifying,   \* LDClientIdentify holds sharedUserLock, its alias event to come
    eval,          \* of every thread: the evaluation it is in, as a set of at most one
    made,          \* number of events handed to LDi_addEvent
    events,        \* ep->events
    counters,      \* ep->summaryCounters: the count of every counter
    contexts,      \* whether ep->summaryCounters has an entry for any flag
    summaryStart,  \* whether ep->summaryStart is set
    sender,        \* LDi_bgeventsender: "idle", "send", "resend" or "exit"
    payload, payloadId,  \* the batch the sender is delivering
    received,      \* external: the pairs <<payload id, payload>> the server got
    defect,        \* what stopped the model: "none", "null" or "freed"
    bundles,       \* history: all payloads
    dropped,       \* history: events that met a full queue
    evaluated      \* history: the number of recorded evaluations per counter

summaryVars == <<counters, contexts, summaryStart>>
queueVars == <<events, summaryVars>>
senderVars == <<sender, payload, payloadId, received, bundles>>
vars == <<user, identifying, eval, made, queueVars, senderVars, defect,
          dropped, evaluated>>

Event(kind, u, n) == [kind |-> kind, user |-> u, n |-> n]

NoCounts == [c \in Counters |-> 0]

\* LDi_prepareSummaryEvent.
Summary == [kind |-> "summary", counts |-> counters]

EventKinds == {"identify", "feature", "custom", "alias"}

Events == [kind: EventKinds, user: Users, n: 1 .. MaxMade]

Summaries == [kind: {"summary"}, counts: [Counters -> 0 .. MaxEvaluations]]

Payloads == Seq(Events \cup Summaries)

Evaluations == [counter: Counters, user: Users, tracked: BOOLEAN]

TypeOK ==
    /\ user \in Users
    /\ identifying \in SUBSET Users
    /\ DOMAIN eval = Threads
    /\ \A t \in Threads : eval[t] \in SUBSET Evaluations
    /\ made \in 0 .. MaxMade
    /\ events \in Seq(Events)
    /\ counters \in [Counters -> 0 .. MaxEvaluations]
    /\ contexts \in BOOLEAN
    /\ summaryStart \in BOOLEAN
    /\ sender \in {"idle", "send", "resend", "exit"}
    /\ payload \in Payloads
    /\ payloadId \in Nat
    /\ received \subseteq Nat \X Payloads
    /\ defect \in {"none", "null", "freed"}
    /\ bundles \in Seq(Payloads)
    /\ dropped \subseteq Events
    /\ evaluated \in [Counters -> 0 .. MaxEvaluations]

\* LDi_newEventProcessor, and the identify event of LDi_clientInitIsolated.
Init ==
    /\ user \in Users
    /\ identifying = {}
    /\ eval = [t \in Threads |-> {}]
    /\ made = 1
    /\ events = IF EventsCapacity > 0
                THEN <<Event("identify", user, 1)>> ELSE <<>>
    /\ dropped = IF EventsCapacity > 0 THEN {} ELSE {Event("identify", user, 1)}
    /\ counters = NoCounts /\ contexts = FALSE
    /\ summaryStart = FALSE
    /\ sender = "idle" /\ payload = <<>> /\ payloadId = 0
    /\ received = {}
    /\ defect = "none"
    /\ bundles = <<>>
    /\ evaluated = NoCounts

-----------------------------------------------------------------------------
(***************************************************************************)
(* After a failed assertion the process is gone, after the use of freed    *)
(* memory anything may follow: the model goes no further.                  *)
(***************************************************************************)
Running == defect = "none"

(***************************************************************************)
(* sharedUserLock.                                                         *)
(***************************************************************************)
UserReadable == identifying = {}

UserWritable == identifying = {} /\ \A t \in Threads : eval[t] = {}

(***************************************************************************)
(* LDi_addEvent.                                                           *)
(***************************************************************************)
\* Mutated: the newest event comes first.
AddEvent_Front(kind, u) ==
    LET e == Event(kind, u, made + 1) IN
    /\ made < MaxMade
    /\ made' = made + 1
    /\ IF Len(events) >= EventsCapacity
       THEN events' = events /\ dropped' = dropped \cup {e}
       ELSE events' = <<e>> \o events /\ dropped' = dropped

\* An event that meets a full queue is dropped.
AddEvent(kind, u) ==
    LET e == Event(kind, u, made + 1) IN
    /\ made < MaxMade
    /\ made' = made + 1
    /\ IF Len(events) >= EventsCapacity
       THEN events' = events /\ dropped' = dropped \cup {e}
       ELSE events' = Append(events, e) /\ dropped' = dropped

-----------------------------------------------------------------------------
(***************************************************************************)
(* LDi_evalInternal and LDi_processEvalEvent.                              *)
(***************************************************************************)
\* A feature event is built for the current user if the flag is tracked.
EvalStart(t) ==
    /\ Running
    /\ UserReadable
    /\ eval[t] = {}
    /\ \E c \in Counters, b \in BOOLEAN :
        eval' = [eval EXCEPT ![t] = {[counter |-> c, user |-> user, tracked |-> b]}]
    /\ UNCHANGED <<user, identifying, made, queueVars, senderVars, defect,
                   dropped, evaluated>>

\* LDi_summarizeEvent.
Summarize(c) ==
    /\ evaluated[c] < MaxEvaluations
    /\ evaluated' = [evaluated EXCEPT ![c] = @ + 1]
    /\ summaryStart' = TRUE
    /\ contexts' = TRUE
    /\ counters' = [counters EXCEPT ![c] = @ + 1]

EvalRecord(t) ==
    /\ Running
    /\ \E e \in eval[t] :
        /\ Summarize(e.counter)
        /\ IF e.tracked THEN AddEvent("feature", e.user)
                        ELSE UNCHANGED <<made, events, dropped>>
    /\ eval' = [eval EXCEPT ![t] = {}]
    /\ UNCHANGED <<user, identifying, senderVars, defect>>

\* Memory runs out in LDi_summarizeEvent after it set summaryStart, before or
\* after it made an entry for the flag.  The feature event is queued and freed,
\* so that the queue holds a freed event unless it was full; if there is no
\* feature event, LDi_addEvent gets NULL and its assertion fails.
EvalFail(t) ==
    /\ Running
    /\ "summarize" \in Failures
    /\ \E e \in eval[t] :
        \/ /\ e.tracked
           /\ AddEvent("feature", e.user)
           /\ defect' = IF events' = events THEN "none" ELSE "freed"
        \/ /\ ~e.tracked
           /\ defect' = "null"
           /\ UNCHANGED <<made, events, dropped>>
    /\ summaryStart' = TRUE
    /\ contexts' \in {contexts, TRUE}
    /\ eval' = [eval EXCEPT ![t] = {}]
    /\ UNCHANGED <<user, identifying, counters, senderVars, evaluated>>

\* LDClientTrack, LDClientTrackData, LDClientTrackMetric.
Track ==
    /\ Running
    /\ UserReadable
    /\ AddEvent("custom", user)
    /\ UNCHANGED <<user, identifying, eval, summaryVars, senderVars,
                   defect, evaluated>>

\* LDClientAlias does not take sharedUserLock.
Alias(u) ==
    /\ Running
    /\ AddEvent("alias", u)
    /\ UNCHANGED <<user, identifying, eval, summaryVars, senderVars,
                   defect, evaluated>>

(***************************************************************************)
(* LDClientIdentify, as far as events go.                                  *)
(***************************************************************************)
ShouldAlias(u) == AutoAlias /\ user \in Anonymous /\ u \notin Anonymous

\* Mutated: sharedUserLock is taken for reading.
Identify_ReadLock(u) ==
    /\ Running
    /\ UserReadable
    /\ user' = u
    /\ AddEvent("identify", u)
    /\ identifying' = IF ShouldAlias(u) THEN {u} ELSE {}
    /\ UNCHANGED <<eval, summaryVars, senderVars, defect, evaluated>>

Identify(u) ==
    /\ Running
    /\ UserWritable
    /\ user' = u
    /\ AddEvent("identify", u)
    /\ identifying' = IF ShouldAlias(u) THEN {u} ELSE {}
    /\ UNCHANGED <<eval, summaryVars, senderVars, defect, evaluated>>

\* The alias event follows before the lock is dropped.
IdentifyAlias ==
    /\ Running
    /\ \E u \in identifying : AddEvent("alias", u)
    /\ identifying' = {}
    /\ UNCHANGED <<user, eval, summaryVars, senderVars, defect,
                   evaluated>>

-----------------------------------------------------------------------------
(***************************************************************************)
(* LDi_bgeventsender, from the payload identifier to the end of its loop.  *)
(***************************************************************************)
\* Mutated: the summary takes the place of the events.
Bundled_SummaryOnly == IF summaryStart THEN <<Summary>> ELSE events

Bundled == IF summaryStart THEN Append(events, Summary) ELSE events

\* Mutated: a payload needs events as well as counters.
Pending_Both == events # <<>> /\ contexts

Pending == events # <<>> \/ contexts

\* Only a summary that was started takes the counters along.
CountersTaken ==
    IF summaryStart
    THEN counters' = NoCounts /\ contexts' = FALSE /\ summaryStart' = FALSE
    ELSE UNCHANGED summaryVars

\* Mutated: summaryStart is reset and the counters are not.
SenderBundle_KeepCounters ==
    /\ Running
    /\ sender = "idle"
    /\ Pending
    /\ payloadId' = payloadId + 1
    /\ payload' = Bundled
    /\ bundles' = Append(bundles, Bundled)
    /\ events' = <<>> /\ summaryStart' = FALSE
    /\ sender' = "send"
    /\ UNCHANGED <<user, identifying, eval, made, counters, contexts, received,
                   defect, dropped, evaluated>>

\* LDi_UUIDv4 and LDi_bundleEventPayload: the summary follows the events.
SenderBundle ==
    /\ Running
    /\ sender = "idle"
    /\ Pending
    /\ payloadId' = payloadId + 1
    /\ payload' = Bundled
    /\ bundles' = Append(bundles, Bundled)
    /\ events' = <<>> /\ CountersTaken
    /\ sender' = "send"
    /\ UNCHANGED <<user, identifying, eval, made, received, defect, dropped,
                   evaluated>>

SenderNothing == sender = "idle" /\ ~Pending /\ UNCHANGED vars

\* external: the server gets the payload and its identifier.
Arrives == received' = received \cup {<<payloadId, payload>>}

\* The batch is forgotten: delivered, or discarded after the second failure.
BatchDone ==
    /\ sender' = "idle"
    /\ payload' = <<>>

\* 200 or 202.
SenderSent ==
    /\ Running
    /\ sender \in {"send", "resend"}
    /\ Arrives
    /\ BatchDone
    /\ UNCHANGED <<user, identifying, eval, made, queueVars, payloadId, bundles,
                   defect, dropped, evaluated>>

\* Mutated: every attempt has an identifier of its own.
SenderRetry_NewId(arrives) ==
    /\ Running
    /\ sender = "send"
    /\ sender' = "resend"
    /\ payloadId' = payloadId + 1
    /\ IF arrives THEN Arrives ELSE UNCHANGED received
    /\ UNCHANGED <<user, identifying, eval, made, queueVars, payload, bundles,
                   defect, dropped, evaluated>>

\* The first attempt fails: the request is lost, the server refuses it, or it
\* arrives and the response is lost.
SenderRetry(arrives) ==
    /\ Running
    /\ sender = "send"
    /\ sender' = "resend"
    /\ IF arrives THEN Arrives ELSE UNCHANGED received
    /\ UNCHANGED <<user, identifying, eval, made, queueVars, payload, payloadId,
                   bundles, defect, dropped, evaluated>>

\* The second attempt fails, with whatever response.
SenderDiscard(arrives) ==
    /\ Running
    /\ sender = "resend"
    /\ BatchDone
    /\ IF arrives THEN Arrives ELSE UNCHANGED received
    /\ UNCHANGED <<user, identifying, eval, made, queueVars, payloadId, bundles,
                   defect, dropped, evaluated>>

\* 401 or 403 to the first attempt: the client has failed and the thread ends.
SenderUnauthorized ==
    /\ Running
    /\ sender = "send"
    /\ sender' = "exit"
    /\ payload' = <<>>
    /\ UNCHANGED <<user, identifying, eval, made, queueVars, payloadId, received,
                   bundles, defect, dropped, evaluated>>

Sender ==
    \/ SenderBundle \/ SenderSent \/ SenderUnauthorized
    \/ \E b \in BOOLEAN : SenderRetry(b) \/ SenderDiscard(b)

\* The sender is gone or the model has stopped.
Terminated == (sender = "exit" \/ ~Running) /\ UNCHANGED vars

Next ==
    \/ \E t \in Threads : EvalStart(t) \/ EvalRecord(t) \/ EvalFail(t)
    \/ Track
    \/ \E u \in Users : Alias(u) \/ Identify(u)
    \/ IdentifyAlias
    \/ Sender
    \/ SenderNothing
    \/ Terminated

Spec == Init /\ [][Next]_vars

\* The sender wakes up again and again, and its requests have a timeout.
FairSpec == Spec /\ WF_vars(Sender)

-----------------------------------------------------------------------------
(***************************************************************************)
(* Properties.                                                             *)
(***************************************************************************)
\* All events in the order in which they leave the client: one batch per
\* payload, and the queue as the last.
Batches == 1 .. Len(bundles) + 1

Batch(p) == IF p \in DOMAIN bundles THEN bundles[p] ELSE events

IsEvent(e) == e.kind # "summary"

Leaving == {e \in UNION {Range(Batch(p)) : p \in Batches} : IsEvent(e)}

\* Place j of batch q comes after place i of batch p.
After(q, j, p, i) == p < q \/ (p = q /\ i < j)

\* The events of all batches keep the order in which LDi_addEvent got them and
\* occur once: bundling takes all that is queued, and takes it once.
QueueOrder ==
    \A p, q \in Batches : \A i \in DOMAIN Batch(p), j \in DOMAIN Batch(q) :
        /\ After(q, j, p, i)
        /\ IsEvent(Batch(p)[i]) /\ IsEvent(Batch(q)[j])
        => Batch(p)[i].n < Batch(q)[j].n

\* Nothing is lost on the way to the sender but what met a full queue.
OnlyCapacityDrops == {e.n : e \in Leaving \cup dropped} = 1 .. made

\* The queue never outgrows eventsCapacity, and a payload outgrows it by no
\* more than the summary event (LDi_addEvent, LDi_bundleEventPayload).
CapacityRespected ==
    /\ Len(events) <= EventsCapacity
    /\ Len(payload) <= EventsCapacity + 1

\* The sum of a sequence of numbers.
Total(s) ==
    LET sum[i \in 0 .. Len(s)] == IF i = 0 THEN 0 ELSE sum[i - 1] + s[i]
    IN  sum[Len(s)]

\* What a payload reports under a counter, and what all payloads do.
CountIn(e, c) == IF IsEvent(e) THEN 0 ELSE e.counts[c]

Reported(p, c) == Total([i \in DOMAIN p |-> CountIn(p[i], c)])

AllReported(c) == Total([i \in DOMAIN bundles |-> Reported(bundles[i], c)])

\* Every recorded evaluation is counted once: it is in the counters or in the
\* summary of exactly one payload, however evaluations and bundling interleave.
CountsConserved ==
    \A c \in Counters : evaluated[c] = counters[c] + AllReported(c)

\* Counters that are pending have a summary start, so the next payload has
\* them: no evaluation waits for a later one to be reported, and the sender
\* never finds something to send and makes an empty payload of it.
CountersAreStarted ==
    /\ counters # NoCounts => contexts
    /\ contexts => summaryStart

\* A retry can be recognised: what arrives under one identifier is always the
\* same payload, and no two identifiers carry the same event (the server can
\* tell a repeated delivery by X-LaunchDarkly-Payload-ID).
RetriesRecognisable ==
    \A r, q \in received :
        \/ r = q
        \/ /\ r[1] # q[1]
           /\ \A i \in DOMAIN r[2], j \in DOMAIN q[2] :
                r[2][i].kind = "summary" \/ r[2][i] # q[2][j]

\* d is the last identify event before event number n.
LastIdentify(d, n) ==
    /\ d.kind = "identify" /\ d.n < n
    /\ \A x \in Leaving : x.kind = "identify" => x.n <= d.n \/ x.n >= n

\* Unless an identify event met a full queue, every feature and custom event
\* follows the identify event of its own user and precedes the next one: an
\* evaluation that is under way when LDClientIdentify is called is either
\* recorded before the switch or made for the new user.
EventsFollowIdentify ==
    (\A e \in dropped : e.kind # "identify") =>
        \A e \in Leaving : e.kind \in {"feature", "custom"} =>
            \E d \in Leaving : LastIdentify(d, e.n) /\ d.user = e.user

\* What is pending is bundled sooner or later, unless the client failed: also
\* counters without events, and events without counters.
PendingIsBundled ==
    (events # <<>> \/ contexts)
        ~> ((events = <<>> /\ ~contexts) \/ sender = "exit" \/ ~Running)

\* An event in the queue is not freed by the evaluation that queued it: pushing
\* it has given it away (LDi_addEvent, LDi_processEvalEvent).
QueuedEventsLive == defect # "freed"
=============================================================================
