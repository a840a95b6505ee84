------------------------------- MODULE Client --------------------------------
(***************************************************************************)
(* One client environment: its status, the three background threads of     *)
(* src/src/ldthreads.c (event sender, feature poller, feature streamer)    *)
(* and the API calls of src/src/client.c that steer them.                  *)
(*                                                                         *)
(* A critical section of clientLock is one step.  condMtx is taken by a    *)
(* thread inside its critical section and released when it falls asleep in *)
(* the timed wait: in between the thread is at a "gate", and condMtx is    *)
(* busy exactly when some thread is.  A wait ends with a signal            *)
(* (LDi_cond_signal is a broadcast) or with its timeout.                   *)
(*                                                                         *)
(* What the server answers is chosen by the model.  Flags are abstracted   *)
(* to the user they were computed for, queued events to whether there are  *)
(* any.  No status callback is registered: LDi_updatestatus then runs to   *)
(* its end under clientLock.                                               *)
(***************************************************************************)
EXTENDS Naturals

CONSTANTS
    Users,                      \* users the application identifies as
    Nobody,                     \* the store has no flags yet
    Streaming,                  \* config: streaming
    DisableBackgroundUpdating,  \* config: disableBackgroundUpdating
    Failures,                   \* the calls that may run out of a resource
    Calls,                      \* the kinds of API call the application makes
    MaxCalls                    \* bound: how many API calls it makes

ASSUME ConfigIsBoolean == {Streaming, DisableBackgroundUpdating} \subseteq BOOLEAN
ASSUME NobodyIsNoUser == Nobody \notin Users
ASSUME UsersExist == Users # {}
ASSUME MaxCallsIsNat == MaxCalls \in Nat

VARIABLES
    status, offline, background,  \* struct LDClient
    user,        \* sharedUser
    flagsOf,     \* the user the flags in the store were computed for
    queued,      \* the event processor holds events or counters
    sender, finalflush,             \* LDi_bgeventsender
    poller, skippolling, pollUser,  \* LDi_bgfeaturepoller
    streamer, backoff, streamUser, response,  \* LDi_bgfeaturestreamer (retries > 0)
    conn,        \* the stream's connection: "none", "up", or "cut" by shutdown()
    handle,      \* client->streamhandle: "unset", "open" or "closed"
    close,       \* clientCloseIsolated
    await,       \* LDClientAwaitInitialized
    restore,     \* LDClientRestoreFlags
    calls        \* number of API calls made

clientVars == <<status, offline, background, user, flagsOf, queued>>
senderVars == <<sender, finalflush>>
pollerVars == <<poller, skippolling, pollUser>>
streamerVars == <<streamer, backoff, streamUser, response, conn, handle>>
apiVars == <<close, await, restore, calls>>
vars == <<clientVars, senderVars, pollerVars, streamerVars, apiVars>>

Status == {"Initializing", "Initialized", "Failed", "Shuttingdown"}

TypeOK ==
    /\ status \in Status
    /\ offline \in BOOLEAN /\ background \in BOOLEAN
    /\ user \in Users
    /\ flagsOf \in Users \cup {Nobody}
    /\ queued \in BOOLEAN
    /\ sender \in {"top", "gate", "wait", "check", "bundle", "send",
                   "retryLock", "retryWait", "resend", "exit"}
    /\ finalflush \in BOOLEAN
    /\ poller \in {"top", "gate", "wait", "recheck", "fetch", "inflight",
                   "stored", "exit"}
    /\ skippolling \in BOOLEAN
    /\ pollUser \in Users \cup {Nobody}
    /\ streamer \in {"top", "retryWait", "enter", "gate", "wait", "prepare",
                     "connect", "reading", "stored", "ended", "exit"}
    /\ backoff \in BOOLEAN
    /\ streamUser \in Users \cup {Nobody}
    /\ response \in {"ok", "permanent", "transient", "unresolved"}
    /\ conn \in {"none", "up", "cut"}
    /\ handle \in {"unset", "open", "closed"}
    /\ close \in {"open", "signal", "join", "closed"}
    /\ await \in {"idle", "checked", "asleep", "signalled", "timedout"}
    /\ restore \in {"idle", "stored"}
    /\ calls \in 0 .. MaxCalls

(***************************************************************************)
(* LDi_clientInitIsolated: the threads are created and an identify event   *)
(* is queued.  config->offline decides the initial mode.                   *)
(***************************************************************************)
Init ==
    /\ status = "Initializing"
    /\ offline \in BOOLEAN /\ background = FALSE
    /\ user \in Users
    /\ flagsOf = Nobody
    /\ queued = TRUE
    /\ sender = "top" /\ finalflush = FALSE
    /\ poller = "top" /\ skippolling = FALSE /\ pollUser = Nobody
    /\ streamer = "enter" /\ backoff = FALSE /\ streamUser = Nobody
    /\ response = "transient"
    /\ conn = "none" /\ handle = "unset"
    /\ close = "open" /\ await = "idle" /\ restore = "idle"
    /\ calls = 0

-----------------------------------------------------------------------------
(***************************************************************************)
(* Locks and condition variables.                                          *)
(***************************************************************************)
CondMtxFree == sender # "gate" /\ poller # "gate" /\ streamer # "gate"

Dying == status \in {"Failed", "Shuttingdown"}

\* LDi_updatestatus ends with a broadcast on initCond, taken without
\* initCondMtx: a thread that has checked but does not sleep yet misses it.
AwaitSignalled == await' = IF await = "asleep" THEN "signalled" ELSE await

UpdateStatus(s) == status' = s /\ AwaitSignalled

SenderSignalled(pc) ==
    IF pc = "wait" THEN "check" ELSE IF pc = "retryWait" THEN "resend" ELSE pc

PollerSignalled(pc) ==
    IF pc = "wait" THEN IF skippolling THEN "top" ELSE "recheck" ELSE pc

StreamerSignalled(pc) ==
    IF pc = "wait" THEN "top" ELSE IF pc = "retryWait" THEN "enter" ELSE pc

\* What a broadcast on pollCond and streamCond does to the two threads.
FeatureThreadsSignalled ==
    /\ poller' = PollerSignalled(poller)
    /\ skippolling' = (skippolling /\ poller # "wait")
    /\ streamer' = StreamerSignalled(streamer)

(***************************************************************************)
(* LDi_reinitializeconnection: shut an open socket down and mark it closed *)
(* (the handle may be the leftover of a stream that ended by itself), then *)
(* signal pollCond and streamCond.                                         *)
(***************************************************************************)
ReinitializeConnection ==
    /\ conn' = IF handle = "open" /\ conn = "up" THEN "cut" ELSE conn
    /\ handle' = IF handle = "open" THEN "closed" ELSE handle
    /\ FeatureThreadsSignalled
    /\ UNCHANGED <<backoff, streamUser, response, pollUser>>

-----------------------------------------------------------------------------
(***************************************************************************)
(* LDi_bgeventsender.                                                      *)
(***************************************************************************)
SenderTop ==
    /\ sender = "top"
    /\ \/ /\ status = "Failed" \/ finalflush
          /\ sender' = "exit"
       \/ /\ status \notin {"Failed", "Shuttingdown"} /\ ~finalflush
          /\ CondMtxFree
          /\ sender' = "gate"
       \/ /\ status = "Shuttingdown" /\ ~finalflush
          /\ sender' = "check"
    /\ UNCHANGED <<clientVars, finalflush, pollerVars, streamerVars, apiVars>>

SenderSleep ==
    /\ sender = "gate"
    /\ sender' = "wait"
    /\ UNCHANGED <<clientVars, finalflush, pollerVars, streamerVars, apiVars>>

SenderTimeout ==
    /\ sender \in {"wait", "retryWait"}
    /\ sender' = SenderSignalled(sender)
    /\ UNCHANGED <<clientVars, finalflush, pollerVars, streamerVars, apiVars>>

\* Mutated: the shutdown is noticed, and nothing is sent any more.
SenderCheck_NoLastBatch ==
    /\ sender = "check"
    /\ finalflush' = (finalflush \/ status = "Shuttingdown")
    /\ sender' = IF offline \/ finalflush' THEN "top" ELSE "bundle"
    /\ UNCHANGED <<clientVars, pollerVars, streamerVars, apiVars>>

\* Mutated: the shutdown is not remembered.
SenderCheck_NoFinal ==
    /\ sender = "check"
    /\ sender' = IF offline THEN "top" ELSE "bundle"
    /\ UNCHANGED <<clientVars, finalflush, pollerVars, streamerVars, apiVars>>

SenderCheck ==
    /\ sender = "check"
    /\ finalflush' = (finalflush \/ status = "Shuttingdown")
    /\ sender' = IF offline THEN "top" ELSE "bundle"
    /\ UNCHANGED <<clientVars, pollerVars, streamerVars, apiVars>>

\* LDi_bundleEventPayload empties the queue into a payload.
SenderBundle ==
    /\ sender = "bundle"
    /\ sender' = IF queued THEN "send" ELSE "top"
    /\ queued' = FALSE
    /\ UNCHANGED <<status, offline, background, user, flagsOf, finalflush,
                   pollerVars, streamerVars, apiVars>>

\* No payload identifier, or no memory for the payload: the events stay.
SenderBundleFailed ==
    /\ sender = "bundle"
    /\ "bundle" \in Failures
    /\ sender' = "top"
    /\ UNCHANGED <<clientVars, finalflush, pollerVars, streamerVars, apiVars>>

\* LDi_sendevents and the answer to it.  The batch is discarded after the
\* second failure; only the first attempt looks at the response code.  A
\* payload that cannot be serialised is discarded as well.
SenderSent ==
    /\ sender \in {"send", "resend"}
    /\ sender' = "top"
    /\ UNCHANGED <<clientVars, finalflush, pollerVars, streamerVars, apiVars>>

SenderUnauthorized ==
    /\ sender = "send"
    /\ sender' = "top"
    /\ UpdateStatus("Failed")
    /\ UNCHANGED <<offline, background, user, flagsOf, queued, finalflush,
                   pollerVars, streamerVars, close, restore, calls>>

SenderSendFailed ==
    /\ sender = "send"
    /\ sender' = "retryLock"
    /\ UNCHANGED <<clientVars, finalflush, pollerVars, streamerVars, apiVars>>

SenderRetrySleep ==
    /\ sender = "retryLock"
    /\ CondMtxFree
    /\ sender' = "retryWait"
    /\ UNCHANGED <<clientVars, finalflush, pollerVars, streamerVars, apiVars>>

Sender ==
    \/ SenderTop \/ SenderSleep \/ SenderTimeout \/ SenderCheck \/ SenderBundle
    \/ SenderBundleFailed \/ SenderSent \/ SenderUnauthorized
    \/ SenderSendFailed \/ SenderRetrySleep

-----------------------------------------------------------------------------
(***************************************************************************)
(* LDi_bgfeaturepoller.                                                    *)
(***************************************************************************)
\* Mutated: polling goes on in offline mode.
SkipPolling_Online ==
    IF background THEN DisableBackgroundUpdating ELSE Streaming

SkipPolling ==
    offline \/ IF background THEN DisableBackgroundUpdating ELSE Streaming

PollerTop ==
    /\ poller = "top"
    /\ \/ /\ Dying
          /\ poller' = "exit"
          /\ UNCHANGED skippolling
       \/ /\ ~Dying
          /\ ~SkipPolling /\ status = "Initializing"
          /\ poller' = "recheck"
          /\ UNCHANGED skippolling
       \/ /\ ~Dying
          /\ SkipPolling \/ status # "Initializing"
          /\ CondMtxFree
          /\ poller' = "gate"
          /\ skippolling' = SkipPolling
    /\ UNCHANGED <<clientVars, senderVars, pollUser, streamerVars, apiVars>>

PollerSleep ==
    /\ poller = "gate"
    /\ poller' = "wait"
    /\ UNCHANGED <<clientVars, senderVars, skippolling, pollUser, streamerVars,
                   apiVars>>

PollerTimeout ==
    /\ poller = "wait"
    /\ poller' = PollerSignalled(poller)
    /\ skippolling' = FALSE
    /\ UNCHANGED <<clientVars, senderVars, pollUser, streamerVars, apiVars>>

PollerRecheck ==
    /\ poller = "recheck"
    /\ poller' = IF Dying THEN "top" ELSE "fetch"
    /\ UNCHANGED <<clientVars, senderVars, skippolling, pollUser, streamerVars,
                   apiVars>>

\* Mutated: the serialised user is kept from the first poll.
PollerFetch_Cached ==
    /\ poller = "fetch"
    /\ poller' = "inflight"
    /\ pollUser' = IF flagsOf = Nobody THEN user ELSE flagsOf
    /\ UNCHANGED <<clientVars, senderVars, skippolling, streamerVars, apiVars>>

\* LDi_fetchfeaturemap serialises the user and sends the request.
PollerFetch ==
    /\ poller = "fetch"
    /\ poller' = "inflight"
    /\ pollUser' = user
    /\ UNCHANGED <<clientVars, senderVars, skippolling, streamerVars, apiVars>>

\* LDi_onstreameventput stores the flags under the store's lock ...
PollerStore ==
    /\ poller = "inflight"
    /\ poller' = "stored"
    /\ flagsOf' = pollUser
    /\ pollUser' = Nobody
    /\ UNCHANGED <<status, offline, background, user, queued, senderVars,
                   skippolling, streamerVars, apiVars>>

\* ... and then takes clientLock to set the status.
PollerInitialized ==
    /\ poller = "stored"
    /\ poller' = "top"
    /\ UpdateStatus("Initialized")
    /\ UNCHANGED <<offline, background, user, flagsOf, queued, senderVars,
                   skippolling, pollUser, streamerVars, close, restore, calls>>

\* 401 or 403.
PollerFailed ==
    /\ poller = "inflight"
    /\ poller' = "top"
    /\ pollUser' = Nobody
    /\ UpdateStatus("Failed")
    /\ UNCHANGED <<offline, background, user, flagsOf, queued, senderVars,
                   skippolling, streamerVars, close, restore, calls>>

\* LDi_storePut ran out of memory.
PollerStoreFailed == "store" \in Failures /\ PollerFailed

\* Mutated: a response without a usable body counts as success.
PollerRetryLater_Initialized ==
    /\ poller = "inflight"
    /\ poller' = "top"
    /\ pollUser' = Nobody
    /\ UpdateStatus("Initialized")
    /\ UNCHANGED <<offline, background, user, flagsOf, queued, senderVars,
                   skippolling, streamerVars, close, restore, calls>>

\* Any other response, or a body that is empty or cannot be parsed.
PollerRetryLater ==
    /\ poller = "inflight"
    /\ poller' = "top"
    /\ pollUser' = Nobody
    /\ UNCHANGED <<clientVars, senderVars, skippolling, streamerVars, apiVars>>

Poller ==
    \/ PollerTop \/ PollerSleep \/ PollerTimeout \/ PollerRecheck \/ PollerFetch
    \/ PollerStore \/ PollerInitialized \/ PollerFailed
    \/ PollerStoreFailed \/ PollerRetryLater

-----------------------------------------------------------------------------
(***************************************************************************)
(* LDi_bgfeaturestreamer and LDi_readstream.                               *)
(***************************************************************************)
Responses == {"ok", "permanent", "transient", "unresolved"}

\* The retry delay.  Nothing looks at the status before the thread sleeps.
StreamerTop ==
    /\ streamer = "top"
    /\ \/ backoff /\ CondMtxFree /\ streamer' = "retryWait"
       \/ ~backoff /\ streamer' = "enter"
    /\ UNCHANGED <<clientVars, senderVars, pollerVars, backoff, streamUser,
                   response, conn, handle, apiVars>>

StreamerTimeout ==
    /\ streamer \in {"retryWait", "wait"}
    /\ streamer' = StreamerSignalled(streamer)
    /\ UNCHANGED <<clientVars, senderVars, pollerVars, backoff, streamUser,
                   response, conn, handle, apiVars>>

StreamerEnter ==
    /\ streamer = "enter"
    /\ LET mayStream == Streaming /\ ~offline /\ ~background IN
       \/ /\ Dying
          /\ streamer' = "exit"
          /\ UNCHANGED backoff
       \/ /\ ~Dying /\ ~mayStream
          /\ CondMtxFree
          /\ streamer' = "gate"
          /\ backoff' = FALSE
       \/ /\ ~Dying /\ mayStream
          /\ streamer' = "prepare"
          /\ UNCHANGED backoff
    /\ UNCHANGED <<clientVars, senderVars, pollerVars, streamUser, response,
                   conn, handle, apiVars>>

StreamerSleep ==
    /\ streamer = "gate"
    /\ streamer' = "wait"
    /\ UNCHANGED <<clientVars, senderVars, pollerVars, backoff, streamUser,
                   response, conn, handle, apiVars>>

\* LDi_readstream serialises the user ...
StreamerPrepare ==
    /\ streamer = "prepare"
    /\ streamer' = "connect"
    /\ streamUser' = user
    /\ UNCHANGED <<clientVars, senderVars, pollerVars, backoff, response, conn,
                   handle, apiVars>>

\* ... or fails to, and returns without setting the caller's response, which is
\* then whatever the uninitialised variable holds.
StreamerAbandon ==
    /\ streamer = "prepare"
    /\ "prepare" \in Failures
    /\ streamer' = "ended"
    /\ response' \in Responses
    /\ UNCHANGED <<clientVars, senderVars, pollerVars, backoff, streamUser, conn,
                   handle, apiVars>>

\* Mutated: the socket is not remembered.
StreamerConnect_NoHandle ==
    /\ streamer = "connect"
    /\ streamer' = "reading"
    /\ response' \in {"ok", "permanent", "transient"}
    /\ conn' = "up"
    /\ UNCHANGED <<clientVars, senderVars, pollerVars, backoff, streamUser,
                   handle, apiVars>>

\* curl opens the socket: SocketCallback, LDi_updatehandle.
StreamerConnect ==
    /\ streamer = "connect"
    /\ streamer' = "reading"
    /\ response' \in {"ok", "permanent", "transient"}
    /\ conn' = "up"
    /\ handle' = "open"
    /\ UNCHANGED <<clientVars, senderVars, pollerVars, backoff, streamUser,
                   apiVars>>

\* The host cannot be resolved: no socket is opened.
StreamerUnresolved ==
    /\ streamer = "connect"
    /\ streamer' = "ended"
    /\ response' = "unresolved"
    /\ streamUser' = Nobody
    /\ UNCHANGED <<clientVars, senderVars, pollerVars, backoff, conn, handle,
                   apiVars>>

\* A put event: as in the poller, first the store and then the status.  Data
\* that was received before the socket was shut down is still processed.
StreamerStore ==
    /\ streamer = "reading"
    /\ response = "ok"
    /\ streamer' = "stored"
    /\ flagsOf' = streamUser
    /\ UNCHANGED <<status, offline, background, user, queued, senderVars,
                   pollerVars, backoff, streamUser, response, conn, handle,
                   apiVars>>

StreamerInitialized ==
    /\ streamer = "stored"
    /\ streamer' = "reading"
    /\ UpdateStatus("Initialized")
    /\ UNCHANGED <<offline, background, user, flagsOf, queued, senderVars,
                   pollerVars, backoff, streamUser, response, conn, handle,
                   close, restore, calls>>

\* LDi_storePut ran out of memory.
StreamerStoreFailed ==
    /\ streamer = "reading"
    /\ "store" \in Failures
    /\ response = "ok"
    /\ UpdateStatus("Failed")
    /\ UNCHANGED <<offline, background, user, flagsOf, queued, senderVars,
                   pollerVars, streamerVars, close, restore, calls>>

\* curl_easy_perform returns: the server ended the stream (the response code
\* stands), or the transfer was cut, aborted by ProgressCallback or failed.
StreamerDisconnect ==
    /\ streamer = "reading"
    /\ streamer' = "ended"
    /\ response' \in {response, "transient"}
    /\ conn' = "none"
    /\ streamUser' = Nobody
    /\ UNCHANGED <<clientVars, senderVars, pollerVars, backoff, handle, apiVars>>

StreamerFailed ==
    /\ streamer = "ended"
    /\ response = "permanent"
    /\ streamer' = "exit"
    /\ response' = "transient"
    /\ UpdateStatus("Failed")
    /\ UNCHANGED <<offline, background, user, flagsOf, queued, senderVars,
                   pollerVars, backoff, streamUser, conn, handle, close, restore,
                   calls>>

\* Mutated: an unresolved host is retried at once.
StreamerRetry_AtOnce ==
    /\ streamer = "ended"
    /\ response # "permanent"
    /\ streamer' = "top"
    /\ response' = "transient"
    /\ backoff' = (handle # "closed" /\ response = "transient")
    /\ UNCHANGED <<clientVars, senderVars, pollerVars, streamUser, conn, handle,
                   apiVars>>

\* retries: 0 if the handle is marked closed, or after a stream of more than
\* 60 seconds; otherwise one more.
StreamerRetry ==
    /\ streamer = "ended"
    /\ response # "permanent"
    /\ streamer' = "top"
    /\ response' = "transient"
    /\ \/ handle = "closed" /\ backoff' = FALSE
       \/ handle # "closed" /\ response = "ok" /\ backoff' = FALSE
       \/ handle # "closed" /\ backoff' = TRUE
    /\ UNCHANGED <<clientVars, senderVars, pollerVars, streamUser, conn, handle,
                   apiVars>>

Streamer ==
    \/ StreamerTop \/ StreamerTimeout \/ StreamerEnter \/ StreamerSleep
    \/ StreamerPrepare \/ StreamerAbandon \/ StreamerConnect
    \/ StreamerUnresolved \/ StreamerStore \/ StreamerInitialized
    \/ StreamerStoreFailed \/ StreamerDisconnect \/ StreamerFailed
    \/ StreamerRetry

-----------------------------------------------------------------------------
(***************************************************************************)
(* API calls.  LDClientClose is not thread safe: the application makes it  *)
(* when no other call is running, and makes no call after it.              *)
(***************************************************************************)
Call(kind) ==
    /\ kind \in Calls
    /\ close = "open"
    /\ calls < MaxCalls
    /\ calls' = calls + 1

SetOffline ==
    /\ Call("offline")
    /\ offline' = TRUE
    /\ UNCHANGED <<status, background, user, flagsOf, queued, senderVars,
                   pollerVars, streamerVars, close, await, restore>>

SetOnline ==
    /\ Call("online")
    /\ offline' = FALSE
    /\ UpdateStatus("Initializing")
    /\ UNCHANGED <<background, user, flagsOf, queued, senderVars, pollerVars,
                   streamerVars, close, restore>>

\* LDi_startstopstreaming also sets shouldstopstreaming, which nothing reads.
SetBackground(b) ==
    /\ Call("background")
    /\ background' = b
    /\ FeatureThreadsSignalled
    /\ UNCHANGED <<status, offline, user, flagsOf, queued, senderVars, pollUser,
                   backoff, streamUser, response, conn, handle, close, await,
                   restore>>

Identify(u) ==
    /\ Call("identify")
    /\ user' = u
    /\ UpdateStatus("Initializing")
    /\ ReinitializeConnection
    /\ queued' = TRUE
    /\ UNCHANGED <<offline, background, flagsOf, senderVars, close, restore>>

\* LDClientTrack*, LDClientAlias and the variations: an event is queued.
Track ==
    /\ Call("track")
    /\ queued' = TRUE
    /\ UNCHANGED <<status, offline, background, user, flagsOf, senderVars,
                   pollerVars, streamerVars, close, await, restore>>

Flush ==
    /\ Call("flush")
    /\ sender' = SenderSignalled(sender)
    /\ UNCHANGED <<clientVars, finalflush, pollerVars, streamerVars, close,
                   await, restore>>

\* LDClientRestoreFlags: LDi_onstreameventput on flags saved for some user.
RestoreFlags(u) ==
    /\ Call("restore")
    /\ restore = "idle"
    /\ restore' = "stored"
    /\ flagsOf' = u
    /\ UNCHANGED <<status, offline, background, user, queued, senderVars,
                   pollerVars, streamerVars, close, await>>

RestoreInitialized ==
    /\ restore = "stored"
    /\ restore' = "idle"
    /\ UpdateStatus("Initialized")
    /\ UNCHANGED <<offline, background, user, flagsOf, queued, senderVars,
                   pollerVars, streamerVars, close, calls>>

RestoreFailed ==
    /\ Call("restore")
    /\ "store" \in Failures
    /\ UpdateStatus("Failed")
    /\ UNCHANGED <<offline, background, user, flagsOf, queued, senderVars,
                   pollerVars, streamerVars, close, restore>>

(***************************************************************************)
(* LDClientAwaitInitialized: one timed wait on initCond, not in a loop.    *)
(***************************************************************************)
AwaitCheck ==
    /\ Call("await")
    /\ await = "idle"
    /\ await' = IF status = "Initialized" THEN "idle" ELSE "checked"
    /\ UNCHANGED <<clientVars, senderVars, pollerVars, streamerVars, close,
                   restore>>

AwaitSleep ==
    /\ await = "checked"
    /\ await' = "asleep"
    /\ UNCHANGED <<clientVars, senderVars, pollerVars, streamerVars, close,
                   restore, calls>>

AwaitTimeout ==
    /\ await = "asleep"
    /\ await' = "timedout"
    /\ UNCHANGED <<clientVars, senderVars, pollerVars, streamerVars, close,
                   restore, calls>>

\* The status is read again, and the call returns whether it is Initialized.
AwaitReturn ==
    /\ await \in {"signalled", "timedout"}
    /\ await' = "idle"
    /\ UNCHANGED <<clientVars, senderVars, pollerVars, streamerVars, close,
                   restore, calls>>

Await == AwaitSleep \/ AwaitTimeout \/ AwaitReturn

(***************************************************************************)
(* clientCloseIsolated.                                                    *)
(***************************************************************************)
CloseBegin ==
    /\ close = "open"
    /\ await = "idle" /\ restore = "idle"
    /\ close' = "signal"
    /\ UpdateStatus("Shuttingdown")
    /\ ReinitializeConnection
    /\ UNCHANGED <<offline, background, user, flagsOf, queued, senderVars,
                   restore, calls>>

\* Mutated: the signals are sent without condMtx.
CloseSignal_Unlocked ==
    /\ close = "signal"
    /\ close' = "join"
    /\ sender' = SenderSignalled(sender)
    /\ FeatureThreadsSignalled
    /\ AwaitSignalled
    /\ UNCHANGED <<clientVars, finalflush, pollUser, backoff, streamUser,
                   response, conn, handle, restore, calls>>

\* initCond, eventCond, pollCond and streamCond, under condMtx.
CloseSignal ==
    /\ close = "signal"
    /\ CondMtxFree
    /\ close' = "join"
    /\ sender' = SenderSignalled(sender)
    /\ FeatureThreadsSignalled
    /\ AwaitSignalled
    /\ UNCHANGED <<clientVars, finalflush, pollUser, backoff, streamUser,
                   response, conn, handle, restore, calls>>

\* The three threads are joined, and everything they used is freed.
CloseJoin ==
    /\ close = "join"
    /\ sender = "exit" /\ poller = "exit" /\ streamer = "exit"
    /\ close' = "closed"
    /\ UNCHANGED <<clientVars, senderVars, pollerVars, streamerVars, await,
                   restore, calls>>

Close == CloseSignal \/ CloseJoin

Api ==
    \/ SetOffline \/ SetOnline \/ Track \/ Flush
    \/ RestoreInitialized \/ RestoreFailed
    \/ \E b \in BOOLEAN : SetBackground(b)
    \/ \E u \in Users : Identify(u) \/ RestoreFlags(u)
    \/ AwaitCheck \/ Await
    \/ CloseBegin \/ Close

\* The application has freed the client, or has nothing left to do with it.
Terminated == close = "closed" /\ UNCHANGED vars

Next == Sender \/ Poller \/ Streamer \/ Api \/ Terminated

Spec == Init /\ [][Next]_vars

(***************************************************************************)
(* Fairness.  A thread that can run is scheduled, and gets a mutex that is *)
(* released again and again: strong fairness.  Timed waits expire and      *)
(* requests have a timeout.  A stream ends when it was refused or cut, or   *)
(* when ProgressCallback sees the shutdown; else it may stay up for ever.  *)
(* The application finishes the calls it made, but need not make any.      *)
(***************************************************************************)
StreamerProgress ==
    \/ StreamerTop \/ StreamerTimeout \/ StreamerEnter \/ StreamerSleep
    \/ StreamerPrepare \/ StreamerAbandon \/ StreamerConnect
    \/ StreamerUnresolved \/ StreamerInitialized \/ StreamerFailed
    \/ StreamerRetry

StreamerEnds ==
    /\ conn = "cut" \/ status = "Shuttingdown" \/ response # "ok"
    /\ StreamerDisconnect

Fairness ==
    /\ SF_vars(Sender)
    /\ SF_vars(Poller)
    /\ SF_vars(StreamerProgress)
    /\ SF_vars(StreamerEnds)
    /\ SF_vars(Close)
    /\ WF_vars(Await \/ RestoreInitialized)

FairSpec == Spec /\ Fairness

\* The server answers: of infinitely many polls infinitely many succeed.
PollSpec == FairSpec /\ SF_vars(PollerStore)

\* The same for the stream, and a stream that is up delivers flags.
StreamSpec ==
    /\ FairSpec
    /\ SF_vars(StreamerConnect /\ response' = "ok")
    /\ WF_vars(StreamerStore)

-----------------------------------------------------------------------------
(***************************************************************************)
(* Properties.                                                             *)
(***************************************************************************)
\* Once LDClientClose has broadcast the shutdown, no thread is asleep in the
\* wait of its main loop, or about to be: a thread that saw the old status
\* holds condMtx from before it drops clientLock until it sleeps, and the
\* broadcast is made under condMtx.
NoLostShutdown ==
    (close = "join" /\ status = "Shuttingdown") =>
        /\ sender \notin {"gate", "wait"}
        /\ poller \notin {"gate", "wait"}
        /\ streamer \notin {"gate", "wait"}

\* When the event sender ends because of the shutdown and the client is
\* online, it has tried to deliver everything that was queued (finalflush).
FinalFlush ==
    (sender = "exit" /\ finalflush /\ ~offline) => ~queued

\* Whoever sees the status Initialized finds flags in the store: a put is
\* stored before the status says so (LDi_onstreameventput).
InitializedHasFlags == status = "Initialized" => flagsOf # Nobody

\* LDClientIdentify and LDClientClose can always cut the stream that is up:
\* client->streamhandle is open as long as the connection is not cut.
StreamCanBeCut ==
    /\ conn = "up" => handle = "open"
    /\ conn = "cut" => handle # "open"

\* LDClientClose completes, unless an answer that was in flight replaces the
\* status Shuttingdown: as long as it stands, every wait, retry and transfer
\* of the three threads leads to their end.
ShutdownCompletes ==
    (close = "signal") ~> (close = "closed" \/ status # "Shuttingdown")

Sending == sender \in {"send", "resend"}

\* Once the client stays offline, polls and event deliveries cease.
OfflineStopsRequests ==
    <>[]offline => <>[](poller # "inflight" /\ ~Sending)

\* A client that stays online and in the foreground, and whose threads have
\* not ended, ends up with the flags of the user it last identified as: the
\* re-fetch that LDClientIdentify asks for happens.
FlagsFollowUser ==
    <>[](/\ ~offline /\ ~background /\ ~Dying
         /\ sender # "exit" /\ poller # "exit" /\ streamer # "exit")
        => <>[](flagsOf = user)

\* LDClientClose completes (client.h: "Close the client, free resources, and
\* generally shut down").
CloseCompletes == (close = "signal") ~> (close = "closed")

\* A streamer that time and again cannot resolve its host waits time and again
\* before it retries, unless the handle is still marked closed from the last
\* LDClientIdentify (CHANGELOG: "Fixed streaming connection retry behavior
\* when SDK was unable to resolve remote hostname").
UnresolvedBacksOff ==
    []<>(response = "unresolved")
        => []<>(streamer = "retryWait" \/ handle = "closed")
=============================================================================
