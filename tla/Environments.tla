---------------------------- MODULE Environments ----------------------------
(***************************************************************************)
(* Several environments in one process: the configuration that names them, *)
(* LDClientInit which builds one client per mobile key and unwinds when a  *)
(* step fails, the calls that loop over all clients (LDClientSetOnline,    *)
(* LDClientSetOffline, LDClientIdentify, LDClientClose), the user they     *)
(* share, and the status callback, for which LDi_updatestatus gives        *)
(* clientLock up.                                                          *)
(*                                                                         *)
(* A critical section of clientLock is one step, so the lock is free       *)
(* between steps; the status callback splits a section in two.  The two    *)
(* feature threads of a client are one process: what matters here is when  *)
(* it reads the shared user, whose flags it stores and which status it     *)
(* sets (module Client has the threads in detail, for one environment).    *)
(***************************************************************************)
EXTENDS Naturals, Sequences, FiniteSetsExt

CONSTANTS
    Secondaries,  \* names an application may give to secondary environments
    Keys,         \* mobile keys
    Users,        \* user objects
    Primary,      \* LD_PRIMARY_ENVIRONMENT_NAME, "default"
    MaxAdded,     \* bound: calls of LDConfigAddSecondaryMobileKey
    MaxCalls      \* bound: calls of the API after LDClientInit

VARIABLES
    config,    \* the mobile key, and secondaryMobileKeys in the object's order
    accepted,  \* history: the key of each name LDConfigAddSecondaryMobileKey took
    callback,  \* whether a status callback is set
    table,     \* clientTable, in the order of HASH_ITER
    built,     \* what LDi_clientInitIsolated has made and not yet released
    status, offline,
    flagsOf,   \* whose flags the store of an environment has
    net,       \* the feature threads of an environment
    pending,   \* the user a request was made for
    user,      \* sharedUser
    freed,     \* users that were freed
    call,      \* the API call in progress
    target,    \* the client it was made on
    todo,      \* the environments it still has to visit
    previous,  \* previousUser in LDClientIdentify
    relock,    \* the call is in the callback, clientLock of Head(todo) is free
    calls

configVars == <<config, accepted>>
clientVars == <<status, offline, flagsOf, net, pending>>
callVars   == <<call, target, todo, previous, relock>>
vars == <<configVars, callback, table, built, clientVars, user, freed, callVars,
          calls>>

-----------------------------------------------------------------------------
Envs == Secondaries \union {Primary}
None == "none"

ASSUME NoneIsNothing == None \notin Keys /\ None \notin Users

\* The steps of LDi_clientInitIsolated, in order; "identify" is its last step
\* and leaves nothing to release.
Steps == << "client", "mobileKey", "eventProcessor", "store", "clientLock",
            "initCondMtx", "condMtx", "initCond", "eventCond", "pollCond",
            "streamCond", "eventThread", "pollingThread", "streamingThread",
            "identify" >>

Resources == Range(Steps) \ {"identify"}
Threads   == {"eventThread", "pollingThread", "streamingThread"}

Init == /\ config \in [mobileKey : Keys, secondary : {<<>>}]
        /\ accepted = [n \in Secondaries |-> None]
        /\ callback \in BOOLEAN
        /\ table = <<>>
        /\ built = [e \in Envs |-> {}]
        /\ status = [e \in Envs |-> "Initializing"]
        /\ offline = [e \in Envs |-> FALSE]
        /\ flagsOf = [e \in Envs |-> None]
        /\ net = [e \in Envs |-> "none"]
        /\ pending = [e \in Envs |-> None]
        /\ user \in Users
        /\ freed = {}
        /\ call = "configure" /\ target = None /\ todo = <<>>
        /\ previous = user /\ relock = FALSE
        /\ calls = 0

-----------------------------------------------------------------------------
(* Configuration *)

\* cJSON_DeleteItemFromObjectCaseSensitive: the first entry of the name goes.
WithoutName(object, name) ==
    LET named == {i \in DOMAIN object : object[i].name = name}
    IN  IF named = {} THEN object
        ELSE SubSeq(object, 1, Min(named) - 1) \o SubSeq(object, Min(named) + 1, Len(object))

\* Mutated: the old entry stays.
WithKey_Appended(object, name, key) == Append(object, [name |-> name, key |-> key])

\* LDObjectSetKey: an entry of the same name goes, the new one is the last.
WithKey(object, name, key) ==
    Append(WithoutName(object, name), [name |-> name, key |-> key])

\* What LDConfigAddSecondaryMobileKey refuses.  The entry found under the name
\* is compared with the NAME, so a second call for a name goes through.
Refused(name, key) ==
    \/ name = Primary
    \/ key = config.mobileKey
    \/ \E i \in DOMAIN config.secondary :
          config.secondary[i].name = name /\ config.secondary[i].key = name

LDConfigAddSecondaryMobileKey(name, key) ==
    /\ call = "configure" /\ calls < MaxAdded
    /\ calls' = calls + 1
    /\ IF Refused(name, key)
       THEN UNCHANGED configVars
       ELSE /\ config' = [config EXCEPT !.secondary = WithKey(@, name, key)]
            /\ accepted' = [n \in DOMAIN accepted \union {name} |->
                               IF n = name THEN key ELSE accepted[n]]
    /\ UNCHANGED <<callback, table, built, clientVars, user, freed, callVars>>

\* The environments LDClientInit builds: the primary one, then the members of
\* the object of secondary mobile keys in their order.
Configured == <<Primary>> \o [i \in DOMAIN config.secondary |-> config.secondary[i].name]

LDClientInit ==
    /\ call = "configure"
    /\ call' = "init" /\ todo' = Configured
    /\ calls' = 0
    /\ UNCHANGED <<configVars, callback, table, built, clientVars, user, freed,
                   target, previous, relock>>

-----------------------------------------------------------------------------
(* LDi_clientInitIsolated *)

Starting(e) == call = "init" /\ todo # <<>> /\ e = Head(todo)

\* The step the client under construction comes to next: the first that was
\* not taken.
NextStep(e) == Steps[Min({i \in DOMAIN Steps : Steps[i] \notin built[e]})]

\* A step succeeds.  The last one, the identify event, completes the client,
\* which LDClientInit adds to the table.
InitStep(e) ==
    /\ Starting(e)
    /\ IF NextStep(e) = "identify"
       THEN /\ table' = Append(table, e)
            /\ todo' = Tail(todo)
            /\ UNCHANGED <<built, clientVars>>
       ELSE /\ built' = [built EXCEPT ![e] = @ \union {NextStep(e)}]
            /\ net' = IF NextStep(e) = "pollingThread" THEN [net EXCEPT ![e] = "idle"] ELSE net
            /\ UNCHANGED <<table, todo, status, offline, flagsOf, pending>>
    /\ UNCHANGED <<configVars, callback, user, freed, call, target, previous,
                   relock, calls>>

\* Mutated: a failed initCond jumps to the label of the step before.
ErrorLabel_OneShort ==
    [client |-> 0, mobileKey |-> 1, eventProcessor |-> 2, store |-> 3,
     clientLock |-> 4, initCondMtx |-> 5, condMtx |-> 6, initCond |-> 6,
     eventCond |-> 8, pollCond |-> 9, streamCond |-> 10, eventThread |-> 11,
     pollingThread |-> 12, streamingThread |-> 12, identify |-> 12]

\* The label that a failing step jumps to, as the number in its name; when
\* there is no memory for the client the function returns (0).
ErrorLabel ==
    [client |-> 0, mobileKey |-> 1, eventProcessor |-> 2, store |-> 3,
     clientLock |-> 4, initCondMtx |-> 5, condMtx |-> 6, initCond |-> 7,
     eventCond |-> 8, pollCond |-> 9, streamCond |-> 10, eventThread |-> 11,
     pollingThread |-> 12, streamingThread |-> 12, identify |-> 12]

\* What each label destroys before it falls through to the one below.
DestroyedAt ==
    <<{"client"}, {"mobileKey"}, {"eventProcessor"}, {"store"}, {"clientLock"},
      {"initCondMtx"}, {"condMtx"}, {"initCond"}, {"eventCond"}, {"pollCond"},
      {"streamCond"}, Threads>>

DestroyedFrom(label) == UNION {DestroyedAt[i] : i \in 1 .. label}

\* A step fails before a thread exists: the labels are run through at once.
InitFail(e) ==
    /\ Starting(e)
    /\ ErrorLabel[NextStep(e)] < 12
    /\ built' = [built EXCEPT ![e] = @ \ DestroyedFrom(ErrorLabel[NextStep(e)])]
    /\ call' = "aborted"
    /\ UNCHANGED <<configVars, callback, table, clientVars, user, freed, target,
                   todo, previous, relock, calls>>

\* A step fails when threads run already: they are told to end first.
InitFailRunning(e) ==
    /\ Starting(e)
    /\ ErrorLabel[NextStep(e)] = 12
    /\ status' = [status EXCEPT ![e] = "Shuttingdown"]
    /\ call' = "unwind"
    /\ UNCHANGED <<configVars, callback, table, built, offline, flagsOf, net, pending, user, freed, target, todo, previous, relock, calls>>

\* The threads that were created are joined and everything is destroyed.
InitUnwind(e) ==
    /\ call = "unwind" /\ e = Head(todo)
    /\ "pollingThread" \in built[e] => net[e] = "exit"
    /\ built' = [built EXCEPT ![e] = @ \ DestroyedFrom(12)]
    /\ call' = "aborted"
    /\ UNCHANGED <<configVars, callback, table, clientVars, user, freed, target,
                   todo, previous, relock, calls>>

\* LDClientInit returns, having waited for the clients or not.
InitReturn ==
    /\ call = "init" /\ todo = <<>>
    /\ call' = "idle"
    /\ UNCHANGED <<configVars, callback, table, built, clientVars, user, freed,
                   target, todo, previous, relock, calls>>

-----------------------------------------------------------------------------
(* The feature threads of a client *)

\* LD_ASSERT ends the process when LDClientInit cannot build a client, and what
\* follows the release of a lock that is not held is undefined.
Up == call \notin {"aborted", "undefined"}

\* The thread looks at its client: it ends, has nothing to do, or goes on to
\* make a request.
NetTop(e) ==
    /\ Up /\ net[e] = "idle"
    /\ \/ /\ status[e] \in {"Failed", "Shuttingdown"}
          /\ net' = [net EXCEPT ![e] = "exit"]
       \/ /\ status[e] \notin {"Failed", "Shuttingdown"} /\ ~offline[e]
          /\ net' = [net EXCEPT ![e] = "request"]
       \/ /\ status[e] \notin {"Failed", "Shuttingdown"} /\ offline[e]
          /\ UNCHANGED net  \* it sleeps, and looks again
    /\ UNCHANGED <<configVars, callback, table, built, status, offline, flagsOf,
                   pending, user, freed, callVars, calls>>

UserReadable == call # "identify"

\* It locks sharedUserLock for reading and starts to serialise the user.
NetRead(e) ==
    /\ Up /\ net[e] = "request"
    /\ UserReadable
    /\ net' = [net EXCEPT ![e] = "reading"]
    /\ pending' = [pending EXCEPT ![e] = user]
    /\ UNCHANGED <<configVars, callback, table, built, status, offline, flagsOf, user, freed, callVars, calls>>

\* It has serialised the user and sends the request.
NetSend(e) ==
    /\ Up /\ net[e] = "reading"
    /\ net' = [net EXCEPT ![e] = "waiting"]
    /\ UNCHANGED <<configVars, callback, table, built, status, offline, flagsOf,
                   pending, user, freed, callVars, calls>>

\* An answer: the flags are stored, the key is refused, or there is none.
NetAnswer(e) ==
    /\ Up /\ net[e] = "waiting"
    /\ \/ /\ flagsOf' = [flagsOf EXCEPT ![e] = pending[e]]
          /\ net' = [net EXCEPT ![e] = "stored"]
       \/ /\ net' = [net EXCEPT ![e] = "refused"]
          /\ UNCHANGED flagsOf
       \/ /\ net' = [net EXCEPT ![e] = "idle"]
          /\ UNCHANGED flagsOf
    /\ pending' = [pending EXCEPT ![e] = None]
    /\ UNCHANGED <<configVars, callback, table, built, status, offline, user, freed, callVars, calls>>

\* LDi_updatestatus drops clientLock for the callback if the status changes.
CallsBack(c, s) == callback /\ status[c] # s

\* The thread sets the status that follows from the answer.
NetStatus(e) ==
    LET s == IF net[e] = "stored" THEN "Initialized" ELSE "Failed" IN
    /\ Up /\ net[e] \in {"stored", "refused"}
    /\ status' = [status EXCEPT ![e] = s]
    /\ IF CallsBack(e, s)
       THEN net' = [net EXCEPT ![e] = "callback"]
       ELSE net' = [net EXCEPT ![e] = "idle"]
    /\ UNCHANGED <<configVars, callback, table, built, offline, flagsOf, pending, user, freed, callVars, calls>>

\* The callback returns; the thread takes clientLock and gives it back.
NetCallbackReturns(e) ==
    /\ Up /\ net[e] = "callback"
    /\ net' = [net EXCEPT ![e] = "idle"]
    /\ UNCHANGED <<configVars, callback, table, built, status, offline, flagsOf,
                   pending, user, freed, callVars, calls>>

Net(e) == NetTop(e) \/ NetRead(e) \/ NetSend(e) \/ NetAnswer(e) \/ NetStatus(e)
          \/ NetCallbackReturns(e)

-----------------------------------------------------------------------------
(* API calls *)

Begins(name, c) == /\ call = "idle" /\ calls < MaxCalls
                   /\ calls' = calls + 1
                   /\ call' = name /\ target' = c /\ todo' = table

Visits(name, e) == call = name /\ ~relock /\ todo # <<>> /\ e = Head(todo)

\* LDi_updatestatus(c, s) by the call, in its turn for e, whose clientLock it
\* holds.  Its turn ends unless it is in the callback; releasing the lock of
\* a client other than e is undefined.
UpdateStatus(c, s, e) ==
    /\ status' = [status EXCEPT ![c] = s]
    /\ IF ~CallsBack(c, s)
       THEN todo' = Tail(todo) /\ UNCHANGED <<call, relock>>
       ELSE /\ IF c = e THEN relock' = TRUE /\ UNCHANGED call
                        ELSE call' = "undefined" /\ UNCHANGED relock
            /\ UNCHANGED todo

Returns(name) == call = name /\ todo = <<>> /\ call' = "idle"

LDClientSetOffline(c) ==
    /\ Begins("offline", c)
    /\ UNCHANGED <<configVars, callback, table, built, clientVars, user, freed,
                   previous, relock>>

SetOfflineVisit(e) ==
    /\ Visits("offline", e)
    /\ offline' = [offline EXCEPT ![e] = TRUE]
    /\ todo' = Tail(todo)
    /\ UNCHANGED <<configVars, callback, table, built, status, flagsOf, net, pending, user, freed, call, target, previous, relock, calls>>

LDClientSetOnline(c) ==
    /\ Begins("online", c)
    /\ UNCHANGED <<configVars, callback, table, built, clientVars, user, freed,
                   previous, relock>>

\* Mutated: the status of the client given is set in every turn.
SetOnlineVisit_Target(e) ==
    /\ Visits("online", e)
    /\ offline' = [offline EXCEPT ![e] = FALSE]
    /\ UpdateStatus(target, "Initializing", e)
    /\ UNCHANGED <<configVars, callback, table, built, flagsOf, net, pending, user, freed, target, previous, calls>>

SetOnlineVisit(e) ==
    /\ Visits("online", e)
    /\ offline' = [offline EXCEPT ![e] = FALSE]
    /\ UpdateStatus(e, "Initializing", e)
    /\ UNCHANGED <<configVars, callback, table, built, flagsOf, net, pending, user, freed, target, previous, calls>>

SetReturns ==
    /\ Returns("offline") \/ Returns("online")
    /\ UNCHANGED <<configVars, callback, table, built, clientVars, user, freed,
                   target, todo, previous, relock, calls>>

\* Mutated: the lock is taken beside its readers.
UserWritable_Always == TRUE

UserWritable == \A e \in Envs : net[e] # "reading"

\* sharedUserLock is taken for writing, which waits for its readers.
LDClientIdentify(c, u) ==
    /\ Begins("identify", c)
    /\ UserWritable
    /\ u \notin freed
    /\ previous' = user /\ user' = u
    /\ UNCHANGED <<configVars, callback, table, built, clientVars, freed, relock>>

\* The status of the client given to the call is set, in the turn of every e.
IdentifyVisit(e) ==
    /\ Visits("identify", e)
    /\ UpdateStatus(target, "Initializing", e)
    /\ UNCHANGED <<configVars, callback, table, built, offline, flagsOf, net, pending, user, freed, target, previous, calls>>

IdentifyReturns ==
    /\ Returns("identify")
    /\ freed' = freed \union ({previous} \ {user})
    /\ UNCHANGED <<configVars, callback, table, built, clientVars, user, target,
                   todo, previous, relock, calls>>

\* The callback returns to the call, which locks clientLock again and goes on.
CallbackReturns ==
    /\ relock /\ relock' = FALSE
    /\ IF call = "close" THEN call' = "join" /\ UNCHANGED todo
                         ELSE todo' = Tail(todo) /\ UNCHANGED call
    /\ UNCHANGED <<configVars, callback, table, built, status, offline, flagsOf, net,
                   pending, user, freed, target, previous, calls>>

LDClientClose ==
    /\ call = "idle" /\ call' = "close" /\ todo' = table
    /\ UNCHANGED <<configVars, callback, table, built, clientVars, user, freed,
                   target, previous, relock, calls>>

\* The client leaves the table and is told to shut down.
CloseVisit(e) ==
    /\ Visits("close", e)
    /\ table' = Tail(table)
    /\ status' = [status EXCEPT ![e] = "Shuttingdown"]
    /\ IF CallsBack(e, "Shuttingdown") THEN relock' = TRUE /\ UNCHANGED call
                                       ELSE call' = "join" /\ UNCHANGED relock
    /\ UNCHANGED <<configVars, callback, built, offline, flagsOf, net, pending, user, freed, target, todo, previous, calls>>

\* What clientCloseIsolated releases after it joined the threads; streamCond is
\* not among it.
Closed == Resources \ {"streamCond"}

\* Mutated: the client is destroyed while its threads run.
CloseJoin_NoWait(e) ==
    /\ call = "join" /\ e = Head(todo)
    /\ built' = [built EXCEPT ![e] = @ \ Closed]
    /\ call' = "close" /\ todo' = Tail(todo)
    /\ UNCHANGED <<configVars, callback, table, clientVars, user, freed, target,
                   previous, relock, calls>>

CloseJoin(e) ==
    /\ call = "join" /\ e = Head(todo)
    /\ net[e] = "exit"
    /\ built' = [built EXCEPT ![e] = @ \ Closed]
    /\ call' = "close" /\ todo' = Tail(todo)
    /\ UNCHANGED <<configVars, callback, table, clientVars, user, freed, target,
                   previous, relock, calls>>

CloseReturns ==
    /\ call = "close" /\ todo = <<>>
    /\ freed' = freed \union {user}
    /\ call' = "closed"
    /\ UNCHANGED <<configVars, callback, table, built, clientVars, user, target,
                   todo, previous, relock, calls>>

\* Nothing more happens.
Ended == call \in {"closed", "aborted", "undefined"} /\ UNCHANGED vars

-----------------------------------------------------------------------------
Call(e) ==
    \/ InitStep(e) \/ InitFail(e) \/ InitFailRunning(e) \/ InitUnwind(e)
    \/ SetOfflineVisit(e) \/ SetOnlineVisit(e) \/ IdentifyVisit(e)
    \/ CloseVisit(e) \/ CloseJoin(e)

Next ==
    \/ \E n \in Envs, k \in Keys : LDConfigAddSecondaryMobileKey(n, k)
    \/ LDClientInit \/ InitReturn \/ SetReturns \/ IdentifyReturns
    \/ CallbackReturns \/ LDClientClose \/ CloseReturns \/ Ended
    \/ \E c \in Range(table) : LDClientSetOffline(c) \/ LDClientSetOnline(c)
    \/ \E c \in Range(table), u \in Users : LDClientIdentify(c, u)
    \/ \E e \in Envs : Call(e) \/ Net(e)

Spec == Init /\ [][Next]_vars

-----------------------------------------------------------------------------
(* Properties *)

\* Nobody uses a user that was freed: a thread that serialises the shared user
\* (LDi_readstream, LDi_fetchfeaturemap) holds sharedUserLock, under which
\* LDClientIdentify frees the previous user, and LDClientClose frees the last
\* one after it joined every thread.
UserLive ==
    Up => /\ \A e \in Envs : net[e] = "reading" => pending[e] \notin freed
          /\ call \in {"idle", "online", "offline", "identify", "join"} => user \notin freed

\* LDi_clientInitIsolated releases on failure what it had acquired, all of it
\* and nothing else, whichever step fails; LDClientClose releases everything
\* but streamCond.
ReleasesExactly ==
    /\ \A e \in Envs : Starting(e) =>
          DestroyedFrom(ErrorLabel[NextStep(e)]) \ Threads = built[e] \ Threads
    /\ call = "aborted" => built[Head(todo)] = {}
    /\ call = "closed" => \A e \in Envs : built[e] \subseteq {"streamCond"}

\* As long as a feature thread of a client runs, the client, its locks, its
\* conditions and its store exist: both ways to end a client join it first.
ThreadsHaveTheirClient ==
    Up => \A e \in Envs : net[e] \notin {"none", "exit"} =>
             Resources \ {"streamingThread"} \subseteq built[e]

\* After LDClientInit the table has the primary environment and every secondary
\* environment that LDConfigAddSecondaryMobileKey accepted, each once, and the
\* configuration has the key that was accepted last for it.
AcceptedAreBuilt ==
    call = "idle" =>
       /\ IsInjective(table)
       /\ Range(table) = {Primary} \union {n \in DOMAIN accepted : accepted[n] # None}
       /\ \A i \in DOMAIN config.secondary :
             config.secondary[i].key = accepted[config.secondary[i].name]

\* Only LDClientIdentify releases a lock it does not hold, only with a status
\* callback, and only in its turn for an environment other than the one it was
\* called on.
UndefinedOnlyInIdentify ==
    [][call' = "undefined" /\ call # "undefined" =>
          call = "identify" /\ callback /\ target # Head(todo)]_vars

\* The documentation of LDClientIdentify: a client that is initialized has the
\* flags of the new user.  So a turn of its loop must not leave an environment
\* initialized with the flags of another user.
IdentifyResets ==
    [][\A e \in Envs : Visits("identify", e) /\ todo' = Tail(todo)
          /\ status'[e] = "Initialized" => flagsOf'[e] = user']_vars

=============================================================================
