------------------------- MODULE EnvironmentProofs --------------------------
(***************************************************************************)
(* The properties of module Environments: the feature threads, the calls   *)
(* that visit every client and LDClientClose keep the invariant, and the   *)
(* properties follow from it.                                              *)
(***************************************************************************)
EXTENDS EnvironmentInvariant

-----------------------------------------------------------------------------
(* The feature threads *)

\* What a step of the threads of a client changes is its own; it reads the shared user only
\* while LDClientIdentify does not have sharedUserLock.
LEMMA NetInv ==
    ASSUME EnvInv, NEW e \in Envs, Net(e)
    PROVE  EnvInv'
<1> USE DEF EnvInv
<1>1. /\ Up /\ net[e] \notin {"none", "exit"}
      /\ UNCHANGED <<configVars, callback, table, built, offline, user, freed, callVars, calls>>
      BY DEF Net, NetTop, NetRead, NetSend, NetAnswer, NetStatus, NetCallbackReturns
<1>2. /\ net \in [Envs -> ThreadStates] /\ pending \in [Envs -> Users \union {None}]
      /\ status \in [Envs -> Statuses] /\ flagsOf \in [Envs -> Users \union {None}] /\ user \in Users
      BY DEF TypeOK
<1>3. /\ net' \in [Envs -> ThreadStates]
      /\ \A x \in Envs : x # e => net'[x] = net[x]
      BY <1>2 DEF Net, NetTop, NetRead, NetSend, NetAnswer, NetStatus, NetCallbackReturns, ThreadStates
<1>4. /\ pending' \in [Envs -> Users \union {None}]
      /\ \A x \in Envs : x # e => pending'[x] = pending[x]
      BY <1>2 DEF Net, NetTop, NetRead, NetSend, NetAnswer, NetStatus, NetCallbackReturns
<1>5. net'[e] = "reading" => pending'[e] = user /\ call # "identify"
      BY <1>2 DEF Net, NetTop, NetRead, NetSend, NetAnswer, NetStatus, NetCallbackReturns,
                  UserReadable
<1>6. status' \in [Envs -> Statuses]
      BY <1>2 DEF Net, NetTop, NetRead, NetSend, NetAnswer, NetStatus, NetCallbackReturns, Statuses
<1>7. flagsOf' \in [Envs -> Users \union {None}]
      BY <1>2 DEF Net, NetTop, NetRead, NetSend, NetAnswer, NetStatus, NetCallbackReturns
<1>8. TypeOK'
      BY <1>1, <1>3, <1>4, <1>6, <1>7, Zenon DEF TypeOK, configVars, callVars
<1>9. ConfigAgrees' /\ Configured' = Configured
      BY <1>1, ConfigStays
<1>10. (Visiting /\ BuiltAgrees)'
      BY <1>1, <1>9, Zenon DEF Visiting, BuiltAgrees, callVars
<1>11. ThreadsAgree'
  <2>1. "pollingThread" \in built[e] /\ built' = built
        BY <1>1 DEF ThreadsAgree
  <2> QED BY <1>1, <1>3, <2>1 DEF ThreadsAgree, Up, callVars
<1>12. UsersAgree'
      BY <1>1, <1>3, <1>4, <1>5 DEF UsersAgree, callVars
<1> QED BY <1>8, <1>9, <1>10, <1>11, <1>12

-----------------------------------------------------------------------------
(* The calls that visit every client *)

\* While the application makes calls the table has every client, each once.
LEMMA TableOnce ==
    ASSUME EnvInv, call \in {"idle", "offline", "online", "identify"}
    PROVE  /\ table = Configured /\ IsInjective(table)
           /\ Range(table) = {Primary} \union {n \in Secondaries : accepted[n] # None}
BY ConfiguredOnce, Zenon DEF EnvInv, Visiting

\* LDClientSetOffline and LDClientSetOnline start with every client of the table to visit.
LEMMA BeginsInv ==
    ASSUME EnvInv, NEW c \in Range(table), LDClientSetOffline(c) \/ LDClientSetOnline(c)
    PROVE  EnvInv'
<1> USE DEF EnvInv
<1>1. /\ call = "idle" /\ call' \in {"offline", "online"} /\ todo' = table /\ calls' = calls + 1
      /\ UNCHANGED <<configVars, callback, table, built, clientVars, user, freed, previous, relock>>
      BY DEF LDClientSetOffline, LDClientSetOnline, Begins
<1>2. calls' \in Nat /\ call' \in Calls
      BY <1>1 DEF TypeOK, Calls
<1>3. TypeOK'
      BY <1>1, <1>2, Zenon DEF TypeOK, configVars, clientVars
<1>4. ConfigAgrees' /\ Configured' = Configured
      BY <1>1, ConfigStays, ZenonT(30)
<1>5. (Visiting /\ BuiltAgrees)'
      BY <1>1, <1>4 DEF Visiting, BuiltAgrees
<1>6. (ThreadsAgree /\ UsersAgree)'
      BY <1>1 DEF ThreadsAgree, UsersAgree, Up, clientVars
<1> QED BY <1>3, <1>4, <1>5, <1>6

\* LDClientIdentify waits for the readers of the user it replaces.
LEMMA IdentifyInv ==
    ASSUME EnvInv, NEW c \in Range(table), NEW u \in Users, LDClientIdentify(c, u)
    PROVE  EnvInv'
<1> USE DEF EnvInv
<1>1. /\ call = "idle" /\ call' = "identify" /\ todo' = table /\ calls' = calls + 1
      /\ u \notin freed /\ previous' = user /\ user' = u
      /\ \A e \in Envs : net[e] # "reading"
      /\ UNCHANGED <<configVars, callback, table, built, clientVars, freed, relock>>
      BY DEF LDClientIdentify, Begins, UserWritable
<1>2. calls' \in Nat /\ call' \in Calls
      BY <1>1 DEF TypeOK, Calls
<1>3. TypeOK'
      BY <1>1, <1>2, Zenon DEF TypeOK, configVars, clientVars
<1>4. ConfigAgrees' /\ Configured' = Configured
      BY <1>1, ConfigStays
<1>5. (Visiting /\ BuiltAgrees)'
      BY <1>1, <1>4 DEF Visiting, BuiltAgrees
<1>6. (ThreadsAgree /\ UsersAgree)'
      BY <1>1 DEF ThreadsAgree, UsersAgree, Up, clientVars
<1> QED BY <1>3, <1>4, <1>5, <1>6

\* A turn of LDClientSetOffline.
LEMMA SetOfflineVisitInv ==
    ASSUME EnvInv, NEW e \in Envs, SetOfflineVisit(e)
    PROVE  EnvInv'
<1> USE DEF EnvInv
<1>1. /\ call = "offline" /\ ~relock /\ todo # <<>>
      /\ offline' = [offline EXCEPT ![e] = TRUE] /\ todo' = Tail(todo)
      /\ UNCHANGED <<configVars, callback, table, built, status, flagsOf, net, pending, user,
                     freed, call, target, previous, relock, calls>>
      BY DEF SetOfflineVisit, Visits
<1>2. offline' \in [Envs -> BOOLEAN] /\ todo' \in Seq(Envs)
      BY <1>1, HeadTail, Zenon DEF TypeOK
<1>3. TypeOK'
      BY <1>1, <1>2, Zenon DEF TypeOK, configVars
<1>4. ConfigAgrees' /\ Configured' = Configured
      BY <1>1, ConfigStays, ZenonT(30)
<1>5. (Visiting /\ BuiltAgrees)'
      BY <1>1, <1>4 DEF Visiting, BuiltAgrees
<1>6. (ThreadsAgree /\ UsersAgree)'
      BY <1>1 DEF ThreadsAgree, UsersAgree, Up
<1> QED BY <1>3, <1>4, <1>5, <1>6

\* LDi_updatestatus in a turn of LDClientSetOnline or of LDClientIdentify.
LEMMA UpdateStatusInv ==
    ASSUME EnvInv, NEW e \in Envs, NEW c, call \in {"online", "identify"}, Visits(call, e),
           UpdateStatus(c, "Initializing", e), offline' \in [Envs -> BOOLEAN],
           UNCHANGED <<configVars, callback, table, built, flagsOf, net, pending, user, freed,
                       target, previous, calls>>
    PROVE  EnvInv'
<1> USE DEF EnvInv
<1>1. ~relock /\ todo # <<>> /\ todo \in Seq(Envs) /\ Tail(todo) \in Seq(Envs)
      BY HeadTail, Zenon DEF Visits, TypeOK
<1>2. /\ status' \in [Envs -> Statuses]
      /\ \/ todo' = Tail(todo) /\ call' = call /\ relock' = relock
         \/ todo' = todo /\ call' = call /\ relock' = TRUE
         \/ todo' = todo /\ call' = "undefined" /\ relock' = relock
      BY Zenon DEF UpdateStatus, TypeOK, Statuses
<1>3. todo' \in Seq(Envs) /\ call' \in Calls /\ relock' \in BOOLEAN
  <2>1. todo' \in Seq(Envs)
        BY <1>1, <1>2, Zenon
  <2>2. call' \in Calls
        BY <1>2, Zenon DEF TypeOK, Calls
  <2>3. relock' \in BOOLEAN
        BY <1>2, Zenon DEF TypeOK
  <2> QED BY <2>1, <2>2, <2>3
<1>4. TypeOK'
      BY <1>2, <1>3, Zenon DEF TypeOK, configVars
<1>5. ConfigAgrees' /\ Configured' = Configured
      BY ConfigStays
<1>6. Visiting'
      BY <1>1, <1>2, <1>5 DEF Visiting
<1>7. BuiltAgrees'
      BY <1>2, ZenonT(30) DEF BuiltAgrees
<1>8. (ThreadsAgree /\ UsersAgree)'
      BY <1>2 DEF ThreadsAgree, UsersAgree, Up
<1> QED BY <1>4, <1>5, <1>6, <1>7, <1>8

\* The turns of LDClientSetOnline and of LDClientIdentify.
LEMMA StatusVisitsInv ==
    ASSUME EnvInv, NEW e \in Envs, SetOnlineVisit(e) \/ IdentifyVisit(e)
    PROVE  EnvInv'
<1>1. CASE SetOnlineVisit(e)
  <2>1. call = "online" /\ Visits(call, e) /\ UpdateStatus(e, "Initializing", e)
        BY <1>1 DEF SetOnlineVisit, Visits
  <2>2. offline' \in [Envs -> BOOLEAN]
        BY <1>1, Zenon DEF SetOnlineVisit, EnvInv, TypeOK
  <2>3. UNCHANGED <<configVars, callback, table, built, flagsOf, net, pending, user, freed,
                    target, previous, calls>>
        BY <1>1 DEF SetOnlineVisit
  <2>4. call \in {"online", "identify"}
        BY <2>1
  <2> QED BY <2>1, <2>2, <2>3, <2>4, UpdateStatusInv
<1>2. CASE IdentifyVisit(e)
  <2>1. call = "identify" /\ Visits(call, e) /\ UpdateStatus(target, "Initializing", e)
        BY <1>2 DEF IdentifyVisit, Visits
  <2>2. offline' \in [Envs -> BOOLEAN]
        BY <1>2, Zenon DEF IdentifyVisit, EnvInv, TypeOK
  <2>3. UNCHANGED <<configVars, callback, table, built, flagsOf, net, pending, user, freed,
                    target, previous, calls>>
        BY <1>2 DEF IdentifyVisit
  <2>4. call \in {"online", "identify"}
        BY <2>1
  <2> QED BY <2>1, <2>2, <2>3, <2>4, UpdateStatusInv
<1> QED BY <1>1, <1>2

\* The calls return; LDClientIdentify frees the user it replaced, unless it is the same.
LEMMA ReturnsInv ==
    ASSUME EnvInv, SetReturns \/ IdentifyReturns
    PROVE  EnvInv'
<1> USE DEF EnvInv
<1>1. /\ call \in {"offline", "online", "identify"} /\ call' = "idle" /\ todo = <<>>
      /\ freed' = freed \/ freed' = freed \union ({previous} \ {user})
      /\ UNCHANGED <<configVars, callback, table, built, clientVars, user, target, todo,
                     previous, relock, calls>>
      BY DEF SetReturns, IdentifyReturns, Returns
<1>2. freed' \subseteq Users /\ (user \notin freed => user \notin freed')
      BY <1>1 DEF TypeOK
<1>3. TypeOK'
      BY <1>1, <1>2, Zenon DEF TypeOK, configVars, clientVars, Calls
<1>4. ConfigAgrees' /\ Configured' = Configured
      BY <1>1, ConfigStays, ZenonT(30)
<1>5. (Visiting /\ BuiltAgrees)'
      BY <1>1, <1>4, ZenonT(30) DEF Visiting, BuiltAgrees
<1>6. (ThreadsAgree /\ UsersAgree)'
      BY <1>1, <1>2 DEF ThreadsAgree, UsersAgree, Up, clientVars
<1> QED BY <1>3, <1>4, <1>5, <1>6, ZenonT(30)

\* The status callback returned, and the call goes on with its next client.
LEMMA CallbackReturnsInv ==
    ASSUME EnvInv, CallbackReturns
    PROVE  EnvInv'
<1> USE DEF EnvInv
<1>1. /\ relock /\ relock' = FALSE /\ todo # <<>>
      /\ \/ call = "close" /\ call' = "join" /\ todo' = todo /\ table = Tail(todo)
         \/ call \in {"online", "identify"} /\ call' = call /\ todo' = Tail(todo)
      /\ UNCHANGED <<configVars, callback, table, built, status, offline, flagsOf, net,
                     pending, user, freed, target, previous, calls>>
      BY DEF CallbackReturns, Visiting
<1>2. todo' \in Seq(Envs) /\ call' \in Calls
  <2>1. todo \in Seq(Envs) /\ Tail(todo) \in Seq(Envs)
        BY <1>1, HeadTail, Zenon DEF TypeOK
  <2> QED BY <1>1, <2>1 DEF Calls
<1>3. TypeOK'
      BY <1>1, <1>2, Zenon DEF TypeOK, configVars
<1>4. ConfigAgrees' /\ Configured' = Configured
      BY <1>1, ConfigStays
<1>5. Visiting'
      BY <1>1, <1>4, ZenonT(30) DEF Visiting
<1>6. BuiltAgrees'
      BY <1>1, ZenonT(30) DEF BuiltAgrees
<1>7. (ThreadsAgree /\ UsersAgree)'
      BY <1>1 DEF ThreadsAgree, UsersAgree, Up
<1> QED BY <1>3, <1>4, <1>5, <1>6, <1>7

-----------------------------------------------------------------------------
(* LDClientClose *)

\* LDClientClose starts with every client of the table, each once.
LEMMA LDClientCloseInv ==
    ASSUME EnvInv, LDClientClose
    PROVE  EnvInv'
<1> USE DEF EnvInv
<1>1. /\ call = "idle" /\ call' = "close" /\ todo' = table
      /\ UNCHANGED <<configVars, callback, table, built, clientVars, user, freed,
                     target, previous, relock, calls>>
      BY DEF LDClientClose
<1>2. TypeOK'
      BY <1>1, Zenon DEF TypeOK, configVars, clientVars, Calls
<1>3. ConfigAgrees' /\ Configured' = Configured
      BY <1>1, ConfigStays
<1>4. IsInjective(table) /\ ~relock
      BY <1>1, TableOnce DEF Visiting
<1>5. Visiting'
      BY <1>1, <1>4 DEF Visiting
<1>6. BuiltAgrees'
  <2>1. \A e \in Envs : built[e] = IF e \in Range(table) THEN Resources ELSE {}
        BY <1>1 DEF BuiltAgrees
  <2> QED BY <1>1, <2>1 DEF BuiltAgrees
<1>7. (ThreadsAgree /\ UsersAgree)'
      BY <1>1 DEF ThreadsAgree, UsersAgree, Up, clientVars
<1> QED BY <1>2, <1>3, <1>5, <1>6, <1>7

\* A turn of LDClientClose up to the wait for the threads.
LEMMA CloseVisitInv ==
    ASSUME EnvInv, NEW e \in Envs, CloseVisit(e)
    PROVE  EnvInv'
<1> USE DEF EnvInv
<1>1. /\ call = "close" /\ ~relock /\ todo # <<>> /\ table' = Tail(table)
      /\ status' = [status EXCEPT ![e] = "Shuttingdown"]
      /\ \/ relock' = TRUE /\ call' = call
         \/ call' = "join" /\ relock' = relock
      /\ UNCHANGED <<configVars, callback, built, offline, flagsOf, net, pending, user, freed,
                     target, todo, previous, calls>>
      BY DEF CloseVisit, Visits
<1>2. table = todo
      BY <1>1 DEF Visiting
<1>3. table' \in Seq(Envs)
      BY <1>1, <1>2, HeadTail, Zenon DEF TypeOK
<1>4. status' \in [Envs -> Statuses]
      BY <1>1 DEF TypeOK, Statuses
<1>5. call' \in Calls /\ relock' \in BOOLEAN
  <2>1. call' \in Calls
        BY <1>1, Zenon DEF Calls
  <2>2. relock' \in BOOLEAN
        BY <1>1, Zenon DEF TypeOK
  <2> QED BY <2>1, <2>2
<1>6. TypeOK'
      BY <1>1, <1>3, <1>4, <1>5, Zenon DEF TypeOK, configVars
<1>7. ConfigAgrees' /\ Configured' = Configured
      BY <1>1, ConfigStays, ZenonT(30)
<1>8. Visiting'
      BY <1>1, <1>2 DEF Visiting
<1>9. BuiltAgrees'
      BY <1>1 DEF BuiltAgrees
<1>10. (ThreadsAgree /\ UsersAgree)'
      BY <1>1 DEF ThreadsAgree, UsersAgree, Up
<1> QED BY <1>6, <1>7, <1>8, <1>9, <1>10

\* The threads of a client were joined, and it is destroyed except for streamCond.
LEMMA CloseJoinInv ==
    ASSUME EnvInv, NEW e \in Envs, CloseJoin(e)
    PROVE  EnvInv'
<1> USE DEF EnvInv
<1>1. /\ call = "join" /\ e = Head(todo) /\ net[e] = "exit"
      /\ built' = [built EXCEPT ![e] = @ \ Closed]
      /\ call' = "close" /\ todo' = Tail(todo)
      /\ UNCHANGED <<configVars, callback, table, clientVars, user, freed, target,
                     previous, relock, calls>>
      BY ZenonT(30) DEF CloseJoin
<1>2. /\ todo # <<>> /\ table = Tail(todo) /\ IsInjective(todo) /\ ~relock
      /\ todo \in Seq(Envs) /\ built \in [Envs -> SUBSET Resources]
      BY <1>1 DEF Visiting, TypeOK
<1>3. /\ Tail(todo) \in Seq(Envs) /\ Range(todo) = {e} \union Range(Tail(todo))
      /\ IsInjective(Tail(todo)) /\ e \notin Range(Tail(todo))
      BY <1>1, <1>2, HeadTail, Zenon
<1>4. /\ built' \in [Envs -> SUBSET Resources] /\ built'[e] = built[e] \ Closed
      /\ \A x \in Envs : x # e => built'[x] = built[x]
      BY <1>1, <1>2
<1>5. TypeOK'
      BY <1>1, <1>3, <1>4, Zenon DEF TypeOK, configVars, clientVars, Calls
<1>6. ConfigAgrees'
      BY <1>1, ConfigStays
<1>7. Visiting'
      BY <1>1, <1>2, <1>3, ZenonT(30) DEF Visiting
<1>8. BuiltAgrees'
  <2>1. \A x \in Envs : IF x \in Range(todo) THEN built[x] = Resources
                        ELSE built[x] \subseteq {"streamCond"}
        BY <1>1 DEF BuiltAgrees
  <2>2. built'[e] \subseteq {"streamCond"}
        BY <1>2, <1>4 DEF Closed
  <2>3. \A x \in Envs : IF x \in Range(Tail(todo)) THEN built'[x] = Resources
                        ELSE built'[x] \subseteq {"streamCond"}
        BY <1>3, <1>4, <2>1, <2>2, Zenon
  <2> QED BY <1>1, <2>3, ZenonT(30) DEF BuiltAgrees
<1>9. (ThreadsAgree /\ UsersAgree)'
      BY <1>1, <1>4 DEF ThreadsAgree, UsersAgree, Up, clientVars
<1> QED BY <1>5, <1>6, <1>7, <1>8, <1>9, ZenonT(30)

\* The last user is freed when no thread is left.
LEMMA CloseReturnsInv ==
    ASSUME EnvInv, CloseReturns
    PROVE  EnvInv'
<1> USE DEF EnvInv
<1>1. /\ call = "close" /\ todo = <<>> /\ call' = "closed" /\ freed' = freed \union {user}
      /\ UNCHANGED <<configVars, callback, table, built, clientVars, user, target, todo,
                     previous, relock, calls>>
      BY DEF CloseReturns
<1>2. TypeOK'
      BY <1>1, Zenon DEF TypeOK, configVars, clientVars, Calls
<1>3. ConfigAgrees'
      BY <1>1, ConfigStays, ZenonT(30)
<1>4. Visiting'
      BY <1>1, ZenonT(30) DEF Visiting
<1>5. BuiltAgrees'
  <2>1. Range(todo) = {}
        BY <1>1 DEF Range
  <2>2. \A x \in Envs : built[x] \subseteq {"streamCond"}
        BY <1>1, <2>1, ZenonT(30) DEF BuiltAgrees
  <2> QED BY <1>1, <2>2 DEF BuiltAgrees
<1>6. (ThreadsAgree /\ UsersAgree)'
      BY <1>1 DEF ThreadsAgree, UsersAgree, Up, clientVars
<1> QED BY <1>2, <1>3, <1>4, <1>5, <1>6

-----------------------------------------------------------------------------
(* The theorems *)

\* Every step keeps the invariant.
LEMMA NextInv == EnvInv /\ [Next]_vars => EnvInv'
<1> SUFFICES ASSUME EnvInv, [Next]_vars PROVE EnvInv'
    OBVIOUS
<1>1. CASE \E n \in Envs, k \in Keys : LDConfigAddSecondaryMobileKey(n, k)
      BY <1>1, AddInv
<1>2. CASE LDClientInit \/ InitReturn
      BY <1>2, LDClientInitInv, InitReturnInv
<1>3. CASE SetReturns \/ IdentifyReturns \/ CallbackReturns
      BY <1>3, ReturnsInv, CallbackReturnsInv
<1>4. CASE LDClientClose \/ CloseReturns
      BY <1>4, LDClientCloseInv, CloseReturnsInv
<1>5. CASE \E c \in Range(table) : LDClientSetOffline(c) \/ LDClientSetOnline(c)
      BY <1>5, BeginsInv
<1>6. CASE \E c \in Range(table), u \in Users : LDClientIdentify(c, u)
      BY <1>6, IdentifyInv, ZenonT(30)
<1>7. CASE \E e \in Envs : Call(e)
  <2>1. PICK e \in Envs : Call(e)
        BY <1>7
  <2>2. CASE InitStep(e) \/ InitFail(e) \/ InitFailRunning(e) \/ InitUnwind(e)
        BY <2>2, InitStepInv, InitFailInv, InitFailRunningInv, InitUnwindInv
  <2>3. CASE SetOfflineVisit(e) \/ SetOnlineVisit(e) \/ IdentifyVisit(e)
        BY <2>3, SetOfflineVisitInv, StatusVisitsInv
  <2>4. CASE CloseVisit(e) \/ CloseJoin(e)
        BY <2>4, CloseVisitInv, CloseJoinInv
  <2> QED BY <2>1, <2>2, <2>3, <2>4 DEF Call
<1>8. CASE \E e \in Envs : Net(e)
      BY <1>8, NetInv
<1>9. CASE UNCHANGED vars
  <2>1. /\ UNCHANGED <<configVars, callback, table, built, clientVars, user, freed, callVars>>
        /\ UNCHANGED calls
        BY <1>9, ZenonT(30) DEF vars
  <2>2. calls' \in Nat
        BY <2>1 DEF EnvInv, TypeOK
  <2> QED BY <2>1, <2>2, Stutters
<1> QED BY <1>1, <1>2, <1>3, <1>4, <1>5, <1>6, <1>7, <1>8, <1>9 DEF Next, Ended

\* The inductive invariant: the configuration has what LDConfigAddSecondaryMobileKey
\* accepted, LDClientInit goes through it in order, a client under construction has a prefix of
\* the steps, and sharedUserLock keeps the user that a thread reads.
THEOREM EnvironmentsInvariant == Spec => []EnvInv
BY InitInv, NextInv, PTL DEF Spec

\* No thread and no call uses a user that LDClientIdentify or LDClientClose freed.
THEOREM UserStaysLive == Spec => []UserLive
<1>1. EnvInv => UserLive
  <2> SUFFICES ASSUME EnvInv, Up PROVE UserLive
      BY DEF UserLive
  <2> USE DEF EnvInv
  <2>1. ASSUME NEW e \in Envs, net[e] = "reading" PROVE pending[e] \notin freed
    <3>1. pending[e] = user /\ "pollingThread" \in built[e]
          BY <2>1, ZenonT(30) DEF UsersAgree, ThreadsAgree
    <3>2. call # "closed"
          BY <3>1 DEF BuiltAgrees
    <3> QED BY <3>1, <3>2 DEF UsersAgree
  <2>2. call \in {"idle", "online", "offline", "identify", "join"} => user \notin freed
        BY ZenonT(30) DEF UsersAgree
  <2> QED BY <2>1, <2>2 DEF UserLive
<1> QED BY <1>1, EnvironmentsInvariant, PTL

\* Whichever step of LDi_clientInitIsolated fails, what it had made is released, all of it and
\* nothing else; LDClientClose releases all but streamCond.
THEOREM ReleasedExactly == Spec => []ReleasesExactly
<1>1. EnvInv => ReleasesExactly
  <2> SUFFICES ASSUME EnvInv PROVE ReleasesExactly
      OBVIOUS
  <2> USE DEF EnvInv
  <2>1. ASSUME NEW e \in Envs, Starting(e)
        PROVE  DestroyedFrom(ErrorLabel[NextStep(e)]) \ Threads = built[e] \ Threads
    <3>1. call = "init" /\ todo # <<>> /\ e = Head(todo)
          BY <2>1 DEF Starting
    <3>2. PICK n \in 0 .. 14 :
             built[e] = Prefix(n) /\ ErrorLabel[NextStep(e)] = IF n < 12 THEN n ELSE 12
          BY <3>1, UnderConstruction, Zenon
    <3>3. CASE n < 12
      <4>1. n \in 0 .. 11 /\ ErrorLabel[NextStep(e)] = n
            BY <3>2, <3>3
      <4> QED BY <3>2, <4>1, LabelsUndo, Zenon
    <3>4. CASE ~(n < 12)
      <4>1. n \in {12, 13, 14} /\ ErrorLabel[NextStep(e)] = 12
            BY <3>2, <3>4
      <4>2. /\ Prefix(12) = Prefix(11) \union {Steps[12]}
            /\ Prefix(13) = Prefix(12) \union {Steps[13]}
            /\ Prefix(14) = Prefix(13) \union {Steps[14]}
        <5>1. 11 \in 0 .. 13 /\ 12 \in 0 .. 13 /\ 13 \in 0 .. 13 /\ 11 + 1 = 12 /\ 12 + 1 = 13
              /\ 13 + 1 = 14
              OBVIOUS
        <5>2. \A m \in 0 .. 13 : Prefix(m + 1) = Prefix(m) \union {Steps[m + 1]}
              BY Everything
        <5> QED BY <5>1, <5>2
      <4>3. Steps[12] \in Threads /\ Steps[13] \in Threads /\ Steps[14] \in Threads
            BY DEF Steps, Threads
      <4>4. DestroyedFrom(12) = Prefix(11) \union Threads
            BY LabelsUndo
      <4>5. Prefix(n) \ Threads = Prefix(11) \ Threads
            BY <4>1, <4>2, <4>3, Zenon
      <4>6. DestroyedFrom(12) \ Threads = Prefix(11) \ Threads
            BY <4>4, Zenon
      <4> QED BY <3>2, <4>1, <4>5, <4>6, Zenon
    <3> QED BY <3>3, <3>4
  <2>2. call = "aborted" => built[Head(todo)] = {}
        BY DEF BuiltAgrees
  <2>3. call = "closed" => \A e \in Envs : built[e] \subseteq {"streamCond"}
        BY DEF BuiltAgrees
  <2> QED BY <2>1, <2>2, <2>3 DEF ReleasesExactly
<1> QED BY <1>1, EnvironmentsInvariant, PTL

\* A feature thread that runs has its client, its locks, its conditions and its store.
THEOREM ThreadsKeepTheirClient == Spec => []ThreadsHaveTheirClient
<1>1. EnvInv => ThreadsHaveTheirClient
  <2> SUFFICES ASSUME EnvInv, Up, NEW e \in Envs, net[e] \notin {"none", "exit"}
               PROVE  Resources \ {"streamingThread"} \subseteq built[e]
      BY DEF ThreadsHaveTheirClient
  <2> USE DEF EnvInv
  <2>1. "pollingThread" \in built[e]
        BY DEF ThreadsAgree
  <2>2. call \in Calls \ {"aborted", "undefined"}
        BY ZenonT(30) DEF Up, TypeOK
  <2>3. built[e] = Resources \/ \E n \in 0 .. 14 : built[e] = Prefix(n)
        BY <2>1, <2>2 DEF BuiltAgrees, Calls
  <2>4. ASSUME NEW n \in 0 .. 14, built[e] = Prefix(n)
        PROVE  Resources \ {"streamingThread"} \subseteq built[e]
    <3>1. n >= 13
          BY <2>1, <2>4, Everything, Zenon
    <3>2. Prefix(14) = Prefix(13) \union {Steps[14]} /\ Steps[14] = "streamingThread"
      <4>1. 13 \in 0 .. 13 /\ 13 + 1 = 14
            OBVIOUS
      <4>2. \A m \in 0 .. 13 : Prefix(m + 1) = Prefix(m) \union {Steps[m + 1]}
            BY Everything
      <4>3. Steps[14] = "streamingThread"
            BY DEF Steps
      <4> QED BY <4>1, <4>2, <4>3
    <3>3. n \in {13, 14}
          BY <3>1
    <3>4. Prefix(14) = Resources
          BY Everything
    <3> QED BY <2>4, <3>2, <3>3, <3>4, Zenon
  <2> QED BY <2>3, <2>4, Zenon
<1> QED BY <1>1, EnvironmentsInvariant, PTL

\* When LDClientInit has returned, the table has the primary environment and every secondary
\* environment that was accepted, each once, under the key that was accepted last.
THEOREM AcceptedEnvironmentsAreBuilt == Spec => []AcceptedAreBuilt
<1>1. EnvInv => AcceptedAreBuilt
  <2> SUFFICES ASSUME EnvInv, call = "idle" PROVE AcceptedAreBuilt
      BY DEF AcceptedAreBuilt
  <2>1. /\ IsInjective(table)
        /\ Range(table) = {Primary} \union {n \in Secondaries : accepted[n] # None}
        BY TableOnce
  <2>2. DOMAIN accepted = Secondaries
        BY DEF EnvInv, TypeOK
  <2>3. \A i \in DOMAIN config.secondary :
           config.secondary[i].key = accepted[config.secondary[i].name]
        BY Zenon DEF EnvInv, ConfigAgrees
  <2> QED BY <2>1, <2>2, <2>3, Zenon DEF AcceptedAreBuilt
<1> QED BY <1>1, EnvironmentsInvariant, PTL

\* Only LDClientIdentify releases a clientLock it does not hold: with a status callback, and in
\* its turn for an environment other than the one it was called on.
THEOREM OnlyIdentifyIsUndefined == Spec => UndefinedOnlyInIdentify
<1>1. ASSUME Next, call' = "undefined", call # "undefined"
      PROVE  call = "identify" /\ callback /\ target # Head(todo)
  <2>1. PICK e \in Envs : SetOnlineVisit(e) \/ IdentifyVisit(e)
    <3>1. CASE \E e \in Envs : Call(e)
      <4>1. PICK e \in Envs : Call(e)
            BY <3>1
      <4>2. call' = call \/ call' \in {"aborted", "unwind", "join", "close"}
            \/ SetOnlineVisit(e) \/ IdentifyVisit(e)
            BY <4>1, Zenon DEF Call, InitStep, InitFail, InitFailRunning, InitUnwind,
                               SetOfflineVisit, CloseVisit, CloseJoin
      <4> QED BY <1>1, <4>2
    <3>2. CASE \E e \in Envs : Net(e)
      <4>1. UNCHANGED callVars
            BY <3>2, Zenon DEF Net, NetTop, NetRead, NetSend, NetAnswer, NetStatus,
                               NetCallbackReturns
      <4> QED BY <1>1, <4>1 DEF callVars
    <3>3. CASE \E n \in Envs, k \in Keys : LDConfigAddSecondaryMobileKey(n, k)
          BY <1>1, <3>3, ZenonT(30) DEF LDConfigAddSecondaryMobileKey, callVars
    <3>4. CASE \/ \E c \in Range(table) : LDClientSetOffline(c) \/ LDClientSetOnline(c)
               \/ \E c \in Range(table), u \in Users : LDClientIdentify(c, u)
          BY <1>1, <3>4, ZenonT(30) DEF LDClientSetOffline, LDClientSetOnline, LDClientIdentify, Begins
    <3>5. CASE \/ LDClientInit \/ InitReturn \/ SetReturns \/ IdentifyReturns \/ CallbackReturns
               \/ LDClientClose \/ CloseReturns \/ Ended
          BY <1>1, <3>5 DEF LDClientInit, InitReturn, SetReturns, IdentifyReturns, Returns,
                            CallbackReturns, LDClientClose, CloseReturns, Ended, vars, callVars
    <3> QED BY <1>1, <3>1, <3>2, <3>3, <3>4, <3>5 DEF Next
  <2> QED BY <1>1, <2>1, ZenonT(30) DEF SetOnlineVisit, IdentifyVisit, Visits, UpdateStatus, CallsBack
<1>2. [Next]_vars => [call' = "undefined" /\ call # "undefined" =>
                         call = "identify" /\ callback /\ target # Head(todo)]_vars
      BY <1>1
<1> QED BY <1>2, PTL DEF Spec, UndefinedOnlyInIdentify

=============================================================================
