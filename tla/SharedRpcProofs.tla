-------------------------- MODULE SharedRpcProofs --------------------------
(***************************************************************************)
(* Theorems about SharedRpc, for any number of clients, callers and        *)
(* polling threads.                                                        *)
(*                                                                         *)
(* OneInFlightUnlessRefused is not inductive: whether a response may lift  *)
(* the guard of its client depends on who owns the request at that moment. *)
(* Ownership states it: a request in flight is owned by the caller that    *)
(* has yet to send it, by the native client that serves it, or by the      *)
(* poller that handles its event, and by one of them only.                 *)
(***************************************************************************)
EXTENDS SharedRpc, TLAPS

\* Program points at which a caller owns its request.
Sending(t, c) == callPc[t] \in {"send", "fail"} /\ call[t][1] = c

\* Program points at which a poller owns the request of client c.
Handling(p, c) ==
    /\ pollPc[p] \in {"resolve", "timedOut", "cancel", "mark", "cancelDone", "fail"}
    /\ cur[p] = c

\* A thread at a program point that uses its locals has them set.
LocalsSet ==
    /\ \A t \in Callers : callPc[t] # "idle" => call[t] \in Requests
    /\ \A p \in Pollers :
          /\ pollPc[p] \in Locked \ {"scan"} => cur[p] \in Clients
          /\ pollPc[p] \in {"resolve", "deliver", "cancel", "mark", "fail", "raise"}
                => rid[p] \in Ids

OwnershipOf(c) ==
    /\ \A k \in pending : k[1] = c => guard[c] = k[2]
    /\ \A r \in serving[c] : guard[c] = r
    /\ \A t \in Callers : Sending(t, c) =>
          /\ guard[c] = call[t][2]
          /\ serving[c] = {}
          /\ \A u \in Callers : Sending(u, c) => u = t
          /\ \A p \in Pollers : ~Handling(p, c)
    /\ \A p \in Pollers : Handling(p, c) =>
          /\ guard[c] # NoReq
          /\ pollPc[p] \in {"resolve", "cancel", "mark", "fail"} => rid[p] = guard[c]
          /\ pollPc[p] \in {"resolve", "cancelDone", "fail"} => serving[c] = {}

Ownership == \A c \in Clients : c \notin refused => OwnershipOf(c)

IInv == TypeOK /\ LocalsSet /\ PollMutex /\ GuardIsPending /\ Ownership

-----------------------------------------------------------------------------
LEMMA NoReqIsNoId == NoReq \notin Ids
  BY DEF NoReq, Ids

\* TypeOK and LocalsSet together are inductive.
LEMMA TypeInit == Init => TypeOK /\ LocalsSet
  <1> SUFFICES ASSUME Init
               PROVE  TypeOK /\ LocalsSet
    OBVIOUS
  <1> USE SharedRpcAssumption DEF Init
  <1>1. Ended \in {"off", "idle"}
    BY DEF Ended
  <1>2. \A c \in Clients : nextId[c] \in 1..(MaxId + 1)
    OBVIOUS
  <1>3. NoRequest \in Requests \cup {NoRequest}
    OBVIOUS
  <1>4. pollPc \in [Pollers -> PollerPcs]
    BY <1>1 DEF PollerPcs
  <1>5. call \in [Callers -> Requests \cup {NoRequest}] /\ callPc \in [Callers -> CallerPcs]
    BY <1>3 DEF CallerPcs
  <1>6. TypeOK
    BY <1>2, <1>4, <1>5 DEF TypeOK, Modes, FutureStates, Failures
  <1>7. LocalsSet
    BY <1>1 DEF LocalsSet, Locked
  <1>8. QED
    BY <1>6, <1>7

LEMMA TypeStep == TypeOK /\ LocalsSet /\ [Next]_vars => TypeOK' /\ LocalsSet'
  <1> SUFFICES ASSUME TypeOK, LocalsSet, [Next]_vars
               PROVE  TypeOK' /\ LocalsSet'
    OBVIOUS
  <1> USE SharedRpcAssumption DEF TypeOK, LocalsSet, Modes, FutureStates, Failures,
          CallerPcs, PollerPcs, Locked, Requests, NoRequest, tables, thread, callers,
          event, pollers, native, history, PollerGoes, NextContext, ForgetEvent,
          CallerGoes, CallerReturns
  <1>1. ASSUME NEW c \in Clients, RegisterClient(c)
        PROVE  TypeOK' /\ LocalsSet'
    BY <1>1 DEF RegisterClient
  <1>2. ASSUME NEW t \in Callers, CallerStep(t)
        PROVE  TypeOK' /\ LocalsSet'
    <2>1. ASSUME NEW c \in Clients, CreateRequestPacket(t, c)
          PROVE  TypeOK' /\ LocalsSet'
      BY <2>1 DEF CreateRequestPacket, PacketId, Ids
    <2>2. CASE CreateFuture(t)
      BY <2>2 DEF CreateFuture
    <2>3. CASE RejectFuture(t)
      BY <2>3 DEF RejectFuture
    <2>4. CASE CallRequest(t)
      BY <2>4 DEF CallRequest
    <2>5. CASE CallRequestRefused(t)
      BY <2>5 DEF CallRequestRefused
    <2>6. CASE CallerFailPop(t)
      <3>1. call[t] \in Requests /\ call[t][1] \in Clients
        BY <2>6 DEF CallerFailPop
      <3>2. CASE CallerGoes(t, "fail", "raise")
        BY <2>6, <3>1, <3>2 DEF CallerFailPop, PopPending
      <3>3. CASE CallerReturns(t, "fail")
        BY <2>6, <3>1, <3>3 DEF CallerFailPop, PopPending
      <3>4. QED
        BY <2>6, <3>2, <3>3 DEF CallerFailPop
    <2>7. CASE CallerSetException(t)
      BY <2>7 DEF CallerSetException, Complete
    <2>8. QED
      BY <1>2, <2>1, <2>2, <2>3, <2>4, <2>5, <2>6, <2>7 DEF CallerStep
  <1>3. ASSUME NEW p \in Pollers, PollerStep(p)
        PROVE  TypeOK' /\ LocalsSet'
    <2>1. CASE BeginPoll(p)
      BY <2>1 DEF BeginPoll
    <2>2. ASSUME NEW c \in Clients, PollNone(p, c)
          PROVE  TypeOK' /\ LocalsSet'
      BY <2>2 DEF PollNone
    <2>3. ASSUME NEW c \in Clients, PollResponse(p, c)
          PROVE  TypeOK' /\ LocalsSet'
      BY <2>3 DEF PollResponse, TakeEvent
    <2>4. ASSUME NEW c \in Clients, PollTimeout(p, c)
          PROVE  TypeOK' /\ LocalsSet'
      BY <2>4 DEF PollTimeout, TakeEvent
    <2>5. ASSUME NEW c \in Clients, PollCancelDone(p, c)
          PROVE  TypeOK' /\ LocalsSet'
      BY <2>5 DEF PollCancelDone, TakeEvent
    <2>6. CASE PollRaise(p)
      BY <2>6 DEF PollRaise, Ended
    <2>7. CASE ResolvePop(p)
      <3>1. CASE PollerGoes(p, "resolve", "deliver")
        <4>1. <<cur[p], rid[p]>> \in Clients \X Ids
          BY <3>1
        <4>2. state' \in [Requests -> {"none", "DOING", "CANCELING", "DONE", "ERROR"}]
          BY <2>7, <3>1, <4>1 DEF ResolvePop, ResponseKey
        <4>3. pending' \subseteq Requests /\ guard' \in [Clients -> Ids \cup {NoReq}]
          BY <2>7, <3>1, <4>1 DEF ResolvePop, PopPending, ResponseKey
        <4>4. QED
          BY <2>7, <3>1, <4>2, <4>3 DEF ResolvePop
      <3>2. CASE NextContext(p, "resolve")
        BY <2>7, <3>2 DEF ResolvePop, PopPending, ResponseKey
      <3>3. QED
        BY <2>7, <3>1, <3>2 DEF ResolvePop
    <2>8. CASE SetResult(p)
      BY <2>8 DEF SetResult, Complete, ResponseKey
    <2>9. CASE TimeoutGetPending(p)
      <3>1. CASE PollerGoes(p, "timedOut", "cancel")
        BY <2>9, <3>1 DEF TimeoutGetPending, InFlight
      <3>2. CASE NextContext(p, "timedOut")
        BY <2>9, <3>2 DEF TimeoutGetPending
      <3>3. QED
        BY <2>9, <3>1, <3>2 DEF TimeoutGetPending
    <2>10. CASE CancelRequest(p)
      BY <2>10 DEF CancelRequest
    <2>11. CASE CancelRequestRefused(p)
      BY <2>11 DEF CancelRequestRefused
    <2>12. CASE MarkCanceling(p)
      BY <2>12 DEF MarkCanceling
    <2>13. CASE CancelDoneGetPending(p)
      <3>1. CASE PollerGoes(p, "cancelDone", "fail")
        <4>1. why' \in [Pollers -> Failures]
          BY <2>13, <3>1 DEF CancelDoneGetPending
        <4>2. InFlight(cur[p]) /\ rid' = [rid EXCEPT ![p] = guard[cur[p]]] /\ cur' = cur
          BY <2>13, <3>1 DEF CancelDoneGetPending
        <4>3. UNCHANGED <<mode, history, registered, tables, pollLock, thread, callers, todo, native>>
          BY <2>13 DEF CancelDoneGetPending
        <4>4. guard[cur[p]] \in Ids
          BY <3>1, <4>2 DEF InFlight
        <4>5. QED
          BY <3>1, <4>1, <4>2, <4>3, <4>4
      <3>2. CASE NextContext(p, "cancelDone")
        BY <2>13, <3>2 DEF CancelDoneGetPending
      <3>3. QED
        BY <2>13, <3>1, <3>2 DEF CancelDoneGetPending
    <2>14. CASE PollerFailPop(p)
      <3>1. CASE PollerGoes(p, "fail", "raise")
        <4>1. <<cur[p], rid[p]>> \in Clients \X Ids
          BY <3>1
        <4>2. state' \in [Requests -> {"none", "DOING", "CANCELING", "DONE", "ERROR"}]
          BY <2>14, <3>1, <4>1 DEF PollerFailPop, ResponseKey
        <4>3. pending' \subseteq Requests /\ guard' \in [Clients -> Ids \cup {NoReq}]
          BY <2>14, <3>1, <4>1 DEF PollerFailPop, PopPending, ResponseKey
        <4>4. QED
          BY <2>14, <3>1, <4>2, <4>3 DEF PollerFailPop
      <3>2. CASE NextContext(p, "fail")
        BY <2>14, <3>2 DEF PollerFailPop, PopPending, ResponseKey
      <3>3. QED
        BY <2>14, <3>1, <3>2 DEF PollerFailPop
    <2>15. CASE PollerSetException(p)
      BY <2>15 DEF PollerSetException, Complete
    <2>16. CASE EndPoll(p)
      BY <2>16 DEF EndPoll
    <2>17. QED
      BY <1>3, <2>1, <2>2, <2>3, <2>4, <2>5, <2>6, <2>7, <2>8, <2>9, <2>10, <2>11,
         <2>12, <2>13, <2>14, <2>15, <2>16 DEF PollerStep, PollEvent
  <1>4. CASE ThreadControl
    <2>1. ASSUME NEW p \in Pollers, StartBackgroundPolling(p)
          PROVE  TypeOK' /\ LocalsSet'
      BY <2>1 DEF StartBackgroundPolling
    <2>2. ASSUME NEW p \in Pollers, BackgroundExit(p)
          PROVE  TypeOK' /\ LocalsSet'
      BY <2>2 DEF BackgroundExit
    <2>3. CASE StopRequest
      BY <2>3 DEF StopRequest
    <2>4. CASE StopJoined
      BY <2>4 DEF StopJoined
    <2>5. QED
      BY <1>4, <2>1, <2>2, <2>3, <2>4 DEF ThreadControl
  <1>5. CASE UNCHANGED vars
    BY <1>5 DEF vars
  <1>6. QED
    BY <1>1, <1>2, <1>3, <1>4, <1>5 DEF Next

\* Type correctness, with the locals of every thread set where they are used.
THEOREM TypeCorrect == Spec => [](TypeOK /\ LocalsSet)
  BY TypeInit, TypeStep, PTL DEF Spec

-----------------------------------------------------------------------------
(* One poller at a time, and the guard names a pending request. *)

LEMMA MutexStep ==
  TypeOK /\ PollMutex /\ [Next]_vars => PollMutex'
  <1> SUFFICES ASSUME TypeOK, PollMutex, [Next]_vars
               PROVE  PollMutex'
    OBVIOUS
  <1> USE SharedRpcAssumption DEF PollMutex, Locked
  <1>0. pollPc \in [Pollers -> PollerPcs] /\ pollLock \in Pollers \cup {NoPoller}
    BY DEF TypeOK
  <1>1. ASSUME UNCHANGED <<pollPc, pollLock>>
        PROVE  PollMutex'
    BY <1>1
  <1>2. ASSUME NEW p \in Pollers, NEW from \in Locked, NEW to \in Locked,
               PollerGoes(p, from, to), UNCHANGED pollLock
        PROVE  PollMutex'
    BY <1>0, <1>2 DEF PollerGoes
  <1>3. ASSUME NEW p \in Pollers, NEW from \in {"off", "idle"}, NEW to \in {"off", "idle"},
               PollerGoes(p, from, to), UNCHANGED pollLock
        PROVE  PollMutex'
    BY <1>0, <1>3 DEF PollerGoes
  <1>4. ASSUME NEW p \in Pollers, NEW from \in Locked, NEW to \in {"off", "idle"},
               PollerGoes(p, from, to), pollLock' = NoPoller
        PROVE  PollMutex'
    BY <1>0, <1>4 DEF PollerGoes
  <1>5. ASSUME NEW p \in Pollers, BeginPoll(p)
        PROVE  PollMutex'
    BY <1>0, <1>5 DEF BeginPoll, PollerGoes, PollLockFree
  <1>6. ASSUME NEW c \in Clients, RegisterClient(c)
        PROVE  PollMutex'
    BY <1>1, <1>6 DEF RegisterClient, pollers
  <1>7. ASSUME NEW t \in Callers, CallerStep(t)
        PROVE  PollMutex'
    BY <1>1, <1>7 DEF CallerStep, CreateRequestPacket, CreateFuture, RejectFuture,
       CallRequest, CallRequestRefused, CallerFailPop, CallerSetException, pollers
  <1>8. ASSUME NEW p \in Pollers, NEW c \in Clients,
               \/ PollNone(p, c) \/ PollResponse(p, c)
               \/ PollTimeout(p, c) \/ PollCancelDone(p, c)
        PROVE  PollMutex'
    BY <1>1, <1>2, <1>8 DEF PollNone, PollResponse, PollTimeout, PollCancelDone, TakeEvent
  <1>9. ASSUME NEW p \in Pollers, PollerStep(p)
        PROVE  PollMutex'
    <2>1. CASE ResolvePop(p) \/ SetResult(p) \/ PollerFailPop(p) \/ PollerSetException(p)
      BY <1>2, <2>1 DEF ResolvePop, SetResult, PollerFailPop, PollerSetException, NextContext
    <2>2. CASE TimeoutGetPending(p) \/ CancelDoneGetPending(p)
      BY <1>2, <2>2 DEF TimeoutGetPending, CancelDoneGetPending, NextContext
    <2>3. CASE CancelRequest(p) \/ CancelRequestRefused(p) \/ MarkCanceling(p)
      BY <1>2, <2>3 DEF CancelRequest, CancelRequestRefused, MarkCanceling, NextContext
    <2>4. CASE PollRaise(p)
      BY <1>4, <2>4 DEF PollRaise, Ended
    <2>5. CASE EndPoll(p)
      BY <1>4, <2>5 DEF EndPoll
    <2>6. QED
      BY <1>5, <1>8, <1>9, <2>1, <2>2, <2>3, <2>4, <2>5 DEF PollerStep, PollEvent
  <1>10. CASE ThreadControl
    <2>1. CASE StopRequest \/ StopJoined
      BY <1>1, <2>1 DEF StopRequest, StopJoined, pollers
    <2>2. ASSUME NEW p \in Pollers, StartBackgroundPolling(p) \/ BackgroundExit(p)
          PROVE  PollMutex'
      BY <1>3, <2>2 DEF StartBackgroundPolling, BackgroundExit
    <2>3. QED
      BY <1>10, <2>1, <2>2 DEF ThreadControl
  <1>11. CASE UNCHANGED vars
    BY <1>1, <1>11 DEF vars, pollers
  <1>12. QED
    BY <1>6, <1>7, <1>9, <1>10, <1>11 DEF Next

\* poll_once() has at most one thread in it, the holder of _poll_lock, however
\* many background threads outlive their join.
THEOREM OnePoller == Spec => []PollMutex
  <1>1. Init => PollMutex
    BY SharedRpcAssumption DEF Init, PollMutex, Ended, Locked
  <1>2. QED
    BY <1>1, TypeCorrect, MutexStep, PTL DEF Spec

LEMMA GuardStep ==
  TypeOK /\ LocalsSet /\ GuardIsPending /\ [Next]_vars => GuardIsPending'
  <1> SUFFICES ASSUME TypeOK, LocalsSet, GuardIsPending, [Next]_vars
               PROVE  GuardIsPending'
    OBVIOUS
  <1> USE DEF GuardIsPending
  <1>0. guard \in [Clients -> Ids \cup {NoReq}]
    BY DEF TypeOK
  <1>1. ASSUME UNCHANGED <<guard, pending>>
        PROVE  GuardIsPending'
    BY <1>1
  <1>2. ASSUME NEW c \in Clients, NEW r, PopPending(c, r)
        PROVE  GuardIsPending'
    BY <1>0, <1>2 DEF PopPending
  <1>3. ASSUME NEW t \in Callers, CreateFuture(t)
        PROVE  GuardIsPending'
    <2>1. call[t] \in Clients \X Ids
      BY <1>3 DEF LocalsSet, CreateFuture, CallerGoes, Requests
    <2>2. PICK c \in Clients, r \in Ids : call[t] = <<c, r>>
      BY <2>1
    <2>3. pending' = pending \cup {<<c, r>>} /\ guard' = [guard EXCEPT ![c] = r]
      BY <1>3, <2>2 DEF CreateFuture
    <2>4. QED
      BY <1>0, <2>2, <2>3
  <1>4. ASSUME NEW t \in Callers, CallerStep(t)
        PROVE  GuardIsPending'
    <2>1. CASE CallerFailPop(t)
      <3>1. call[t][1] \in Clients
        BY <2>1 DEF LocalsSet, CallerFailPop, CallerGoes, CallerReturns, Requests
      <3>2. PopPending(call[t][1], call[t][2])
        BY <2>1 DEF CallerFailPop
      <3>3. QED
        BY <1>2, <3>1, <3>2
    <2>2. QED
      BY <1>1, <1>3, <1>4, <2>1 DEF CallerStep, CreateRequestPacket, RejectFuture,
         CallRequest, CallRequestRefused, CallerSetException, tables
  <1>5. ASSUME NEW p \in Pollers, PollerStep(p)
        PROVE  GuardIsPending'
    <2>1. CASE ResolvePop(p) \/ PollerFailPop(p)
      <3>1. cur[p] \in Clients
        BY <2>1 DEF LocalsSet, Locked, ResolvePop, PollerFailPop, PollerGoes, NextContext
      <3>2. PopPending(cur[p], rid[p])
        BY <2>1 DEF ResolvePop, PollerFailPop, ResponseKey
      <3>3. QED
        BY <1>2, <3>1, <3>2
    <2>2. ASSUME NEW c \in Clients,
                 \/ PollNone(p, c) \/ PollResponse(p, c)
                 \/ PollTimeout(p, c) \/ PollCancelDone(p, c)
          PROVE  GuardIsPending'
      BY <1>1, <2>2 DEF PollNone, PollResponse, PollTimeout, PollCancelDone, TakeEvent, tables
    <2>3. QED
      BY <1>1, <1>5, <2>1, <2>2 DEF PollerStep, PollEvent, BeginPoll, PollRaise, SetResult,
         TimeoutGetPending, CancelRequest, CancelRequestRefused, MarkCanceling,
         CancelDoneGetPending, PollerSetException, EndPoll, tables
  <1>6. CASE (\E c \in Clients : RegisterClient(c)) \/ ThreadControl \/ UNCHANGED vars
    BY <1>1, <1>6 DEF RegisterClient, ThreadControl, StartBackgroundPolling,
       BackgroundExit, StopRequest, StopJoined, tables, vars
  <1>7. QED
    BY <1>4, <1>5, <1>6 DEF Next

\* The in-flight guard always names an entry of _pending.
THEOREM GuardNamesPending == Spec => []GuardIsPending
  <1>1. Init => GuardIsPending
    BY DEF Init, GuardIsPending
  <1>2. QED
    BY <1>1, TypeCorrect, GuardStep, PTL DEF Spec

-----------------------------------------------------------------------------
(* One request in flight per client. *)

LEMMA OwnershipStep ==
  TypeOK /\ LocalsSet /\ PollMutex /\ Ownership /\ [Next]_vars => Ownership'
  <1> SUFFICES ASSUME TypeOK, LocalsSet, PollMutex, Ownership, [Next]_vars,
                      NEW c \in Clients, c \notin refused'
               PROVE  OwnershipOf(c)'
    BY DEF Ownership
  <1> USE NoReqIsNoId DEF Sending, Handling
  <1>1. /\ guard \in [Clients -> Ids \cup {NoReq}]
        /\ serving \in [Clients -> SUBSET Ids]
        /\ pending \subseteq Clients \X Ids
        /\ callPc \in [Callers -> CallerPcs] /\ call \in [Callers -> Requests \cup {NoRequest}]
        /\ pollPc \in [Pollers -> PollerPcs]
        /\ cur \in [Pollers -> Clients \cup {NoClient}]
        /\ rid \in [Pollers -> Ids \cup {NoReq}]
    BY DEF TypeOK, Requests
  \* One thread at most is inside poll_once().
  <1>2. ASSUME NEW p \in Pollers, pollPc[p] \in Locked, NEW q \in Pollers, q # p
        PROVE  pollPc[q] \notin Locked
    BY <1>2 DEF PollMutex
  <1>3. ASSUME c \notin refused,
               UNCHANGED <<guard, serving, pending, callPc, call, pollPc, cur, rid>>
        PROVE  OwnershipOf(c)'
    BY <1>3 DEF Ownership, OwnershipOf
  <1>4. ASSUME NEW t \in Callers, CallerStep(t)
        PROVE  OwnershipOf(c)'
    <2>1. /\ OwnershipOf(c)
          /\ UNCHANGED <<pollPc, cur, rid>>
      BY <1>4 DEF Ownership, CallerStep, CreateRequestPacket, CreateFuture, RejectFuture,
         CallRequest, CallRequestRefused, CallerFailPop, CallerSetException, history,
         pollers, event
    <2>2. callPc[t] # "idle" => call[t] \in Clients \X Ids
      BY DEF LocalsSet, Requests
    <2>3. ASSUME NEW d \in Clients, CreateRequestPacket(t, d)
          PROVE  OwnershipOf(c)'
      BY <1>1, <2>1, <2>3 DEF OwnershipOf, CreateRequestPacket, CallerGoes, tables
    <2>4. CASE CreateFuture(t)
      <3>1. PICK d \in Clients, r \in Ids : call[t] = <<d, r>>
        BY <2>2, <2>4 DEF CreateFuture, CallerGoes
      <3>2. /\ guard[d] = NoReq
            /\ pending' = pending \cup {<<d, r>>}
            /\ guard' = [guard EXCEPT ![d] = r]
            /\ callPc' = [callPc EXCEPT ![t] = "send"]
            /\ UNCHANGED <<call, serving>>
        BY <2>4, <3>1 DEF CreateFuture, CallerGoes, Admissible, native
      <3>3. CASE d = c
        <4>1. serving[c] = {} /\ \A k \in pending : k[1] # c
          BY <1>1, <2>1, <3>2, <3>3 DEF OwnershipOf
        <4>2. \A u \in Callers : ~Sending(u, c)
          <5>1. \A u \in Callers : callPc[u] \in {"send", "fail"} => call[u][2] \in Ids
            BY DEF LocalsSet, Requests
          <5>2. QED
            BY <2>1, <3>2, <3>3, <5>1 DEF OwnershipOf
        <4>3. \A p \in Pollers : ~Handling(p, c)
          BY <2>1, <3>2, <3>3 DEF OwnershipOf
        <4>4. QED
          BY <1>1, <2>1, <3>1, <3>2, <3>3, <4>1, <4>2, <4>3 DEF OwnershipOf
      <3>4. CASE d # c
        BY <1>1, <2>1, <3>1, <3>2, <3>4 DEF OwnershipOf
      <3>5. QED
        BY <3>3, <3>4
    <2>5. CASE RejectFuture(t) \/ CallRequestRefused(t) \/ CallerSetException(t)
      BY <1>1, <2>1, <2>5 DEF OwnershipOf, RejectFuture, CallRequestRefused,
         CallerSetException, CallerGoes, CallerReturns, tables, native
    <2>6. CASE CallRequest(t)
      BY <1>1, <2>1, <2>2, <2>6 DEF OwnershipOf, CallRequest, CallerGoes, CallerReturns, tables
    <2>7. CASE CallerFailPop(t)
      <3>1. PICK d \in Clients, r \in Ids : call[t] = <<d, r>>
        BY <2>2, <2>7 DEF CallerFailPop, CallerGoes, CallerReturns
      <3>2. /\ callPc[t] = "fail"
            /\ pending' = pending \ {<<d, r>>}
            /\ guard' = [guard EXCEPT ![d] = NoReq]
            /\ \/ callPc' = [callPc EXCEPT ![t] = "raise"] /\ call' = call
               \/ callPc' = [callPc EXCEPT ![t] = "idle"] /\ call' = [call EXCEPT ![t] = NoRequest]
            /\ UNCHANGED serving
        BY <2>7, <3>1 DEF CallerFailPop, CallerGoes, CallerReturns, PopPending, native
      <3>3. CASE d = c
        <4>1. /\ guard[c] = r /\ serving[c] = {}
              /\ \A u \in Callers : Sending(u, c) => u = t
              /\ \A p \in Pollers : ~Handling(p, c)
          BY <2>1, <3>1, <3>2, <3>3 DEF OwnershipOf
        <4>2. \A k \in pending' : k[1] # c
          BY <1>1, <2>1, <3>2, <3>3, <4>1 DEF OwnershipOf
        <4>3. QED
          BY <1>1, <2>1, <3>2, <3>3, <4>1, <4>2 DEF OwnershipOf
      <3>4. CASE d # c
        BY <1>1, <2>1, <3>1, <3>2, <3>4 DEF OwnershipOf
      <3>5. QED
        BY <3>3, <3>4
    <2>8. QED
      BY <1>4, <2>3, <2>4, <2>5, <2>6, <2>7 DEF CallerStep
  <1>5. ASSUME NEW p \in Pollers, PollerStep(p)
        PROVE  OwnershipOf(c)'
    <2>1. /\ OwnershipOf(c)
          /\ UNCHANGED <<callPc, call>>
      BY <1>5 DEF Ownership, PollerStep, PollEvent, BeginPoll, PollNone, PollResponse,
         PollTimeout, PollCancelDone, TakeEvent, PollRaise, ResolvePop, SetResult,
         TimeoutGetPending, CancelRequest, CancelRequestRefused, MarkCanceling,
         CancelDoneGetPending, PollerFailPop, PollerSetException, EndPoll, history, callers
    <2>2. pollPc[p] \in Locked => \A q \in Pollers : q # p => ~Handling(q, c)
      BY <1>2 DEF Locked
    \* The poller stops handling c: nothing is left to show of it.
    <2>3. ASSUME NEW to \in {"scan", "idle", "off", "deliver", "raise"},
                 pollPc' = [pollPc EXCEPT ![p] = to],
                 \A q \in Pollers \ {p} : cur'[q] = cur[q] /\ rid'[q] = rid[q],
                 UNCHANGED <<guard, pending, serving>>
          PROVE  OwnershipOf(c)'
      BY <1>1, <2>1, <2>3 DEF OwnershipOf
    <2>4. ASSUME NEW to \in {"scan", "deliver", "raise"},
                 pollPc[p] \in {"resolve", "fail"},
                 pollPc' = [pollPc EXCEPT ![p] = to],
                 \A q \in Pollers \ {p} : cur'[q] = cur[q] /\ rid'[q] = rid[q],
                 PopPending(cur[p], rid[p]), UNCHANGED serving
          PROVE  OwnershipOf(c)'
      <3>1. cur[p] \in Clients /\ rid[p] \in Ids
        BY <2>4 DEF LocalsSet, Locked
      <3>2. pending' = pending \ {<<cur[p], rid[p]>>} /\ guard' = [guard EXCEPT ![cur[p]] = NoReq]
        BY <2>4 DEF PopPending
      <3>3. CASE cur[p] = c
        <4>1. guard[c] = rid[p] /\ serving[c] = {} /\ \A t \in Callers : ~Sending(t, c)
          BY <2>1, <2>4, <3>3 DEF OwnershipOf
        <4>2. \A k \in pending' : k[1] # c
          BY <1>1, <2>1, <3>2, <3>3, <4>1 DEF OwnershipOf
        <4>3. \A q \in Pollers : ~Handling(q, c)'
          BY <1>1, <2>2, <2>4 DEF Locked
        <4>4. QED
          BY <1>1, <2>1, <2>4, <4>1, <4>2, <4>3 DEF OwnershipOf
      <3>4. CASE cur[p] # c
        BY <1>1, <2>1, <2>4, <3>1, <3>2, <3>4 DEF OwnershipOf
      <3>5. QED
        BY <3>3, <3>4
    \* The poller takes an event of d, for which the native client had a request.
    <2>5. ASSUME NEW d \in Clients, NEW pc \in {"resolve", "timedOut", "cancelDone"},
                 NEW r \in Ids \cup {NoReq}, TakeEvent(p, d, pc, r), serving[d] # {},
                 \/ pc = "timedOut" /\ serving' = serving
                 \/ \E s \in serving[d] :
                       /\ serving' = [serving EXCEPT ![d] = @ \ {s}]
                       /\ pc = "resolve" => r = s
          PROVE  OwnershipOf(c)'
      <3>1. /\ pollPc[p] = "scan" /\ pollPc' = [pollPc EXCEPT ![p] = pc]
            /\ cur' = [cur EXCEPT ![p] = d] /\ rid' = [rid EXCEPT ![p] = r]
            /\ UNCHANGED <<guard, pending>>
        BY <2>5 DEF TakeEvent, PollerGoes, tables
      <3>2. \A q \in Pollers : q # p => ~Handling(q, c)
        BY <2>2, <3>1 DEF Locked
      <3>3. CASE d = c
        <4>1. /\ guard[c] # NoReq
              /\ \A t \in Callers : ~Sending(t, c)
              /\ serving[c] = {guard[c]}
          BY <1>1, <2>1, <2>5, <3>3 DEF OwnershipOf
        <4>2. \A q \in Pollers : Handling(q, c)' => q = p
          BY <1>1, <3>1, <3>2
        <4>3. /\ pc = "resolve" => r = guard[c]
              /\ pc # "timedOut" => serving'[c] = {}
              /\ serving'[c] \subseteq serving[c]
          BY <1>1, <2>5, <3>3, <4>1
        <4>4. QED
          BY <1>1, <2>1, <2>5, <3>1, <4>1, <4>2, <4>3 DEF OwnershipOf
      <3>4. CASE d # c
        <4>1. serving'[c] = serving[c]
          BY <1>1, <2>5, <3>4
        <4>2. \A q \in Pollers : ~Handling(q, c)'
          BY <1>1, <3>1, <3>2, <3>4
        <4>3. QED
          BY <1>1, <2>1, <3>1, <4>1, <4>2 DEF OwnershipOf
      <3>5. QED
        BY <3>3, <3>4
    \* The poller goes on with its event.
    <2>6. ASSUME NEW to \in {"cancel", "mark", "fail"},
                 pollPc[p] \in {"timedOut", "cancel", "cancelDone"},
                 pollPc[p] # "cancelDone" => to # "fail",
                 pollPc' = [pollPc EXCEPT ![p] = to],
                 \/ pollPc[p] # "cancel" /\ rid' = [rid EXCEPT ![p] = guard[cur[p]]]
                 \/ pollPc[p] = "cancel" /\ rid' = rid,
                 UNCHANGED <<guard, pending, serving, cur>>
          PROVE  OwnershipOf(c)'
      BY <1>1, <2>1, <2>6 DEF OwnershipOf
    <2>7. CASE BeginPoll(p) \/ (\E d \in Clients : PollNone(p, d))
      <3>1. pollPc[p] \in {"idle", "scan"} /\ pollPc' = [pollPc EXCEPT ![p] = "scan"]
        BY <1>1, <2>7 DEF BeginPoll, PollNone, PollerGoes
      <3>2. UNCHANGED <<guard, pending, serving, cur, rid>>
        BY <2>7 DEF BeginPoll, PollNone, tables, event, native
      <3>3. QED
        BY <2>3, <3>1, <3>2
    <2>8. ASSUME NEW d \in Clients,
                 PollResponse(p, d) \/ PollTimeout(p, d) \/ PollCancelDone(p, d)
          PROVE  OwnershipOf(c)'
      <3>1. CASE PollResponse(p, d)
        <4>1. PICK s \in serving[d] : /\ TakeEvent(p, d, "resolve", s)
                                      /\ serving' = [serving EXCEPT ![d] = @ \ {s}]
          BY <3>1 DEF PollResponse
        <4>2. s \in Ids
          BY <1>1
        <4>3. QED
          BY <2>5, <4>1, <4>2
      <3>2. CASE PollTimeout(p, d)
        BY <2>5, <3>2 DEF PollTimeout
      <3>3. CASE PollCancelDone(p, d)
        BY <2>5, <3>3 DEF PollCancelDone
      <3>4. QED
        BY <2>8, <3>1, <3>2, <3>3
    <2>9. CASE PollRaise(p) \/ SetResult(p) \/ MarkCanceling(p) \/ PollerSetException(p) \/ EndPoll(p)
      BY <1>1, <2>3, <2>9 DEF PollRaise, SetResult, MarkCanceling, PollerSetException, EndPoll,
         PollerGoes, NextContext, ForgetEvent, Ended, tables, event, native
    <2>10. CASE ResolvePop(p) \/ PollerFailPop(p)
      <3>1. PopPending(cur[p], rid[p]) /\ UNCHANGED serving
        BY <2>10 DEF ResolvePop, PollerFailPop, ResponseKey, native
      <3>2. \/ /\ PollerGoes(p, "resolve", "deliver") \/ PollerGoes(p, "fail", "raise")
               /\ UNCHANGED event
            \/ NextContext(p, "resolve") \/ NextContext(p, "fail")
        BY <2>10 DEF ResolvePop, PollerFailPop
      <3>3. QED
        BY <1>1, <2>4, <3>1, <3>2 DEF PollerGoes, NextContext, ForgetEvent, event
    <2>11. CASE TimeoutGetPending(p)
      <3>1. UNCHANGED <<guard, pending, serving>>
        BY <2>11 DEF TimeoutGetPending, tables, native
      <3>2. CASE PollerGoes(p, "timedOut", "cancel")
        <4>1. rid' = [rid EXCEPT ![p] = guard[cur[p]]] /\ UNCHANGED cur
          BY <1>1, <2>11, <3>2 DEF TimeoutGetPending, PollerGoes, NextContext
        <4>2. QED
          BY <2>6, <3>1, <3>2, <4>1 DEF PollerGoes
      <3>3. CASE NextContext(p, "timedOut")
        BY <1>1, <2>3, <3>1, <3>3 DEF PollerGoes, NextContext, ForgetEvent
      <3>4. QED
        BY <2>11, <3>2, <3>3 DEF TimeoutGetPending
    <2>12. CASE CancelRequest(p)
      BY <2>6, <2>12 DEF CancelRequest, PollerGoes, tables, event
    <2>13. CASE CancelRequestRefused(p)
      <3>1. cur[p] # c
        BY <2>13 DEF CancelRequestRefused
      <3>2. QED
        BY <1>1, <2>1, <2>13, <3>1 DEF OwnershipOf, CancelRequestRefused, PollerGoes, tables, native
    <2>14. CASE CancelDoneGetPending(p)
      <3>1. UNCHANGED <<guard, pending, serving>>
        BY <2>14 DEF CancelDoneGetPending, tables, native
      <3>2. CASE PollerGoes(p, "cancelDone", "fail")
        <4>1. rid' = [rid EXCEPT ![p] = guard[cur[p]]] /\ UNCHANGED cur
          BY <1>1, <2>14, <3>2 DEF CancelDoneGetPending, PollerGoes, NextContext
        <4>2. QED
          BY <2>6, <3>1, <3>2, <4>1 DEF PollerGoes
      <3>3. CASE NextContext(p, "cancelDone")
        BY <1>1, <2>3, <3>1, <3>3 DEF PollerGoes, NextContext, ForgetEvent
      <3>4. QED
        BY <2>14, <3>2, <3>3 DEF CancelDoneGetPending
    <2>15. QED
      BY <1>5, <2>7, <2>8, <2>9, <2>10, <2>11, <2>12, <2>13, <2>14 DEF PollerStep, PollEvent
  <1>6. ASSUME NEW p \in Pollers, StartBackgroundPolling(p) \/ BackgroundExit(p)
        PROVE  OwnershipOf(c)'
    BY <1>1, <1>6 DEF Ownership, OwnershipOf, StartBackgroundPolling, BackgroundExit,
       PollerGoes, tables, event, callers, native, history
  <1>7. CASE (\E d \in Clients : RegisterClient(d)) \/ StopRequest \/ StopJoined \/ UNCHANGED vars
    BY <1>3, <1>7 DEF RegisterClient, StopRequest, StopJoined, vars, tables, callers,
       pollers, event, native, history
  <1>8. QED
    BY <1>4, <1>5, <1>6, <1>7 DEF Next, ThreadControl

LEMMA InvariantInit == Init => IInv
  <1>1. Init => PollMutex /\ GuardIsPending
    BY SharedRpcAssumption DEF Init, PollMutex, GuardIsPending, Ended, Locked
  <1>2. Init => Ownership
    BY DEF Init, Ownership, OwnershipOf, Sending, Handling, Ended
  <1>3. QED
    BY TypeInit, <1>1, <1>2 DEF IInv

LEMMA InvariantStep == IInv /\ [Next]_vars => IInv'
  BY TypeStep, MutexStep, GuardStep, OwnershipStep DEF IInv

LEMMA InvariantHolds == Spec => []IInv
  BY InvariantInit, InvariantStep, PTL DEF Spec

\* As long as the native client accepts the cancels of a client's timed-out
\* requests, that client has at most one request in flight.
THEOREM OneRequestInFlight == Spec => []OneInFlightUnlessRefused
  <1>1. IInv => OneInFlightUnlessRefused
    <2> SUFFICES ASSUME IInv, NEW j \in pending, NEW k \in pending,
                        j[1] = k[1], j[1] \notin refused
                 PROVE  j = k
      BY DEF OneInFlightUnlessRefused
    <2>1. j \in Clients \X Ids /\ k \in Clients \X Ids
      BY DEF IInv, TypeOK, Requests
    <2>2. j[2] = guard[j[1]] /\ k[2] = guard[j[1]]
      BY <2>1 DEF IInv, Ownership, OwnershipOf
    <2>3. QED
      BY <2>1, <2>2
  <1>2. QED
    BY <1>1, InvariantHolds, PTL
=============================================================================
