---------------------------- MODULE FuturesProofs ----------------------------
(***************************************************************************)
(* Theorems about the futures of SharedRpc: none is dropped, and what it   *)
(* completes with says the truth about its request.                        *)
(*                                                                         *)
(* NoFutureDropped is inductive with CompletedOnce (the thread that popped *)
(* a request is the only one that will complete it) and Fresh (request ids *)
(* are new when they are taken, so that no late answer can meet them).     *)
(* ResultIsOwn and TimedOutIsSettled follow from Endings: a request is     *)
(* settled from the moment its end is known to the thread that will        *)
(* complete its future, and stays so.                                      *)
(***************************************************************************)
EXTENDS SharedRpcProofs

\* The caller has a request that it may still hand to the native client.
Unsent(t) == callPc[t] \in {"create", "send", "fail"}

\* The native client owes no answer for k and will not be given k.
Settled(k) ==
    /\ k[2] \notin serving[k[1]]
    /\ \A t \in Callers : Unsent(t) => call[t] # k

\* The request of the event a poller has in hand.
InHand(p) == <<cur[p], rid[p]>>

Fresh ==
    /\ \A t \in Callers : callPc[t] # "idle" =>
          /\ call[t][2] < nextId[call[t][1]]
          /\ \A u \in Callers : callPc[u] # "idle" /\ call[u] = call[t] => u = t
          /\ Unsent(t) => call[t][2] \notin serving[call[t][1]]
          /\ callPc[t] = "create" => future[call[t]] = "none"
    /\ \A k \in Requests :
          k[2] \in serving[k[1]] \/ future[k] # "none" => k[2] < nextId[k[1]]

CompletedOnce ==
    /\ \A t \in Callers : callPc[t] = "raise" => call[t] \notin pending
    /\ \A p \in Pollers : pollPc[p] \in {"deliver", "raise"} => InHand(p) \notin pending
    /\ \A t \in Callers, p \in Pollers :
          callPc[t] = "raise" /\ pollPc[p] \in {"deliver", "raise"} => call[t] # InHand(p)

Endings ==
    /\ \A p \in Pollers :
          /\ pollPc[p] \in {"resolve", "deliver"} =>
                Settled(InHand(p)) /\ rid[p] < nextId[cur[p]]
          /\ pollPc[p] = "raise" /\ cur[p] \notin refused => Settled(InHand(p))
    /\ \A k \in Requests :
          /\ future[k] = "result" => Settled(k)
          /\ future[k] = "timeout" /\ k[1] \notin refused => Settled(k)

FuturesInv == IInv /\ Fresh /\ NoFutureDropped /\ CompletedOnce /\ Endings

-----------------------------------------------------------------------------
(* The steps of a poller, by what they do to the futures. *)

\* The step takes, completes and forgets no request.
Quiet(p) ==
    /\ UNCHANGED <<pending, future>>
    /\ pollPc[p] \notin {"deliver", "raise"}
    /\ pollPc'[p] \notin {"resolve", "deliver", "raise"}

Responds(p) ==
    /\ UNCHANGED <<pending, future>>
    /\ pollPc[p] = "scan" /\ pollPc'[p] = "resolve"
    /\ InHand(p)' \in Requests
    /\ rid'[p] \in serving[cur'[p]] /\ rid'[p] \notin serving'[cur'[p]]

Pops(p) ==
    /\ InHand(p) \in Requests
    /\ pending' = pending \ {InHand(p)}
    /\ UNCHANGED <<future, serving, refused>>
    /\ \/ /\ InHand(p) \in pending
          /\ \/ pollPc[p] = "resolve" /\ pollPc'[p] = "deliver"
             \/ pollPc[p] = "fail" /\ pollPc'[p] = "raise"
          /\ UNCHANGED <<cur, rid>>
       \/ /\ InHand(p) \notin pending
          /\ pollPc[p] \in {"resolve", "fail"} /\ pollPc'[p] = "scan"

Finishes(p) ==
    /\ InHand(p) \in Requests
    /\ UNCHANGED <<pending, serving, refused>>
    /\ pollPc'[p] = "scan"
    /\ \/ pollPc[p] = "deliver" /\ Complete(InHand(p), "result")
       \/ pollPc[p] = "raise" /\ Complete(InHand(p), why[p])

LEMMA PollerCases ==
  ASSUME TypeOK, LocalsSet, NEW p \in Pollers, PollerStep(p)
  PROVE  /\ UNCHANGED <<callPc, call, nextId>>
         /\ refused \subseteq refused'
         /\ \A q \in Pollers \ {p} :
               pollPc'[q] = pollPc[q] /\ cur'[q] = cur[q] /\ rid'[q] = rid[q]
         /\ \A c \in Clients : serving'[c] \subseteq serving[c]
         /\ Quiet(p) \/ Responds(p) \/ Pops(p) \/ Finishes(p)
  <1> DEFINE Frame ==
        /\ UNCHANGED <<callPc, call, nextId>>
        /\ refused \subseteq refused'
        /\ \A q \in Pollers \ {p} :
               pollPc'[q] = pollPc[q] /\ cur'[q] = cur[q] /\ rid'[q] = rid[q]
        /\ \A c \in Clients : serving'[c] \subseteq serving[c]
  <1> USE DEF PollerGoes, NextContext, ForgetEvent, tables, event, callers, native, history
  <1>0. /\ pollPc \in [Pollers -> PollerPcs] /\ serving \in [Clients -> SUBSET Ids]
        /\ cur \in [Pollers -> Clients \cup {NoClient}]
        /\ rid \in [Pollers -> Ids \cup {NoReq}]
    BY DEF TypeOK
  <1>1. CASE BeginPoll(p) \/ EndPoll(p) \/ MarkCanceling(p)
    <2>1. Frame
      BY <1>0, <1>1 DEF BeginPoll, EndPoll, MarkCanceling
    <2>2. Quiet(p)
      BY <1>0, <1>1 DEF BeginPoll, EndPoll, MarkCanceling, Quiet
    <2>3. QED
      BY <2>1, <2>2
  <1>2. CASE CancelRequest(p) \/ CancelRequestRefused(p)
    <2>1. Frame
      BY <1>0, <1>2 DEF CancelRequest, CancelRequestRefused
    <2>2. Quiet(p)
      BY <1>0, <1>2 DEF CancelRequest, CancelRequestRefused, Quiet
    <2>3. QED
      BY <2>1, <2>2
  <1>3. CASE TimeoutGetPending(p) \/ CancelDoneGetPending(p)
    <2>1. Frame
      BY <1>0, <1>3 DEF TimeoutGetPending, CancelDoneGetPending
    <2>2. Quiet(p)
      BY <1>0, <1>3 DEF TimeoutGetPending, CancelDoneGetPending, Quiet
    <2>3. QED
      BY <2>1, <2>2
  <1>4. CASE PollRaise(p)
    <2>1. Frame
      BY <1>0, <1>4 DEF PollRaise
    <2>2. Quiet(p)
      BY <1>0, <1>4 DEF PollRaise, Quiet, Ended
    <2>3. QED
      BY <2>1, <2>2
  <1>5. ASSUME NEW c \in Clients, PollNone(p, c) \/ PollTimeout(p, c) \/ PollCancelDone(p, c)
        PROVE  Frame /\ Quiet(p)
    <2>1. Frame
      BY <1>0, <1>5 DEF PollNone, PollTimeout, PollCancelDone, TakeEvent
    <2>2. Quiet(p)
      BY <1>0, <1>5 DEF PollNone, PollTimeout, PollCancelDone, TakeEvent, Quiet
    <2>3. QED
      BY <2>1, <2>2
  <1>6. ASSUME NEW c \in Clients, PollResponse(p, c)
        PROVE  Frame /\ Responds(p)
    <2>1. PICK r \in serving[c] : /\ TakeEvent(p, c, "resolve", r)
                                  /\ serving' = [serving EXCEPT ![c] = @ \ {r}]
      BY <1>6 DEF PollResponse
    <2>2. r \in Ids
      BY <1>0
    <2>3. Frame
      BY <1>0, <2>1 DEF TakeEvent
    <2>4. cur'[p] = c /\ rid'[p] = r /\ r \notin serving'[c]
      BY <1>0, <2>1 DEF TakeEvent
    <2>5. Responds(p)
      BY <1>0, <2>1, <2>2, <2>4 DEF TakeEvent, Responds, InHand, Requests
    <2>6. QED
      BY <2>3, <2>5
  <1>7. CASE ResolvePop(p) \/ PollerFailPop(p)
    <2>1. Frame
      BY <1>0, <1>7 DEF ResolvePop, PollerFailPop
    <2>2. InHand(p) \in Requests
      BY <1>7 DEF ResolvePop, PollerFailPop, InHand, Requests, LocalsSet, Locked
    <2>3. pending' = pending \ {InHand(p)} /\ UNCHANGED <<future, serving, refused>>
      BY <1>7 DEF ResolvePop, PollerFailPop, PopPending, InHand, ResponseKey
    <2>4. Pops(p)
      BY <1>0, <1>7, <2>2, <2>3 DEF ResolvePop, PollerFailPop, Pops, InHand, ResponseKey
    <2>5. QED
      BY <2>1, <2>4
  <1>8. CASE SetResult(p) \/ PollerSetException(p)
    <2>1. Frame
      BY <1>0, <1>8 DEF SetResult, PollerSetException
    <2>2. InHand(p) \in Requests
      BY <1>8 DEF SetResult, PollerSetException, InHand, Requests, LocalsSet, Locked
    <2>3. Finishes(p)
      BY <1>0, <1>8, <2>2 DEF SetResult, PollerSetException, Finishes, InHand, ResponseKey
    <2>4. QED
      BY <2>1, <2>3
  <1>9. QED
    BY <1>1, <1>2, <1>3, <1>4, <1>5, <1>6, <1>7, <1>8 DEF PollerStep, PollEvent

\* The steps that neither a caller nor a poller takes.
LEMMA OtherSteps ==
  ASSUME TypeOK, [Next]_vars,
         ~(\E t \in Callers : CallerStep(t)), ~(\E p \in Pollers : PollerStep(p))
  PROVE  /\ UNCHANGED <<pending, future, serving, nextId, refused, callPc, call, cur, rid>>
         /\ \A p \in Pollers :
               \/ pollPc'[p] = pollPc[p]
               \/ {pollPc[p], pollPc'[p]} \subseteq {"off", "idle"}
  <1>1. CASE (\E c \in Clients : RegisterClient(c)) \/ StopRequest \/ StopJoined \/ UNCHANGED vars
    BY <1>1 DEF RegisterClient, StopRequest, StopJoined, vars, tables, callers, pollers,
       event, native, history
  <1>2. ASSUME NEW p \in Pollers, StartBackgroundPolling(p) \/ BackgroundExit(p)
        PROVE  /\ UNCHANGED <<pending, future, serving, nextId, refused, callPc, call, cur, rid>>
               /\ \A q \in Pollers :
                     \/ pollPc'[q] = pollPc[q]
                     \/ {pollPc[q], pollPc'[q]} \subseteq {"off", "idle"}
    BY <1>2 DEF TypeOK, StartBackgroundPolling, BackgroundExit, PollerGoes, tables, callers,
       event, native, history
  <1>3. QED
    BY <1>1, <1>2 DEF Next, ThreadControl

-----------------------------------------------------------------------------
(* Request ids are new when they are taken. *)

LEMMA FreshStep ==
  TypeOK /\ LocalsSet /\ Fresh /\ [Next]_vars => Fresh'
  <1> SUFFICES ASSUME TypeOK, LocalsSet, Fresh, [Next]_vars
               PROVE  Fresh'
    OBVIOUS
  <1>0. /\ nextId \in [Clients -> 1..(MaxId + 1)] /\ serving \in [Clients -> SUBSET Ids]
        /\ callPc \in [Callers -> CallerPcs] /\ call \in [Callers -> Requests \cup {NoRequest}]
        /\ future \in [Requests -> FutureStates]
        /\ \A t \in Callers : callPc[t] # "idle" =>
              call[t] \in Requests /\ call[t][1] \in Clients /\ call[t][2] \in Ids
    BY DEF TypeOK, LocalsSet, Requests
  <1>1. \A k \in Requests : k = <<k[1], k[2]>> /\ k[1] \in Clients /\ k[2] \in Ids
    BY DEF Requests
  \* No request is taken, sent or admitted.
  <1>2. ASSUME UNCHANGED <<callPc, call, nextId>>,
               \A c \in Clients : serving'[c] \subseteq serving[c],
               \A k \in Requests : future'[k] = "none" <=> future[k] = "none"
        PROVE  Fresh'
    BY <1>0, <1>1, <1>2 DEF Fresh, Unsent
  <1>3. ASSUME NEW p \in Pollers, PollerStep(p)
        PROVE  Fresh'
    <2>1. \A k \in Requests : future'[k] = "none" <=> future[k] = "none"
      <3>1. CASE UNCHANGED future
        BY <3>1
      <3>2. CASE Finishes(p)
        <4>1. \E k \in Requests, o \in {"result", "timeout", "error"} : Complete(k, o)
          BY <3>2 DEF Finishes, TypeOK, Failures
        <4>2. QED
          BY <1>0, <4>1 DEF Complete
      <3>3. QED
        BY <1>3, <3>1, <3>2, PollerCases DEF Quiet, Responds, Pops
    <2>2. QED
      BY <1>2, <1>3, <2>1, PollerCases
  \* A caller leaves the program points at which its request is in use.
  <1>4. ASSUME NEW t \in Callers, NEW to \in {"fail", "raise", "idle"},
               callPc[t] = "send" \/ callPc[t] = "fail" \/ to = "idle",
               callPc' = [callPc EXCEPT ![t] = to],
               to # "idle" => call' = call,
               \A u \in Callers \ {t} : call'[u] = call[u],
               UNCHANGED <<nextId, serving>>,
               \A k \in Requests : future'[k] = "none" <=> future[k] = "none"
        PROVE  Fresh'
    BY <1>0, <1>1, <1>4 DEF Fresh, Unsent
  <1>5. ASSUME NEW t \in Callers, CallerStep(t)
        PROVE  Fresh'
    <2>1. ASSUME NEW c \in Clients, CreateRequestPacket(t, c)
          PROVE  Fresh'
      <3>1. /\ callPc[t] = "idle" /\ callPc' = [callPc EXCEPT ![t] = "create"]
            /\ call' = [call EXCEPT ![t] = <<c, nextId[c]>>]
            /\ nextId' = [nextId EXCEPT ![c] = @ + 1] /\ nextId[c] \in Ids
            /\ UNCHANGED <<serving, future>>
        BY <2>1 DEF CreateRequestPacket, CallerGoes, PacketId, tables
      <3>2. \A d \in Clients : nextId[d] \in Nat /\ nextId'[d] \in Nat /\ nextId[d] <= nextId'[d]
        BY <1>0, <3>1, SharedRpcAssumption
      <3>3. /\ <<c, nextId[c]>> \in Requests
            /\ future[<<c, nextId[c]>>] = "none" /\ nextId[c] \notin serving[c]
        BY <3>1, <3>2 DEF Fresh, Requests
      <3>4. \A u \in Callers : callPc[u] # "idle" => call[u] # <<c, nextId[c]>>
        BY <1>0, <3>2 DEF Fresh
      <3>5. \A k \in Requests :
               k[2] \in serving'[k[1]] \/ future'[k] # "none" => k[2] < nextId'[k[1]]
        BY <1>1, <3>1, <3>2 DEF Fresh, Ids
      <3>6. ASSUME NEW u \in Callers, callPc'[u] # "idle"
            PROVE  /\ call'[u][2] < nextId'[call'[u][1]]
                   /\ \A v \in Callers : callPc'[v] # "idle" /\ call'[v] = call'[u] => v = u
                   /\ Unsent(u)' => call'[u][2] \notin serving'[call'[u][1]]
                   /\ callPc'[u] = "create" => future'[call'[u]] = "none"
        <4>1. CASE u = t
          <5>1. call'[u] = <<c, nextId[c]>> /\ nextId'[c] = nextId[c] + 1
            BY <1>0, <3>1, <4>1
          <5>2. \A v \in Callers \ {t} : callPc'[v] = callPc[v] /\ call'[v] = call[v]
            BY <1>0, <3>1
          <5>3. QED
            BY <3>1, <3>2, <3>3, <3>4, <4>1, <5>1, <5>2
        <4>2. CASE u # t
          <5>1. callPc'[u] = callPc[u] /\ call'[u] = call[u] /\ call'[t] = <<c, nextId[c]>>
            BY <1>0, <3>1, <4>2
          <5>2. call[u][2] \in Ids /\ call[u][1] \in Clients /\ call[u][2] < nextId[call[u][1]]
            BY <1>0, <3>6, <5>1 DEF Fresh
          <5>3. call'[u][2] < nextId'[call'[u][1]]
            BY <3>2, <5>1, <5>2 DEF Ids
          <5>4. \A v \in Callers : callPc'[v] # "idle" /\ call'[v] = call'[u] => v = u
            BY <1>0, <3>1, <3>4, <3>6, <4>2, <5>1 DEF Fresh
          <5>5. QED
            BY <3>1, <3>6, <5>1, <5>3, <5>4 DEF Fresh, Unsent
        <4>3. QED
          BY <4>1, <4>2
      <3>7. QED
        BY <3>5, <3>6 DEF Fresh
    <2>2. CASE CreateFuture(t)
      <3>1. /\ callPc[t] = "create" /\ callPc' = [callPc EXCEPT ![t] = "send"]
            /\ future' = [future EXCEPT ![call[t]] = "waiting"]
            /\ UNCHANGED <<call, nextId, serving>>
        BY <2>2 DEF CreateFuture, CallerGoes, native
      <3>2. \A u \in Callers : callPc'[u] = "create" => callPc[u] = "create" /\ call[u] # call[t]
        BY <1>0, <3>1 DEF Fresh
      <3>3. QED
        BY <1>0, <1>1, <3>1, <3>2 DEF Fresh, Unsent
    <2>3. CASE RejectFuture(t)
      BY <1>0, <1>4, <2>3 DEF RejectFuture, CallerReturns, CallerGoes, tables, native
    <2>4. CASE CallRequest(t)
      <3>1. /\ callPc[t] = "send" /\ callPc' = [callPc EXCEPT ![t] = "idle"]
            /\ call' = [call EXCEPT ![t] = NoRequest]
            /\ serving' = [serving EXCEPT ![call[t][1]] = @ \cup {call[t][2]}]
            /\ UNCHANGED <<nextId, future>>
        BY <2>4 DEF CallRequest, CallerReturns, CallerGoes, tables
      <3>2. \A u \in Callers : callPc'[u] # "idle" =>
               u # t /\ callPc'[u] = callPc[u] /\ call'[u] = call[u] /\ call[u] # call[t]
        BY <1>0, <3>1 DEF Fresh
      <3>3. \A k \in Requests : k[2] \in serving'[k[1]] => k[2] \in serving[k[1]] \/ k = call[t]
        BY <1>0, <1>1, <3>1
      <3>4. \A u \in Callers : callPc'[u] # "idle" =>
               /\ call[u][2] < nextId[call[u][1]]
               /\ Unsent(u)' => call[u][2] \notin serving'[call[u][1]]
        BY <1>0, <3>2, <3>3 DEF Fresh, Unsent
      <3>5. \A k \in Requests :
               k[2] \in serving'[k[1]] \/ future'[k] # "none" => k[2] < nextId'[k[1]]
        BY <1>0, <3>1, <3>3 DEF Fresh
      <3>6. QED
        BY <3>1, <3>2, <3>4, <3>5 DEF Fresh
    <2>5. CASE CallRequestRefused(t)
      BY <1>0, <1>4, <2>5 DEF CallRequestRefused, CallerGoes, tables, native
    <2>6. CASE CallerFailPop(t)
      BY <1>0, <1>4, <2>6 DEF CallerFailPop, CallerReturns, CallerGoes, native
    <2>7. CASE CallerSetException(t)
      <3>1. \A k \in Requests : future'[k] = "none" <=> future[k] = "none"
        BY <1>0, <2>7 DEF CallerSetException, Complete
      <3>2. QED
        BY <1>0, <1>4, <2>7, <3>1 DEF CallerSetException, CallerReturns, CallerGoes, native
    <2>8. QED
      BY <1>5, <2>1, <2>2, <2>3, <2>4, <2>5, <2>6, <2>7 DEF CallerStep
  <1>6. QED
    BY <1>2, <1>3, <1>5, OtherSteps

-----------------------------------------------------------------------------
(* No future is dropped. *)

LEMMA FuturesStep ==
  TypeOK /\ LocalsSet /\ PollMutex /\ Fresh /\ CompletedOnce /\ NoFutureDropped /\ [Next]_vars
    => CompletedOnce' /\ NoFutureDropped'
  <1> SUFFICES ASSUME TypeOK, LocalsSet, PollMutex, Fresh, CompletedOnce, NoFutureDropped,
                      [Next]_vars
               PROVE  CompletedOnce' /\ NoFutureDropped'
    OBVIOUS
  <1> DEFINE Raises(t) == callPc[t] = "raise"
             Holds(p) == pollPc[p] \in {"deliver", "raise"}
  <1>0. /\ callPc \in [Callers -> CallerPcs] /\ call \in [Callers -> Requests \cup {NoRequest}]
        /\ future \in [Requests -> FutureStates] /\ pending \subseteq Requests
        /\ \A t \in Callers : callPc[t] # "idle" => call[t] \in Requests
        /\ \A p \in Pollers : Holds(p) => InHand(p) \in Requests
    BY DEF TypeOK, LocalsSet, Locked, InHand, Requests
  <1>1. /\ \A k \in Requests : future[k] = "waiting" <=> k \in pending \/ Completing(k)
        /\ \A k : Completing(k) <=> \/ \E t \in Callers : Raises(t) /\ k = call[t]
                                    \/ \E p \in Pollers : Holds(p) /\ k = InHand(p)
        /\ \A k : Completing(k)' <=> \/ \E t \in Callers : Raises(t)' /\ k = call'[t]
                                     \/ \E p \in Pollers : Holds(p)' /\ k = InHand(p)'
    BY DEF NoFutureDropped, Completing, InHand
  \* No request is admitted, popped or completed.
  <1>2. ASSUME UNCHANGED <<pending, future>>,
               \A t \in Callers : /\ Raises(t)' <=> Raises(t)
                                  /\ Raises(t) => call'[t] = call[t],
               \A p \in Pollers : /\ Holds(p)' <=> Holds(p)
                                  /\ Holds(p) => InHand(p)' = InHand(p)
        PROVE  CompletedOnce' /\ NoFutureDropped'
    <2>1. CompletedOnce'
      BY <1>2 DEF CompletedOnce
    <2>2. \A k : Completing(k)' <=> Completing(k)
      BY <1>1, <1>2
    <2>3. QED
      BY <1>2, <2>1, <2>2 DEF NoFutureDropped
  <1>3. ASSUME NEW t \in Callers, CallerStep(t)
        PROVE  CompletedOnce' /\ NoFutureDropped'
    <2>1. UNCHANGED <<pollPc, cur, rid>>
      BY <1>3 DEF CallerStep, CreateRequestPacket, CreateFuture, RejectFuture,
         CallRequest, CallRequestRefused, CallerFailPop, CallerSetException, pollers, event
    <2>2. /\ \A p \in Pollers : (Holds(p)' <=> Holds(p)) /\ InHand(p)' = InHand(p)
          /\ \A u \in Callers \ {t} : callPc'[u] = callPc[u] /\ call'[u] = call[u]
      BY <1>0, <1>3, <2>1 DEF CallerStep, CreateRequestPacket, CreateFuture, RejectFuture,
         CallRequest, CallRequestRefused, CallerFailPop, CallerSetException, CallerGoes,
         CallerReturns, InHand
    <2>3. CASE (\E c \in Clients : CreateRequestPacket(t, c)) \/ RejectFuture(t)
                 \/ CallRequest(t) \/ CallRequestRefused(t)
      <3>1. /\ callPc[t] # "raise" /\ callPc'[t] # "raise"
            /\ UNCHANGED <<pending, future>>
        BY <1>0, <2>3 DEF CreateRequestPacket, RejectFuture, CallRequest, CallRequestRefused,
           CallerGoes, CallerReturns, tables
      <3>2. QED
        BY <1>2, <2>2, <3>1
    <2>4. CASE CreateFuture(t)
      <3>1. /\ callPc[t] = "create" /\ callPc'[t] = "send" /\ UNCHANGED call
            /\ pending' = pending \cup {call[t]}
            /\ future' = [future EXCEPT ![call[t]] = "waiting"]
        BY <1>0, <2>4 DEF CreateFuture, CallerGoes
      <3>2. call[t] \in Requests /\ future[call[t]] = "none"
        BY <1>0, <3>1 DEF Fresh
      <3>3. call[t] \notin pending /\ ~Completing(call[t])
        BY <1>1, <3>2
      <3>4. \A k : Completing(k)' <=> Completing(k)
        BY <1>1, <2>2, <3>1
      <3>5. CompletedOnce'
        BY <1>1, <2>2, <3>1, <3>3 DEF CompletedOnce
      <3>6. QED
        BY <1>0, <1>1, <3>1, <3>2, <3>4, <3>5 DEF NoFutureDropped
    <2>5. CASE CallerFailPop(t)
      <3>1. /\ callPc[t] = "fail" /\ call[t] \in Requests
            /\ pending' = pending \ {call[t]} /\ UNCHANGED future
        BY <1>0, <2>5 DEF CallerFailPop, CallerGoes, CallerReturns, PopPending, Requests
      <3>2. CASE call[t] \notin pending
        <4>1. callPc'[t] # "raise" /\ pending' = pending
          BY <1>0, <2>5, <3>1, <3>2 DEF CallerFailPop, CallerGoes, CallerReturns
        <4>2. QED
          BY <1>2, <2>2, <3>1, <4>1
      <3>3. CASE call[t] \in pending
        <4>1. callPc'[t] = "raise" /\ call' = call
          BY <1>0, <2>5, <3>3 DEF CallerFailPop, CallerGoes
        <4>2. \A p \in Pollers : Holds(p) => InHand(p) # call[t]
          BY <3>3 DEF CompletedOnce
        <4>3. CompletedOnce'
          BY <2>2, <3>1, <4>1, <4>2 DEF CompletedOnce
        <4>4. \A k : Completing(k)' <=> Completing(k) \/ k = call[t]
          BY <1>1, <2>2, <3>1, <4>1
        <4>5. QED
          BY <1>1, <3>1, <3>3, <4>3, <4>4 DEF NoFutureDropped
      <3>4. QED
        BY <3>2, <3>3
    <2>6. CASE CallerSetException(t)
      <3>1. /\ callPc[t] = "raise" /\ callPc'[t] = "idle" /\ call[t] \in Requests
            /\ future' = [future EXCEPT ![call[t]] = IF @ = "waiting" THEN "error" ELSE @]
            /\ UNCHANGED pending
        BY <1>0, <2>6 DEF CallerSetException, CallerReturns, CallerGoes, Complete
      <3>2. CompletedOnce'
        BY <2>2, <3>1 DEF CompletedOnce
      <3>3. \A u \in Callers : u # t /\ Raises(u) => call[u] # call[t]
        BY <3>1 DEF Fresh
      <3>4. call[t] \notin pending /\ \A p \in Pollers : Holds(p) => InHand(p) # call[t]
        BY <3>1 DEF CompletedOnce
      <3>5. \A k : Completing(k)' <=> Completing(k) /\ k # call[t]
        BY <1>1, <2>2, <3>1, <3>3, <3>4
      <3>6. future'[call[t]] # "waiting"
            /\ \A k \in Requests \ {call[t]} : future'[k] = future[k]
        BY <1>0, <3>1
      <3>7. QED
        BY <1>1, <3>1, <3>2, <3>4, <3>5, <3>6 DEF NoFutureDropped
    <2>7. QED
      BY <1>3, <2>3, <2>4, <2>5, <2>6 DEF CallerStep
  <1>4. ASSUME NEW p \in Pollers, PollerStep(p)
        PROVE  CompletedOnce' /\ NoFutureDropped'
    <2>1. /\ UNCHANGED <<callPc, call>>
          /\ \A q \in Pollers \ {p} : (Holds(q)' <=> Holds(q)) /\ InHand(q)' = InHand(q)
      BY <1>4, PollerCases DEF InHand
    <2>2. \A t \in Callers : (Raises(t)' <=> Raises(t)) /\ call'[t] = call[t]
      BY <2>1
    <2>3. CASE Quiet(p) \/ Responds(p)
      BY <1>2, <2>1, <2>2, <2>3 DEF Quiet, Responds
    <2>4. CASE Pops(p)
      <3>1. InHand(p) \in Requests /\ pending' = pending \ {InHand(p)} /\ UNCHANGED future
            /\ ~Holds(p)
        BY <2>4 DEF Pops
      <3>2. CASE InHand(p) \notin pending
        <4>1. pending' = pending /\ ~Holds(p)'
          BY <2>4, <3>1, <3>2 DEF Pops
        <4>2. QED
          BY <1>2, <2>1, <2>2, <3>1, <4>1
      <3>3. CASE InHand(p) \in pending
        <4>1. Holds(p)' /\ InHand(p)' = InHand(p)
          BY <2>4, <3>3 DEF Pops, InHand
        <4>2. \A t \in Callers : Raises(t) => call[t] # InHand(p)
          BY <3>3 DEF CompletedOnce
        <4>3. CompletedOnce'
          BY <2>1, <2>2, <3>1, <4>1, <4>2 DEF CompletedOnce
        <4>4. \A k : Completing(k)' <=> Completing(k) \/ k = InHand(p)
          BY <1>1, <2>1, <2>2, <3>1, <4>1
        <4>5. QED
          BY <1>1, <3>1, <3>3, <4>3, <4>4 DEF NoFutureDropped
      <3>4. QED
        BY <3>2, <3>3
    <2>5. CASE Finishes(p)
      <3>1. /\ Holds(p) /\ ~Holds(p)' /\ InHand(p) \in Requests /\ UNCHANGED pending
            /\ \E o \in FutureStates \ {"waiting"} :
                  future' = [future EXCEPT ![InHand(p)] = IF @ = "waiting" THEN o ELSE @]
        BY <2>5 DEF Finishes, Complete, TypeOK, Failures, FutureStates
      <3>2. CompletedOnce'
        BY <2>1, <2>2, <3>1 DEF CompletedOnce
      <3>3. \A q \in Pollers : q # p => ~Holds(q)
        BY <3>1 DEF PollMutex, Locked
      <3>4. InHand(p) \notin pending /\ \A t \in Callers : Raises(t) => call[t] # InHand(p)
        BY <3>1 DEF CompletedOnce
      <3>5. \A k : Completing(k)' <=> Completing(k) /\ k # InHand(p)
        BY <1>1, <2>1, <2>2, <3>1, <3>3, <3>4
      <3>6. future'[InHand(p)] # "waiting"
            /\ \A k \in Requests \ {InHand(p)} : future'[k] = future[k]
        BY <1>0, <3>1
      <3>7. QED
        BY <1>1, <3>1, <3>2, <3>4, <3>5, <3>6 DEF NoFutureDropped
    <2>6. QED
      BY <1>4, <2>3, <2>4, <2>5, PollerCases
  <1>5. CASE ~(\E t \in Callers : CallerStep(t)) /\ ~(\E p \in Pollers : PollerStep(p))
    BY <1>2, <1>5, OtherSteps DEF InHand
  <1>6. QED
    BY <1>3, <1>4, <1>5

-----------------------------------------------------------------------------
(* What a future completed with is true of its request. *)

\* A settled request stays settled: its id is not given out again.
LEMMA SettledStays ==
  ASSUME TypeOK, LocalsSet, Fresh, [Next]_vars,
         NEW k \in Requests, Settled(k), k[2] < nextId[k[1]]
  PROVE  Settled(k)'
  <1>0. /\ nextId \in [Clients -> 1..(MaxId + 1)] /\ serving \in [Clients -> SUBSET Ids]
        /\ callPc \in [Callers -> CallerPcs] /\ call \in [Callers -> Requests \cup {NoRequest}]
        /\ \A t \in Callers : callPc[t] # "idle" => call[t] \in Requests
        /\ \A j \in Requests : j = <<j[1], j[2]>> /\ j[1] \in Clients /\ j[2] \in Ids
    BY DEF TypeOK, LocalsSet, Requests
  <1>1. ASSUME UNCHANGED <<callPc, call>>, \A c \in Clients : serving'[c] \subseteq serving[c]
        PROVE  Settled(k)'
    BY <1>0, <1>1 DEF Settled, Unsent
  \* No caller but t moves, and t hands nothing to the native client.
  <1>2. ASSUME NEW t \in Callers, UNCHANGED serving,
               \A u \in Callers \ {t} : callPc'[u] = callPc[u] /\ call'[u] = call[u],
               Unsent(t)' => Unsent(t) /\ call'[t] = call[t]
        PROVE  Settled(k)'
    BY <1>2 DEF Settled, Unsent
  <1>3. ASSUME NEW t \in Callers, CallerStep(t)
        PROVE  Settled(k)'
    <2>1. \A u \in Callers \ {t} : callPc'[u] = callPc[u] /\ call'[u] = call[u]
      BY <1>0, <1>3 DEF CallerStep, CreateRequestPacket, CreateFuture, RejectFuture,
         CallRequest, CallRequestRefused, CallerFailPop, CallerSetException, CallerGoes,
         CallerReturns
    <2>2. ASSUME NEW c \in Clients, CreateRequestPacket(t, c)
          PROVE  Settled(k)'
      <3>1. call'[t] = <<c, nextId[c]>> /\ UNCHANGED serving
        BY <1>0, <2>2 DEF CreateRequestPacket, PacketId
      <3>2. k # <<c, nextId[c]>>
        BY <1>0
      <3>3. QED
        BY <2>1, <3>1, <3>2 DEF Settled, Unsent
    <2>3. CASE CreateFuture(t) \/ RejectFuture(t) \/ CallRequestRefused(t)
                 \/ CallerFailPop(t) \/ CallerSetException(t)
      <3>1. UNCHANGED serving /\ (Unsent(t)' => Unsent(t) /\ call'[t] = call[t])
        BY <1>0, <2>3 DEF CreateFuture, RejectFuture, CallRequestRefused, CallerFailPop,
           CallerSetException, CallerGoes, CallerReturns, native, Unsent
      <3>2. QED
        BY <1>2, <2>1, <3>1
    <2>4. CASE CallRequest(t)
      <3>1. /\ Unsent(t) /\ ~Unsent(t)' /\ call[t] \in Requests /\ callPc[t] # "idle"
            /\ serving' = [serving EXCEPT ![call[t][1]] = @ \cup {call[t][2]}]
        BY <1>0, <2>4 DEF CallRequest, CallerReturns, CallerGoes, Unsent
      <3>2. k # call[t]
        BY <3>1 DEF Settled
      <3>3. k[2] \notin serving'[k[1]]
        BY <1>0, <3>1, <3>2 DEF Settled
      <3>4. QED
        BY <2>1, <3>1, <3>3 DEF Settled, Unsent
    <2>5. QED
      BY <1>3, <2>2, <2>3, <2>4 DEF CallerStep
  <1>4. ASSUME NEW p \in Pollers, PollerStep(p)
        PROVE  Settled(k)'
    BY <1>1, <1>4, PollerCases
  <1>5. QED
    BY <1>1, <1>3, <1>4, OtherSteps

\* The answer taken from the native client settles its request.
LEMMA RespondedIsSettled ==
  ASSUME TypeOK, LocalsSet, Fresh, NEW p \in Pollers, PollerStep(p), Responds(p)
  PROVE  Settled(InHand(p))' /\ rid'[p] < nextId'[cur'[p]]
  <1>1. PICK k \in Requests : k = <<cur'[p], rid'[p]>>
    BY DEF Responds, InHand
  <1>2. /\ k[1] = cur'[p] /\ k[2] = rid'[p]
        /\ k[2] \in serving[k[1]] /\ k[2] \notin serving'[k[1]]
        /\ UNCHANGED <<callPc, call, nextId>>
    BY <1>1, PollerCases DEF Responds
  <1>3. \A t \in Callers : Unsent(t) => call[t] # k
    BY <1>2 DEF Fresh, Unsent
  <1>4. k[2] < nextId[k[1]]
    BY <1>2 DEF Fresh
  <1>5. QED
    BY <1>1, <1>2, <1>3, <1>4 DEF Settled, Unsent, InHand

\* The end of a cancel settles the request whose future is about to fail.
LEMMA CancelledIsSettled ==
  ASSUME IInv, Fresh, NoFutureDropped, NEW p \in Pollers, InHand(p) \in pending,
         pollPc[p] = "fail", cur[p] \notin refused
  PROVE  Settled(InHand(p))
  <1>1. cur[p] \in Clients /\ rid[p] \in Ids /\ InHand(p) \in Requests
    BY DEF IInv, LocalsSet, Locked, InHand, Requests
  <1>2. Handling(p, cur[p]) /\ OwnershipOf(cur[p])
    BY <1>1 DEF IInv, Ownership, Handling
  <1>3. serving[cur[p]] = {} /\ \A t \in Callers : ~Sending(t, cur[p])
    BY <1>2 DEF OwnershipOf
  <1>4. future[InHand(p)] = "waiting"
    BY <1>1 DEF NoFutureDropped
  <1>5. ASSUME NEW t \in Callers, Unsent(t)
        PROVE  call[t] # InHand(p)
    BY <1>3, <1>4, <1>5 DEF Unsent, Fresh, Sending, InHand
  <1>6. QED
    BY <1>3, <1>5 DEF Settled, InHand

LEMMA IdsGrow ==
  ASSUME TypeOK, [Next]_vars, NEW k \in Requests, k[2] < nextId[k[1]]
  PROVE  k[2] < nextId'[k[1]]
  <1>1. k[1] \in Clients /\ k[2] \in Nat /\ \A c \in Clients : nextId[c] \in Nat
    BY SharedRpcAssumption DEF TypeOK, Requests, Ids
  <1>2. \A t \in Callers : CallerStep(t) =>
           \/ nextId' = nextId
           \/ \E c \in Clients : nextId' = [nextId EXCEPT ![c] = @ + 1]
    BY DEF CallerStep, CreateRequestPacket, CreateFuture, RejectFuture, CallRequest,
       CallRequestRefused, CallerFailPop, CallerSetException, native
  <1>3. \/ nextId' = nextId
        \/ \E c \in Clients : nextId' = [nextId EXCEPT ![c] = @ + 1]
    <2>1. ASSUME NEW p \in Pollers, PollerStep(p)
          PROVE  nextId' = nextId
      BY <2>1 DEF PollerStep, PollEvent, BeginPoll, PollNone, PollResponse, PollTimeout,
         PollCancelDone, TakeEvent, PollRaise, ResolvePop, SetResult, TimeoutGetPending,
         CancelRequest, CancelRequestRefused, MarkCanceling, CancelDoneGetPending,
         PollerFailPop, PollerSetException, EndPoll, native
    <2>2. QED
      BY <1>2, <2>1, OtherSteps
  <1>4. QED
    BY <1>1, <1>3 DEF TypeOK

LEMMA EndingsStep ==
  FuturesInv /\ [Next]_vars => Endings'
  <1> SUFFICES ASSUME FuturesInv, [Next]_vars
               PROVE  Endings'
    OBVIOUS
  <1>0. TypeOK /\ LocalsSet /\ PollMutex /\ IInv /\ Fresh /\ NoFutureDropped /\ CompletedOnce /\ Endings
    BY DEF FuturesInv, IInv
  <1>1. /\ future \in [Requests -> FutureStates]
        /\ pollPc \in [Pollers -> PollerPcs]
        /\ \A p \in Pollers : pollPc[p] \in {"resolve", "deliver", "raise"} => InHand(p) \in Requests
    BY <1>0 DEF TypeOK, LocalsSet, Locked, InHand, Requests
  \* What is settled when its event is in hand stays settled.
  <1>2. ASSUME NEW p \in Pollers, pollPc[p] \in {"resolve", "deliver"},
               NEW k \in Requests, k = InHand(p)
        PROVE  Settled(k)' /\ k[2] < nextId'[k[1]]
    <2>1. Settled(k) /\ k[2] < nextId[k[1]]
      BY <1>0, <1>2 DEF Endings, InHand
    <2>2. QED
      BY <1>0, <2>1, SettledStays, IdsGrow
  <1>3. ASSUME NEW p \in Pollers, NEW k \in Requests, k = InHand(p), cur[p] \notin refused,
               \/ pollPc[p] = "raise"
               \/ pollPc[p] = "fail" /\ k \in pending
        PROVE  Settled(k)'
    <2>1. Settled(k)
      BY <1>0, <1>3, CancelledIsSettled DEF Endings
    <2>2. future[k] = "waiting"
      BY <1>0, <1>3 DEF NoFutureDropped, Completing, InHand
    <2>3. QED
      BY <1>0, <2>1, <2>2, SettledStays DEF Fresh
  <1>4. ASSUME NEW k \in Requests,
               \/ future[k] = "result"
               \/ future[k] = "timeout" /\ k[1] \notin refused
        PROVE  Settled(k)'
    BY <1>0, <1>4, SettledStays DEF Endings, Fresh
  \* A poller that keeps its event.
  <1>5. ASSUME NEW q \in Pollers, pollPc'[q] = pollPc[q] /\ cur'[q] = cur[q] /\ rid'[q] = rid[q],
               refused \subseteq refused'
        PROVE  /\ pollPc'[q] \in {"resolve", "deliver"} =>
                     Settled(InHand(q))' /\ rid'[q] < nextId'[cur'[q]]
               /\ pollPc'[q] = "raise" /\ cur'[q] \notin refused' => Settled(InHand(q))'
    <2>1. ASSUME pollPc[q] \in {"resolve", "deliver", "raise"}
          PROVE  \E k \in Requests : k = InHand(q) /\ k = InHand(q)'
      BY <1>1, <1>5, <2>1 DEF InHand
    <2>2. ASSUME pollPc[q] \in {"resolve", "deliver"}
          PROVE  Settled(InHand(q))' /\ rid'[q] < nextId'[cur'[q]]
      <3>1. PICK k \in Requests : k = InHand(q) /\ k = InHand(q)'
        BY <2>1, <2>2
      <3>2. Settled(k)' /\ k[2] < nextId'[k[1]]
        BY <1>2, <2>2, <3>1
      <3>3. QED
        BY <3>1, <3>2 DEF Settled, InHand
    <2>3. ASSUME pollPc[q] = "raise", cur[q] \notin refused
          PROVE  Settled(InHand(q))'
      <3>1. PICK k \in Requests : k = InHand(q) /\ k = InHand(q)'
        BY <2>1, <2>3
      <3>2. Settled(k)'
        BY <1>3, <2>3, <3>1
      <3>3. QED
        BY <3>1, <3>2 DEF Settled, InHand
    <2>4. QED
      BY <1>5, <2>2, <2>3
  <1>6. ASSUME NEW t \in Callers, CallerStep(t)
        PROVE  Endings'
    <2>1. UNCHANGED <<pollPc, cur, rid, refused>>
      BY <1>6 DEF CallerStep, CreateRequestPacket, CreateFuture, RejectFuture, CallRequest,
         CallRequestRefused, CallerFailPop, CallerSetException, pollers, event, history
    <2>2. ASSUME NEW k \in Requests
          PROVE  \/ future'[k] = future[k]
                 \/ future'[k] \in {"waiting", "error"}
      <3>1. CASE CreateFuture(t)
        BY <1>1, <3>1 DEF CreateFuture
      <3>2. CASE CallerSetException(t)
        BY <1>1, <3>2 DEF CallerSetException, Complete
      <3>3. QED
        BY <1>6, <3>1, <3>2 DEF CallerStep, CreateRequestPacket, RejectFuture, CallRequest,
           CallRequestRefused, CallerFailPop, tables
    <2>3. QED
      BY <1>4, <1>5, <2>1, <2>2 DEF Endings
  <1>7. ASSUME NEW p \in Pollers, PollerStep(p)
        PROVE  Endings'
    <2>1. /\ refused \subseteq refused'
          /\ \A q \in Pollers \ {p} :
                pollPc'[q] = pollPc[q] /\ cur'[q] = cur[q] /\ rid'[q] = rid[q]
          /\ Quiet(p) \/ Responds(p) \/ Pops(p) \/ Finishes(p)
      BY <1>0, <1>7, PollerCases
    <2>2. /\ pollPc'[p] \in {"resolve", "deliver"} =>
                Settled(InHand(p))' /\ rid'[p] < nextId'[cur'[p]]
          /\ pollPc'[p] = "raise" /\ cur'[p] \notin refused' => Settled(InHand(p))'
      <3>1. CASE Quiet(p) \/ Finishes(p)
        BY <3>1 DEF Quiet, Finishes
      <3>2. CASE Responds(p)
        BY <1>0, <1>7, <3>2, RespondedIsSettled DEF Responds
      <3>3. CASE Pops(p) /\ InHand(p) \notin pending
        BY <3>3 DEF Pops
      <3>4. CASE Pops(p) /\ InHand(p) \in pending
        <4>1. PICK k \in Requests : k = InHand(p) /\ k = InHand(p)'
          BY <3>4 DEF Pops, InHand
        <4>2. CASE pollPc[p] = "resolve" /\ pollPc'[p] = "deliver"
          <5>1. Settled(k)' /\ k[2] < nextId'[k[1]]
            BY <1>2, <4>1, <4>2
          <5>2. QED
            BY <4>1, <4>2, <5>1 DEF Settled, InHand
        <4>3. CASE pollPc[p] = "fail" /\ pollPc'[p] = "raise"
          <5>1. ASSUME cur'[p] \notin refused'
                PROVE  Settled(k)'
            BY <1>3, <2>1, <3>4, <4>1, <4>3, <5>1 DEF Pops
          <5>2. QED
            BY <4>1, <4>3, <5>1 DEF Settled, InHand
        <4>4. QED
          BY <3>4, <4>2, <4>3 DEF Pops
      <3>5. QED
        BY <2>1, <3>1, <3>2, <3>3, <3>4
    <2>3. ASSUME NEW k \in Requests,
                 \/ future'[k] = "result"
                 \/ future'[k] = "timeout" /\ k[1] \notin refused'
          PROVE  Settled(k)'
      <3>1. CASE future'[k] = future[k]
        BY <1>4, <2>1, <2>3, <3>1
      <3>2. CASE future'[k] # future[k]
        <4>1. Finishes(p)
          BY <2>1, <3>2 DEF Quiet, Responds, Pops
        <4>2. /\ k = InHand(p)
              /\ pollPc[p] = "deliver" \/ (pollPc[p] = "raise" /\ future'[k] = why[p])
          BY <1>1, <3>2, <4>1 DEF Finishes, Complete
        <4>3. CASE pollPc[p] = "deliver"
          BY <1>2, <4>2, <4>3
        <4>4. CASE pollPc[p] = "raise" /\ future'[k] = why[p]
          <5>1. why[p] # "result"
            BY <1>0 DEF TypeOK, Failures
          <5>2. cur[p] \notin refused
            BY <2>1, <2>3, <4>2, <4>4, <5>1 DEF InHand
          <5>3. QED
            BY <1>3, <4>2, <4>4, <5>2
        <4>5. QED
          BY <4>2, <4>3, <4>4
      <3>3. QED
        BY <3>1, <3>2
    <2>4. QED
      BY <1>5, <2>1, <2>2, <2>3 DEF Endings
  <1>8. CASE ~(\E t \in Callers : CallerStep(t)) /\ ~(\E p \in Pollers : PollerStep(p))
    <2>1. /\ UNCHANGED <<future, refused, cur, rid>>
          /\ \A q \in Pollers : \/ pollPc'[q] = pollPc[q]
                                \/ pollPc'[q] \in {"off", "idle"}
      BY <1>0, <1>8, OtherSteps
    <2>2. QED
      BY <1>4, <1>5, <2>1 DEF Endings
  <1>9. QED
    BY <1>6, <1>7, <1>8

LEMMA FuturesInvariant == Spec => []FuturesInv
  <1>1. Init => FuturesInv
    <2> SUFFICES ASSUME Init PROVE FuturesInv
      OBVIOUS
    <2>1. IInv
      BY InvariantInit
    <2>2. Fresh /\ CompletedOnce
      BY DEF Init, Fresh, CompletedOnce, Ended, Requests, Unsent
    <2>3. NoFutureDropped /\ Endings
      BY DEF Init, NoFutureDropped, Completing, Endings, Ended
    <2>4. QED
      BY <2>1, <2>2, <2>3 DEF FuturesInv
  <1>2. FuturesInv /\ [Next]_vars => FuturesInv'
    <2> SUFFICES ASSUME FuturesInv, [Next]_vars PROVE FuturesInv'
      OBVIOUS
    <2>1. IInv'
      BY InvariantStep DEF FuturesInv
    <2>2. Fresh'
      BY FreshStep DEF FuturesInv, IInv
    <2>3. CompletedOnce' /\ NoFutureDropped'
      BY FuturesStep DEF FuturesInv, IInv
    <2>4. QED
      BY <2>1, <2>2, <2>3, EndingsStep DEF FuturesInv
  <1>3. QED
    BY <1>1, <1>2, PTL DEF Spec

\* An admitted request is in _pending, or with the one thread that popped it and
\* will complete its future, for exactly as long as the future is incomplete:
\* no path through call_async() and poll_once() loses a future.
THEOREM FuturesAreNotDropped == Spec => []NoFutureDropped
  BY FuturesInvariant, PTL DEF FuturesInv

\* A future completes with a result only from the answer to its own request:
\* resolve_future() never completes a request that is unsent or unanswered.
THEOREM ResultsAreOwn == Spec => []ResultIsOwn
  <1>1. FuturesInv => ResultIsOwn
    BY DEF FuturesInv, Endings, Settled, Unsent, ResultIsOwn
  <1>2. QED
    BY <1>1, FuturesInvariant, PTL

\* A caller that saw TimeoutError may retry at once, unless the native client
\* refused a cancel: the request that timed out is not served any more.
THEOREM TimeoutsAreSettled == Spec => []TimedOutIsSettled
  <1>1. FuturesInv => TimedOutIsSettled
    BY DEF FuturesInv, Endings, Settled, TimedOutIsSettled
  <1>2. QED
    BY <1>1, FuturesInvariant, PTL
=============================================================================
