----------------------------- MODULE SharedRpc -----------------------------
(***************************************************************************)
(* The process-wide RPC runtime of rpc/async_shared: SharedRpcRuntime with *)
(* its two pending tables, the AsyncRpcClientHandle threads that submit    *)
(* requests, and the threads that drive poll_once(), either the caller's   *)
(* own (manual mode) or the runtime's background thread.                   *)
(*                                                                         *)
(* A request is the pair <<c, r>> of a registered client (a service_id and *)
(* a client_id of the code) and the request id that the native client put  *)
(* in the packet header.  The native client behind hakopy is external: it  *)
(* holds the requests it still owes an answer for and reports one event    *)
(* per poll.                                                               *)
(***************************************************************************)
EXTENDS Naturals, FiniteSets

CONSTANTS
    Clients,        \* registered (service_id, client_id) slots
    Callers,        \* threads that use an AsyncRpcClientHandle
    Pollers,        \* threads that may run poll_once()
    MaxPending,     \* config.max_pending_requests
    NoClient,       \* no client in hand
    NoPoller,       \* no polling thread
    MaxId           \* bound on the request ids of one client

NoReq == 0
Ids == 1..MaxId
Requests == Clients \X Ids
NoRequest == <<NoClient, NoReq>>

ASSUME SharedRpcAssumption ==
    /\ IsFiniteSet(Clients)
    /\ NoClient \notin Clients
    /\ NoPoller \notin Pollers
    /\ MaxPending \in Nat \ {0}
    /\ MaxId \in Nat

VARIABLES
    mode,        \* config.mode, fixed when the runtime is built
    registered,  \* keys of _client_contexts
    pending,     \* keys of _pending
    guard,       \* _pending_by_client: the request id of the entry, or NoReq
    state,       \* PendingRequest.state of every request ever admitted
    future,      \* RpcCallFuture of every request ever admitted
    pollLock,    \* holder of _poll_lock
    bgThread,    \* _background_thread
    bgStop,      \* _background_stop.is_set()
    callPc,      \* per caller: its place in call_async()
    call,        \* per caller: the request <<client, id>> it submits
    pollPc,      \* per poller: its place in poll_once()
    todo,        \* per poller: the contexts it has yet to poll
    cur,         \* per poller: the client of the event in hand
    rid,         \* per poller: the request id of the event in hand
    why,         \* per poller: the exception fail_future() is given
    nextId,      \* native: the next request id of each client
    serving,     \* native: requests sent and neither answered nor cancelled
    cancelling,  \* native: a cancel of the outstanding request is under way
    refused,     \* history: clients whose cancel_request() returned False
    undecoded    \* history: clients whose response could not be decoded

tables == <<pending, guard, state, future>>
native == <<nextId, serving, cancelling>>
callers == <<callPc, call>>
event == <<cur, rid, why>>
pollers == <<pollPc, todo, event>>
thread == <<bgThread, bgStop>>
history == <<refused, undecoded>>
vars == <<mode, registered, tables, pollLock, thread, callers, pollers, native, history>>

FutureStates == {"none", "waiting", "result", "timeout", "error"}
Failures == {"timeout", "error"}
CallerPcs == {"idle", "create", "send", "fail", "raise"}
\* The program points of poll_once() at which the thread holds _poll_lock.
Locked == {"scan", "resolve", "deliver", "timedOut", "cancel", "mark",
           "cancelDone", "fail", "raise"}
PollerPcs == {"off", "idle"} \cup Locked

Modes == {"manual", "background"}

TypeOK ==
    /\ mode \in Modes
    /\ registered \subseteq Clients
    /\ pending \subseteq Requests
    /\ guard \in [Clients -> Ids \cup {NoReq}]
    /\ state \in [Requests -> {"none", "DOING", "CANCELING", "DONE", "ERROR"}]
    /\ future \in [Requests -> FutureStates]
    /\ pollLock \in Pollers \cup {NoPoller}
    /\ bgThread \in Pollers \cup {NoPoller}
    /\ bgStop \in BOOLEAN
    /\ callPc \in [Callers -> CallerPcs]
    /\ call \in [Callers -> Requests \cup {NoRequest}]
    /\ pollPc \in [Pollers -> PollerPcs]
    /\ todo \in [Pollers -> SUBSET Clients]
    /\ cur \in [Pollers -> Clients \cup {NoClient}]
    /\ rid \in [Pollers -> Ids \cup {NoReq}]
    /\ why \in [Pollers -> Failures]
    /\ nextId \in [Clients -> 1..(MaxId + 1)]
    /\ serving \in [Clients -> SUBSET Ids]
    /\ cancelling \in [Clients -> BOOLEAN]
    /\ refused \subseteq Clients
    /\ undecoded \subseteq Clients

\* Where a thread is left by the end of poll_once(), by an exception in it or
\* before it: only a background thread ends.
Ended == IF mode = "background" THEN "off" ELSE "idle"

Init ==
    /\ mode \in Modes
    /\ registered = {}
    /\ pending = {}
    /\ guard = [c \in Clients |-> NoReq]
    /\ state = [k \in Requests |-> "none"]
    /\ future = [k \in Requests |-> "none"]
    /\ pollLock = NoPoller
    /\ bgThread = NoPoller
    /\ bgStop = FALSE
    /\ callPc = [t \in Callers |-> "idle"]
    /\ call = [t \in Callers |-> NoRequest]
    /\ pollPc = [p \in Pollers |-> Ended]
    /\ todo = [p \in Pollers |-> {}]
    /\ cur = [p \in Pollers |-> NoClient]
    /\ rid = [p \in Pollers |-> NoReq]
    /\ why = [p \in Pollers |-> "error"]
    /\ nextId = [c \in Clients |-> 1]
    /\ serving = [c \in Clients |-> {}]
    /\ cancelling = [c \in Clients |-> FALSE]
    /\ refused = {}
    /\ undecoded = {}

-----------------------------------------------------------------------------
(* The tables, each operation under _pending_lock. *)

\* Mutant: the client's entry stays in _pending_by_client.
MutPopKeepsGuard(c, r) == pending' = pending \ {<<c, r>>} /\ guard' = guard

\* resolve_future and fail_future start alike: pop the request's own entry,
\* and pop whatever entry the client has in _pending_by_client.
PopPending(c, r) ==
    /\ pending' = pending \ {<<c, r>>}
    /\ guard' = [guard EXCEPT ![c] = NoReq]

\* Mutant: no in-flight check.
MutAdmitAlways(c) == c \in Clients /\ Cardinality(pending) < MaxPending

Admissible(c) ==
    /\ Cardinality(pending) < MaxPending
    /\ guard[c] = NoReq

InFlightState(c) == state[<<c, guard[c]>>]

\* The client has an entry in _pending_by_client.
\* Mutant: one that is being cancelled does not count.
MutUnlessCanceling(c) == guard[c] # NoReq /\ InFlightState(c) # "CANCELING"
InFlight(c) == guard[c] # NoReq

\* Mutant: the exception is recorded but waiters are not woken.
MutNeverDone(k, outcome) ==
    future' = IF outcome = "error" THEN future ELSE [future EXCEPT ![k] = outcome]

\* RpcCallFuture.set_result and set_exception: the first completion wins.
Complete(k, outcome) ==
    future' = [future EXCEPT ![k] = IF @ = "waiting" THEN outcome ELSE @]

-----------------------------------------------------------------------------
(* Client threads. *)

\* register_client(), under _registration_lock; a second registration of the
\* same key returns the cached context and changes nothing.
RegisterClient(c) ==
    /\ c \notin registered
    /\ registered' = registered \cup {c}
    /\ UNCHANGED <<mode, history, tables, pollLock, thread, callers, pollers, native>>

CallerGoes(t, from, to) ==
    /\ callPc[t] = from
    /\ callPc' = [callPc EXCEPT ![t] = to]

CallerReturns(t, from) ==
    /\ CallerGoes(t, from, "idle")
    /\ call' = [call EXCEPT ![t] = NoRequest]

\* The request id that the native client puts in the next packet header.
\* Mutant: the one after it.
MutNextId(c) == nextId[c] + 1
PacketId(c) == nextId[c]

\* _create_request_packet(): the native client fills in the request id.
CreateRequestPacket(t, c) ==
    /\ CallerGoes(t, "idle", "create")
    /\ c \in registered
    /\ nextId[c] \in Ids
    /\ nextId' = [nextId EXCEPT ![c] = @ + 1]
    /\ call' = [call EXCEPT ![t] = <<c, PacketId(c)>>]
    /\ UNCHANGED <<mode, history, registered, tables, pollLock, thread, pollers, serving, cancelling>>

\* create_future(), accepted.
CreateFuture(t) ==
    LET k == call[t]
    IN  /\ CallerGoes(t, "create", "send")
        /\ Admissible(k[1])
        /\ pending' = pending \cup {k}
        /\ guard' = [guard EXCEPT ![k[1]] = k[2]]
        /\ state' = [state EXCEPT ![k] = "DOING"]
        /\ future' = [future EXCEPT ![k] = "waiting"]
        /\ UNCHANGED <<mode, history, registered, call, pollLock, thread, pollers, native>>

\* create_future() raising: the table is full or the client is in flight.
RejectFuture(t) ==
    /\ CallerReturns(t, "create")
    /\ ~Admissible(call[t][1])
    /\ UNCHANGED <<mode, history, registered, tables, pollLock, thread, pollers, native>>

\* call_request() returning True; call_async() returns the future.
CallRequest(t) ==
    LET k == call[t]
    IN  /\ CallerReturns(t, "send")
        /\ serving' = [serving EXCEPT ![k[1]] = @ \cup {k[2]}]
        /\ cancelling' = [cancelling EXCEPT ![k[1]] = FALSE]
        /\ UNCHANGED <<mode, history, registered, tables, pollLock, thread, pollers, nextId>>

\* call_request() returning False: call_async() goes on to fail_future().
CallRequestRefused(t) ==
    /\ CallerGoes(t, "send", "fail")
    /\ UNCHANGED <<mode, history, registered, call, tables, pollLock, thread, pollers, native>>

\* fail_future() called by call_async(): the pop, then the completion.
CallerFailPop(t) ==
    /\ \/ /\ CallerGoes(t, "fail", "raise")
          /\ UNCHANGED call
          /\ call[t] \in pending
          /\ state' = [state EXCEPT ![call[t]] = "ERROR"]
       \/ /\ CallerReturns(t, "fail")
          /\ call[t] \notin pending
          /\ UNCHANGED state
    /\ PopPending(call[t][1], call[t][2])
    /\ UNCHANGED <<mode, history, registered, future, pollLock, thread, pollers, native>>

CallerSetException(t) ==
    /\ CallerReturns(t, "raise")
    /\ Complete(call[t], "error")
    /\ UNCHANGED <<mode, history, registered, pending, guard, state, pollLock, thread, pollers, native>>

-----------------------------------------------------------------------------
(* poll_once(). *)

PollerGoes(p, from, to) ==
    /\ pollPc[p] = from
    /\ pollPc' = [pollPc EXCEPT ![p] = to]

ForgetEvent(p) ==
    /\ cur' = [cur EXCEPT ![p] = NoClient]
    /\ rid' = [rid EXCEPT ![p] = NoReq]
    /\ why' = [why EXCEPT ![p] = "error"]

\* The poller is done with its event and turns to the next context.
NextContext(p, from) ==
    /\ PollerGoes(p, from, "scan")
    /\ ForgetEvent(p)

\* Mutant: poll_once() without _poll_lock.
MutNoLock == TRUE
PollLockFree == pollLock = NoPoller

BeginPoll(p) ==
    /\ PollerGoes(p, "idle", "scan")
    /\ mode = "background" => ~bgStop
    /\ PollLockFree
    /\ pollLock' = p
    /\ todo' = [todo EXCEPT ![p] = registered]
    /\ UNCHANGED <<mode, history, registered, tables, thread, callers, event, native>>

\* The next context of the scan reports an event that is handled at program
\* point pc; r is the request id of the response packet, if there is one.
TakeEvent(p, c, pc, r) ==
    /\ PollerGoes(p, "scan", pc)
    /\ c \in todo[p]
    /\ todo' = [todo EXCEPT ![p] = @ \ {c}]
    /\ cur' = [cur EXCEPT ![p] = c]
    /\ rid' = [rid EXCEPT ![p] = r]
    /\ UNCHANGED <<mode, history, registered, tables, pollLock, thread, callers, why, nextId>>

PollNone(p, c) ==
    /\ pollPc[p] = "scan"
    /\ c \in todo[p]
    /\ todo' = [todo EXCEPT ![p] = @ \ {c}]
    /\ UNCHANGED <<mode, history, registered, tables, pollLock, thread, callers, pollPc, event, native>>

PollResponse(p, c) ==
    \E r \in serving[c] :
        /\ TakeEvent(p, c, "resolve", r)
        /\ serving' = [serving EXCEPT ![c] = @ \ {r}]
        /\ cancelling' = [cancelling EXCEPT ![c] = FALSE]

PollTimeout(p, c) ==
    /\ serving[c] # {}
    /\ TakeEvent(p, c, "timedOut", NoReq)
    /\ UNCHANGED <<serving, cancelling>>

PollCancelDone(p, c) ==
    /\ cancelling[c]
    /\ \E r \in serving[c] : serving' = [serving EXCEPT ![c] = @ \ {r}]
    /\ TakeEvent(p, c, "cancelDone", NoReq)
    /\ cancelling' = [cancelling EXCEPT ![c] = FALSE]

\* get_response() or the decoder raises: poll_once() propagates it, which
\* ends a background thread.
PollRaise(p) ==
    /\ PollerGoes(p, "resolve", Ended)
    /\ ForgetEvent(p)
    /\ todo' = [todo EXCEPT ![p] = {}]
    /\ pollLock' = NoPoller
    /\ undecoded' = undecoded \cup {cur[p]}
    /\ UNCHANGED <<mode, refused, registered, tables, thread, callers, native>>

\* The pending key of the response in hand: client and header.request_id.
\* Mutant: the client's request in flight.
MutInFlightKey(p) == <<cur[p], guard[cur[p]]>>
ResponseKey(p) == <<cur[p], rid[p]>>

\* resolve_future(): the pop under the lock, then set_result() outside it.
ResolvePop(p) ==
    LET k == ResponseKey(p)
    IN  /\ \/ /\ PollerGoes(p, "resolve", "deliver")
              /\ UNCHANGED event
              /\ k \in pending
              /\ state' = [state EXCEPT ![k] = "DONE"]
           \/ /\ NextContext(p, "resolve")
              /\ k \notin pending
              /\ UNCHANGED state
        /\ PopPending(k[1], k[2])
        /\ UNCHANGED <<mode, history, registered, future, pollLock, thread, callers, todo, native>>

SetResult(p) ==
    /\ NextContext(p, "deliver")
    /\ Complete(ResponseKey(p), "result")
    /\ UNCHANGED <<mode, history, registered, pending, guard, state, pollLock, thread, callers, todo, native>>

\* _handle_timeout_event(): look the entry up and leave unless it is DOING.
TimeoutGetPending(p) ==
    LET c == cur[p]
    IN  /\ \/ /\ PollerGoes(p, "timedOut", "cancel")
              /\ InFlight(c)
              /\ InFlightState(c) # "CANCELING"
              /\ rid' = [rid EXCEPT ![p] = guard[c]]
              /\ UNCHANGED <<cur, why>>
           \/ /\ NextContext(p, "timedOut")
              /\ InFlight(c) => InFlightState(c) = "CANCELING"
        /\ UNCHANGED <<mode, history, registered, tables, pollLock, thread, callers, todo, native>>

\* manager.cancel_request(): True starts a cancel, False fails the future.
CancelRequest(p) ==
    /\ PollerGoes(p, "cancel", "mark")
    /\ cancelling' = [cancelling EXCEPT ![cur[p]] = TRUE]
    /\ UNCHANGED <<mode, history, registered, tables, pollLock, thread, callers, todo, event, nextId, serving>>

CancelRequestRefused(p) ==
    /\ PollerGoes(p, "cancel", "fail")
    /\ why' = [why EXCEPT ![p] = "error"]
    /\ refused' = refused \cup {cur[p]}
    /\ UNCHANGED <<mode, undecoded, registered, tables, pollLock, thread, callers, todo, cur, rid, native>>

\* Mutant: the future fails as soon as the cancel has begun.
MutFailAtCancel(p) ==
    /\ PollerGoes(p, "mark", "fail")
    /\ why' = [why EXCEPT ![p] = "timeout"]
    /\ UNCHANGED <<mode, history, registered, tables, pollLock, thread, callers, todo, cur, rid, native>>

MarkCanceling(p) ==
    LET k == <<cur[p], rid[p]>>
    IN  /\ NextContext(p, "mark")
        /\ state' = IF k \in pending
                    THEN [state EXCEPT ![k] = "CANCELING"] ELSE state
        /\ UNCHANGED <<mode, history, registered, pending, guard, future, pollLock, thread, callers, todo, native>>

\* _handle_cancel_done_event(): with the reason recorded when the cancel began.
CancelDoneGetPending(p) ==
    LET c == cur[p]
    IN  /\ \/ /\ PollerGoes(p, "cancelDone", "fail")
              /\ InFlight(c)
              /\ rid' = [rid EXCEPT ![p] = guard[c]]
              /\ why' = [why EXCEPT ![p] = IF InFlightState(c) = "CANCELING"
                                           THEN "timeout" ELSE "error"]
              /\ UNCHANGED cur
           \/ /\ NextContext(p, "cancelDone")
              /\ ~InFlight(c)
        /\ UNCHANGED <<mode, history, registered, tables, pollLock, thread, callers, todo, native>>

\* fail_future() called by a poller.
PollerFailPop(p) ==
    LET k == <<cur[p], rid[p]>>
    IN  /\ \/ /\ PollerGoes(p, "fail", "raise")
              /\ UNCHANGED event
              /\ k \in pending
              /\ state' = [state EXCEPT ![k] = "ERROR"]
           \/ /\ NextContext(p, "fail")
              /\ k \notin pending
              /\ UNCHANGED state
        /\ PopPending(cur[p], rid[p])
        /\ UNCHANGED <<mode, history, registered, future, pollLock, thread, callers, todo, native>>

PollerSetException(p) ==
    /\ NextContext(p, "raise")
    /\ Complete(<<cur[p], rid[p]>>, why[p])
    /\ UNCHANGED <<mode, history, registered, pending, guard, state, pollLock, thread, callers, todo, native>>

EndPoll(p) ==
    /\ PollerGoes(p, "scan", "idle")
    /\ todo[p] = {}
    /\ pollLock' = NoPoller
    /\ UNCHANGED <<mode, history, registered, tables, thread, callers, todo, event, native>>

-----------------------------------------------------------------------------
(* The background thread. *)

Alive(p) == pollPc[p] # "off"

\* One thread controls the poller, so no start falls inside a stop.
StartBackgroundPolling(p) ==
    /\ mode = "background"
    /\ bgThread # NoPoller => ~Alive(bgThread) /\ ~bgStop
    /\ PollerGoes(p, "off", "idle")
    /\ bgStop' = FALSE
    /\ bgThread' = p
    /\ UNCHANGED <<mode, history, registered, tables, pollLock, callers, todo, event, native>>

\* stop_background_polling(), first half: the stop event is set.
StopRequest ==
    /\ mode = "background"
    /\ ~bgStop
    /\ bgStop' = TRUE
    /\ UNCHANGED <<mode, history, registered, tables, pollLock, bgThread, callers, pollers, native>>

\* Second half: join(timeout=1.0) returns when the thread has ended, or gives
\* up on a thread that is inside poll_once() or waits for its lock; either way
\* the handle is dropped.
StopJoined ==
    /\ bgStop
    /\ bgThread # NoPoller
    /\ Alive(bgThread) => pollLock # NoPoller
    /\ bgThread' = NoPoller
    /\ UNCHANGED <<mode, history, registered, tables, pollLock, bgStop, callers, pollers, native>>

\* _background_loop() observing the stop event.
BackgroundExit(p) ==
    /\ mode = "background"
    /\ bgStop
    /\ PollerGoes(p, "idle", "off")
    /\ UNCHANGED <<mode, history, registered, tables, pollLock, thread, callers, todo, event, native>>

-----------------------------------------------------------------------------
CallerStep(t) ==
    \/ \E c \in Clients : CreateRequestPacket(t, c)
    \/ CreateFuture(t)
    \/ RejectFuture(t)
    \/ CallRequest(t)
    \/ CallRequestRefused(t)
    \/ CallerFailPop(t)
    \/ CallerSetException(t)

PollEvent(p) ==
    \E c \in Clients :
        \/ PollNone(p, c)
        \/ PollResponse(p, c)
        \/ PollTimeout(p, c)
        \/ PollCancelDone(p, c)

PollerStep(p) ==
    \/ BeginPoll(p)
    \/ PollEvent(p)
    \/ PollRaise(p)
    \/ ResolvePop(p)
    \/ SetResult(p)
    \/ TimeoutGetPending(p)
    \/ CancelRequest(p)
    \/ CancelRequestRefused(p)
    \/ MarkCanceling(p)
    \/ CancelDoneGetPending(p)
    \/ PollerFailPop(p)
    \/ PollerSetException(p)
    \/ EndPoll(p)

ThreadControl ==
    \/ \E p \in Pollers : StartBackgroundPolling(p) \/ BackgroundExit(p)
    \/ StopRequest
    \/ StopJoined

Next ==
    \/ \E c \in Clients : RegisterClient(c)
    \/ \E t \in Callers : CallerStep(t)
    \/ \E p \in Pollers : PollerStep(p)
    \/ ThreadControl

Spec == Init /\ [][Next]_vars

-----------------------------------------------------------------------------
(* Fairness.  A caller that has entered call_async() and a thread inside   *)
(* poll_once() run to the end, the manual caller keeps polling, and the    *)
(* native client ends a request by a response, or by a timeout and then,   *)
(* once it accepted a cancel, by a response or the end of the cancel.      *)

PollProgress(p, c) ==
    \/ PollResponse(p, c)
    \/ PollTimeout(p, c) /\ ~cancelling[c]
    \/ PollCancelDone(p, c)

Fairness ==
    /\ \A t \in Callers :
          WF_vars(CreateFuture(t) \/ RejectFuture(t) \/ CallRequest(t)
                    \/ CallRequestRefused(t) \/ CallerFailPop(t) \/ CallerSetException(t))
    /\ \A p \in Pollers :
          /\ SF_vars(BeginPoll(p))
          /\ WF_vars(PollerStep(p) /\ pollPc[p] # "idle")
          /\ \A c \in Clients : SF_vars(PollProgress(p, c))

FairSpec == Spec /\ Fairness

-----------------------------------------------------------------------------
(* Properties. *)

\* The in-flight guard of a client always names an entry of _pending: a
\* timeout or cancel event, which finds its request through the guard, never
\* acts on a request that was completed already.
GuardIsPending ==
    \A c \in Clients : guard[c] # NoReq => <<c, guard[c]>> \in pending

\* As long as the native client never refused a cancel, no two entries of
\* _pending belong to the same client: no late answer lifts the in-flight
\* guard of a request it does not belong to.
OneInFlightUnlessRefused ==
    \A j, k \in pending : j[1] = k[1] /\ j[1] \notin refused => j = k

\* The design's rule without that proviso: at most one request in flight per
\* registered client.
OneInFlight ==
    \A j, k \in pending : j[1] = k[1] => j = k

\* A caller that saw its future end with TimeoutError may retry at once: the
\* native client, if it never refused a cancel, no longer serves the request.
TimedOutIsSettled ==
    \A k \in Requests :
        future[k] = "timeout" /\ k[1] \notin refused => k[2] \notin serving[k[1]]

\* Each admitted request is in _pending, or with the one thread that popped it
\* and is about to complete it, exactly until its future completes.
Completing(k) ==
    \/ \E t \in Callers : callPc[t] = "raise" /\ k = call[t]
    \/ \E p \in Pollers : pollPc[p] \in {"deliver", "raise"} /\ k = <<cur[p], rid[p]>>

NoFutureDropped ==
    \A k \in Requests :
        future[k] = "waiting" <=> (k \in pending \/ Completing(k))

\* A future completes with a result only from the answer to its own request:
\* the request was sent, and the native client owes no answer for it any more.
ResultIsOwn ==
    \A k \in Requests : future[k] = "result" =>
        /\ k[2] \notin serving[k[1]]
        /\ \A t \in Callers : call[t] = k => callPc[t] \notin {"create", "send", "fail"}

\* poll_once() has one thread in it at a time, even when a background thread
\* outlives the join of stop_background_polling() and a second one is started.
PollMutex ==
    \A p \in Pollers : pollPc[p] \in Locked <=> pollLock = p

\* Every admitted request completes its future while poll_once() is driven
\* manually, if the native client accepts the cancel of a timed-out request and
\* its responses can be decoded.
EveryFutureCompletes ==
    \A k \in Requests :
        (future[k] = "waiting" /\ mode = "manual") ~>
            (future[k] # "waiting" \/ k[1] \in refused \cup undecoded)
=============================================================================
