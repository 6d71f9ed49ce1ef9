--------------------------- MODULE RpcCallsProofs ---------------------------
(***************************************************************************)
(* RemoteRpc implements RpcCalls on one connection, for any number of      *)
(* slots and calls, when the program makes one call at a time.             *)
(*                                                                         *)
(* The step that needs an invariant is the answer: RpcCalls lets a call    *)
(* return only after its handler ran, RemoteRpc lets it return with any    *)
(* message that has its id.  On its first connection the only other        *)
(* message a slot can be sent is the reply to its registration, which has  *)
(* id 0, and Registrations, of RemoteRpcProofs, shows that this one is     *)
(* consumed, or will not come, once the slot is registered.                *)
(***************************************************************************)
EXTENDS RemoteRpcProofs

\* The request ids of a slot are taken in order.
Known == \A c \in Calls : caller[c] = "new" <=> c[3] >= counter[c[2]]

\* A call that the program waits for is the last one of its slot.
OnlyLastWaits ==
    \A c \in Calls : caller[c] = "waiting" => Waiting(c[2]) /\ c = LastCall(c[2])

\* Responses are those of calls whose handler has been started.
Answered(m) == m.kind = "call" => CallOf(m) \in ran

Answers ==
    /\ serverPc # "poll" => job.kind = "call" /\ CallOf(job) \in ran
    /\ \A m \in InQueue(toClient) : Answered(m)
    /\ \A s \in Slots : replies[s] # NoMessage => Answered(replies[s])

\* The handler tasks that have not run are those of registrations.
OnlyRegistrations == \A m \in InQueue(tasks) : m.kind = "register"

CallsInv == Known /\ OnlyLastWaits /\ OnlyRegistrations /\ Answers

-----------------------------------------------------------------------------
LEMMA OneConnection ==
  ASSUME MaxConn = 1, TypeOK
  PROVE  /\ conn = 1 /\ ~Restart
         /\ \A c \in Calls : c = <<conn, c[2], c[3]>> /\ c[2] \in Slots /\ c[3] \in Ids
         /\ \A m \in Messages : m.conn = conn
         /\ late \subseteq {conn}
  BY DEF TypeOK, ClientTypes, RegistrationTypes, Conns, Calls, Messages, Restart

\* What the steps of a slot do to the calls.
CallSteps(s) ==
    \/ UNCHANGED <<counter, caller>> /\ \A u \in Slots : Waiting(u) => Waiting(u)'
    \/ /\ \/ caller' = [caller EXCEPT ![<<conn, s, counter[s]>>] = "failed"] /\ pc' = pc
          \/ /\ caller' = [caller EXCEPT ![<<conn, s, counter[s]>>] = "waiting"]
             /\ pc' = [pc EXCEPT ![s] = "sending"]
       /\ NewRequest(s)
    \/ /\ Waiting(s) /\ pc' = [pc EXCEPT ![s] = "ready"] /\ counter' = counter
       /\ \/ caller' = [caller EXCEPT ![LastCall(s)] = "failed"]
          \/ /\ caller' = [caller EXCEPT ![LastCall(s)] = "answered"]
             /\ replies[current] # NoMessage /\ replies[current].id = LastId(s)

LEMMA SlotSteps ==
  ASSUME TypeOK, ClientTypes, NEW s \in Slots, ClientStep(s)
  PROVE  CallSteps(s) /\ conn' = conn
  <1> USE DEF TypeOK, ClientTypes, program, client, history, CallSteps
  <1>1. CASE RegisterSend(s) \/ RegisterReply(s) \/ RegisterTimeout(s)
    BY <1>1 DEF RegisterSend, RegisterReply, RegisterTimeout, Goes, Waiting
  <1>2. CASE CallSent(s)
    BY <1>2 DEF CallSent, Goes, Waiting
  <1>3. CASE CallRefused(s) \/ CallBegin(s)
    BY <1>3 DEF CallRefused, CallBegin, Goes
  <1>4. CASE CallNotSent(s) \/ PollTimeout(s)
    BY <1>4 DEF CallNotSent, PollTimeout, Goes, Waiting
  <1>5. CASE PollResponse(s)
    BY <1>5 DEF PollResponse, Waiting
  <1>6. QED
    BY <1>1, <1>2, <1>3, <1>4, <1>5 DEF ClientStep

LEMMA KnownStep ==
  ASSUME MaxConn = 1, Typed, Known, OnlyLastWaits, [Next]_vars
  PROVE  Known' /\ OnlyLastWaits'
  <1> USE OneConnection DEF Typed
  <1>1. ASSUME UNCHANGED <<conn, counter, caller>>, \A u \in Slots : Waiting(u) => Waiting(u)'
        PROVE  Known' /\ OnlyLastWaits'
    BY <1>1 DEF Known, OnlyLastWaits, LastCall, LastId
  <1>2. ASSUME NEW s \in Slots, ClientStep(s) PROVE Known' /\ OnlyLastWaits'
    <2>0. /\ CallSteps(s) /\ conn' = conn /\ counter[s] \in Nat
          /\ caller \in [Calls -> {"new", "waiting", "answered", "failed"}]
      BY <1>2, SlotSteps, IdsTyped DEF TypeOK, ClientTypes
    <2>1. CASE NewRequest(s)
                 /\ \/ caller' = [caller EXCEPT ![<<conn, s, counter[s]>>] = "failed"] /\ pc' = pc
                    \/ /\ caller' = [caller EXCEPT ![<<conn, s, counter[s]>>] = "waiting"]
                       /\ pc' = [pc EXCEPT ![s] = "sending"]
      <3> DEFINE k == <<conn, s, counter[s]>>
      <3>1. k \in Calls /\ counter' = [counter EXCEPT ![s] = @ + 1] /\ pc[s] = "ready"
        BY <2>1, IdsTyped DEF NewRequest
      <3>2. \A c \in Calls : c # k => caller'[c] = caller[c]
        BY <2>0, <2>1
      <3>3. caller'[k] \in {"failed", "waiting"} /\ (caller'[k] = "waiting" => Waiting(s)')
        BY <2>1, <3>1 DEF TypeOK, ClientTypes, Waiting
      <3>4. ASSUME NEW c \in Calls, c # k
            PROVE  c[3] >= counter[c[2]] <=> c[3] >= counter'[c[2]]
        <4>1. c[2] = s => c[3] # counter[s]
          BY <3>4
        <4>2. c[3] \in Nat /\ counter'[s] = counter[s] + 1
          BY <3>1, Parameters DEF TypeOK, ClientTypes
        <4>3. QED
          <5>1. c[2] # s => counter'[c[2]] = counter[c[2]]
            BY <3>1 DEF TypeOK, ClientTypes
          <5>2. QED
            BY <2>0, <4>1, <4>2, <5>1
      <3>5. ~(k[3] >= counter'[k[2]]) /\ LastCall(s)' = k
        <4>1. counter'[s] = counter[s] + 1
          BY <3>1 DEF TypeOK, ClientTypes
        <4>2. k[2] = s /\ k[3] = counter[s]
          OBVIOUS
        <4>3. LastCall(s)' = <<conn, s, counter[s]>>
          BY <2>0, <4>1 DEF LastCall, LastId
        <4>4. QED
          BY <2>0, <4>1, <4>2, <4>3
      <3>6. Known'
        BY <3>2, <3>3, <3>4, <3>5 DEF Known
      <3>7. ASSUME NEW c \in Calls, c # k, caller'[c] = "waiting"
            PROVE  Waiting(c[2])' /\ c = LastCall(c[2])'
        <4>1. Waiting(c[2]) /\ c = LastCall(c[2])
          BY <3>2, <3>7 DEF OnlyLastWaits
        <4>2. c[2] # s
          BY <3>1, <4>1 DEF Waiting
        <4>3. QED
          BY <2>0, <2>1, <3>1, <4>1, <4>2 DEF TypeOK, ClientTypes, Waiting, LastCall, LastId
      <3>8. QED
        BY <3>3, <3>5, <3>6, <3>7 DEF OnlyLastWaits
    <2>2. CASE /\ Waiting(s) /\ pc' = [pc EXCEPT ![s] = "ready"] /\ counter' = counter
               /\ \/ caller' = [caller EXCEPT ![LastCall(s)] = "failed"]
                  \/ caller' = [caller EXCEPT ![LastCall(s)] = "answered"]
      <3>1. LastCall(s) \in Calls /\ caller[LastCall(s)] = "waiting"
        BY <2>2, IdsTyped DEF InCall
      <3>2. \A c \in Calls : c # LastCall(s) => caller'[c] = caller[c]
        BY <2>0, <2>2
      <3>3. caller'[LastCall(s)] \in {"failed", "answered"}
        BY <2>2, <3>1 DEF TypeOK, ClientTypes
      <3>4. Known'
        BY <2>2, <3>1, <3>2, <3>3 DEF Known
      <3>5. ASSUME NEW c \in Calls, caller'[c] = "waiting"
            PROVE  Waiting(c[2])' /\ c = LastCall(c[2])'
        <4>1. c # LastCall(s) /\ Waiting(c[2]) /\ c = LastCall(c[2])
          BY <3>2, <3>3, <3>5 DEF OnlyLastWaits
        <4>2. QED
          BY <2>0, <2>2, <4>1 DEF TypeOK, ClientTypes, Waiting, LastCall, LastId
      <3>6. QED
        BY <3>4, <3>5 DEF OnlyLastWaits
    <2>3. QED
      BY <1>1, <2>0, <2>1, <2>2 DEF CallSteps
  <1>3. CASE ClientReceive
    BY <1>1, <1>3 DEF ClientReceive, program, Waiting, history
  <1>4. QED
    BY <1>1, <1>2, <1>3, StepChanges DEF Changes, client, Waiting

LEMMA AtMostAppended ==
  ASSUME NEW S, NEW q \in Seq(S), NEW e \in S, NEW r, r = q \/ r = Append(q, e)
  PROVE  InQueue(r) \subseteq InQueue(q) \cup {e}
  <1>1. CASE r = q
    BY <1>1
  <1>2. CASE r = Append(q, e)
    BY <1>2, AppendToQueue
  <1>3. QED
    BY <1>1, <1>2

LEMMA AnswersStep ==
  ASSUME Typed, Once, OnlyRegistrations, Answers, [Next]_vars
  PROVE  Answers'
  <1> USE DEF program, client, network, server
  <1>0. /\ toClient \in Seq(Messages) /\ replies \in [Slots -> Messages \cup {NoMessage}]
        /\ ran \subseteq ran'
    BY HistoryGrows DEF Typed, TypeOK, ClientTypes, NetworkTypes
  <1>1. ASSUME UNCHANGED <<serverPc, job>> \/ serverPc' = "poll",
               InQueue(toClient') \subseteq InQueue(toClient),
               \A s \in Slots : replies'[s] \in {replies[s], NoMessage}
        PROVE  Answers'
    BY <1>0, <1>1 DEF Answers, Answered, CallOf
  <1>2. ASSUME NEW s \in Slots, ClientStep(s) PROVE Answers'
    <2>1. \A u \in Slots : replies'[u] \in {replies[u], NoMessage}
      BY <1>0, <1>2 DEF ClientStep, RegisterSend, RegisterReply, RegisterTimeout, CallRefused,
         CallBegin, CallSent, CallNotSent, PollResponse, PollTimeout, TakeReply
    <2>2. UNCHANGED <<toClient, serverPc, job>>
      BY <1>2 DEF ClientStep, RegisterSend, RegisterReply, RegisterTimeout, CallRefused,
         CallBegin, CallSent, CallNotSent, PollResponse, PollTimeout
    <2>3. QED
      BY <1>1, <2>1, <2>2
  <1>3. CASE ClientReceive
    <2>1. PICK m \in Messages :
            Answered(m) /\ replies' = [replies EXCEPT ![m.slot] = m]
      BY <1>0, <1>3, TailOfQueue DEF ClientReceive, Answers
    <2>2. m.slot \in Slots
      BY CallOfMessage
    <2>3. InQueue(toClient') \subseteq InQueue(toClient) /\ UNCHANGED <<serverPc, job>> /\ ran' = ran
      BY <1>0, <1>3, TailOfQueue DEF ClientReceive, history
    <2>4. QED
      BY <1>0, <2>1, <2>2, <2>3 DEF Answers, Answered, CallOf
  <1>4. ASSUME NEW m \in Messages, Answered(m), UNCHANGED replies,
               toClient' = toClient \/ toClient' = Append(toClient, m),
               UNCHANGED <<serverPc, job>> \/ serverPc' = "poll"
        PROVE  Answers'
    <2>1. InQueue(toClient') \subseteq InQueue(toClient) \cup {m}
      BY <1>0, <1>4, AtMostAppended
    <2>2. QED
      BY <1>0, <1>4, <2>1 DEF Answers, Answered, CallOf
  <1>5. CASE RunRegister
    <2>1. PICK m \in Messages : m = Head(tasks) /\ m \in InQueue(tasks)
      BY <1>5, TailOfQueue DEF RunRegister, Typed, TypeOK, RegistrationTypes
    <2>2. toClient' = toClient \/ toClient' = Append(toClient, m)
      BY <1>5, <2>1 DEF RunRegister, Reply
    <2>3. Answered(m)
      BY <2>1 DEF OnlyRegistrations, Answered
    <2>4. QED
      BY <1>4, <1>5, <2>2, <2>3 DEF RunRegister
  <1>6. CASE PutResponse
    <2>1. PICK m \in Messages : m = job /\ Answered(m)
      BY <1>6 DEF PutResponse, Typed, HasJob, Answers, Answered
    <2>2. toClient' = toClient \/ toClient' = Append(toClient, m)
      BY <1>6, <2>1 DEF PutResponse, Reply
    <2>3. UNCHANGED replies /\ serverPc' = "poll"
      BY <1>6 DEF PutResponse, ResponseDone
    <2>4. QED
      BY <1>4, <2>1, <2>2, <2>3
  <1>7. ASSUME NEW s \in Slots, PollRequest(s) PROVE Answers'
    <2>1. /\ job' = requests[s] /\ requests[s].kind = "call" /\ CallOf(requests[s]) \in ran'
          /\ UNCHANGED <<toClient, replies>>
      BY <1>7 DEF PollRequest, Once
    <2>2. QED
      BY <1>0, <2>1 DEF Answers, Answered, CallOf
  <1>8. CASE HandlerReturns \/ HandlerRaises \/ PutResponseRaises \/ PutResponseFailed
    BY <1>0, <1>8 DEF HandlerReturns, HandlerRaises, PutResponseRaises, PutResponseFailed, ResponseDone,
       Answers, Answered, CallOf
  <1>9. CASE UNCHANGED <<toClient, replies, serverPc, job>>
    BY <1>1, <1>9
  <1>10. CASE Restart
    BY <1>1, <1>10, EmptyQueue DEF Restart
  <1>11. QED
    BY <1>2, <1>3, <1>5, <1>6, <1>7, <1>8, <1>9, <1>10, StepChanges DEF Changes, HandlerStep

LEMMA OnlyRegistrationsStep ==
  ASSUME Typed, Labelled, OnlyRegistrations, [Next]_vars
  PROVE  OnlyRegistrations'
  <1>0. tasks \in Seq(Messages)
    BY DEF Typed, TypeOK, RegistrationTypes
  <1>1. CASE InQueue(tasks') \subseteq InQueue(tasks)
    BY <1>1 DEF OnlyRegistrations
  <1>2. ASSUME NEW c \in Conns, ReceiveRegister(c), tasks' # tasks PROVE OnlyRegistrations'
    <2>1. PICK m \in Messages : m = Head(toServer[c]) /\ m.kind = "register"
      BY <1>2, Receiving DEF ReceiveRegister
    <2>2. PICK n \in Messages : n = [m EXCEPT !.conn = handler[1]] /\ tasks' = Append(tasks, n)
      <3>1. tasks' = Append(tasks, [m EXCEPT !.conn = handler[1]]) /\ Len(handler) = 1
        BY <1>2, <2>1 DEF ReceiveRegister
      <3>2. handler[1] \in Conns
        BY <3>1, QueueTyped DEF Typed, TypeOK, SessionTypes
      <3>3. [m EXCEPT !.conn = handler[1]] \in Messages
        BY <3>2 DEF Messages
      <3>4. QED
        BY <3>1, <3>3
    <2>3. n.kind = "register"
      BY <2>1, <2>2 DEF Messages
    <2>4. InQueue(tasks') = InQueue(tasks) \cup {n}
      BY <1>0, <2>2, AppendToQueue
    <2>5. QED
      BY <2>3, <2>4 DEF OnlyRegistrations
  <1>3. CASE RunRegister
    BY <1>0, <1>1, <1>3, TailOfQueue DEF RunRegister
  <1>4. QED
    BY <1>1, <1>2, <1>3, StepChanges DEF Changes

-----------------------------------------------------------------------------
LEMMA CallsInvariant ==
  ASSUME MaxConn = 1, ~Overlap
  PROVE  Spec => [](OneAtATime /\ CallsInv)
  <1>1. Init => OneAtATime /\ CallsInv
    <2> SUFFICES ASSUME Init PROVE OneAtATime /\ CallsInv
      OBVIOUS
    <2>1. OneAtATime /\ Answers /\ OnlyRegistrations /\ OnlyLastWaits
      BY EmptyQueue DEF Init, OneAtATime, Waiting, Answers, OnlyRegistrations, OnlyLastWaits
    <2>2. Known
      <3>1. \A c \in Calls : c[2] \in Slots /\ c[3] \in Nat
        BY Parameters DEF Calls
      <3>2. \A c \in Calls : c[3] >= counter[c[2]] /\ caller[c] = "new"
        BY <3>1 DEF Init
      <3>3. QED
        BY <3>2 DEF Known
    <2>3. QED
      BY <2>1, <2>2 DEF CallsInv
  <1>2. Typed /\ Once /\ OneAtATime /\ CallsInv /\ [Next]_vars => (OneAtATime /\ CallsInv)'
    <2> SUFFICES ASSUME Typed, Once, OneAtATime, CallsInv, [Next]_vars
                 PROVE  (OneAtATime /\ CallsInv)'
      OBVIOUS
    <2>1. OneAtATime'
      BY OneAtATimeStep
    <2>2. Known' /\ OnlyLastWaits'
      BY KnownStep DEF CallsInv
    <2>3. OnlyRegistrations'
      BY OnlyRegistrationsStep DEF CallsInv, Once
    <2>4. Answers'
      BY AnswersStep DEF CallsInv
    <2>5. QED
      BY <2>1, <2>2, <2>3, <2>4 DEF CallsInv
  <1>3. QED
    BY <1>1, <1>2, OnceHolds, TypedHolds, PTL DEF Spec

\* Every step of RemoteRpc is a step of RpcCalls or leaves the calls alone.
LEMMA StepAsPromised ==
  ASSUME MaxConn = 1, ~Overlap, Typed, Once, AtClient, Registrations, CallsInv, OneAtATime, [Next]_vars
  PROVE  [RpcCalls!Next]_(RpcCalls!vars)
  <1> USE DEF Typed, RpcCalls!Next, RpcCalls!vars, RpcCalls!Sees
  <1>1. ASSUME UNCHANGED <<caller, ran>> PROVE [RpcCalls!Next]_(RpcCalls!vars)
    BY <1>1
  <1>2. ASSUME NEW s \in Slots, ClientStep(s) PROVE [RpcCalls!Next]_(RpcCalls!vars)
    <2> DEFINE new == <<conn, s, counter[s]>>
               last == LastCall(s)
    <2>1. UNCHANGED ran
      BY <1>2 DEF ClientStep, RegisterSend, RegisterReply, RegisterTimeout, CallRefused,
         CallBegin, CallSent, CallNotSent, PollResponse, PollTimeout, history
    <2>2. CASE RegisterSend(s) \/ RegisterReply(s) \/ RegisterTimeout(s) \/ CallSent(s)
      BY <1>1, <2>2 DEF RegisterSend, RegisterReply, RegisterTimeout, CallSent, history
    <2>3. ASSUME NewRequest(s) PROVE new \in Calls /\ caller[new] = "new"
      <3>1. new \in Calls /\ counter[s] \in Nat
        BY <2>3, IdsTyped DEF NewRequest
      <3>2. new[2] = s /\ new[3] = counter[s]
        OBVIOUS
      <3>3. new[3] >= counter[new[2]]
        BY <3>1, <3>2
      <3>4. QED
        BY <3>1, <3>3 DEF CallsInv, Known
    <2>4. CASE CallRefused(s)
      <3>1. RpcCalls!Refuse(new)
        BY <2>1, <2>3, <2>4 DEF CallRefused, RpcCalls!Refuse
      <3>2. QED
        BY <2>3, <2>4, <3>1 DEF CallRefused
    <2>5. CASE CallBegin(s)
      <3>1. NewRequest(s) /\ caller' = [caller EXCEPT ![new] = "waiting"]
        BY <2>5 DEF CallBegin
      <3>2. ASSUME NEW d \in Calls, caller[d] = "waiting" PROVE FALSE
        <4>1. Waiting(d[2]) /\ d[2] \in Slots
          BY <3>2, OneConnection DEF CallsInv, OnlyLastWaits
        <4>2. \A u \in Slots : pc[u] \in {"new", "ready"}
          BY <3>1 DEF NewRequest, MayBegin
        <4>3. QED
          BY <4>1, <4>2 DEF Waiting
      <3>3. RpcCalls!Call(new)
        BY <2>1, <2>3, <3>1, <3>2 DEF RpcCalls!Call
      <3>4. QED
        BY <2>3, <3>1, <3>3
    <2>6. ASSUME Waiting(s) PROVE last \in Calls /\ caller[last] = "waiting"
      BY <2>6, IdsTyped DEF InCall
    <2>7. CASE CallNotSent(s) \/ PollTimeout(s)
      <3>1. Waiting(s) /\ caller' = [caller EXCEPT ![last] = "failed"]
        BY <2>7 DEF CallNotSent, PollTimeout, Goes, Waiting
      <3>2. RpcCalls!Fail(last)
        BY <2>1, <2>6, <3>1 DEF RpcCalls!Fail
      <3>3. QED
        BY <2>6, <3>1, <3>2
    <2>8. CASE PollResponse(s)
      <3>1. Waiting(s) /\ InUse(s) /\ current = s /\ replies[s] # NoMessage
        BY <2>8 DEF PollResponse, Waiting, InUse, OneAtATime
      <3>2. CASE UNCHANGED caller
        BY <1>1, <2>1, <3>2
      <3>3. CASE replies[s].id = LastId(s) /\ caller' = [caller EXCEPT ![last] = "answered"]
        <4>1. PICK m \in Messages : m = replies[s] /\ m.slot = s /\ m.id = LastId(s) /\ Answered(m)
          BY <3>1, <3>3 DEF TypeOK, ClientTypes, AtClient, CallsInv, Answers
        <4>2. m.kind = "call"
          BY <3>1, <4>1, CallOfMessage, OneConnection DEF Registrations, Timely, NoReplyTo, ReplyTo
        <4>3. CallOf(m) = last
          BY <3>1, <4>1, CallOfMessage, OneConnection DEF LastCall
        <4>4. last \in ran
          BY <4>1, <4>2, <4>3 DEF Answered
        <4>5. RpcCalls!Return(last)
          BY <2>1, <2>6, <3>1, <3>3, <4>4 DEF RpcCalls!Return
        <4>6. QED
          BY <2>6, <3>1, <4>5
      <3>4. QED
        BY <2>8, <3>1, <3>2, <3>3 DEF PollResponse
    <2>9. QED
      BY <1>2, <2>2, <2>4, <2>5, <2>7, <2>8 DEF ClientStep
  <1>3. ASSUME NEW s \in Slots, PollRequest(s) PROVE [RpcCalls!Next]_(RpcCalls!vars)
    <2>1. PICK m \in Messages :
            m = requests[s] /\ Issued(CallOf(m)) /\ CallOf(m) \notin ran
      BY <1>3 DEF PollRequest, Once, OnItsWay, TypeOK, ServerTypes
    <2>2. ran' = ran \cup {CallOf(m)} /\ UNCHANGED caller
      BY <1>3, <2>1 DEF PollRequest
    <2>3. CallOf(m) \in Calls /\ caller[CallOf(m)] # "new"
      <3>1. PICK c \in Calls : c = CallOf(m)
        BY CallOfMessage
      <3>2. c = <<conn, c[2], c[3]>> /\ c[2] \in Slots /\ c[3] \in Nat /\ conn \in Nat
        BY OneConnection, Parameters
      <3>3. Issued(c) /\ LastId(c[2]) = counter[c[2]] - 1 /\ counter[c[2]] \in Nat
        BY <2>1, <3>1, <3>2, IdsTyped
      <3>4. ~(c[3] >= counter[c[2]])
        <4>1. c[1] = conn
          BY <3>2
        <4>2. QED
          BY <3>2, <3>3, <4>1 DEF Issued
      <3>5. QED
        BY <3>1, <3>4 DEF CallsInv, Known
    <2>4. RpcCalls!Run(CallOf(m))
      BY <2>1, <2>2, <2>3 DEF RpcCalls!Run
    <2>5. QED
      BY <2>3, <2>4
  <1>4. CASE ClientReceive \/ Restart
    BY <1>1, <1>4, OneConnection DEF ClientReceive, history
  <1>5. CASE HandlerReturns \/ HandlerRaises \/ PutResponse \/ PutResponseRaises \/ PutResponseFailed
    BY <1>1, <1>5 DEF HandlerReturns, HandlerRaises, PutResponse, PutResponseRaises, PutResponseFailed, history
  <1>6. ASSUME UNCHANGED client, UNCHANGED <<caller, taken>>
        PROVE  [RpcCalls!Next]_(RpcCalls!vars)
    BY <1>1, <1>3, <1>5, <1>6, StepChanges DEF Changes, HandlerStep
  <1>7. QED
    BY <1>2, <1>4, <1>6, StepChanges DEF Changes

\* On one connection the remote RPC keeps the promise of RpcCalls to a program
\* that makes one call at a time: each call returns at most once, only after its
\* handler ran, and no handler runs twice for it.
THEOREM RemoteRpcImplementsCalls ==
  ASSUME MaxConn = 1, ~Overlap
  PROVE  Spec => CallsAsPromised
  <1>1. Init => RpcCalls!Init
    BY DEF Init, RpcCalls!Init
  <1>2. Typed /\ Once /\ AtClient /\ Registrations /\ OneAtATime /\ CallsInv /\ [Next]_vars
          => [RpcCalls!Next]_(RpcCalls!vars)
    BY StepAsPromised
  <1>3. Provenance => AtClient
    BY DEF Provenance
  <1>4. QED
    BY <1>1, <1>2, <1>3, CallsInvariant, TypedHolds, OnceHolds, Origins, RegistrationsHold, PTL
    DEF Spec, CallsAsPromised, RpcCalls!Spec
=============================================================================
