-------------------------- MODULE RemoteRpcProofs --------------------------
(***************************************************************************)
(* Theorems about RemoteRpc, for any number of slots, connections, calls   *)
(* and registrations, with and without calls that overlap.                 *)
(***************************************************************************)
EXTENDS RemoteRpc, TLAPS

InQueue(q) == {q[i] : i \in 1..Len(q)}

\* No call message is twice in q; a registration may be.
DistinctCalls(q) ==
    \A i, j \in 1..Len(q) : q[i].kind = "call" /\ q[i] = q[j] => i = j

\* A slot in call() has taken an id and told the manager its names.
InCall ==
    \A s \in Slots : Waiting(s) =>
        counter[s] > 0 /\ current \in Slots /\ caller[LastCall(s)] = "waiting"

\* The handler and the response are those of a request and of its client.
HasJob == serverPc # "poll" => job \in Messages /\ jobConn \in Conns

Typed == TypeOK /\ InCall /\ HasJob

-----------------------------------------------------------------------------
(* Queues. *)

LEMMA AppendToQueue ==
  ASSUME NEW S, NEW q \in Seq(S), NEW e \in S
  PROVE  /\ InQueue(Append(q, e)) = InQueue(q) \cup {e}
         /\ DistinctCalls(q) /\ (e.kind = "call" => e \notin InQueue(q))
              => DistinctCalls(Append(q, e))
  BY DEF InQueue, DistinctCalls

LEMMA TailOfQueue ==
  ASSUME NEW S, NEW q \in Seq(S), q # <<>>
  PROVE  /\ Head(q) \in S
         /\ Head(q) \in InQueue(q)
         /\ Tail(q) \in Seq(S)
         /\ InQueue(Tail(q)) \subseteq InQueue(q)
         /\ DistinctCalls(q) =>
              /\ DistinctCalls(Tail(q))
              /\ Head(q).kind = "call" => Head(q) \notin InQueue(Tail(q))
  BY DEF InQueue, DistinctCalls

LEMMA EmptyQueue == InQueue(<<>>) = {} /\ DistinctCalls(<<>>)
  BY DEF InQueue, DistinctCalls

LEMMA QueueTyped ==
  ASSUME NEW S, NEW q \in Seq(S)
  PROVE  /\ InQueue(q) \subseteq S
         /\ Len(q) = 1 => q[1] \in S
  <1>1. InQueue(q) \subseteq S
    BY DEF InQueue
  <1>2. ASSUME Len(q) = 1 PROVE q[1] \in S
    <2>1. 1 \in 1..Len(q)
      BY <1>2
    <2>2. QED
      BY <1>1, <2>1 DEF InQueue
  <1>3. QED
    BY <1>1, <1>2

-----------------------------------------------------------------------------
(* Types. *)

LEMMA Parameters ==
  /\ 0 \in Ids
  /\ 0 \notin Conns
  /\ 1 \in Conns
  /\ Conns \subseteq Nat /\ Ids \subseteq Nat
  /\ NoMessage \notin Messages
  /\ NoSlot \notin Slots
  /\ \A n \in 1..MaxCalls : n - 1 \in Ids
  /\ \A n \in Conns : n < MaxConn => n + 1 \in Conns
  BY RemoteRpcAssumption DEF RemoteRpcAssumption, Ids, Conns

LEMMA CallOfMessage ==
  ASSUME NEW m \in Messages
  PROVE  /\ CallOf(m) \in Calls
         /\ m.conn \in Conns /\ m.slot \in Slots /\ m.id \in Ids
         /\ m.kind \in {"register", "call"}
         /\ CallOf(m) = <<m.conn, m.slot, m.id>>
         /\ \A n \in Messages : m.kind = n.kind /\ CallOf(m) = CallOf(n) => m = n
  BY DEF Messages, CallOf, Calls

LEMMA RegisterTyped ==
  ASSUME TypeOK, NEW s \in Slots
  PROVE  LET m == Message("register", s, 0)
         IN  m \in Messages /\ m.kind = "register" /\ m.conn = conn /\ m.slot = s
  BY Parameters DEF TypeOK, ClientTypes, Message, Messages

LEMMA CallTyped ==
  ASSUME TypeOK, NEW s \in Slots, NEW i \in Ids
  PROVE  LET m == Message("call", s, i)
         IN  /\ m \in Messages /\ m.kind = "call" /\ m.conn = conn /\ m.slot = s
             /\ CallOf(m) = <<conn, s, i>>
  BY DEF TypeOK, ClientTypes, Message, Messages, CallOf

\* The id of the call in progress, and of the next one.
LEMMA IdsTyped ==
  ASSUME TypeOK, NEW s \in Slots
  PROVE  /\ counter[s] > 0 => LastId(s) \in Ids /\ LastCall(s) \in Calls
         /\ counter[s] < MaxCalls => counter[s] \in Ids /\ <<conn, s, counter[s]>> \in Calls
         /\ LastCall(s) = <<conn, s, LastId(s)>>
         /\ LastId(s) = counter[s] - 1
         /\ counter[s] \in Nat
  BY RemoteRpcAssumption DEF RemoteRpcAssumption, TypeOK, ClientTypes, LastId, LastCall, Calls, Ids

LEMMA CountUp ==
  ASSUME TypeOK, NEW s \in Slots, counter[s] < MaxCalls,
         counter' = [counter EXCEPT ![s] = @ + 1]
  PROVE  counter' \in [Slots -> 0..MaxCalls]
  BY RemoteRpcAssumption DEF RemoteRpcAssumption, TypeOK, ClientTypes

LEMMA TypeInit == Init => Typed
  <1> SUFFICES ASSUME Init PROVE Typed
    OBVIOUS
  <1>1. /\ counter \in [Slots -> 0..MaxCalls]
        /\ caller \in [Calls -> {"new", "waiting", "answered", "failed"}]
        /\ leftover \subseteq Messages /\ ran \subseteq Calls /\ late \subseteq Conns
    BY RemoteRpcAssumption DEF RemoteRpcAssumption, Init
  <1>2. /\ pc \in [Slots -> {"new", "registering", "ready", "sending", "waiting"}]
        /\ replies \in [Slots -> Messages \cup {NoMessage}]
        /\ registry \in [Slots -> Conns \cup {0}]
        /\ requests \in [Slots -> Messages \cup {NoMessage}]
        /\ taken \in [Slots -> Messages \cup {NoMessage}]
        /\ toServer \in [Conns -> Seq(Messages)] /\ toClient \in Seq(Messages)
        /\ loops \subseteq Conns /\ handler \in Seq(Conns) /\ original \in [Conns -> Seq(Conns)]
        /\ tasks \in Seq(Messages) /\ failing \in [Conns -> Nat]
    BY DEF Init
  <1>3. TypeOK
    BY <1>1, <1>2, Parameters
    DEF Init, TypeOK, ClientTypes, NetworkTypes, SessionTypes, RegistrationTypes, ServerTypes
  <1>4. InCall /\ HasJob
    BY DEF Init, InCall, HasJob, Waiting
  <1>5. QED
    BY <1>3, <1>4 DEF Typed

\* What is on its way after a transmission or a reply.
LEMMA TransmitTyped ==
  ASSUME TypeOK, NEW m \in Messages, Transmit(m)
  PROVE  toServer' \in [Conns -> Seq(Messages)]
  <1>1. Append(toServer[conn], m) \in Seq(Messages)
    BY DEF TypeOK, ClientTypes, NetworkTypes
  <1>2. QED
    BY <1>1 DEF TypeOK, NetworkTypes, Transmit

LEMMA ReplyTyped ==
  ASSUME TypeOK, NEW m \in Messages, NEW c, Reply(c, m)
  PROVE  toClient' \in Seq(Messages)
  BY AppendToQueue DEF TypeOK, NetworkTypes, Reply

\* What the removal of a connection and the creation of a task leave.
LEMMA RemoveTyped ==
  ASSUME TypeOK, NEW c, RemoveClient(c)
  PROVE  /\ session' \in Conns \cup {0} /\ registry' \in [Slots -> Conns \cup {0}]
         /\ leftover' \subseteq Messages
  BY DEF TypeOK, SessionTypes, RegistrationTypes, ServerTypes, RemoveClient, Remaining, Buffered

LEMMA TaskTyped ==
  ASSUME TypeOK, NEW m \in Messages,
         tasks' = IF Len(handler) # 1 THEN tasks ELSE Append(tasks, [m EXCEPT !.conn = handler[1]])
  PROVE  tasks' \in Seq(Messages)
  <1>1. \A c \in Conns : [m EXCEPT !.conn = c] \in Messages
    BY DEF Messages
  <1>2. Len(handler) = 1 => handler[1] \in Conns
    <2>1. handler \in Seq(Conns)
      BY DEF TypeOK, SessionTypes
    <2>2. QED
      BY <2>1, QueueTyped
  <1>3. QED
    BY <1>1, <1>2 DEF TypeOK, RegistrationTypes

LEMMA TypesKept ==
  ASSUME TypeOK
  PROVE  /\ UNCHANGED <<program, client, caller, taken>> => ClientTypes'
         /\ UNCHANGED network => NetworkTypes'
         /\ UNCHANGED sessions => SessionTypes'
         /\ UNCHANGED <<registrations, late>> => RegistrationTypes'
         /\ UNCHANGED <<server, ran, leftover, raised>> => ServerTypes'
  <1>1. UNCHANGED <<program, client, caller, taken>> => ClientTypes'
    BY DEF TypeOK, ClientTypes, program, client
  <1>2. UNCHANGED network => NetworkTypes'
    BY DEF TypeOK, NetworkTypes, network
  <1>3. UNCHANGED sessions => SessionTypes'
    BY DEF TypeOK, SessionTypes, sessions
  <1>4. UNCHANGED <<registrations, late>> => RegistrationTypes'
    BY DEF TypeOK, RegistrationTypes, registrations
  <1>5. UNCHANGED <<server, ran, leftover, raised>> => ServerTypes'
    BY DEF TypeOK, ServerTypes, server
  <1>6. QED
    BY <1>1, <1>2, <1>3, <1>4, <1>5

LEMMA TypeStep == Typed /\ [Next]_vars => Typed'
  <1> SUFFICES ASSUME Typed, [Next]_vars PROVE Typed'
    OBVIOUS
  <1> USE Parameters DEF Typed, program, client, network, sessions, registrations, server, history
  <1>1. ASSUME NEW s \in Slots, ClientStep(s) PROVE Typed'
    <2> USE IdsTyped
    <2>0. SUFFICES ClientTypes' /\ NetworkTypes' /\ InCall'
      <3>1. SessionTypes' /\ RegistrationTypes' /\ ServerTypes' /\ HasJob'
        BY <1>1, TypesKept DEF HasJob, ClientStep, RegisterSend, RegisterReply, RegisterTimeout,
           CallRefused, CallBegin, CallSent, CallNotSent, PollResponse, PollTimeout
      <3>2. QED
        BY <3>1 DEF TypeOK, ClientTypes
    <2>1. CASE RegisterSend(s)
      <3>1. toServer' \in [Conns -> Seq(Messages)]
        BY <2>1, TransmitTyped, RegisterTyped DEF RegisterSend
      <3>2. ClientTypes' /\ NetworkTypes'
        BY <2>1, <3>1 DEF TypeOK, ClientTypes, NetworkTypes, RegisterSend, Goes
      <3>3. InCall'
        BY <2>1 DEF TypeOK, ClientTypes, InCall, RegisterSend, Goes, Waiting, LastCall, LastId
      <3>4. QED
        BY <3>2, <3>3
    <2>2. CASE RegisterReply(s)
      <3>1. pc' \in [Slots -> {"new", "registering", "ready", "sending", "waiting"}]
        BY <2>2 DEF TypeOK, ClientTypes, RegisterReply, Goes
      <3>2. replies' \in [Slots -> Messages \cup {NoMessage}]
        BY <2>2 DEF TypeOK, ClientTypes, RegisterReply, TakeReply
      <3>3. ClientTypes' /\ NetworkTypes'
        BY <2>2, <3>1, <3>2 DEF TypeOK, ClientTypes, NetworkTypes, RegisterReply
      <3>4. InCall'
        BY <2>2 DEF TypeOK, ClientTypes, InCall, RegisterReply, Goes, Waiting, LastCall, LastId
      <3>5. QED
        BY <3>3, <3>4
    <2>3. CASE RegisterTimeout(s)
      <3>1. ClientTypes' /\ NetworkTypes'
        BY <2>3 DEF TypeOK, ClientTypes, NetworkTypes, RegisterTimeout, Goes
      <3>2. InCall'
        BY <2>3 DEF TypeOK, ClientTypes, InCall, RegisterTimeout, Goes, Waiting, LastCall, LastId
      <3>3. QED
        BY <3>1, <3>2
    <2>4. CASE CallRefused(s)
      <3>1. current' \in Slots /\ counter' \in [Slots -> 0..MaxCalls]
        BY <2>4, CountUp DEF CallRefused, NewRequest
      <3>2. caller' \in [Calls -> {"new", "waiting", "answered", "failed"}]
        BY <2>4 DEF TypeOK, ClientTypes, CallRefused
      <3>3. ClientTypes' /\ NetworkTypes'
        BY <2>4, <3>1, <3>2 DEF TypeOK, ClientTypes, NetworkTypes, CallRefused
      <3>4. InCall'
        BY <2>4 DEF TypeOK, ClientTypes, InCall, CallRefused, NewRequest, Waiting, LastCall, LastId
      <3>5. QED
        BY <3>3, <3>4
    <2>5. CASE CallBegin(s)
      <3>1. current' \in Slots /\ counter' \in [Slots -> 0..MaxCalls]
        BY <2>5, CountUp DEF CallBegin, NewRequest
      <3>2. /\ pc' \in [Slots -> {"new", "registering", "ready", "sending", "waiting"}]
            /\ taken' \in [Slots -> Messages \cup {NoMessage}]
        BY <2>5 DEF TypeOK, ClientTypes, CallBegin, Goes
      <3>3. caller' \in [Calls -> {"new", "waiting", "answered", "failed"}]
        BY <2>5 DEF TypeOK, ClientTypes, CallBegin
      <3>4. ClientTypes' /\ NetworkTypes'
        BY <2>5, <3>1, <3>2, <3>3 DEF TypeOK, ClientTypes, NetworkTypes, CallBegin
      <3>5. ASSUME NEW u \in Slots, Waiting(u)'
            PROVE  counter'[u] > 0 /\ caller'[LastCall(u)'] = "waiting"
        <4>1. CASE u = s
          <5>1. counter'[s] = counter[s] + 1 /\ counter[s] \in Nat
            BY <2>5 DEF TypeOK, ClientTypes, CallBegin, NewRequest
          <5>2. LastCall(s)' = <<conn, s, counter[s]>> /\ counter'[s] > 0
            BY <2>5, <5>1 DEF CallBegin, LastCall, LastId
          <5>3. <<conn, s, counter[s]>> \in Calls
            BY <2>5 DEF CallBegin, NewRequest
          <5>4. QED
            BY <2>5, <4>1, <5>2, <5>3 DEF TypeOK, ClientTypes, CallBegin
        <4>2. CASE u # s
          <5>1. Waiting(u)
            BY <2>5, <3>5, <4>2 DEF TypeOK, ClientTypes, CallBegin, Goes, Waiting
          <5>2. counter'[u] = counter[u] /\ LastCall(u)' = LastCall(u)
            BY <2>5, <4>2 DEF TypeOK, ClientTypes, CallBegin, NewRequest, LastCall, LastId
          <5>3. LastCall(u) # <<conn, s, counter[s]>>
            BY <4>2 DEF LastCall
          <5>4. QED
            BY <2>5, <5>1, <5>2, <5>3 DEF TypeOK, ClientTypes, InCall, CallBegin
        <4>3. QED
          BY <4>1, <4>2
      <3>6. InCall'
        BY <2>5, <3>1, <3>5 DEF InCall, CallBegin
      <3>7. QED
        BY <3>4, <3>6
    <2>6. CASE CallSent(s)
      <3>1. counter[s] > 0
        BY <2>6 DEF InCall, CallSent, Goes, Waiting
      <3>2. toServer' \in [Conns -> Seq(Messages)]
        BY <2>6, <3>1, TransmitTyped, CallTyped DEF CallSent
      <3>3. ClientTypes' /\ NetworkTypes'
        BY <2>6, <3>2 DEF TypeOK, ClientTypes, NetworkTypes, CallSent, Goes
      <3>4. InCall'
        BY <2>6 DEF TypeOK, ClientTypes, InCall, CallSent, Goes, Waiting, LastCall, LastId
      <3>5. QED
        BY <3>3, <3>4
    <2>7. CASE CallNotSent(s)
      <3>1. ClientTypes' /\ NetworkTypes'
        BY <2>7 DEF TypeOK, ClientTypes, NetworkTypes, CallNotSent, Goes
      <3>2. InCall'
        BY <2>7 DEF TypeOK, ClientTypes, InCall, CallNotSent, Goes, Waiting, LastCall, LastId
      <3>3. QED
        BY <3>1, <3>2
    <2>8. CASE PollResponse(s)
      <3>1. current \in Slots /\ replies[current] \in Messages
        BY <2>8 DEF TypeOK, ClientTypes, InCall, PollResponse, Waiting
      <3>2. /\ replies' \in [Slots -> Messages \cup {NoMessage}]
            /\ taken' \in [Slots -> Messages \cup {NoMessage}]
        BY <2>8, <3>1 DEF TypeOK, ClientTypes, PollResponse
      <3>3. \/ pc' = pc /\ caller' = caller
            \/ /\ pc' = [pc EXCEPT ![s] = "ready"]
               /\ caller' = [caller EXCEPT ![LastCall(s)] = "answered"]
        BY <2>8 DEF PollResponse
      <3>4. /\ pc' \in [Slots -> {"new", "registering", "ready", "sending", "waiting"}]
            /\ caller' \in [Calls -> {"new", "waiting", "answered", "failed"}]
        <4>1. CASE pc' = pc /\ caller' = caller
          BY <4>1 DEF TypeOK, ClientTypes
        <4>2. CASE pc' = [pc EXCEPT ![s] = "ready"] /\ caller' = [caller EXCEPT ![LastCall(s)] = "answered"]
          BY <4>2 DEF TypeOK, ClientTypes
        <4>3. QED
          BY <3>3, <4>1, <4>2
      <3>5. ClientTypes' /\ NetworkTypes'
        BY <2>8, <3>2, <3>4 DEF TypeOK, ClientTypes, NetworkTypes, PollResponse, RequestDone
      <3>6. InCall'
        <4>1. UNCHANGED <<conn, counter, current>>
          BY <2>8 DEF PollResponse
        <4>2. \A u \in Slots : u # s => LastCall(u) # LastCall(s)
          BY DEF LastCall
        <4>3. CASE pc' = pc /\ caller' = caller
          BY <4>1, <4>3 DEF InCall, Waiting, LastCall, LastId
        <4>4. CASE pc' = [pc EXCEPT ![s] = "ready"] /\ caller' = [caller EXCEPT ![LastCall(s)] = "answered"]
          BY <4>1, <4>2, <4>4 DEF TypeOK, ClientTypes, InCall, Waiting, LastCall, LastId
        <4>5. QED
          BY <3>3, <4>3, <4>4
      <3>7. QED
        BY <3>5, <3>6
    <2>9. CASE PollTimeout(s)
      <3>1. ClientTypes' /\ NetworkTypes'
        BY <2>9 DEF TypeOK, ClientTypes, NetworkTypes, PollTimeout, Goes
      <3>2. InCall'
        BY <2>9 DEF TypeOK, ClientTypes, InCall, PollTimeout, Goes, Waiting, LastCall, LastId
      <3>3. QED
        BY <3>1, <3>2
    <2>10. QED
      BY <1>1, <2>1, <2>2, <2>3, <2>4, <2>5, <2>6, <2>7, <2>8, <2>9 DEF ClientStep
  <1>2. CASE ClientReceive
    <2>1. Head(toClient) \in Messages /\ toClient' \in Seq(Messages)
      BY <1>2, TailOfQueue DEF TypeOK, NetworkTypes, ClientReceive
    <2>2. Head(toClient).slot \in Slots
      BY <2>1, CallOfMessage
    <2>3. TypeOK'
      BY <1>2, <2>1, <2>2, TypesKept DEF TypeOK, ClientTypes, NetworkTypes, ClientReceive
    <2>4. InCall' /\ HasJob'
      BY <1>2 DEF InCall, HasJob, ClientReceive, Waiting, LastCall, LastId
    <2>5. QED
      BY <2>3, <2>4
  <1>3. CASE Accept \/ Break
    <2>1. /\ loops' \subseteq Conns /\ handler' \in Seq(Conns)
          /\ original' \in [Conns -> Seq(Conns)] /\ session' \in Conns \cup {0}
      <3>1. conn \in Conns /\ SessionTypes /\ Append(handler, conn) \in Seq(Conns)
        BY DEF TypeOK, ClientTypes, SessionTypes
      <3>2. QED
        BY <1>3, <3>1 DEF SessionTypes, Accept, Break
    <2>2. ClientTypes' /\ SessionTypes'
      BY <1>3, <2>1 DEF TypeOK, ClientTypes, SessionTypes, Accept, Break
    <2>3. InCall' /\ HasJob'
      BY <1>3 DEF InCall, HasJob, Accept, Break, Waiting, LastCall, LastId
    <2>4. QED
      BY <1>3, <2>2, <2>3, TypesKept DEF TypeOK, Accept, Break
  <1>4. CASE Restart
    <2>1. counter' \in [Slots -> 0..MaxCalls] /\ toClient' \in Seq(Messages)
      BY <1>4, RemoteRpcAssumption DEF RemoteRpcAssumption, Restart
    <2>2. /\ pc' \in [Slots -> {"new", "registering", "ready", "sending", "waiting"}]
          /\ replies' \in [Slots -> Messages \cup {NoMessage}]
          /\ taken' \in [Slots -> Messages \cup {NoMessage}]
      BY <1>4 DEF Restart
    <2>3. caller' \in [Calls -> {"new", "waiting", "answered", "failed"}]
      BY <1>4 DEF TypeOK, ClientTypes, Restart
    <2>4. TypeOK'
      BY <1>4, <2>1, <2>2, <2>3, TypesKept DEF TypeOK, ClientTypes, NetworkTypes, Restart
    <2>5. InCall' /\ HasJob'
      BY <1>4 DEF InCall, HasJob, Restart, Waiting
    <2>6. QED
      BY <2>4, <2>5
  <1>5. ASSUME NEW c \in Conns, Disconnect(c) PROVE Typed'
    <2>1. /\ loops' \subseteq Conns /\ handler' \in Seq(Conns)
          /\ original' \in [Conns -> Seq(Conns)] /\ toServer' \in [Conns -> Seq(Messages)]
      BY <1>5 DEF TypeOK, SessionTypes, NetworkTypes, Disconnect
    <2>2. /\ session' \in Conns \cup {0} /\ registry' \in [Slots -> Conns \cup {0}]
          /\ leftover' \subseteq Messages
      BY <1>5, RemoveTyped DEF Disconnect
    <2>3. TypeOK'
      BY <1>5, <2>1, <2>2, TypesKept
      DEF TypeOK, NetworkTypes, SessionTypes, RegistrationTypes, ServerTypes, Disconnect
    <2>4. InCall' /\ HasJob'
      BY <1>5 DEF InCall, HasJob, Disconnect, Waiting, LastCall, LastId
    <2>5. QED
      BY <2>3, <2>4
  <1>6. CASE ServerStep
    <2>1. ASSUME NEW c \in Conns, ReceiveRequest(c) PROVE Typed'
      <3>1. Head(toServer[c]) \in Messages /\ Tail(toServer[c]) \in Seq(Messages)
        BY <2>1, TailOfQueue DEF TypeOK, NetworkTypes, ReceiveRequest
      <3>2. Head(toServer[c]).slot \in Slots
        BY <3>1, CallOfMessage
      <3>3. /\ toServer' \in [Conns -> Seq(Messages)]
            /\ requests' \in [Slots -> Messages \cup {NoMessage}]
            /\ leftover' \subseteq Messages
        BY <2>1, <3>1, <3>2 DEF TypeOK, NetworkTypes, ServerTypes, ReceiveRequest
      <3>4. TypeOK'
        BY <2>1, <3>3, TypesKept DEF TypeOK, NetworkTypes, ServerTypes, ReceiveRequest
      <3>5. InCall' /\ HasJob'
        BY <2>1 DEF InCall, HasJob, ReceiveRequest, Waiting, LastCall, LastId
      <3>6. QED
        BY <3>4, <3>5
    <2>2. ASSUME NEW c \in Conns, ReceiveRegister(c) PROVE Typed'
      <3>1. Head(toServer[c]) \in Messages /\ Tail(toServer[c]) \in Seq(Messages)
        BY <2>2, TailOfQueue DEF TypeOK, NetworkTypes, ReceiveRegister
      <3>2. toServer' \in [Conns -> Seq(Messages)]
        BY <2>2, <3>1 DEF TypeOK, NetworkTypes, ReceiveRegister
      <3>3. tasks' \in Seq(Messages)
        BY <2>2, <3>1, TaskTyped DEF ReceiveRegister
      <3>4. TypeOK'
        BY <2>2, <3>2, <3>3, TypesKept
        DEF TypeOK, NetworkTypes, RegistrationTypes, ReceiveRegister
      <3>5. InCall' /\ HasJob'
        BY <2>2 DEF InCall, HasJob, ReceiveRegister, Waiting, LastCall, LastId
      <3>6. QED
        BY <3>4, <3>5
    <2>3. ASSUME NEW c \in Conns, RegisterFailed(c) PROVE Typed'
      <3>1. failing' \in [Conns -> Nat]
        BY <2>3 DEF TypeOK, RegistrationTypes, RegisterFailed
      <3>2. /\ session' \in Conns \cup {0} /\ registry' \in [Slots -> Conns \cup {0}]
            /\ leftover' \subseteq Messages
        BY <2>3, RemoveTyped DEF RegisterFailed
      <3>3. TypeOK'
        BY <2>3, <3>1, <3>2, TypesKept
        DEF TypeOK, SessionTypes, RegistrationTypes, ServerTypes, RegisterFailed
      <3>4. InCall' /\ HasJob'
        BY <2>3 DEF InCall, HasJob, RegisterFailed, Waiting, LastCall, LastId
      <3>5. QED
        BY <3>3, <3>4
    <2>4. CASE RunRegister
      <3>1. PICK m \in Messages : m = Head(tasks) /\ tasks' = Tail(tasks) /\ Tail(tasks) \in Seq(Messages)
        BY <2>4, TailOfQueue DEF TypeOK, RegistrationTypes, RunRegister
      <3>2. m.slot \in Slots /\ m.conn \in Conns
        BY CallOfMessage
      <3>3. toClient' \in Seq(Messages)
        BY <2>4, <3>1, ReplyTyped DEF TypeOK, NetworkTypes, RunRegister
      <3>4. /\ registry' \in [Slots -> Conns \cup {0}]
            /\ late' \subseteq Conns
        BY <2>4, <3>1, <3>2 DEF TypeOK, SessionTypes, RegistrationTypes, RunRegister
      <3>5. failing' \in [Conns -> Nat]
        <4>1. failing' = failing \/ failing' = [failing EXCEPT ![session] = @ + 1]
          BY <2>4 DEF RunRegister
        <4>2. QED
          BY <4>1 DEF TypeOK, RegistrationTypes
      <3>6. TypeOK'
        BY <2>4, <3>1, <3>3, <3>4, <3>5, TypesKept
        DEF TypeOK, NetworkTypes, RegistrationTypes, RunRegister
      <3>7. InCall' /\ HasJob'
        BY <2>4 DEF InCall, HasJob, RunRegister, Waiting, LastCall, LastId
      <3>8. QED
        BY <3>6, <3>7
    <2>5. ASSUME NEW s \in Slots, PollRequest(s) PROVE Typed'
      <3>1. requests[s] \in Messages /\ CallOf(requests[s]) \in Calls /\ registry[s] \in Conns
        BY <2>5, CallOfMessage DEF TypeOK, RegistrationTypes, ServerTypes, PollRequest
      <3>2. TypeOK'
        BY <2>5, <3>1, TypesKept DEF TypeOK, ServerTypes, PollRequest, TakeRequest
      <3>3. InCall' /\ HasJob'
        BY <2>5, <3>1 DEF InCall, HasJob, PollRequest, Waiting, LastCall, LastId
      <3>4. QED
        BY <3>2, <3>3
    <2>6. CASE HandlerReturns \/ HandlerRaises \/ PutResponseRaises
      <3>1. TypeOK'
        BY <2>6, TypesKept DEF TypeOK, ServerTypes, HandlerReturns, HandlerRaises, PutResponseRaises
      <3>2. InCall' /\ HasJob'
        BY <2>6 DEF InCall, HasJob, HandlerReturns, HandlerRaises, PutResponseRaises, Waiting, LastCall, LastId
      <3>3. QED
        BY <3>1, <3>2
    <2>7. CASE PutResponse
      <3>1. toClient' \in Seq(Messages)
        BY <2>7, ReplyTyped DEF HasJob, PutResponse
      <3>2. TypeOK'
        BY <2>7, <3>1, TypesKept
        DEF TypeOK, NetworkTypes, ServerTypes, PutResponse, ResponseDone, ServingDone
      <3>3. InCall' /\ HasJob'
        BY <2>7 DEF InCall, HasJob, PutResponse, ResponseDone, Waiting, LastCall, LastId
      <3>4. QED
        BY <3>2, <3>3
    <2>8. CASE PutResponseFailed
      <3>1. /\ session' \in Conns \cup {0} /\ registry' \in [Slots -> Conns \cup {0}]
            /\ leftover' \subseteq Messages
        BY <2>8, RemoveTyped DEF PutResponseFailed
      <3>2. TypeOK'
        BY <2>8, <3>1, TypesKept
        DEF TypeOK, SessionTypes, RegistrationTypes, ServerTypes, PutResponseFailed, ResponseDone, ServingDone
      <3>3. InCall' /\ HasJob'
        BY <2>8 DEF InCall, HasJob, PutResponseFailed, ResponseDone, Waiting, LastCall, LastId
      <3>4. QED
        BY <3>2, <3>3
    <2>9. QED
      BY <1>6, <2>1, <2>2, <2>3, <2>4, <2>5, <2>6, <2>7, <2>8 DEF ServerStep
  <1>7. CASE UNCHANGED vars
    BY <1>7, TypesKept DEF vars, TypeOK, InCall, HasJob, Waiting, LastCall, LastId
  <1>8. QED
    BY <1>1, <1>2, <1>3, <1>4, <1>5, <1>6, <1>7 DEF Next

\* A slot in call() has taken its id, and a handler that runs has been given a
\* request: what the types need to be inductive.
LEMMA TypedHolds == Spec => []Typed
  BY TypeInit, TypeStep, PTL DEF Spec

\* Every variable has its type: the places of client and server, the messages
\* in the network and the buffers, the ids that were taken.
THEOREM TypeCorrect == Spec => []TypeOK
  BY TypedHolds, PTL DEF Typed

-----------------------------------------------------------------------------
(* Which steps change which part of the state. *)

HandlerStep ==
    \/ \E s \in Slots : PollRequest(s)
    \/ HandlerReturns \/ HandlerRaises
    \/ PutResponse \/ PutResponseRaises \/ PutResponseFailed

Sends(s) == RegisterSend(s) \/ CallSent(s)

Removes == (\E c \in Conns : Disconnect(c) \/ RegisterFailed(c)) \/ PutResponseFailed

Changes ==
    /\ (UNCHANGED client /\ UNCHANGED <<caller, taken>>)
         \/ (\E s \in Slots : ClientStep(s)) \/ ClientReceive \/ Restart
    /\ UNCHANGED <<serverPc, serving, job, jobConn, raised, ran>> \/ HandlerStep
    /\ UNCHANGED requests \/ (\E c \in Conns : ReceiveRequest(c)) \/ \E s \in Slots : PollRequest(s)
    /\ UNCHANGED <<session, registry>> \/ Accept \/ RunRegister \/ Removes
    /\ UNCHANGED leftover \/ Removes \/ \E c \in Conns : ReceiveRequest(c)
    /\ UNCHANGED late \/ RunRegister
    /\ UNCHANGED <<handler, original>> \/ Accept \/ \E c \in Conns : Disconnect(c)
    /\ UNCHANGED tasks \/ RunRegister \/ \E c \in Conns : ReceiveRegister(c)
    /\ UNCHANGED failing \/ RunRegister \/ \E c \in Conns : RegisterFailed(c)
    /\ UNCHANGED toServer \/ (\E s \in Slots : Sends(s))
         \/ \E c \in Conns : Disconnect(c) \/ ReceiveRequest(c) \/ ReceiveRegister(c)
    /\ UNCHANGED toClient \/ ClientReceive \/ Restart \/ RunRegister \/ PutResponse
    /\ UNCHANGED conn \/ Restart
    /\ UNCHANGED link \/ Accept \/ Break \/ Restart

LEMMA StepChanges == [Next]_vars => Changes
  <1> SUFFICES ASSUME [Next]_vars PROVE Changes
    OBVIOUS
  <1> USE DEF program, client, network, sessions, registrations, server, history
  <1>1. ASSUME NEW s \in Slots, ClientStep(s) PROVE Changes
    <2>1. UNCHANGED <<conn, link, session, handler, original, tasks, failing, registry, toClient, requests>>
          /\ UNCHANGED <<serverPc, serving, job, jobConn, raised, ran, leftover, late>>
      BY <1>1 DEF ClientStep, RegisterSend, RegisterReply, RegisterTimeout, CallRefused,
         CallBegin, CallSent, CallNotSent, PollResponse, PollTimeout
    <2>2. UNCHANGED toServer \/ Sends(s)
      BY <1>1 DEF ClientStep, RegisterSend, RegisterReply, RegisterTimeout, CallRefused,
         CallBegin, CallSent, CallNotSent, PollResponse, PollTimeout, Sends
    <2>3. QED
      BY <1>1, <2>1, <2>2 DEF Changes
  <1>2. CASE ClientReceive
    BY <1>2 DEF ClientReceive, Changes
  <1>3. CASE Accept \/ Break
    BY <1>3 DEF Accept, Break, Changes
  <1>4. CASE Restart
    BY <1>4 DEF Restart, Changes
  <1>5. ASSUME NEW c \in Conns, Disconnect(c) PROVE Changes
    BY <1>5 DEF Disconnect, Changes, Removes
  <1>6. CASE ServerStep
    <2>1. ASSUME NEW c \in Conns, ReceiveRequest(c) PROVE Changes
      BY <2>1 DEF ReceiveRequest, Changes
    <2>2. ASSUME NEW c \in Conns, ReceiveRegister(c) PROVE Changes
      BY <2>2 DEF ReceiveRegister, Changes
    <2>3. ASSUME NEW c \in Conns, RegisterFailed(c) PROVE Changes
      BY <2>3 DEF RegisterFailed, Changes, Removes
    <2>4. CASE RunRegister
      BY <2>4 DEF RunRegister, Changes
    <2>5. ASSUME NEW s \in Slots, PollRequest(s) PROVE Changes
      BY <2>5 DEF PollRequest, Changes, HandlerStep
    <2>6. CASE HandlerReturns \/ HandlerRaises
      BY <2>6 DEF HandlerReturns, HandlerRaises, Changes, HandlerStep
    <2>7. CASE PutResponse \/ PutResponseRaises
      BY <2>7 DEF PutResponse, PutResponseRaises, ResponseDone, Changes, HandlerStep
    <2>8. CASE PutResponseFailed
      BY <2>8 DEF PutResponseFailed, ResponseDone, Changes, HandlerStep, Removes
    <2>9. QED
      BY <1>6, <2>1, <2>2, <2>3, <2>4, <2>5, <2>6, <2>7, <2>8 DEF ServerStep
  <1>7. CASE UNCHANGED vars
    BY <1>7 DEF vars, Changes
  <1>8. QED
    BY <1>1, <1>2, <1>3, <1>4, <1>5, <1>6, <1>7 DEF Next

-----------------------------------------------------------------------------
(* The serve() loop, the registry and the manager's busy mark. *)

\* serve() never polls with a request still current, however requests, losses
\* of the connection and restarts of the client interleave, until a handler
\* raises.
THEOREM ServePollsFreely == Spec => []PollsFreely
  <1>1. Init => PollsFreely
    BY DEF Init, PollsFreely
  <1>2. PollsFreely /\ [Next]_vars => PollsFreely'
    <2>1. PollsFreely /\ HandlerStep => PollsFreely'
      BY DEF PollsFreely, HandlerStep, PollRequest, HandlerReturns, HandlerRaises,
         PutResponse, PutResponseRaises, PutResponseFailed, ResponseDone, ServingDone, server, history
    <2>2. QED
      BY <2>1, StepChanges DEF Changes, PollsFreely
  <1>3. QED
    BY <1>1, <1>2, PTL DEF Spec

\* A step that removes a connection removes it from the session and from the
\* registry, and touches nothing of the client or the network to it.
LEMMA Removal ==
  ASSUME Removes
  PROVE  /\ \E c : RemoveClient(c) /\ \/ Disconnect(c)
                                      \/ c \in Conns /\ failing[c] > 0
                                      \/ serverPc = "closing" /\ c = jobConn
         /\ UNCHANGED <<program, client, toClient, tasks, requests, caller, ran, taken, late>>
  <1> USE DEF program, client, network, server
  <1>1. ASSUME NEW c \in Conns, Disconnect(c)
        PROVE  RemoveClient(c) /\ UNCHANGED <<program, client, toClient, tasks, requests, caller, ran, taken, late>>
    BY <1>1 DEF Disconnect
  <1>2. ASSUME NEW c \in Conns, RegisterFailed(c)
        PROVE  /\ RemoveClient(c) /\ failing[c] > 0
               /\ UNCHANGED <<program, client, toClient, tasks, requests, caller, ran, taken, late>>
    BY <1>2 DEF RegisterFailed
  <1>3. ASSUME PutResponseFailed
        PROVE  /\ RemoveClient(jobConn) /\ serverPc = "closing"
               /\ UNCHANGED <<program, client, toClient, tasks, requests, caller, ran, taken, late>>
    BY <1>3 DEF PutResponseFailed, Recipient
  <1>4. QED
    BY <1>1, <1>2, <1>3 DEF Removes

\* A client is registered from the connection that the server has accepted, or
\* else by a handler task that ran after its connection was removed: whichever
\* of the end of the receive loop and a failed send removes a connection, and
\* whatever the order they, the tasks and the next connection come in.
THEOREM NoStaleRegistration == Spec => []RegisteredIsConnected
  <1>1. Init => RegisteredIsConnected
    BY DEF Init, RegisteredIsConnected
  <1>2. Typed /\ RegisteredIsConnected /\ [Next]_vars => RegisteredIsConnected'
    <2> SUFFICES ASSUME Typed, RegisteredIsConnected, [Next]_vars
                 PROVE  RegisteredIsConnected'
      OBVIOUS
    <2> USE DEF RegisteredIsConnected, Typed, TypeOK, RegistrationTypes
    <2>1. CASE Accept
      BY <2>1 DEF Accept, sessions, registrations, history
    <2>2. CASE Removes
      BY <2>2, Removal DEF RemoveClient, Remaining
    <2>3. CASE RunRegister
      <3>1. PICK m \in Messages : m = Head(tasks)
        BY <2>3, TailOfQueue DEF RunRegister
      <3>2. CASE UNCHANGED <<registry, late>>
        BY <2>3, <3>2 DEF RunRegister, sessions
      <3>3. CASE /\ registry' = [registry EXCEPT ![m.slot] = m.conn]
                 /\ late' = late \cup ({m.conn} \ {session})
        BY <2>3, <3>3, CallOfMessage DEF RunRegister, sessions
      <3>4. QED
        BY <2>3, <3>1, <3>2, <3>3 DEF RunRegister
    <2>4. QED
      BY <2>1, <2>2, <2>3, StepChanges DEF Changes
  <1>3. QED
    BY <1>1, <1>2, TypedHolds, PTL DEF Spec

\* While the manager would refuse a call as already in progress, one call of
\* the connection is in progress or has failed with its request unanswered.
THEOREM RefusalHasCause == Spec => []RefusesOnlyWhenBusy
  <1>1. Init => RefusesOnlyWhenBusy
    BY DEF Init, RefusesOnlyWhenBusy
  <1>2. Typed /\ RefusesOnlyWhenBusy /\ [Next]_vars => RefusesOnlyWhenBusy'
    <2> SUFFICES ASSUME Typed, RefusesOnlyWhenBusy, [Next]_vars, busy'
                 PROVE  \E c \in Calls : c[1] = conn' /\ caller'[c] \in {"waiting", "failed"}
      BY DEF RefusesOnlyWhenBusy
    <2> USE DEF Typed, program, client, history
    <2>1. ASSUME busy, UNCHANGED conn,
                 \A c \in Calls : caller'[c] = caller[c] \/ caller'[c] \in {"waiting", "failed"}
          PROVE  \E c \in Calls : c[1] = conn' /\ caller'[c] \in {"waiting", "failed"}
      BY <2>1 DEF RefusesOnlyWhenBusy
    <2>2. ASSUME NEW s \in Slots, ClientStep(s)
          PROVE  \E c \in Calls : c[1] = conn' /\ caller'[c] \in {"waiting", "failed"}
      <3>1. CASE CallSent(s)
        <4>1. caller'[LastCall(s)] = "waiting" /\ LastCall(s) \in Calls
          BY <3>1, IdsTyped DEF InCall, CallSent, Goes, Waiting
        <4>2. QED
          BY <3>1, <4>1 DEF CallSent, LastCall
      <3>2. CASE PollResponse(s)
        BY <3>2 DEF PollResponse, RequestDone
      <3>3. CASE CallRefused(s) \/ CallBegin(s) \/ CallNotSent(s) \/ PollTimeout(s)
        BY <2>1, <3>3 DEF TypeOK, ClientTypes, CallRefused, CallBegin, CallNotSent, PollTimeout
      <3>4. CASE RegisterSend(s) \/ RegisterReply(s) \/ RegisterTimeout(s)
        BY <2>1, <3>4 DEF RegisterSend, RegisterReply, RegisterTimeout
      <3>5. QED
        BY <2>2, <3>1, <3>2, <3>3, <3>4 DEF ClientStep
    <2>3. CASE Restart
      BY <2>3 DEF Restart
    <2>4. CASE ClientReceive
      BY <2>1, <2>4 DEF ClientReceive
    <2>5. QED
      BY <2>1, <2>2, <2>3, <2>4, StepChanges DEF Changes
  <1>3. QED
    BY <1>1, <1>2, TypedHolds, PTL DEF Spec

-----------------------------------------------------------------------------
(* No request is handled twice.  A call takes its id before its request is *)
(* sent and the request is then in one place: on its way, in the buffer of *)
(* its slot, or handed to a handler for good.                              *)

\* The request of call c has been sent, or never will be.
Issued(c) ==
    \/ c[1] < conn
    \/ c[1] = conn /\ c[3] < IF pc[c[2]] = "sending" THEN LastId(c[2]) ELSE counter[c[2]]

OnItsWay(m) == Issued(CallOf(m)) /\ CallOf(m) \notin ran

\* What is on its way to the server on a connection was sent on it.
Labelled == \A c \in Conns : \A m \in InQueue(toServer[c]) : m.conn = c

Once ==
    /\ Labelled
    /\ \A c \in Conns : DistinctCalls(toServer[c])
    /\ \A c \in Conns : \A m \in InQueue(toServer[c]) : m.kind = "call" =>
          OnItsWay(m) /\ \A s \in Slots : requests[s] # m
    /\ \A s \in Slots : requests[s] # NoMessage =>
          requests[s].kind = "call" /\ requests[s].slot = s /\ OnItsWay(requests[s])
    /\ \A c \in ran : Issued(c)

LEMMA IssuedForGood ==
  ASSUME Typed, [Next]_vars, NEW c \in Calls, Issued(c)
  PROVE  Issued(c)'
  <1> USE DEF Typed, program, client
  <1>0. c[1] \in Nat /\ c[2] \in Slots /\ c[3] \in Nat /\ conn \in Nat
    BY Parameters DEF Calls, TypeOK, ClientTypes
  <1>1. ASSUME UNCHANGED <<conn, pc, counter>> PROVE Issued(c)'
    BY <1>1 DEF Issued, LastId
  <1>2. ASSUME NEW s \in Slots, ClientStep(s) PROVE Issued(c)'
    <2> DEFINE sent == IF pc[c[2]] = "sending" THEN LastId(c[2]) ELSE counter[c[2]]
    <2>0. /\ counter \in [Slots -> Nat] /\ conn' = conn
          /\ pc \in [Slots -> {"new", "registering", "ready", "sending", "waiting"}]
      BY <1>2, StepChanges, RemoteRpcAssumption
      DEF RemoteRpcAssumption, TypeOK, ClientTypes, Changes, ClientStep, RegisterSend, RegisterReply, RegisterTimeout,
          CallRefused, CallBegin, CallSent, CallNotSent, PollResponse, PollTimeout
    <2>1. CASE counter' = counter /\ \A u \in Slots : pc'[u] = "sending" => pc[u] = "sending"
      BY <1>0, <2>0, <2>1 DEF Issued, LastId
    <2>2. CASE CallRefused(s) \/ CallBegin(s)
      <3>1. /\ counter' = [counter EXCEPT ![s] = @ + 1]
            /\ pc[s] = "ready"
            /\ \A u \in Slots : u # s => pc'[u] = pc[u]
        BY <2>0, <2>2 DEF CallRefused, CallBegin, NewRequest, Goes
      <3>2. QED
        BY <1>0, <2>0, <3>1 DEF Issued, LastId
    <2>3. CASE RegisterSend(s) \/ RegisterReply(s) \/ RegisterTimeout(s)
      BY <2>0, <2>1, <2>3 DEF RegisterSend, RegisterReply, RegisterTimeout, Goes
    <2>4. CASE CallSent(s) \/ CallNotSent(s) \/ PollTimeout(s)
      BY <2>0, <2>1, <2>4 DEF CallSent, CallNotSent, PollTimeout, Goes
    <2>5. CASE PollResponse(s)
      BY <2>0, <2>1, <2>5 DEF PollResponse
    <2>6. QED
      BY <1>2, <2>2, <2>3, <2>4, <2>5 DEF ClientStep
  <1>3. CASE Restart
    BY <1>0, <1>3 DEF Restart, Issued
  <1>4. CASE ClientReceive
    BY <1>1, <1>4 DEF ClientReceive
  <1>5. QED
    BY <1>1, <1>2, <1>3, <1>4, StepChanges DEF Changes

\* A message that is sent is added to the queue of the connection.
LEMMA Sending ==
  ASSUME Typed, Labelled, NEW m \in Messages, m.conn = conn, Transmit(m), UNCHANGED conn
  PROVE  /\ toServer' \in [Conns -> Seq(Messages)]
         /\ Labelled'
         /\ \A c \in Conns :
               \/ toServer'[c] = toServer[c]
               \/ c = conn /\ toServer'[c] = Append(toServer[c], m)
                    /\ InQueue(toServer'[c]) = InQueue(toServer[c]) \cup {m}
  <1> USE DEF Typed, TypeOK, NetworkTypes, ClientTypes
  <1>1. toServer' \in [Conns -> Seq(Messages)]
    BY TransmitTyped
  <1>2. ASSUME NEW c \in Conns
        PROVE  \/ toServer'[c] = toServer[c]
               \/ c = conn /\ toServer'[c] = Append(toServer[c], m)
                    /\ InQueue(toServer'[c]) = InQueue(toServer[c]) \cup {m}
    <2>1. toServer'[c] = toServer[c] \/ (c = conn /\ toServer'[c] = Append(toServer[c], m))
      BY DEF Transmit
    <2>2. toServer[c] \in Seq(Messages)
      OBVIOUS
    <2>3. InQueue(Append(toServer[c], m)) = InQueue(toServer[c]) \cup {m}
      BY <2>2, AppendToQueue
    <2>4. QED
      BY <2>1, <2>3
  <1>3. Labelled'
    BY <1>2 DEF Labelled
  <1>4. QED
    BY <1>1, <1>2, <1>3

\* The receive loop takes the first message of its connection.
LEMMA Receiving ==
  ASSUME Typed, Labelled, NEW c \in Conns, toServer[c] # <<>>,
         toServer' = [toServer EXCEPT ![c] = Tail(@)]
  PROVE  /\ Head(toServer[c]) \in Messages /\ Head(toServer[c]) \in InQueue(toServer[c])
         /\ Head(toServer[c]).conn = c
         /\ Labelled'
         /\ \A d \in Conns : InQueue(toServer'[d]) \subseteq InQueue(toServer[d])
         /\ \A d \in Conns : DistinctCalls(toServer[d]) => DistinctCalls(toServer'[d])
         /\ DistinctCalls(toServer[c]) /\ Head(toServer[c]).kind = "call" =>
               \A d \in Conns : Head(toServer[c]) \notin InQueue(toServer'[d])
  <1> DEFINE m == Head(toServer[c])
  <1>0. toServer \in [Conns -> Seq(Messages)]
    BY DEF Typed, TypeOK, NetworkTypes
  <1>1. /\ m \in Messages /\ m \in InQueue(toServer[c])
        /\ InQueue(Tail(toServer[c])) \subseteq InQueue(toServer[c])
        /\ DistinctCalls(toServer[c]) =>
              /\ DistinctCalls(Tail(toServer[c]))
              /\ m.kind = "call" => m \notin InQueue(Tail(toServer[c]))
    BY <1>0, TailOfQueue
  <1>2. toServer'[c] = Tail(toServer[c]) /\ \A d \in Conns : d # c => toServer'[d] = toServer[d]
    BY <1>0
  <1>3. m.conn = c
    BY <1>1 DEF Labelled
  <1>4. \A d \in Conns : InQueue(toServer'[d]) \subseteq InQueue(toServer[d])
    BY <1>1, <1>2
  <1>5. Labelled'
    BY <1>4 DEF Labelled
  <1>6. \A d \in Conns : DistinctCalls(toServer[d]) => DistinctCalls(toServer'[d])
    BY <1>1, <1>2
  <1>7. ASSUME DistinctCalls(toServer[c]), m.kind = "call", NEW d \in Conns
        PROVE  m \notin InQueue(toServer'[d])
    BY <1>1, <1>2, <1>3, <1>7 DEF Labelled
  <1>8. QED
    BY <1>1, <1>3, <1>4, <1>5, <1>6, <1>7

LEMMA OnceStep == Typed /\ Once /\ [Next]_vars => Once'
  <1> SUFFICES ASSUME Typed, Once, [Next]_vars PROVE Once'
    OBVIOUS
  <1> USE DEF network, server, registrations
  <1>0. /\ Labelled
        /\ toServer \in [Conns -> Seq(Messages)]
        /\ \A c \in Conns : InQueue(toServer[c]) \subseteq Messages
        /\ \A s \in Slots : requests[s] # NoMessage => requests[s] \in Messages
        /\ requests \in [Slots -> Messages \cup {NoMessage}]
        /\ ran \subseteq Calls
    BY QueueTyped DEF Typed, TypeOK, NetworkTypes, ServerTypes, Once
  <1>1. \A c \in Calls : Issued(c) => Issued(c)'
    BY IssuedForGood
  <1>2. \A m \in Messages : CallOf(m)' = CallOf(m) /\ CallOf(m) \in Calls
    <2>1. \A m \in Messages : CallOf(m)' = CallOf(m)
      BY DEF CallOf
    <2>2. QED
      BY <2>1, CallOfMessage
  <1>3. ASSUME NEW m \in Messages, OnItsWay(m), ran' = ran
        PROVE  OnItsWay(m)'
    BY <1>1, <1>2, <1>3 DEF OnItsWay
  <1>4. ASSUME UNCHANGED <<requests, ran>>, Labelled',
               \A c \in Conns : DistinctCalls(toServer'[c]),
               \A c \in Conns : InQueue(toServer'[c]) \subseteq InQueue(toServer[c])
        PROVE  Once'
    BY <1>0, <1>1, <1>3, <1>4 DEF Once
  <1>5. ASSUME UNCHANGED <<requests, ran>>, UNCHANGED toServer
        PROVE  Once'
    BY <1>4, <1>5 DEF Once, Labelled
  <1>6. ASSUME NEW s \in Slots, RegisterSend(s) PROVE Once'
    <2> DEFINE m == Message("register", s, 0)
    <2>1. m \in Messages /\ m.kind = "register" /\ m.conn = conn
      BY RegisterTyped DEF Typed
    <2>2. UNCHANGED <<requests, ran, conn>> /\ Transmit(m)
      BY <1>6 DEF RegisterSend, history, program
    <2>3. /\ Labelled'
          /\ \A c \in Conns :
               \/ toServer'[c] = toServer[c]
               \/ /\ toServer'[c] = Append(toServer[c], m)
                  /\ InQueue(toServer'[c]) = InQueue(toServer[c]) \cup {m}
      BY <1>0, <2>1, <2>2, Sending
    <2>4. \A c \in Conns : DistinctCalls(toServer'[c])
      <3> SUFFICES ASSUME NEW c \in Conns PROVE DistinctCalls(toServer'[c])
        OBVIOUS
      <3>1. toServer[c] \in Seq(Messages) /\ DistinctCalls(toServer[c])
        BY <1>0 DEF Once
      <3>2. DistinctCalls(Append(toServer[c], m))
        BY <2>1, <3>1, AppendToQueue
      <3>3. QED
        BY <2>3, <3>1, <3>2
    <2>5. QED
      BY <1>0, <1>1, <1>3, <2>1, <2>2, <2>3, <2>4 DEF Once
  <1>7. ASSUME NEW s \in Slots, CallSent(s) PROVE Once'
    <2>1. counter[s] > 0 /\ counter[s] \in Nat /\ pc[s] = "sending" /\ LastId(s) = counter[s] - 1
      BY <1>7, IdsTyped DEF Typed, InCall, CallSent, Goes, Waiting
    <2>2. PICK m \in Messages :
            /\ m = Message("call", s, LastId(s)) /\ m.kind = "call" /\ m.conn = conn
            /\ CallOf(m) = LastCall(s)
      <3>1. LastId(s) \in Ids /\ LastCall(s) = <<conn, s, LastId(s)>>
        BY <2>1, IdsTyped DEF Typed
      <3>2. QED
        BY <3>1, CallTyped DEF Typed
    <2>3. UNCHANGED <<requests, ran, conn, counter>> /\ Transmit(m)
      BY <1>7, <2>2 DEF CallSent, history, program
    <2>4. ~Issued(CallOf(m))
      BY <2>1, <2>2, Parameters DEF Issued, LastCall, Typed, TypeOK, ClientTypes
    <2>5. Issued(CallOf(m))'
      <3>1. pc'[s] = "waiting"
        BY <1>7 DEF CallSent, Goes, Typed, TypeOK, ClientTypes
      <3>2. Issued(LastCall(s))'
        BY <2>1, <2>3, <3>1 DEF Issued, LastCall, LastId
      <3>3. CallOf(m) = LastCall(s)'
        BY <2>2, <2>3 DEF LastCall, LastId
      <3>4. QED
        BY <1>2, <3>2, <3>3
    <2>6. /\ CallOf(m) \notin ran /\ \A u \in Slots : requests[u] # m
          /\ \A c \in Conns : m \notin InQueue(toServer[c])
      BY <2>2, <2>4, Parameters DEF Once, OnItsWay
    <2>7. /\ Labelled'
          /\ \A c \in Conns :
               \/ toServer'[c] = toServer[c]
               \/ /\ toServer'[c] = Append(toServer[c], m)
                  /\ InQueue(toServer'[c]) = InQueue(toServer[c]) \cup {m}
      BY <1>0, <2>2, <2>3, Sending
    <2>8. \A c \in Conns : DistinctCalls(toServer'[c])
      <3> SUFFICES ASSUME NEW c \in Conns PROVE DistinctCalls(toServer'[c])
        OBVIOUS
      <3>1. toServer[c] \in Seq(Messages) /\ DistinctCalls(toServer[c])
        BY <1>0 DEF Once
      <3>2. DistinctCalls(Append(toServer[c], m))
        BY <2>6, <3>1, AppendToQueue
      <3>3. QED
        BY <2>7, <3>1, <3>2
    <2>9. OnItsWay(m)'
      BY <1>2, <2>3, <2>5, <2>6 DEF OnItsWay
    <2>10. ASSUME NEW c \in Conns, NEW n \in InQueue(toServer'[c]), n.kind = "call"
           PROVE  OnItsWay(n)' /\ \A u \in Slots : requests'[u] # n
      BY <1>0, <1>3, <2>3, <2>6, <2>7, <2>9, <2>10 DEF Once
    <2>11. QED
      BY <1>0, <1>1, <1>3, <2>3, <2>7, <2>8, <2>10 DEF Once
  <1>8. ASSUME NEW c \in Conns, Disconnect(c) PROVE Once'
    <2>1. \A d \in Conns : toServer'[d] = toServer[d] \/ toServer'[d] = <<>>
      BY <1>0, <1>8 DEF Disconnect
    <2>2. Labelled' /\ \A d \in Conns : DistinctCalls(toServer'[d])
                    /\ InQueue(toServer'[d]) \subseteq InQueue(toServer[d])
      BY <1>0, <2>1, EmptyQueue DEF Once, Labelled
    <2>3. UNCHANGED <<requests, ran>>
      BY <1>8 DEF Disconnect
    <2>4. QED
      BY <1>4, <2>2, <2>3
  <1>9. ASSUME NEW c \in Conns, ReceiveRegister(c) PROVE Once'
    BY <1>0, <1>4, <1>9, Receiving DEF ReceiveRegister, Once, history
  <1>10. ASSUME NEW c \in Conns, ReceiveRequest(c) PROVE Once'
    <2>1. PICK m \in Messages :
            /\ m \in InQueue(toServer[c]) /\ m.kind = "call"
            /\ \A d \in Conns : m \notin InQueue(toServer'[d])
            /\ requests' = [requests EXCEPT ![m.slot] = m]
      BY <1>0, <1>10, Receiving DEF ReceiveRequest, Once
    <2>2. /\ Labelled' /\ ran' = ran
          /\ \A d \in Conns : InQueue(toServer'[d]) \subseteq InQueue(toServer[d])
          /\ \A d \in Conns : DistinctCalls(toServer'[d])
      BY <1>0, <1>10, Receiving DEF ReceiveRequest, Once
    <2>3. m.slot \in Slots /\ m # NoMessage
      BY CallOfMessage, Parameters
    <2>4. OnItsWay(m)'
      BY <1>3, <2>1, <2>2 DEF Once
    <2>5. ASSUME NEW d \in Conns, NEW n \in InQueue(toServer'[d]), n.kind = "call"
          PROVE  OnItsWay(n)' /\ \A u \in Slots : requests'[u] # n
      BY <1>0, <1>3, <2>1, <2>2, <2>3, <2>5 DEF Once
    <2>6. ASSUME NEW u \in Slots, requests'[u] # NoMessage
          PROVE  requests'[u].kind = "call" /\ requests'[u].slot = u /\ OnItsWay(requests[u])'
      <3>1. CASE u = m.slot
        <4>1. requests'[u] = m
          BY <1>0, <2>1, <2>3, <3>1
        <4>2. QED
          BY <2>1, <2>4, <3>1, <4>1 DEF OnItsWay, CallOf, Issued, LastId
      <3>2. CASE u # m.slot
        <4>1. requests'[u] = requests[u]
          BY <1>0, <2>1, <3>2
        <4>2. PICK n \in Messages : n = requests[u] /\ OnItsWay(n) /\ n.kind = "call" /\ n.slot = u
          BY <1>0, <2>6, <4>1 DEF Once
        <4>3. OnItsWay(n)'
          BY <1>3, <2>2, <4>2
        <4>4. QED
          BY <4>1, <4>2, <4>3 DEF OnItsWay, CallOf, Issued, LastId
      <3>3. QED
        BY <3>1, <3>2
    <2>7. QED
      BY <1>0, <1>1, <2>2, <2>5, <2>6 DEF Once
  <1>11. ASSUME NEW s \in Slots, PollRequest(s) PROVE Once'
    <2>1. PICK m \in Messages :
            /\ m = requests[s] /\ m.kind = "call" /\ m.slot = s /\ Issued(CallOf(m))
            /\ ran' = ran \cup {CallOf(m)}
      BY <1>0, <1>11 DEF PollRequest, Once, OnItsWay
    <2>2. requests' = [requests EXCEPT ![s] = NoMessage] /\ toServer' = toServer /\ Labelled'
      BY <1>0, <1>11 DEF PollRequest, TakeRequest, Labelled
    <2>3. ASSUME NEW n \in Messages, OnItsWay(n), n.kind = "call", n # m
          PROVE  OnItsWay(n)'
      BY <1>1, <1>2, <2>1, <2>3, CallOfMessage DEF OnItsWay
    <2>4. ASSUME NEW c \in Conns, NEW n \in InQueue(toServer'[c]), n.kind = "call"
          PROVE  OnItsWay(n)' /\ \A u \in Slots : requests'[u] # n
      <3>1. n \in Messages /\ OnItsWay(n) /\ \A u \in Slots : requests[u] # n
        BY <1>0, <2>2, <2>4 DEF Once
      <3>2. n # NoMessage
        BY <3>1, Parameters
      <3>3. QED
        BY <1>0, <2>1, <2>2, <2>3, <2>4, <3>1, <3>2
    <2>5. ASSUME NEW u \in Slots, requests'[u] # NoMessage
          PROVE  requests'[u].kind = "call" /\ requests'[u].slot = u /\ OnItsWay(requests[u])'
      <3>1. u # s /\ requests'[u] = requests[u]
        BY <1>0, <2>2, <2>5
      <3>2. PICK n \in Messages : n = requests[u] /\ OnItsWay(n) /\ n.kind = "call" /\ n.slot = u
        BY <1>0, <2>5, <3>1 DEF Once
      <3>3. OnItsWay(n)'
        BY <2>1, <2>3, <3>1, <3>2
      <3>4. QED
        BY <3>1, <3>2, <3>3 DEF OnItsWay, CallOf, Issued, LastId
    <2>6. \A c \in ran' : Issued(c)'
      BY <1>0, <1>1, <1>2, <2>1 DEF Once
    <2>7. QED
      BY <2>2, <2>4, <2>5, <2>6 DEF Once
  <1>12. CASE HandlerReturns \/ HandlerRaises \/ PutResponse \/ PutResponseRaises \/ PutResponseFailed
    BY <1>5, <1>12 DEF HandlerReturns, HandlerRaises, PutResponse, PutResponseRaises, PutResponseFailed,
       ResponseDone, history
  <1>13. QED
    BY <1>5, <1>6, <1>7, <1>8, <1>9, <1>10, <1>11, <1>12, StepChanges
    DEF Changes, HandlerStep, Sends

LEMMA OnceHolds == Spec => []Once
  <1>1. Init => Once
    BY EmptyQueue DEF Init, Once, Labelled
  <1>2. QED
    BY <1>1, OnceStep, TypedHolds, PTL DEF Spec

\* serve() hands no request to a handler twice, whatever the losses of the
\* connection, the restarts of the client and the ids it takes again.
THEOREM HandledOnce == Spec => RunsOnce
  <1>1. Once /\ [Next]_vars => [\A s \in Slots : PollRequest(s) => CallOf(requests[s]) \notin ran]_vars
    BY DEF Once, OnItsWay, PollRequest
  <1>2. QED
    BY <1>1, OnceHolds, PTL DEF Spec, RunsOnce

-----------------------------------------------------------------------------
(* Which connections the server can know: those it has been asked to       *)
(* accept.  A connection it has given up by a failed send has ended.       *)

Admitted(c) == c < conn \/ (c = conn /\ link # "connecting")
Over(c) == c < conn \/ (c = conn /\ link = "broken")

SessionAdmitted ==
    /\ session # 0 => Admitted(session)
    /\ link = "up" => session = conn

HandlersAdmitted ==
    /\ \A c \in InQueue(handler) : Admitted(c)
    /\ \A d \in Conns : \A c \in InQueue(original[d]) : Admitted(c)

RegistrationsAdmitted ==
    /\ \A m \in InQueue(tasks) : Admitted(m.conn)
    /\ \A s \in Slots : registry[s] # 0 => Admitted(registry[s])
    /\ jobConn # 0 => Admitted(jobConn)
    /\ \A c \in late : Admitted(c)

FailedIsOver ==
    /\ \A c \in Conns : failing[c] > 0 => Over(c)
    /\ serverPc = "closing" => Over(jobConn)

Admissions == SessionAdmitted /\ HandlersAdmitted /\ RegistrationsAdmitted /\ FailedIsOver

LEMMA AdmittedForGood ==
  ASSUME Typed, [Next]_vars, NEW c \in Conns
  PROVE  /\ Admitted(c) => Admitted(c)'
         /\ Over(c) => Over(c)'
  <1>0. c \in Nat /\ conn \in Nat
    BY Parameters DEF Typed, TypeOK, ClientTypes
  <1>1. CASE UNCHANGED <<conn, link>>
    BY <1>1 DEF Admitted, Over
  <1>2. CASE Accept \/ Break
    BY <1>2 DEF Accept, Break, Admitted, Over
  <1>3. CASE Restart
    BY <1>0, <1>3 DEF Restart, Admitted, Over
  <1>4. QED
    BY <1>1, <1>2, <1>3, StepChanges DEF Changes

\* A connection that is removed is not the one the client has.
LEMMA RemovedIsGone ==
  ASSUME Typed, FailedIsOver, Removes
  PROVE  \E c : /\ RemoveClient(c) /\ ~(c = conn /\ link = "up")
               /\ UNCHANGED <<program, client, toClient, tasks, requests, caller, ran, taken, late>>
  <1>1. PICK c : /\ RemoveClient(c)
                 /\ \/ Disconnect(c)
                    \/ c \in Conns /\ failing[c] > 0
                    \/ serverPc = "closing" /\ c = jobConn
                 /\ UNCHANGED <<program, client, toClient, tasks, requests, caller, ran, taken, late>>
    BY Removal
  <1>2. ~(c = conn /\ link = "up")
    <2>1. CASE Disconnect(c)
      BY <2>1 DEF Disconnect, Gone
    <2>2. CASE Over(c)
      BY <2>2, Parameters DEF Over, Typed, TypeOK, ClientTypes
    <2>3. QED
      BY <1>1, <2>1, <2>2 DEF FailedIsOver
  <1>3. QED
    BY <1>1, <1>2

LEMMA RaisesIsOver ==
  ASSUME Typed, SessionAdmitted, NEW c, SendRaises(c)
  PROVE  c \in Conns /\ c = session /\ Over(c)
  BY DEF Typed, TypeOK, SessionTypes, SessionAdmitted, SendRaises, Gone, Admitted, Over

LEMMA SessionAdmittedStep ==
  ASSUME Typed, SessionAdmitted, FailedIsOver, [Next]_vars
  PROVE  SessionAdmitted'
  <1> USE DEF program, sessions
  <1>0. session \in Conns \cup {0} /\ conn \in Conns /\ 0 \notin Conns
    BY Parameters DEF Typed, TypeOK, ClientTypes, SessionTypes
  <1>1. ASSUME session' # 0 PROVE Admitted(session)'
    <2>1. CASE session' = session
      <3>1. PICK c \in Conns : c = session /\ Admitted(c)
        BY <1>0, <1>1, <2>1 DEF SessionAdmitted
      <3>2. Admitted(c)'
        BY <3>1, AdmittedForGood
      <3>3. QED
        BY <2>1, <3>1, <3>2 DEF Admitted
    <2>2. CASE Accept /\ session' = conn /\ link' = "up"
      BY <2>2 DEF Accept, Admitted
    <2>3. CASE Removes
      BY <1>1, <2>1, <2>3, RemovedIsGone DEF RemoveClient
    <2>4. QED
      BY <2>1, <2>2, <2>3, StepChanges DEF Changes, Accept, RunRegister
  <1>2. ASSUME link' = "up" PROVE session' = conn'
    <2>1. CASE Accept
      BY <1>2, <2>1 DEF Accept
    <2>2. CASE ~Accept
      <3>1. link = "up" /\ conn' = conn /\ session = conn
        BY <1>2, <2>2, StepChanges DEF Changes, Break, Restart, SessionAdmitted
      <3>2. CASE Removes
        BY <3>1, <3>2, RemovedIsGone DEF RemoveClient
      <3>3. QED
        BY <2>2, <3>1, <3>2, StepChanges DEF Changes, RunRegister
    <2>3. QED
      BY <2>1, <2>2
  <1>3. QED
    BY <1>1, <1>2 DEF SessionAdmitted

LEMMA HandlersAdmittedStep ==
  ASSUME Typed, HandlersAdmitted, [Next]_vars
  PROVE  HandlersAdmitted'
  <1>0. /\ handler \in Seq(Conns) /\ original \in [Conns -> Seq(Conns)] /\ conn \in Conns
        /\ InQueue(handler) \subseteq Conns
        /\ \A d \in Conns : InQueue(original[d]) \subseteq Conns
    BY QueueTyped DEF Typed, TypeOK, ClientTypes, SessionTypes
  <1>1. \A c \in Conns : Admitted(c) => Admitted(c)'
    BY AdmittedForGood
  <1>2. CASE UNCHANGED <<handler, original>>
    BY <1>0, <1>1, <1>2 DEF HandlersAdmitted
  <1>3. CASE Accept
    <2>1. CASE UNCHANGED sessions
      BY <1>2, <2>1 DEF sessions
    <2>2. CASE /\ link' = "up" /\ handler' = Append(handler, conn)
               /\ original' = [original EXCEPT ![conn] = handler]
      <3>1. InQueue(handler') = InQueue(handler) \cup {conn}
        BY <1>0, <2>2, AppendToQueue
      <3>2. Admitted(conn)'
        BY <1>3, <2>2 DEF Accept, Admitted
      <3>3. conn' = conn
        BY <1>3 DEF Accept
      <3>4. \A c \in InQueue(handler') : Admitted(c)'
        BY <1>0, <1>1, <3>1, <3>2, <3>3 DEF HandlersAdmitted, Admitted
      <3>5. \A d \in Conns : original'[d] = original[d] \/ original'[d] = handler
        BY <1>0, <2>2
      <3>6. \A d \in Conns : \A c \in InQueue(original'[d]) : Admitted(c)'
        BY <1>0, <1>1, <3>5 DEF HandlersAdmitted
      <3>7. QED
        BY <3>4, <3>6 DEF HandlersAdmitted
    <2>3. QED
      BY <1>3, <2>1, <2>2 DEF Accept
  <1>4. ASSUME NEW e \in Conns, Disconnect(e) PROVE HandlersAdmitted'
    <2>1. /\ handler' = original[e]
          /\ \A d \in Conns : original'[d] = original[d] \/ original'[d] = <<>>
      BY <1>0, <1>4 DEF Disconnect
    <2>2. \A c \in InQueue(handler') : Admitted(c)'
      BY <1>0, <1>1, <2>1 DEF HandlersAdmitted
    <2>3. \A d \in Conns : \A c \in InQueue(original'[d]) : Admitted(c)'
      BY <1>0, <1>1, <2>1, EmptyQueue DEF HandlersAdmitted
    <2>4. QED
      BY <2>2, <2>3 DEF HandlersAdmitted
  <1>5. QED
    BY <1>2, <1>3, <1>4, StepChanges DEF Changes

LEMMA RegistrationsAdmittedStep ==
  ASSUME Typed, SessionAdmitted, HandlersAdmitted, RegistrationsAdmitted, [Next]_vars
  PROVE  RegistrationsAdmitted'
  <1>0. /\ tasks \in Seq(Messages) /\ InQueue(tasks) \subseteq Messages
        /\ registry \in [Slots -> Conns \cup {0}] /\ jobConn \in Conns \cup {0}
        /\ late \subseteq Conns /\ 0 \notin Conns
    BY QueueTyped, Parameters DEF Typed, TypeOK, RegistrationTypes, ServerTypes
  <1>1. \A c \in Conns : Admitted(c) => Admitted(c)'
    BY AdmittedForGood
  <1>2. \A m \in InQueue(tasks') : Admitted(m.conn)'
    <2>1. CASE InQueue(tasks') \subseteq InQueue(tasks)
      BY <1>0, <1>1, <2>1, CallOfMessage DEF RegistrationsAdmitted
    <2>2. ASSUME NEW c \in Conns, ReceiveRegister(c), Len(handler) = 1
          PROVE  \A m \in InQueue(tasks') : Admitted(m.conn)'
      <3>1. handler[1] \in Conns /\ handler[1] \in InQueue(handler)
        BY <2>2, QueueTyped DEF Typed, TypeOK, SessionTypes, InQueue
      <3>2. PICK n \in Messages :
              n.conn = handler[1] /\ tasks' = Append(tasks, n)
        <4>1. Head(toServer[c]) \in Messages
          BY <2>2, TailOfQueue DEF ReceiveRegister, Typed, TypeOK, NetworkTypes
        <4>2. \A m \in Messages : [m EXCEPT !.conn = handler[1]] \in Messages
                                  /\ [m EXCEPT !.conn = handler[1]].conn = handler[1]
          BY <3>1 DEF Messages
        <4>3. QED
          BY <2>2, <4>1, <4>2 DEF ReceiveRegister
      <3>3. InQueue(tasks') = InQueue(tasks) \cup {n}
        BY <1>0, <3>2, AppendToQueue
      <3>4. Admitted(handler[1])
        BY <3>1 DEF HandlersAdmitted
      <3>5. ASSUME NEW m \in InQueue(tasks') PROVE Admitted(m.conn)'
        <4>1. m.conn \in Conns /\ Admitted(m.conn)
          BY <1>0, <3>1, <3>2, <3>3, <3>4, CallOfMessage DEF RegistrationsAdmitted
        <4>2. QED
          BY <1>1, <4>1
      <3>6. QED
        BY <3>5
    <2>3. CASE RunRegister
      BY <1>0, <2>1, <2>3, TailOfQueue DEF RunRegister
    <2>4. ASSUME NEW c \in Conns, ReceiveRegister(c), Len(handler) # 1
          PROVE  tasks' = tasks
      BY <2>4 DEF ReceiveRegister
    <2>5. QED
      BY <2>1, <2>2, <2>3, <2>4, StepChanges DEF Changes
  <1>3. ASSUME RunRegister
        PROVE  \E c \in Conns : /\ Admitted(c)
                                /\ \A s \in Slots : registry'[s] \in {registry[s], c}
                                /\ late' \subseteq late \cup {c}
    <2>1. PICK m \in Messages : m = Head(tasks) /\ m \in InQueue(tasks)
      BY <1>0, <1>3, TailOfQueue DEF RunRegister
    <2>2. m.conn \in Conns /\ Admitted(m.conn)
      BY <2>1, CallOfMessage DEF RegistrationsAdmitted
    <2>3. \A s \in Slots : registry'[s] \in {registry[s], m.conn}
      BY <1>0, <1>3, <2>1 DEF RunRegister
    <2>4. late' \subseteq late \cup {m.conn}
      BY <1>3, <2>1 DEF RunRegister
    <2>5. QED
      BY <2>2, <2>3, <2>4
  <1>4. ASSUME NEW s \in Slots, registry'[s] # 0 PROVE Admitted(registry[s])'
    <2>1. PICK c \in Conns : registry'[s] = c /\ Admitted(c)
      <3>1. CASE registry'[s] = registry[s]
        BY <1>0, <1>4, <3>1 DEF RegistrationsAdmitted
      <3>2. CASE Accept
        BY <3>1, <3>2 DEF Accept, registrations
      <3>3. CASE Removes
        BY <1>4, <3>1, <3>3, Removal DEF RemoveClient, Remaining
      <3>4. CASE RunRegister
        BY <1>3, <1>4, <3>1, <3>4
      <3>5. QED
        BY <3>1, <3>2, <3>3, <3>4, StepChanges DEF Changes
    <2>2. Admitted(c)'
      BY <1>1, <2>1
    <2>3. QED
      BY <2>1, <2>2 DEF Admitted
  <1>5. ASSUME jobConn' # 0 PROVE Admitted(jobConn)'
    <2>1. PICK c \in Conns : jobConn' = c /\ Admitted(c)
      <3>1. CASE jobConn' = jobConn
        BY <1>0, <1>5, <3>1 DEF RegistrationsAdmitted
      <3>2. ASSUME NEW s \in Slots, PollRequest(s)
            PROVE  \E c \in Conns : jobConn' = c /\ Admitted(c)
        BY <1>0, <3>2 DEF PollRequest, RegistrationsAdmitted
      <3>3. CASE HandlerReturns \/ HandlerRaises \/ PutResponse \/ PutResponseRaises \/ PutResponseFailed
        BY <1>5, <3>1, <3>3 DEF HandlerReturns, HandlerRaises, PutResponse, PutResponseRaises,
           PutResponseFailed, ResponseDone
      <3>4. QED
        BY <3>1, <3>2, <3>3, StepChanges DEF Changes, HandlerStep
    <2>2. Admitted(c)'
      BY <1>1, <2>1
    <2>3. QED
      BY <2>1, <2>2 DEF Admitted
  <1>6. ASSUME NEW c \in late' PROVE Admitted(c)'
    <2>1. c \in Conns /\ Admitted(c)
      <3>1. CASE c \in late
        BY <1>0, <3>1 DEF RegistrationsAdmitted
      <3>2. CASE RunRegister
        BY <1>3, <1>6, <3>1, <3>2
      <3>3. QED
        BY <1>6, <3>1, <3>2, StepChanges DEF Changes
    <2>2. QED
      BY <1>1, <2>1
  <1>7. QED
    BY <1>2, <1>4, <1>5, <1>6 DEF RegistrationsAdmitted

LEMMA FailedIsOverStep ==
  ASSUME Typed, SessionAdmitted, FailedIsOver, [Next]_vars
  PROVE  FailedIsOver'
  <1>0. /\ failing \in [Conns -> Nat] /\ jobConn \in Conns \cup {0} /\ 0 \notin Conns
        /\ serverPc = "closing" => jobConn \in Conns
    BY Parameters DEF Typed, TypeOK, RegistrationTypes, ServerTypes, HasJob
  <1>1. ASSUME NEW c \in Conns, failing'[c] > 0 PROVE Over(c)'
    <2>1. Over(c)
      <3>1. CASE failing[c] > 0
        BY <3>1 DEF FailedIsOver
      <3>2. ASSUME RunRegister, failing[c] = 0 PROVE Over(c)
        <4>1. SendRaises(session) /\ failing' = [failing EXCEPT ![session] = @ + 1]
          BY <1>1, <3>2 DEF RunRegister
        <4>2. c = session
          BY <1>0, <1>1, <3>2, <4>1
        <4>3. QED
          BY <4>1, <4>2, RaisesIsOver
      <3>3. ASSUME NEW d \in Conns, RegisterFailed(d) PROVE failing[c] > 0
        <4>1. failing[d] > 0 /\ failing' = [failing EXCEPT ![d] = @ - 1]
          BY <3>3 DEF RegisterFailed
        <4>2. QED
          BY <1>0, <1>1, <4>1
      <3>4. QED
        BY <1>0, <1>1, <3>1, <3>2, <3>3, StepChanges DEF Changes
    <2>2. QED
      BY <2>1, AdmittedForGood
  <1>2. ASSUME serverPc' = "closing" PROVE Over(jobConn)'
    <2>1. PICK c \in Conns : jobConn' = c /\ Over(c)
      <3>1. CASE serverPc = "closing" /\ jobConn' = jobConn
        BY <1>0, <3>1 DEF FailedIsOver
      <3>2. CASE PutResponseRaises
        BY <3>2, RaisesIsOver DEF PutResponseRaises, Recipient
      <3>3. CASE (\E s \in Slots : PollRequest(s)) \/ HandlerReturns \/ HandlerRaises \/ PutResponse
                 \/ PutResponseFailed
        BY <1>2, <3>3 DEF PollRequest, HandlerReturns, HandlerRaises, PutResponse, PutResponseFailed,
           ResponseDone
      <3>4. QED
        BY <1>2, <3>1, <3>2, <3>3, StepChanges DEF Changes, HandlerStep
    <2>2. Over(c)'
      BY <2>1, AdmittedForGood
    <2>3. QED
      BY <2>1, <2>2 DEF Over
  <1>3. QED
    BY <1>1, <1>2 DEF FailedIsOver

LEMMA AdmissionsHold == Spec => []Admissions
  <1>1. Init => Admissions
    <2> SUFFICES ASSUME Init PROVE Admissions
      OBVIOUS
    <2>1. SessionAdmitted /\ FailedIsOver
      BY DEF Init, SessionAdmitted, FailedIsOver
    <2>2. HandlersAdmitted
      BY EmptyQueue DEF Init, HandlersAdmitted
    <2>3. RegistrationsAdmitted
      BY EmptyQueue DEF Init, RegistrationsAdmitted
    <2>4. QED
      BY <2>1, <2>2, <2>3 DEF Admissions
  <1>2. Typed /\ Admissions /\ [Next]_vars => Admissions'
    BY SessionAdmittedStep, HandlersAdmittedStep, RegistrationsAdmittedStep, FailedIsOverStep
    DEF Admissions
  <1>3. QED
    BY <1>1, <1>2, TypedHolds, PTL DEF Spec

-----------------------------------------------------------------------------
(* Where a response comes from: what travels on a connection was sent on   *)
(* it, except the requests that an earlier one left in the server's        *)
(* buffer, the responses to them and the replies to what it registered.    *)

Own(m) == m.conn = conn \/ m \in leftover \/ m.conn \in late

Requests ==
    \A s \in Slots : requests[s] # NoMessage =>
        requests[s].kind = "call" /\ requests[s].slot = s
        /\ (requests[s].conn = session \/ requests[s] \in leftover)

Job ==
    serverPc # "poll" =>
        job.kind = "call" /\ (link = "up" /\ jobConn = conn => job.conn = conn \/ job \in leftover)

AtClient ==
    /\ \A m \in InQueue(toClient) : Own(m)
    /\ \A s \in Slots : replies[s] # NoMessage => replies[s].slot = s /\ Own(replies[s])

Provenance == Requests /\ Job /\ AtClient

\* What has been left over stays so, and so does a late registration.
LEMMA HistoryGrows ==
  ASSUME [Next]_vars
  PROVE  leftover \subseteq leftover' /\ late \subseteq late' /\ ran \subseteq ran'
  BY StepChanges DEF Changes, Removes, Disconnect, RegisterFailed, PutResponseFailed, RemoveClient,
     ReceiveRequest, RunRegister, HandlerStep, PollRequest, HandlerReturns, HandlerRaises, PutResponse,
     PutResponseRaises, history

LEMMA RequestsStep ==
  ASSUME Typed, Labelled, Requests, [Next]_vars
  PROVE  Requests'
  <1>0. /\ requests \in [Slots -> Messages \cup {NoMessage}] /\ session \in Conns \cup {0}
        /\ 0 \notin Conns /\ NoMessage \notin Messages /\ leftover \subseteq leftover'
    BY Parameters, HistoryGrows DEF Typed, TypeOK, SessionTypes, ServerTypes
  <1>1. ASSUME UNCHANGED requests, session' = session \/ session = 0
        PROVE  Requests'
    BY <1>0, <1>1, CallOfMessage DEF Requests
  <1>2. CASE Accept
    BY <1>1, <1>2 DEF Accept, server, sessions
  <1>3. CASE Removes
    <2>1. PICK c : /\ RemoveClient(c) /\ UNCHANGED requests
      BY <1>3, Removal
    <2>2. ASSUME NEW s \in Slots, requests[s] # NoMessage
          PROVE  requests[s].conn = session' \/ requests[s] \in leftover'
      <3>1. CASE requests[s] \in leftover
        BY <1>0, <3>1
      <3>2. CASE requests[s].conn = session /\ session' = session
        BY <3>2
      <3>3. CASE requests[s].conn = session /\ session' # session
        <4>1. c = session
          BY <2>1, <3>3 DEF RemoveClient
        <4>2. requests[s] \in Buffered
          BY <2>2 DEF Buffered
        <4>3. QED
          BY <2>1, <3>3, <4>1, <4>2 DEF RemoveClient
      <3>4. QED
        BY <2>2, <3>1, <3>2, <3>3 DEF Requests
    <2>3. QED
      BY <2>1, <2>2 DEF Requests
  <1>4. ASSUME NEW c \in Conns, ReceiveRequest(c) PROVE Requests'
    <2>1. PICK m \in Messages :
            /\ m.conn = c /\ m.kind = "call" /\ requests' = [requests EXCEPT ![m.slot] = m]
            /\ c = session \/ m \in leftover'
      <3>1. Head(toServer[c]) \in Messages /\ Head(toServer[c]).conn = c
        BY <1>4, Receiving DEF ReceiveRequest
      <3>2. QED
        BY <1>4, <3>1 DEF ReceiveRequest
    <2>2. m.slot \in Slots /\ session' = session
      BY <1>4, CallOfMessage DEF ReceiveRequest, sessions
    <2>3. QED
      BY <1>0, <2>1, <2>2 DEF Requests
  <1>5. ASSUME NEW s \in Slots, PollRequest(s) PROVE Requests'
    BY <1>0, <1>5 DEF PollRequest, TakeRequest, Requests, sessions
  <1>6. CASE RunRegister
    BY <1>1, <1>6 DEF RunRegister, server, sessions
  <1>7. QED
    BY <1>1, <1>2, <1>3, <1>4, <1>5, <1>6, StepChanges DEF Changes

LEMMA JobStep ==
  ASSUME Typed, Admissions, Requests, RegistrationsAdmitted, Job, [Next]_vars
  PROVE  Job'
  <1>0. /\ conn \in Conns /\ 0 \notin Conns /\ leftover \subseteq leftover'
        /\ link = "up" => session = conn
    BY Parameters, HistoryGrows DEF Typed, TypeOK, ClientTypes, Admissions, SessionAdmitted
  <1>1. CASE UNCHANGED <<serverPc, job, jobConn>> \/ (UNCHANGED <<job, jobConn>> /\ serverPc # "poll")
    <2>1. CASE Accept
      <3>1. serverPc # "poll" => jobConn # conn
        BY <2>1, Parameters DEF Accept, Admissions, RegistrationsAdmitted, Admitted, Typed, TypeOK, ClientTypes, HasJob
      <3>2. QED
        BY <1>1, <2>1, <3>1 DEF Accept, Job
    <2>2. CASE ~Accept
      <3>1. link' = "up" => link = "up" /\ conn' = conn
        BY <2>2, StepChanges DEF Changes, Break, Restart
      <3>2. QED
        BY <1>0, <1>1, <3>1 DEF Job
    <2>3. QED
      BY <2>1, <2>2
  <1>2. ASSUME NEW s \in Slots, PollRequest(s) PROVE Job'
    <2>1. /\ job' = requests[s] /\ requests[s] # NoMessage /\ jobConn' = registry[s]
          /\ UNCHANGED <<conn, link, session, leftover>>
      BY <1>2 DEF PollRequest, program, sessions
    <2>2. QED
      BY <1>0, <2>1 DEF Job, Requests
  <1>3. CASE HandlerReturns \/ PutResponseRaises
    BY <1>1, <1>3 DEF HandlerReturns, PutResponseRaises
  <1>4. CASE HandlerRaises \/ PutResponse \/ PutResponseFailed
    BY <1>4 DEF HandlerRaises, PutResponse, PutResponseFailed, ResponseDone, Job
  <1>5. QED
    BY <1>1, <1>2, <1>3, <1>4, StepChanges DEF Changes, HandlerStep

\* What a reply adds to the messages on their way to the client.
LEMMA Replying ==
  ASSUME Typed, NEW m \in Messages, NEW c, Reply(c, m)
  PROVE  \/ toClient' = toClient
         \/ /\ c = session /\ c = conn /\ link = "up"
            /\ toClient' = Append(toClient, m)
            /\ InQueue(toClient') = InQueue(toClient) \cup {m}
  BY AppendToQueue DEF Reply, Typed, TypeOK, NetworkTypes

LEMMA AtClientStep ==
  ASSUME Typed, Job, AtClient, [Next]_vars
  PROVE  AtClient'
  <1> USE DEF program, client, network
  <1>0. /\ toClient \in Seq(Messages) /\ replies \in [Slots -> Messages \cup {NoMessage}]
        /\ leftover \subseteq leftover' /\ late \subseteq late'
    BY HistoryGrows DEF Typed, TypeOK, ClientTypes, NetworkTypes
  <1>1. ASSUME UNCHANGED conn, InQueue(toClient') \subseteq InQueue(toClient),
               \A s \in Slots : replies'[s] \in {replies[s], NoMessage}
        PROVE  AtClient'
    BY <1>0, <1>1 DEF AtClient, Own
  <1>2. CASE Restart
    BY <1>2, EmptyQueue DEF Restart, AtClient
  <1>3. CASE ClientReceive
    <2>1. PICK m \in Messages :
            Own(m) /\ replies' = [replies EXCEPT ![m.slot] = m]
      BY <1>0, <1>3, TailOfQueue DEF ClientReceive, AtClient
    <2>2. m.slot \in Slots
      BY CallOfMessage
    <2>3. InQueue(toClient') \subseteq InQueue(toClient) /\ UNCHANGED conn
      BY <1>0, <1>3, TailOfQueue DEF ClientReceive
    <2>4. QED
      BY <1>0, <2>1, <2>2, <2>3 DEF AtClient, Own
  <1>4. ASSUME NEW m \in Messages, NEW c, Reply(c, m),
               c = session /\ c = conn /\ link = "up" => Own(m)', UNCHANGED <<conn, replies>>
        PROVE  AtClient'
    <2>1. CASE InQueue(toClient') = InQueue(toClient) \cup {m} /\ Own(m)'
      BY <1>0, <1>4, <2>1 DEF AtClient, Own
    <2>2. QED
      BY <1>1, <1>4, <2>1, Replying
  <1>5. CASE RunRegister
    <2>1. CASE UNCHANGED toClient
      BY <1>1, <1>5, <2>1 DEF RunRegister
    <2>2. CASE Reply(session, Head(tasks)) /\ registry[Head(tasks).slot] = 0
      <3>1. PICK m \in Messages : m = Head(tasks)
        BY <1>5, TailOfQueue DEF RunRegister, Typed, TypeOK, RegistrationTypes
      <3>2. late' = late \cup ({m.conn} \ {session}) /\ UNCHANGED <<conn, replies>>
        BY <1>5, <2>2, <3>1 DEF RunRegister
      <3>3. session = conn => Own(m)'
        BY <3>2 DEF Own
      <3>4. QED
        BY <1>4, <2>2, <3>1, <3>2, <3>3
    <2>3. QED
      BY <1>5, <2>1, <2>2 DEF RunRegister
  <1>6. CASE PutResponse
    <2>1. PICK m \in Messages : m = job
      BY <1>6 DEF PutResponse, Typed, HasJob
    <2>2. Reply(jobConn, m) /\ UNCHANGED <<conn, replies>>
      BY <1>6, <2>1 DEF PutResponse, Recipient
    <2>3. link = "up" /\ jobConn = conn => Own(m)'
      BY <1>0, <1>6, <2>1, <2>2 DEF PutResponse, Job, Own
    <2>4. QED
      BY <1>4, <2>2, <2>3
  <1>7. ASSUME NEW s \in Slots, ClientStep(s)
        PROVE  AtClient'
    <2>1. \A u \in Slots : replies'[u] \in {replies[u], NoMessage}
      BY <1>0, <1>7 DEF ClientStep, RegisterSend, RegisterReply, RegisterTimeout, CallRefused,
         CallBegin, CallSent, CallNotSent, PollResponse, PollTimeout, TakeReply
    <2>2. UNCHANGED <<conn, toClient>>
      BY <1>7 DEF ClientStep, RegisterSend, RegisterReply, RegisterTimeout, CallRefused,
         CallBegin, CallSent, CallNotSent, PollResponse, PollTimeout
    <2>3. QED
      BY <1>1, <2>1, <2>2
  <1>8. QED
    BY <1>1, <1>2, <1>3, <1>5, <1>6, <1>7, StepChanges DEF Changes

LEMMA Origins == Spec => []Provenance
  <1>1. Init => Provenance
    BY EmptyQueue DEF Init, Provenance, Requests, Job, AtClient
  <1>2. Typed /\ Once /\ Admissions /\ Provenance /\ [Next]_vars => Provenance'
    BY RequestsStep, JobStep, AtClientStep DEF Provenance, Once, Admissions
  <1>3. QED
    BY <1>1, <1>2, TypedHolds, OnceHolds, AdmissionsHold, PTL DEF Spec

-----------------------------------------------------------------------------
(* What a client that takes itself for registered can rely on.  Each slot  *)
(* is sent one reply to its registrations on a connection, before any      *)
(* other message and when it has been registered from that connection.  A  *)
(* handler task that runs late breaks this, by registering the slot from   *)
(* an earlier connection.                                                  *)

InUse(s) == pc[s] \in {"ready", "sending", "waiting"}

\* m is the reply to a registration of s.
ReplyTo(s, m) == m \in Messages /\ m.kind = "register" /\ m.slot = s

NoReplyTo(s) ==
    /\ ~ReplyTo(s, replies[s])
    /\ \A m \in InQueue(toClient) : ~ReplyTo(s, m)

NothingFor(s) ==
    /\ replies[s] = NoMessage
    /\ \A m \in InQueue(toClient) : m.slot # s

ReplyComesFirst(s) ==
    \A j \in 1..Len(toClient) : ReplyTo(s, toClient[j]) =>
        replies[s] = NoMessage /\ \A i \in 1..(j - 1) : toClient[i].slot # s

Timely(s) ==
    /\ InUse(s) => NoReplyTo(s)
    /\ ReplyComesFirst(s)
    /\ link = "up" /\ registry[s] # conn => ~InUse(s) /\ NothingFor(s)

NothingYet ==
    link = "connecting" =>
        toClient = <<>> /\ \A s \in Slots : pc[s] = "new" /\ replies[s] = NoMessage

JobRegistered ==
    link = "up" /\ serverPc # "poll" /\ jobConn = conn => registry[job.slot] = conn

Registrations ==
    /\ NothingYet
    /\ JobRegistered
    /\ late \subseteq {conn} => \A s \in Slots : Timely(s)

LEMMA NothingYetStep ==
  ASSUME Typed, NothingYet, [Next]_vars
  PROVE  NothingYet'
  <1> USE DEF program, client, network, NothingYet
  <1>0. /\ pc \in [Slots -> {"new", "registering", "ready", "sending", "waiting"}]
        /\ replies \in [Slots -> Messages \cup {NoMessage}]
    BY DEF Typed, TypeOK, ClientTypes
  <1>1. CASE Restart
    BY <1>1 DEF Restart
  <1>2. ASSUME link' = "connecting", ~Restart
        PROVE  UNCHANGED <<toClient, pc, replies>> /\ link = "connecting"
    <2>1. link = "connecting"
      BY <1>2, StepChanges DEF Changes, Accept, Break
    <2>2. ASSUME NEW s \in Slots, ClientStep(s) PROVE FALSE
      BY <2>1, <2>2 DEF ClientStep, RegisterSend, RegisterReply, RegisterTimeout, CallRefused,
         CallBegin, CallSent, CallNotSent, PollResponse, PollTimeout, NewRequest, Goes
    <2>3. ~ClientReceive
      BY <2>1 DEF ClientReceive
    <2>4. RunRegister \/ PutResponse => UNCHANGED toClient
      BY <2>1 DEF RunRegister, PutResponse, Reply
    <2>5. QED
      BY <1>2, <2>1, <2>2, <2>3, <2>4, StepChanges DEF Changes
  <1>3. QED
    BY <1>1, <1>2

LEMMA JobRegisteredStep ==
  ASSUME Typed, Admissions, Requests, JobRegistered, [Next]_vars
  PROVE  JobRegistered'
  <1> SUFFICES ASSUME link' = "up", serverPc' # "poll", jobConn' = conn'
               PROVE  registry'[job'.slot] = conn'
    BY DEF JobRegistered
  <1>0. /\ registry \in [Slots -> Conns \cup {0}] /\ 0 \notin Conns /\ conn \in Conns /\ conn \in Nat
        /\ serverPc # "poll" => job \in Messages
    BY Parameters DEF Typed, TypeOK, ClientTypes, RegistrationTypes, HasJob
  <1>1. CASE Accept
    BY <1>0, <1>1 DEF Accept, server, Admissions, RegistrationsAdmitted, Admitted
  <1>2. CASE ~Accept
    <2>0. link = "up" /\ conn' = conn
      BY <1>2, StepChanges DEF Changes, Break, Restart
    <2>1. ASSUME NEW s \in Slots, PollRequest(s)
          PROVE  registry'[job'.slot] = conn'
      BY <2>0, <2>1 DEF PollRequest, Requests, registrations
    <2>2. ASSUME serverPc # "poll", UNCHANGED <<job, jobConn>>
          PROVE  registry'[job'.slot] = conn'
      <3>1. registry[job.slot] = conn /\ job.slot \in Slots
        BY <1>0, <2>0, <2>2, CallOfMessage DEF JobRegistered
      <3>2. CASE Removes
        BY <1>0, <2>0, <2>2, <3>1, <3>2, RemovedIsGone DEF Admissions, RemoveClient, Remaining
      <3>3. CASE RunRegister
        BY <1>0, <2>0, <2>2, <3>1, <3>3 DEF RunRegister
      <3>4. QED
        BY <1>2, <2>0, <2>2, <3>1, <3>2, <3>3, StepChanges DEF Changes
    <2>3. CASE HandlerReturns \/ HandlerRaises \/ PutResponse \/ PutResponseRaises \/ PutResponseFailed
      BY <2>2, <2>3 DEF HandlerReturns, HandlerRaises, PutResponse, PutResponseRaises,
         PutResponseFailed, ResponseDone
    <2>4. QED
      BY <2>1, <2>2, <2>3, StepChanges DEF Changes, HandlerStep
  <1>3. QED
    BY <1>1, <1>2

\* A message is added to those on their way to the client.
LEMMA AppendedReply ==
  ASSUME Typed, NEW m \in Messages, toClient' = Append(toClient, m),
         UNCHANGED <<pc, replies>>, NEW s \in Slots,
         m.kind = "register" /\ m.slot = s => ~InUse(s) /\ NothingFor(s),
         InUse(s) => NoReplyTo(s), ReplyComesFirst(s)
  PROVE  /\ InUse(s)' => NoReplyTo(s)'
         /\ ReplyComesFirst(s)'
         /\ NothingFor(s) /\ m.slot # s => NothingFor(s)'
  <1>0. /\ toClient \in Seq(Messages) /\ Len(toClient) \in Nat
        /\ InQueue(toClient') = InQueue(toClient) \cup {m}
        /\ \A i \in 1..Len(toClient) : toClient[i] \in InQueue(toClient)
    BY AppendToQueue DEF Typed, TypeOK, NetworkTypes, InQueue
  <1>1. /\ Len(toClient') = Len(toClient) + 1
        /\ toClient'[Len(toClient) + 1] = m
        /\ \A i \in 1..Len(toClient) : toClient'[i] = toClient[i]
    BY <1>0
  <1>2. InUse(s)' => NoReplyTo(s)'
    BY <1>0 DEF InUse, NoReplyTo, ReplyTo
  <1>3. ASSUME NEW j \in 1..Len(toClient'), ReplyTo(s, toClient'[j])
        PROVE  replies'[s] = NoMessage /\ \A i \in 1..(j - 1) : toClient'[i].slot # s
    <2>1. CASE j = Len(toClient) + 1
      <3>1. NothingFor(s)
        BY <1>1, <1>3, <2>1 DEF ReplyTo
      <3>2. ASSUME NEW i \in 1..(j - 1) PROVE toClient'[i].slot # s
        BY <1>0, <1>1, <2>1, <3>1 DEF NothingFor
      <3>3. QED
        BY <3>1, <3>2 DEF NothingFor
    <2>2. CASE j \in 1..Len(toClient)
      <3>1. replies[s] = NoMessage /\ \A i \in 1..(j - 1) : toClient[i].slot # s
        BY <1>1, <1>3, <2>2 DEF ReplyComesFirst
      <3>2. \A i \in 1..(j - 1) : i \in 1..Len(toClient)
        BY <1>0, <2>2
      <3>3. QED
        BY <1>1, <3>1, <3>2
    <2>3. QED
      BY <1>0, <1>1, <2>1, <2>2
  <1>4. ReplyComesFirst(s)'
    BY <1>3 DEF ReplyComesFirst, ReplyTo
  <1>5. NothingFor(s) /\ m.slot # s => NothingFor(s)'
    BY <1>0 DEF NothingFor
  <1>6. QED
    BY <1>2, <1>4, <1>5

\* The client's receive loop moves the first of them to the buffer.
LEMMA ReceivedReply ==
  ASSUME Typed, ClientReceive, NEW s \in Slots, Timely(s)
  PROVE  Timely(s)'
  <1>0. /\ toClient \in Seq(Messages) /\ Len(toClient) \in Nat
        /\ replies \in [Slots -> Messages \cup {NoMessage}]
        /\ NoMessage \notin Messages
    BY Parameters DEF Typed, TypeOK, ClientTypes, NetworkTypes
  <1>1. PICK m \in Messages :
          /\ m = toClient[1] /\ m \in InQueue(toClient) /\ Len(toClient) > 0
          /\ replies' = [replies EXCEPT ![m.slot] = m]
    <2>1. Head(toClient) \in Messages /\ Head(toClient) \in InQueue(toClient)
      BY <1>0, TailOfQueue DEF ClientReceive
    <2>2. Head(toClient) = toClient[1] /\ Len(toClient) > 0
      BY <1>0 DEF ClientReceive
    <2>3. QED
      BY <2>1, <2>2 DEF ClientReceive
  <1>2. /\ m.slot \in Slots
        /\ UNCHANGED <<link, conn, registry, pc>>
        /\ toClient' = Tail(toClient)
        /\ InQueue(toClient') \subseteq InQueue(toClient)
    BY <1>0, CallOfMessage, TailOfQueue DEF ClientReceive, program, registrations
  <1>3. /\ Len(toClient') = Len(toClient) - 1
        /\ \A i \in 1..Len(toClient') : i + 1 \in 1..Len(toClient) /\ toClient'[i] = toClient[i + 1]
    BY <1>0, <1>1, <1>2
  <1>4. replies'[s] = IF m.slot = s THEN m ELSE replies[s]
    BY <1>0, <1>1, <1>2
  <1>5. InUse(s)' => NoReplyTo(s)'
    BY <1>1, <1>2, <1>4 DEF Timely, InUse, NoReplyTo, ReplyTo
  <1>6. ASSUME NEW j \in 1..Len(toClient'), ReplyTo(s, toClient'[j])
        PROVE  replies'[s] = NoMessage /\ \A i \in 1..(j - 1) : toClient'[i].slot # s
    <2>1. replies[s] = NoMessage /\ \A i \in 1..j : toClient[i].slot # s
      <3>1. j + 1 \in 1..Len(toClient) /\ ReplyTo(s, toClient[j + 1]) /\ (j + 1) - 1 = j
        BY <1>3, <1>6
      <3>2. QED
        BY <3>1 DEF Timely, ReplyComesFirst
    <2>2. m.slot # s
      <3>1. 1 \in 1..j
        OBVIOUS
      <3>2. QED
        BY <1>1, <2>1, <3>1
    <2>3. ASSUME NEW i \in 1..(j - 1) PROVE toClient'[i].slot # s
      <3>1. i \in 1..Len(toClient') /\ i + 1 \in 1..j
        BY <1>0, <1>3
      <3>2. QED
        BY <1>3, <2>1, <3>1
    <2>4. QED
      BY <1>4, <2>1, <2>2, <2>3
  <1>7. ReplyComesFirst(s)'
    BY <1>6 DEF ReplyComesFirst, ReplyTo
  <1>8. link' = "up" /\ registry'[s] # conn' => ~InUse(s)' /\ NothingFor(s)'
    BY <1>1, <1>2, <1>4 DEF Timely, InUse, NothingFor
  <1>9. QED
    BY <1>5, <1>7, <1>8 DEF Timely

\* The reply that makes a slot registered is the last one it is sent.
LEMMA TakenReply ==
  ASSUME Typed, AtClient, NEW s \in Slots, RegisterReply(s), NEW u \in Slots, Timely(u)
  PROVE  Timely(u)'
  <1>0. /\ toClient \in Seq(Messages) /\ replies \in [Slots -> Messages \cup {NoMessage}]
        /\ pc \in [Slots -> {"new", "registering", "ready", "sending", "waiting"}]
        /\ NoMessage \notin Messages
    BY Parameters DEF Typed, TypeOK, ClientTypes, NetworkTypes
  <1>1. /\ replies[s] # NoMessage /\ replies' = [replies EXCEPT ![s] = NoMessage]
        /\ \A v \in Slots \ {s} : pc'[v] = pc[v]
        /\ UNCHANGED <<link, conn, registry, toClient>>
    BY <1>0 DEF RegisterReply, Goes, TakeReply, program, network, registrations
  <1>2. CASE u # s
    BY <1>0, <1>1, <1>2 DEF Timely, InUse, NoReplyTo, ReplyTo, NothingFor, ReplyComesFirst
  <1>3. CASE u = s
    <2>1. \A i \in 1..Len(toClient) : ~ReplyTo(s, toClient[i])
      BY <1>1, <1>3 DEF Timely, ReplyComesFirst
    <2>2. NoReplyTo(s)'
      BY <1>0, <1>1, <2>1 DEF NoReplyTo, ReplyTo, InQueue
    <2>3. ReplyComesFirst(s)'
      BY <1>1, <2>1 DEF ReplyComesFirst, ReplyTo
    <2>4. link' = "up" => registry'[s] = conn'
      BY <1>1, <1>3 DEF Timely, NothingFor
    <2>5. QED
      BY <1>3, <2>2, <2>3, <2>4 DEF Timely
  <1>4. QED
    BY <1>2, <1>3

LEMMA TimelyStep ==
  ASSUME Typed, Admissions, Provenance, Registrations, [Next]_vars, late' \subseteq {conn'},
         NEW s \in Slots
  PROVE  Timely(s)'
  <1>0. /\ pc \in [Slots -> {"new", "registering", "ready", "sending", "waiting"}]
        /\ replies \in [Slots -> Messages \cup {NoMessage}]
        /\ registry \in [Slots -> Conns \cup {0}] /\ 0 \notin Conns /\ conn \in Conns
        /\ late \subseteq late' /\ NoMessage \notin Messages
    BY Parameters, HistoryGrows DEF Typed, TypeOK, ClientTypes, RegistrationTypes
  <1>1. CASE Restart
    BY <1>1, EmptyQueue DEF Restart, Timely, InUse, NoReplyTo, ReplyTo, ReplyComesFirst
  <1>2. CASE ~Restart
    <2>0. conn' = conn /\ \A u \in Slots : Timely(u)
      BY <1>0, <1>2, StepChanges DEF Changes, Registrations
    <2>1. ASSUME UNCHANGED toClient, replies'[s] \in {replies[s], NoMessage}, InUse(s)' => InUse(s),
                 link' = "up" => link = "up" /\ (registry[s] = conn => registry'[s] = conn)
          PROVE  Timely(s)'
      BY <2>0, <2>1, <1>0 DEF Timely, NoReplyTo, ReplyTo, NothingFor, ReplyComesFirst
    <2>2. ASSUME NEW u \in Slots, ClientStep(u) PROVE Timely(s)'
      <3>1. CASE RegisterReply(u)
        BY <2>0, <3>1, TakenReply DEF Provenance
      <3>2. CASE RegisterSend(u) \/ RegisterTimeout(u) \/ CallRefused(u)
        BY <1>0, <2>1, <3>2 DEF RegisterSend, RegisterTimeout, CallRefused, Goes, InUse, program,
           registrations, network
      <3>3. CASE CallBegin(u) \/ CallSent(u) \/ CallNotSent(u) \/ PollTimeout(u)
        BY <1>0, <2>1, <3>3 DEF CallBegin, CallSent, CallNotSent, PollTimeout, NewRequest, Goes, InUse,
           program, registrations, network
      <3>4. CASE PollResponse(u)
        BY <1>0, <2>1, <3>4 DEF PollResponse, InUse, program, registrations, network
      <3>5. QED
        BY <2>2, <3>1, <3>2, <3>3, <3>4 DEF ClientStep
    <2>3. CASE ClientReceive
      BY <2>0, <2>3, ReceivedReply
    <2>4. CASE Accept
      <3>1. toClient' = <<>> /\ replies'[s] = NoMessage /\ pc'[s] = "new"
        BY <2>4 DEF Accept, client, network, Registrations, NothingYet
      <3>2. QED
        BY <1>0, <3>1, EmptyQueue DEF Timely, InUse, NoReplyTo, ReplyTo, NothingFor, ReplyComesFirst
    <2>5. CASE Removes
      BY <1>0, <2>0, <2>1, <2>5, RemovedIsGone
      DEF Admissions, RemoveClient, Remaining, program, client, InUse
    <2>6. CASE RunRegister
      <3>1. PICK m \in Messages :
              /\ m = Head(tasks)
              /\ m.slot \in Slots /\ m.conn \in Conns
        BY <2>6, TailOfQueue, CallOfMessage DEF RunRegister, Typed, TypeOK, RegistrationTypes
      <3>2. UNCHANGED <<conn, link, pc, replies>>
        BY <2>6 DEF RunRegister, program, client
      <3>3. CASE UNCHANGED <<registry, toClient>>
        BY <2>1, <3>2, <3>3 DEF InUse
      <3>4. CASE /\ registry[m.slot] = 0
                 /\ registry' = [registry EXCEPT ![m.slot] = m.conn]
                 /\ late' = late \cup ({m.conn} \ {session})
                 /\ toClient' = toClient \/ Reply(session, m)
        <4>1. link = "up" => m.conn = conn
          BY <2>0, <3>4 DEF Admissions, SessionAdmitted
        <4>2. link = "up" => (registry[s] = conn => registry'[s] = conn)
          BY <1>0, <3>1, <3>4
        <4>3. CASE UNCHANGED toClient
          BY <2>1, <3>2, <4>2, <4>3 DEF InUse
        <4>4. CASE toClient' = Append(toClient, m) /\ link = "up"
          <5>1. m.slot = s => ~InUse(s) /\ NothingFor(s)
            BY <1>0, <2>0, <3>4, <4>4 DEF Timely
          <5>2. /\ InUse(s)' => NoReplyTo(s)'
                /\ ReplyComesFirst(s)'
                /\ NothingFor(s) /\ m.slot # s => NothingFor(s)'
            BY <2>0, <3>2, <4>4, <5>1, AppendedReply DEF Timely
          <5>3. registry'[s] # conn => registry[s] # conn /\ m.slot # s
            BY <1>0, <3>1, <3>4, <4>1, <4>2, <4>4
          <5>4. QED
            BY <2>0, <3>2, <4>4, <5>2, <5>3 DEF Timely, InUse
        <4>5. QED
          BY <3>1, <3>4, <4>3, <4>4, Replying
      <3>5. QED
        BY <2>6, <3>1, <3>3, <3>4 DEF RunRegister
    <2>7. CASE PutResponse
      <3>1. PICK m \in Messages : m = job /\ m.kind = "call" /\ Reply(jobConn, m)
        BY <2>7 DEF PutResponse, Recipient, Typed, HasJob, Provenance, Job
      <3>2. UNCHANGED <<conn, link, pc, replies, registry>>
        BY <2>7 DEF PutResponse, program, client, registrations
      <3>3. CASE UNCHANGED toClient
        BY <2>1, <3>2, <3>3 DEF InUse
      <3>4. CASE toClient' = Append(toClient, m) /\ link = "up" /\ jobConn = conn
        <4>1. /\ InUse(s)' => NoReplyTo(s)'
              /\ ReplyComesFirst(s)'
              /\ NothingFor(s) /\ m.slot # s => NothingFor(s)'
          BY <2>0, <3>1, <3>2, <3>4, AppendedReply DEF Timely
        <4>2. registry[m.slot] = conn
          BY <2>7, <3>1, <3>4 DEF PutResponse, Registrations, JobRegistered
        <4>3. QED
          BY <2>0, <3>2, <4>1, <4>2 DEF Timely, InUse
      <3>5. QED
        BY <3>1, <3>3, <3>4, Replying
    <2>8. CASE /\ UNCHANGED <<client, registry, toClient>>
               /\ UNCHANGED link \/ Break
      BY <2>1, <2>8 DEF client, InUse, Break
    <2>9. QED
      BY <1>2, <2>2, <2>3, <2>4, <2>5, <2>6, <2>7, <2>8, StepChanges DEF Changes
  <1>3. QED
    BY <1>1, <1>2

LEMMA RegistrationsHold == Spec => []Registrations
  <1>1. Init => Registrations
    <2> SUFFICES ASSUME Init PROVE Registrations
      OBVIOUS
    <2>1. NothingYet /\ JobRegistered
      BY DEF Init, NothingYet, JobRegistered
    <2>2. \A s \in Slots : Timely(s)
      BY EmptyQueue, Parameters DEF Init, Timely, InUse, NoReplyTo, ReplyTo, ReplyComesFirst
    <2>3. QED
      BY <2>1, <2>2 DEF Registrations
  <1>2. Typed /\ Admissions /\ Provenance /\ Registrations /\ [Next]_vars => Registrations'
    <2> SUFFICES ASSUME Typed, Admissions, Provenance, Registrations, [Next]_vars PROVE Registrations'
      OBVIOUS
    <2>1. NothingYet'
      BY NothingYetStep DEF Registrations
    <2>2. JobRegistered'
      BY JobRegisteredStep DEF Registrations, Provenance
    <2>3. ASSUME late' \subseteq {conn'} PROVE \A s \in Slots : Timely(s)'
      BY <2>3, TimelyStep
    <2>4. QED
      BY <2>1, <2>2, <2>3 DEF Registrations
  <1>3. QED
    BY <1>1, <1>2, TypedHolds, AdmissionsHold, Origins, PTL DEF Spec

\* On a connection that lasts, a client that takes itself for registered is
\* registered from it, unless a handler task has registered some client late:
\* no reply to it is stale, and no failed send or end of an earlier connection
\* takes its registration away.
THEOREM ClientKnowsItsRegistration == Spec => []RegisteredIsKnown
  <1>1. Registrations => RegisteredIsKnown
    BY DEF Registrations, Timely, InUse, RegisteredIsKnown
  <1>2. QED
    BY <1>1, RegistrationsHold, PTL

-----------------------------------------------------------------------------
(* The answer of a call, for a program that makes one call at a time. *)

\* While a slot is in call(), the manager has its names and no other slot is
\* calling or registering.
OneAtATime ==
    \A s \in Slots : Waiting(s) =>
        current = s /\ \A u \in Slots \ {s} : pc[u] \in {"new", "ready"}

\* The last call of a slot was answered by the message it took last.
AnsweredBy(s, m) ==
    /\ m # NoMessage /\ m.slot = s /\ m.id = LastId(s) /\ Own(m)
    /\ m.kind = "call" \/ late # {}

AnswerTaken ==
    \A s \in Slots :
        counter[s] > 0 /\ caller[LastCall(s)] = "answered" => AnsweredBy(s, taken[s])

LEMMA OneAtATimeStep ==
  ASSUME ~Overlap, Typed, OneAtATime, [Next]_vars
  PROVE  OneAtATime'
  <1> USE DEF Typed, TypeOK, ClientTypes, client
  <1>1. ASSUME UNCHANGED current, \A u \in Slots : pc'[u] = pc[u] \/ pc'[u] \in {"new", "ready"}
        PROVE  OneAtATime'
    BY <1>1 DEF OneAtATime, Waiting
  <1>2. ASSUME NEW s \in Slots, ClientStep(s) PROVE OneAtATime'
    <2>1. CASE RegisterSend(s) \/ CallBegin(s) \/ CallRefused(s)
      <3>1. /\ \A u \in Slots : pc[u] \in {"new", "ready"}
            /\ current' = s /\ \A u \in Slots \ {s} : pc'[u] = pc[u]
        BY <2>1 DEF RegisterSend, CallBegin, CallRefused, NewRequest, MayBegin, Goes
      <3>2. QED
        BY <3>1 DEF OneAtATime, Waiting
    <2>2. CASE CallSent(s)
      BY <2>2 DEF CallSent, Goes, OneAtATime, Waiting
    <2>3. CASE RegisterReply(s) \/ RegisterTimeout(s)
      BY <1>1, <2>3 DEF RegisterReply, RegisterTimeout, Goes
    <2>4. CASE CallNotSent(s) \/ PollTimeout(s)
      BY <1>1, <2>4 DEF CallNotSent, PollTimeout, Goes
    <2>5. CASE PollResponse(s)
      BY <1>1, <2>5 DEF PollResponse
    <2>6. QED
      BY <1>2, <2>1, <2>2, <2>3, <2>4, <2>5 DEF ClientStep
  <1>3. CASE Restart
    BY <1>3 DEF Restart, OneAtATime, Waiting
  <1>4. CASE ClientReceive
    BY <1>1, <1>4 DEF ClientReceive
  <1>5. QED
    BY <1>1, <1>2, <1>3, <1>4, StepChanges DEF Changes

\* What a step does to the calls of a slot.
LEMMA LastCallOfOthers ==
  ASSUME Typed, NEW s \in Slots, ClientStep(s), NEW u \in Slots, u # s
  PROVE  /\ LastCall(u)' = LastCall(u) /\ LastId(u)' = LastId(u) /\ counter'[u] = counter[u]
         /\ counter[u] > 0 => caller'[LastCall(u)] = caller[LastCall(u)]
         /\ taken'[u] = taken[u]
  <1> USE DEF Typed, TypeOK, ClientTypes, program, client, history
  <1>1. CASE RegisterSend(s) \/ RegisterReply(s) \/ RegisterTimeout(s) \/ CallSent(s)
    BY <1>1 DEF RegisterSend, RegisterReply, RegisterTimeout, CallSent, LastCall, LastId
  <1>2. CASE CallRefused(s) \/ CallBegin(s)
    <2>1. LastCall(u) # <<conn, s, counter[s]>> /\ (counter[u] > 0 => LastCall(u) \in Calls)
      BY IdsTyped DEF LastCall
    <2>2. counter'[u] = counter[u] /\ taken'[u] = taken[u] /\ conn' = conn
      BY <1>2 DEF CallRefused, CallBegin, NewRequest
    <2>3. caller' = [caller EXCEPT ![<<conn, s, counter[s]>>] = "failed"]
          \/ caller' = [caller EXCEPT ![<<conn, s, counter[s]>>] = "waiting"]
      BY <1>2 DEF CallRefused, CallBegin
    <2>4. QED
      BY <2>1, <2>2, <2>3 DEF LastCall, LastId
  <1>3. CASE CallNotSent(s) \/ PollResponse(s) \/ PollTimeout(s)
    <2>1. LastCall(u) # LastCall(s) /\ (counter[u] > 0 => LastCall(u) \in Calls)
      BY IdsTyped DEF LastCall
    <2>2. counter' = counter /\ taken'[u] = taken[u] /\ conn' = conn
      BY <1>3 DEF CallNotSent, PollResponse, PollTimeout
    <2>3. \/ caller' = caller
          \/ caller' = [caller EXCEPT ![LastCall(s)] = "failed"]
          \/ caller' = [caller EXCEPT ![LastCall(s)] = "answered"]
      BY <1>3 DEF CallNotSent, PollResponse, PollTimeout
    <2>4. QED
      BY <2>1, <2>2, <2>3 DEF LastCall, LastId
  <1>4. QED
    BY <1>1, <1>2, <1>3 DEF ClientStep

LEMMA AnswerTakenStep ==
  ASSUME Typed, AtClient, Registrations, OneAtATime, AnswerTaken, [Next]_vars
  PROVE  AnswerTaken'
  <1> USE DEF Typed, program, client, history
  <1>0. leftover \subseteq leftover' /\ late \subseteq late'
    BY HistoryGrows
  <1>1. ASSUME UNCHANGED <<conn, counter, caller, taken>> PROVE AnswerTaken'
    BY <1>0, <1>1 DEF AnswerTaken, AnsweredBy, Own, LastCall, LastId
  <1>2. ASSUME NEW s \in Slots, ClientStep(s) PROVE AnswerTaken'
    <2>0. UNCHANGED conn
      BY <1>2 DEF ClientStep, RegisterSend, RegisterReply, RegisterTimeout, CallRefused,
         CallBegin, CallSent, CallNotSent, PollResponse, PollTimeout
    <2>1. ASSUME NEW u \in Slots, u # s, (counter[u] > 0 /\ caller[LastCall(u)] = "answered")'
          PROVE  AnsweredBy(u, taken[u])'
      BY <1>0, <1>2, <2>0, <2>1, LastCallOfOthers DEF AnswerTaken, AnsweredBy, Own
    <2>2. ASSUME caller'[LastCall(s)'] # "answered" PROVE AnswerTaken'
      BY <2>1, <2>2 DEF AnswerTaken
    <2>3. CASE RegisterSend(s) \/ RegisterReply(s) \/ RegisterTimeout(s) \/ CallSent(s)
      BY <1>1, <2>3 DEF RegisterSend, RegisterReply, RegisterTimeout, CallSent
    <2>4. CASE CallRefused(s) \/ CallBegin(s)
      <3>1. /\ counter'[s] = counter[s] + 1 /\ counter[s] \in Nat
            /\ <<conn, s, counter[s]>> \in Calls
        BY <2>4, IdsTyped DEF TypeOK, ClientTypes, CallRefused, CallBegin, NewRequest
      <3>2. LastCall(s)' = <<conn, s, counter[s]>>
        BY <2>0, <3>1 DEF LastCall, LastId
      <3>3. QED
        BY <2>2, <2>4, <3>1, <3>2 DEF TypeOK, ClientTypes, CallRefused, CallBegin
    <2>5. CASE CallNotSent(s) \/ PollTimeout(s)
      <3>1. LastCall(s) \in Calls /\ LastCall(s)' = LastCall(s)
        BY <2>5, IdsTyped DEF InCall, CallNotSent, PollTimeout, Goes, Waiting, LastCall, LastId
      <3>2. QED
        BY <2>2, <2>5, <3>1 DEF TypeOK, ClientTypes, CallNotSent, PollTimeout
    <2>6. CASE PollResponse(s)
      <3>1. /\ Waiting(s) /\ current = s /\ caller[LastCall(s)] = "waiting"
            /\ LastCall(s)' = LastCall(s) /\ LastId(s)' = LastId(s)
        BY <2>6 DEF InCall, OneAtATime, PollResponse, Waiting, LastCall, LastId
      <3>2. CASE caller' = caller
        BY <2>2, <3>1, <3>2
      <3>3. CASE replies[s].id = LastId(s)
        <4>1. taken'[s] = replies[s] /\ replies[s] # NoMessage
          BY <2>6, <3>1 DEF TypeOK, ClientTypes, PollResponse
        <4>2. replies[s].kind = "call" \/ late # {}
          BY <3>1, <4>1, CallOfMessage DEF TypeOK, ClientTypes, AtClient, Registrations, Timely, InUse, Waiting,
             NoReplyTo, ReplyTo
        <4>3. AnsweredBy(s, taken[s])'
          BY <1>0, <2>0, <3>1, <3>3, <4>1, <4>2 DEF AtClient, AnsweredBy, Own
        <4>4. QED
          BY <2>1, <4>3 DEF AnswerTaken
      <3>4. QED
        BY <2>6, <3>1, <3>2, <3>3 DEF PollResponse
    <2>7. QED
      BY <1>2, <2>3, <2>4, <2>5, <2>6 DEF ClientStep
  <1>3. CASE Restart
    BY <1>3 DEF Restart, AnswerTaken
  <1>4. CASE ClientReceive
    BY <1>1, <1>4 DEF ClientReceive, registrations, server
  <1>5. QED
    BY <1>1, <1>2, <1>3, <1>4, StepChanges DEF Changes

\* A call that is answered is answered with a message of its slot and its id,
\* sent on its own connection or handled for a request that an earlier
\* connection left in the server's buffer; only where a handler task has
\* registered a client late can it be the reply to a registration.  Of a program
\* that lets two calls overlap this is not true: they share the manager's names.
THEOREM AnswersOwnCall ==
  ASSUME ~Overlap
  PROVE  Spec => []AnswerIsOwnOrLeftover
  <1>1. Init => OneAtATime /\ AnswerTaken
    BY DEF Init, OneAtATime, AnswerTaken, Waiting
  <1>2. Typed /\ AtClient /\ Registrations /\ OneAtATime /\ AnswerTaken /\ [Next]_vars
          => (OneAtATime /\ AnswerTaken)'
    BY OneAtATimeStep, AnswerTakenStep
  <1>3. Provenance => AtClient
    BY DEF Provenance
  <1>4. AnswerTaken => AnswerIsOwnOrLeftover
    BY DEF AnswerTaken, AnsweredBy, Own, AnswerIsOwnOrLeftover
  <1>5. QED
    BY <1>1, <1>2, <1>3, <1>4, TypedHolds, Origins, RegistrationsHold, PTL DEF Spec
=============================================================================
