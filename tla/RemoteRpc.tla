----------------------------- MODULE RemoteRpc -----------------------------
(***************************************************************************)
(* A remote procedure call over WebSocket: the ProtocolClientBlocking      *)
(* objects of one client program, which share a RemotePduServiceClient-    *)
(* Manager and its connection; the server's receive loop, its one-slot     *)
(* communication buffer and client registry; and the serve() loop of       *)
(* ProtocolServerBlocking, which runs one handler at a time.               *)
(*                                                                         *)
(* A slot is one ProtocolClient: a pair of a service and a client name.    *)
(* The client program may die and start again, with the same names, on a   *)
(* new connection; connections are numbered.  A message carries, besides   *)
(* the header fields of the code, the number of the connection on which    *)
(* its call was made; no action of the code depends on it.                 *)
(***************************************************************************)
EXTENDS Naturals, Sequences, FiniteSets

CONSTANTS
    Slots,      \* the ProtocolClients of the client program
    NoSlot,     \* no identifiers in the manager, or no current request
    NoMessage,  \* an empty buffer slot
    MaxConn,    \* bound on the connections the client program makes
    MaxCalls,   \* bound on the calls of one slot on one connection
    MaxTries,   \* bound on the registrations on their way at a time
    Overlap     \* may a call begin while another is in progress?

Conns == 1..MaxConn
Ids == 0..(MaxCalls - 1)
Calls == Conns \X Slots \X Ids
Messages == [kind : {"register", "call"}, conn : Conns, slot : Slots, id : Ids]

ASSUME RemoteRpcAssumption ==
    /\ IsFiniteSet(Slots)
    /\ NoSlot \notin Slots
    /\ NoMessage \notin Messages
    /\ MaxConn \in Nat \ {0}
    /\ MaxCalls \in Nat \ {0}
    /\ MaxTries \in Nat
    /\ Overlap \in BOOLEAN

VARIABLES
    conn,       \* the connection of the client program
    link,       \* what has become of that connection
    pc,         \* per slot: its place in register() or call()
    counter,    \* per slot: _client_instance_request_id_counter
    current,    \* the manager's service_name and client_name
    busy,       \* request_buffer is not None
    timed,      \* timeout_msec > 0
    replies,    \* the client's comm_buffer: the last reply for each slot
    toServer,   \* per connection: messages on their way to the server
    toClient,   \* messages on their way to the client
    session,    \* the connection the server has accepted and not removed, or 0
    loops,      \* the connections whose receive loop runs
    handler,    \* the ids of connections wrapped around the event handler
    original,   \* per connection: the handler it found
    tasks,      \* registrations whose handler task has not run; conn is its client_id
    failing,    \* per connection: handler tasks in the close() after a failed send
    registry,   \* per slot: the connection it is registered from, or 0
    requests,   \* the server's comm_buffer: the last request of each slot
    serving,    \* current_service_name and current_client_name
    serverPc,   \* place in the serve() loop
    job,        \* the request in the handler's hands
    jobConn,    \* the transport_client_id of the handle it came with
    caller,     \* history: what the program has seen of each call
    ran,        \* history: calls whose handler was started
    taken,      \* history, per slot: the last message taken by poll_response
    leftover,   \* history: requests not handled when their connection was removed
    late,       \* history: connections registered from after their removal
    raised      \* history: a handler has raised

program == <<conn, link>>
client == <<pc, counter, current, busy, timed, replies>>
network == <<toServer, toClient>>
sessions == <<session, loops, handler, original>>
registrations == <<tasks, failing, registry>>
server == <<requests, serving, serverPc, job, jobConn>>
history == <<caller, ran, taken, leftover, late, raised>>
vars == <<program, client, network, sessions, registrations, server, history>>

Waiting(s) == pc[s] \in {"sending", "waiting"}

ClientTypes ==
    /\ conn \in Conns
    /\ link \in {"connecting", "up", "broken"}
    /\ pc \in [Slots -> {"new", "registering", "ready", "sending", "waiting"}]
    /\ counter \in [Slots -> 0..MaxCalls]
    /\ current \in Slots \cup {NoSlot}
    /\ busy \in BOOLEAN
    /\ timed \in BOOLEAN
    /\ replies \in [Slots -> Messages \cup {NoMessage}]
    /\ caller \in [Calls -> {"new", "waiting", "answered", "failed"}]
    /\ taken \in [Slots -> Messages \cup {NoMessage}]

NetworkTypes ==
    /\ toServer \in [Conns -> Seq(Messages)]
    /\ toClient \in Seq(Messages)

SessionTypes ==
    /\ session \in Conns \cup {0}
    /\ loops \subseteq Conns
    /\ handler \in Seq(Conns)
    /\ original \in [Conns -> Seq(Conns)]

RegistrationTypes ==
    /\ tasks \in Seq(Messages)
    /\ failing \in [Conns -> Nat]
    /\ registry \in [Slots -> Conns \cup {0}]
    /\ late \subseteq Conns

ServerTypes ==
    /\ requests \in [Slots -> Messages \cup {NoMessage}]
    /\ serving \in Slots \cup {NoSlot}
    /\ serverPc \in {"poll", "handle", "respond", "closing"}
    /\ job \in Messages \cup {NoMessage}
    /\ jobConn \in Conns \cup {0}
    /\ ran \subseteq Calls
    /\ leftover \subseteq Messages
    /\ raised \in BOOLEAN

TypeOK == ClientTypes /\ NetworkTypes /\ SessionTypes /\ RegistrationTypes /\ ServerTypes

Init ==
    /\ conn = 1
    /\ link = "connecting"
    /\ pc = [s \in Slots |-> "new"]
    /\ counter = [s \in Slots |-> 0]
    /\ current = NoSlot
    /\ busy = FALSE
    /\ timed = FALSE
    /\ replies = [s \in Slots |-> NoMessage]
    /\ toServer = [c \in Conns |-> <<>>]
    /\ toClient = <<>>
    /\ session = 0
    /\ loops = {}
    /\ handler = <<>>
    /\ original = [c \in Conns |-> <<>>]
    /\ tasks = <<>>
    /\ failing = [c \in Conns |-> 0]
    /\ registry = [s \in Slots |-> 0]
    /\ requests = [s \in Slots |-> NoMessage]
    /\ serving = NoSlot
    /\ serverPc = "poll"
    /\ job = NoMessage
    /\ jobConn = 0
    /\ caller = [c \in Calls |-> "new"]
    /\ ran = {}
    /\ taken = [s \in Slots |-> NoMessage]
    /\ leftover = {}
    /\ late = {}
    /\ raised = FALSE

Message(kind, s, id) == [kind |-> kind, conn |-> conn, slot |-> s, id |-> id]

\* The call a message belongs to.
CallOf(m) == <<m.conn, m.slot, m.id>>

\* _client_instance_last_request_id, and the call it names.
\* Mutant: the counter after the call took its id.
MutCounter(s) == counter[s]
LastId(s) == counter[s] - 1
LastCall(s) == <<conn, s, LastId(s)>>

\* A send on a connection that is broken may not raise at once: what is sent
\* then never arrives.
Transmit(m) ==
    toServer' = IF link = "up" THEN [toServer EXCEPT ![conn] = Append(@, m)] ELSE toServer

Goes(s, from, to) ==
    /\ pc[s] = from
    /\ pc' = [pc EXCEPT ![s] = to]

-----------------------------------------------------------------------------
(* Registration of a client. *)

\* register_client() up to the send.  The programs that use the class register
\* all their clients, one after another, before the first call.
RegisterSend(s) ==
    /\ \A u \in Slots : pc[u] \in {"new", "ready"}
    /\ Goes(s, "new", "registering")
    /\ link # "connecting"
    /\ Len(toServer[conn]) + Len(tasks) + Len(toClient) < MaxTries
    /\ current' = s
    /\ Transmit(Message("register", s, 0))
    /\ UNCHANGED <<program, counter, busy, timed, replies, toClient, sessions, registrations, server, history>>

\* Mutant: the reply is read but left in the buffer.
MutPeekReply(s) == replies' = replies
TakeReply(s) == replies' = [replies EXCEPT ![s] = NoMessage]

\* A reply is in the buffer: it is taken for the answer to the registration,
\* whatever reply it is; decoding it as one may raise.
RegisterReply(s) ==
    /\ replies[s] # NoMessage
    /\ \/ Goes(s, "registering", "ready")
       \/ replies[s].kind # "register" /\ Goes(s, "registering", "new")
    /\ TakeReply(s)
    /\ UNCHANGED <<program, counter, current, busy, timed, network, sessions, registrations, server, history>>

\* The send fails, or no reply comes before the timeout: None.
RegisterTimeout(s) ==
    /\ Goes(s, "registering", "new")
    /\ replies[s] = NoMessage
    /\ UNCHANGED <<program, counter, current, busy, timed, replies, network, sessions, registrations, server, history>>

-----------------------------------------------------------------------------
(* ProtocolClientBlocking.call(). *)

MayBegin(s) == Overlap \/ \A u \in Slots : pc[u] \in {"new", "ready"}

\* _create_request_packet(): the manager takes the identifiers of the slot and
\* the slot takes a request id.
NewRequest(s) ==
    /\ pc[s] = "ready"
    /\ MayBegin(s)
    /\ counter[s] < MaxCalls
    /\ current' = s
    /\ counter' = [counter EXCEPT ![s] = @ + 1]

\* call_request() raises: "A request is already in progress."
CallRefused(s) ==
    /\ NewRequest(s)
    /\ busy
    /\ caller' = [caller EXCEPT ![<<conn, s, counter[s]>>] = "failed"]
    /\ UNCHANGED <<program, pc, busy, timed, replies, network, sessions, registrations, server, ran, taken, leftover, late, raised>>

\* call_request() up to the await of the send.
CallBegin(s) ==
    /\ NewRequest(s)
    /\ ~busy
    /\ Goes(s, "ready", "sending")
    /\ timed' \in BOOLEAN
    /\ caller' = [caller EXCEPT ![<<conn, s, counter[s]>>] = "waiting"]
    /\ taken' = [taken EXCEPT ![s] = NoMessage]
    /\ UNCHANGED <<program, busy, replies, network, sessions, registrations, server, ran, leftover, late, raised>>

\* The send returned: request_buffer is set.
CallSent(s) ==
    /\ Goes(s, "sending", "waiting")
    /\ Transmit(Message("call", s, LastId(s)))
    /\ busy' = TRUE
    /\ UNCHANGED <<program, counter, current, timed, replies, toClient, sessions, registrations, server, history>>

\* The send failed: call() returns None.
CallNotSent(s) ==
    /\ link = "broken"
    /\ Goes(s, "sending", "ready")
    /\ caller' = [caller EXCEPT ![LastCall(s)] = "failed"]
    /\ UNCHANGED <<program, counter, current, busy, timed, replies, network, sessions, registrations, server, ran, taken, leftover, late, raised>>

\* Mutant: request_buffer is left set.
MutStaysBusy == busy' = busy
RequestDone == busy' = FALSE

\* One round of _wait_response() with a reply in the buffer of the manager's
\* slot: it is taken, and returned if it has the request id of the call.
PollResponse(s) ==
    LET m == replies[current]
    IN  /\ pc[s] = "waiting"
        /\ m # NoMessage
        /\ RequestDone
        /\ replies' = [replies EXCEPT ![current] = NoMessage]
        /\ taken' = [taken EXCEPT ![s] = m]
        /\ IF m.id = LastId(s)
           THEN /\ pc' = [pc EXCEPT ![s] = "ready"]
                /\ caller' = [caller EXCEPT ![LastCall(s)] = "answered"]
           ELSE UNCHANGED <<pc, caller>>
        /\ UNCHANGED <<program, counter, current, timed, network, sessions, registrations, server, ran, leftover, late, raised>>

\* The timeout: cancel_request() raises NotImplementedError out of call(),
\* and request_buffer stays set.
PollTimeout(s) ==
    /\ timed
    /\ Goes(s, "waiting", "ready")
    /\ replies[current] = NoMessage
    /\ caller' = [caller EXCEPT ![LastCall(s)] = "failed"]
    /\ UNCHANGED <<program, counter, current, busy, timed, replies, network, sessions, registrations, server, ran, taken, leftover, late, raised>>

\* The client's receive loop: a reply replaces the one in the buffer.
ClientReceive ==
    /\ toClient # <<>>
    /\ replies' = [replies EXCEPT ![Head(toClient).slot] = Head(toClient)]
    /\ toClient' = Tail(toClient)
    /\ UNCHANGED <<program, pc, counter, current, busy, timed, toServer, sessions, registrations, server, history>>

-----------------------------------------------------------------------------
(* The connection. *)

\* One client at a time: another connection is closed at once.  The id of the
\* one that is accepted is wrapped around the event handler in use.
Accept ==
    /\ link = "connecting"
    /\ \/ /\ session = 0
          /\ link' = "up"
          /\ session' = conn
          /\ loops' = loops \cup {conn}
          /\ original' = [original EXCEPT ![conn] = handler]
          /\ handler' = Append(handler, conn)
       \/ session # 0 /\ link' = "broken" /\ UNCHANGED sessions
    /\ UNCHANGED <<conn, client, network, registrations, server, history>>

Break ==
    /\ link = "up"
    /\ link' = "broken"
    /\ UNCHANGED <<conn, client, network, sessions, registrations, server, history>>

\* The client program dies and is started again.
Restart ==
    /\ link = "broken"
    /\ conn < MaxConn
    /\ conn' = conn + 1
    /\ link' = "connecting"
    /\ pc' = [s \in Slots |-> "new"]
    /\ counter' = [s \in Slots |-> 0]
    /\ current' = NoSlot
    /\ busy' = FALSE
    /\ timed' = FALSE
    /\ replies' = [s \in Slots |-> NoMessage]
    /\ toClient' = <<>>
    /\ caller' = [c \in Calls |-> IF caller[c] = "waiting" THEN "failed" ELSE caller[c]]
    /\ taken' = [s \in Slots |-> NoMessage]
    /\ UNCHANGED <<toServer, sessions, registrations, server, ran, leftover, late, raised>>

Gone(c) == c # conn \/ link = "broken"

\* The registrations that on_disconnect() leaves.
\* Mutants: all of them; none.
MutKeepAll(c) == registry
MutForgetAll(c) == [s \in Slots |-> 0]
Remaining(c) == [s \in Slots |-> IF registry[s] = c THEN 0 ELSE registry[s]]

Buffered == {requests[s] : s \in Slots} \ {NoMessage}

\* _remove_client_by_id() and on_disconnect(); the communication buffer keeps
\* the requests that serve() has not taken.
RemoveClient(c) ==
    /\ session' = IF session = c THEN 0 ELSE session
    /\ registry' = Remaining(c)
    /\ leftover' = leftover \cup {m \in Buffered : m.conn = c}

\* The end of the connection's receive loop.
Disconnect(c) ==
    /\ c \in loops
    /\ Gone(c)
    /\ loops' = loops \ {c}
    /\ handler' = original[c]
    /\ original' = [original EXCEPT ![c] = <<>>]
    /\ toServer' = [toServer EXCEPT ![c] = <<>>]
    /\ RemoveClient(c)
    /\ UNCHANGED <<program, client, toClient, tasks, failing, server, caller, ran, taken, late, raised>>

-----------------------------------------------------------------------------
(* The server. *)

\* A send to a connection: nothing is sent to one that is removed, and what is
\* sent to one that is broken never arrives, or else the send raises.
Reply(c, m) ==
    toClient' = IF c = session /\ c = conn /\ link = "up"
                THEN Append(toClient, m) ELSE toClient

SendRaises(c) == c # 0 /\ c = session /\ Gone(c)

\* The receive loop hands a request to the buffer, in place of the one there.
ReceiveRequest(c) ==
    LET m == Head(toServer[c])
    IN  /\ c \in loops
        /\ toServer[c] # <<>>
        /\ m.kind = "call"
        /\ toServer' = [toServer EXCEPT ![c] = Tail(@)]
        /\ requests' = [requests EXCEPT ![m.slot] = m]
        /\ leftover' = IF c = session THEN leftover ELSE leftover \cup {m}
        /\ UNCHANGED <<program, client, toClient, sessions, registrations, serving, serverPc, job, jobConn,
                       caller, ran, taken, late, raised>>

\* The receive loop creates the handler task of a registration and goes on.  A
\* handler wrapped in no id or in two of them raises TypeError.
ReceiveRegister(c) ==
    LET m == Head(toServer[c])
    IN  /\ c \in loops
        /\ toServer[c] # <<>>
        /\ m.kind = "register"
        /\ toServer' = [toServer EXCEPT ![c] = Tail(@)]
        /\ tasks' = IF Len(handler) # 1 THEN tasks
                    ELSE Append(tasks, [m EXCEPT !.conn = handler[1]])
        /\ UNCHANGED <<program, client, toClient, sessions, failing, registry, server, history>>

\* A handler task runs, perhaps after its connection was removed.  A name that
\* is registered already raises; the reply goes to the connection that is
\* accepted now, if any.
RunRegister ==
    LET m == Head(tasks)
    IN  /\ tasks # <<>>
        /\ tasks' = Tail(tasks)
        /\ \/ /\ registry[m.slot] # 0
              /\ UNCHANGED <<registry, late, toClient, failing>>
           \/ /\ registry[m.slot] = 0
              /\ registry' = [registry EXCEPT ![m.slot] = m.conn]
              /\ late' = late \cup ({m.conn} \ {session})
              /\ \/ Reply(session, m) /\ UNCHANGED failing
                 \/ /\ SendRaises(session)
                    /\ failing' = [failing EXCEPT ![session] = @ + 1]
                    /\ UNCHANGED toClient
        /\ UNCHANGED <<program, client, toServer, sessions, server, caller, ran, taken, leftover, raised>>

\* The task goes on after the close() of the connection it failed to send to.
RegisterFailed(c) ==
    /\ failing[c] > 0
    /\ failing' = [failing EXCEPT ![c] = @ - 1]
    /\ RemoveClient(c)
    /\ UNCHANGED <<program, client, network, loops, handler, original, tasks, server,
                   caller, ran, taken, late, raised>>

\* Mutant: get_request() leaves the request in the buffer.
MutPeek(s) == requests' = requests
TakeRequest(s) == requests' = [requests EXCEPT ![s] = NoMessage]

\* poll_request() finds a request of a registered client, and serve() calls
\* get_request() without giving up the event loop in between.
PollRequest(s) ==
    /\ serverPc = "poll"
    /\ serving = NoSlot
    /\ registry[s] # 0 /\ requests[s] # NoMessage
    /\ serving' = s
    /\ job' = requests[s]
    /\ jobConn' = registry[s]
    /\ TakeRequest(s)
    /\ ran' = ran \cup {CallOf(requests[s])}
    /\ serverPc' = "handle"
    /\ UNCHANGED <<program, client, network, sessions, registrations, caller, taken, leftover, late, raised>>

HandlerReturns ==
    /\ serverPc = "handle"
    /\ serverPc' = "respond"
    /\ UNCHANGED <<program, client, network, sessions, registrations, requests, serving, job, jobConn, history>>

\* serve() logs the exception and polls again; the current request stays set.
HandlerRaises ==
    /\ serverPc = "handle"
    /\ serverPc' = "poll"
    /\ raised' = TRUE
    /\ UNCHANGED <<program, client, network, sessions, registrations, requests, serving, job, jobConn, caller, ran, taken, leftover, late>>

\* The client the response goes to.
\* Mutant: the one that is connected.
MutConnected == session
Recipient == jobConn

\* Mutant: the current request stays set.
MutStaysServing == serving' = serving
ServingDone == serving' = NoSlot

ResponseDone ==
    /\ ServingDone
    /\ serverPc' = "poll"
    /\ job' = NoMessage
    /\ jobConn' = 0

\* put_response(): sent or not, the current request is forgotten.
PutResponse ==
    /\ serverPc = "respond"
    /\ Reply(Recipient, job)
    /\ ResponseDone
    /\ UNCHANGED <<program, client, toServer, sessions, registrations, requests, history>>

\* The send raises, and put_response() waits for the close() of the connection.
PutResponseRaises ==
    /\ serverPc = "respond"
    /\ SendRaises(Recipient)
    /\ serverPc' = "closing"
    /\ UNCHANGED <<program, client, network, sessions, registrations, requests, serving, job, jobConn, history>>

PutResponseFailed ==
    /\ serverPc = "closing"
    /\ RemoveClient(Recipient)
    /\ ResponseDone
    /\ UNCHANGED <<program, client, network, loops, handler, original, tasks, failing, requests,
                   caller, ran, taken, late, raised>>

-----------------------------------------------------------------------------
ClientStep(s) ==
    \/ RegisterSend(s)
    \/ RegisterReply(s)
    \/ RegisterTimeout(s)
    \/ CallRefused(s)
    \/ CallBegin(s)
    \/ CallSent(s)
    \/ CallNotSent(s)
    \/ PollResponse(s)
    \/ PollTimeout(s)

ServerStep ==
    \/ \E c \in Conns : ReceiveRequest(c) \/ ReceiveRegister(c) \/ RegisterFailed(c)
    \/ RunRegister
    \/ \E s \in Slots : PollRequest(s)
    \/ HandlerReturns
    \/ HandlerRaises
    \/ PutResponse
    \/ PutResponseRaises
    \/ PutResponseFailed

Next ==
    \/ \E s \in Slots : ClientStep(s)
    \/ ClientReceive
    \/ Accept
    \/ Break
    \/ Restart
    \/ \E c \in Conns : Disconnect(c)
    \/ ServerStep

Spec == Init /\ [][Next]_vars

-----------------------------------------------------------------------------
(* Fairness.  The event loops run every ready task, an open connection     *)
(* delivers, a handler returns or raises, and time passes.                 *)

Fairness ==
    /\ \A s \in Slots :
          /\ WF_vars(CallSent(s) \/ CallNotSent(s))
          /\ WF_vars(PollResponse(s))
          /\ WF_vars(PollTimeout(s))
          /\ WF_vars(PollRequest(s))
    /\ WF_vars(ClientReceive)
    /\ \A c \in Conns : WF_vars(ReceiveRequest(c) \/ ReceiveRegister(c))
    /\ WF_vars(HandlerReturns \/ HandlerRaises)
    /\ WF_vars(PutResponse \/ PutResponseRaises)
    /\ WF_vars(PutResponseFailed)

FairSpec == Spec /\ Fairness

-----------------------------------------------------------------------------
(* Properties. *)

\* The answer of a call has its slot and its request id, and comes from its own
\* connection, or else from a request that an earlier connection left in the
\* server's buffer: never from a handler that was running when that connection
\* was removed.  It is no reply to a registration, unless one was registered late.
AnswerIsOwnOrLeftover ==
    \A s \in Slots :
        counter[s] > 0 /\ caller[LastCall(s)] = "answered" =>
            LET m == taken[s]
            IN  /\ m.slot = s
                /\ m.id = LastId(s)
                /\ m.conn = conn \/ m \in leftover \/ m.conn \in late
                /\ m.kind = "call" \/ late # {}

\* No handler is started for a request that has been given to one already.
RunsOnce ==
    [][\A s \in Slots : PollRequest(s) => CallOf(requests[s]) \notin ran]_vars

\* While serve() polls, no request holds back the others, unless a handler has
\* raised.
PollsFreely == serverPc = "poll" /\ ~raised => serving = NoSlot

\* The manager refuses a call as "already in progress" only while one is, or
\* after one has timed out or was cut off by the loss of the connection.
RefusesOnlyWhenBusy ==
    busy => \E c \in Calls : c[1] = conn /\ caller[c] \in {"waiting", "failed"}

\* A registration goes with its connection, whichever comes first, the end of
\* the receive loop or a failed send, unless its handler task ran only after that.
RegisteredIsConnected ==
    \A s \in Slots : registry[s] # 0 => registry[s] = session \/ registry[s] \in late

\* A client that takes itself for registered is registered, from the connection
\* it has, as long as that lasts and no task has registered one late.
RegisteredIsKnown ==
    link = "up" /\ late = {} =>
        \A s \in Slots : pc[s] \in {"ready", "sending", "waiting"} => registry[s] = conn

\* A call takes a response only from the buffer of its own service and client.
TakesOwnReply ==
    \A s \in Slots : taken[s] # NoMessage => taken[s].slot = s

\* Every call ends, if it has a timeout, or if the connection lasts, the client
\* stays registered from it and no handler raises.
EveryCallEnds ==
    \A s \in Slots :
        Waiting(s) ~> (~Waiting(s) \/ raised \/ (~timed /\ (link = "broken" \/ registry[s] # session)))

\* On one connection the calls are those of the abstract specification.
RpcCalls == INSTANCE RpcCalls WITH Calls <- Calls, caller <- caller, ran <- ran
CallsAsPromised == RpcCalls!Spec
=============================================================================
