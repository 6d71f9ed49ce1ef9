-------------------------------- MODULE Topics --------------------------------
(***************************************************************************)
(* Topics over WebSocket: the server communication service, which admits   *)
(* one connection at a time and puts its id into the event handler, and    *)
(* the tables that RemotePduServiceServerManager keeps for the connections:*)
(* who declared which topic for reading, and which RPC clients are         *)
(* registered.  One task publishes to the declared readers.                *)
(*                                                                         *)
(* An event handler is the sequence of the ids wrapped around the          *)
(* manager's handler(packet, client_id); with exactly one id the handler   *)
(* gets the two arguments it takes, with any other number a TypeError.     *)
(***************************************************************************)
EXTENDS Naturals, Sequences, FiniteSets

CONSTANTS
    Conns,      \* connections that clients open
    PduKeys,    \* topics, (robot, channel_id)
    Names,      \* RPC client names, of one service
    MaxInbox,   \* bound on the messages a client sends ahead
    MaxReady    \* bound on the handler tasks not run yet

ASSUME TopicsAssumption ==
    /\ IsFiniteSet(Conns) /\ IsFiniteSet(Names)
    /\ MaxInbox \in Nat /\ MaxReady \in Nat

Ids == 1..Cardinality(Conns)
None == 0
Messages == [kind : {"declare"}, key : PduKeys] \cup [kind : {"register"}, name : Names]
            \cup [kind : {"unknown"}]
Handles == [transport_client_id : Ids \cup {None}, client_id : 0..Cardinality(Names)]
NoHandle == [transport_client_id |-> None, client_id |-> 0]
Tasks == [conn : Conns, message : Messages, client_id : Ids]

VARIABLES
    open,          \* connections whose socket is open
    inbox,         \* per connection: messages not received yet
    task,          \* per connection: state of its _client_handler
    id,            \* per connection: its client_id, or None
    original,      \* per connection: the handler it found
    handler,       \* the event handler in use
    websocket,     \* id of the one connection, or None
    clients,       \* ids in self.clients
    seq,           \* _id_seq
    declaredRead,  \* _declared_read: per id, its topics
    readIndex,     \* _read_index: per topic, its ids
    registry,      \* per client name: its handle
    ready,         \* handler tasks created and not run yet, in order
    todo,          \* the <<reader, topic>> publish_pdu() has still to send
    failing,       \* id of the session whose send failed, or None
    \* History variables, read by properties only.
    declared,      \* <<id, topic>>, declared in a session that still runs
    strayed,       \* <<id, topic>>, sent without being declared
    overlapped,    \* a connection was admitted while another's handler ran
    late           \* ids for which a handler task ran after the session's end

net == <<open, inbox>>
session == <<task, id, original, handler, websocket, clients, seq>>
tables == <<declaredRead, readIndex, registry>>
manager == <<tables, ready>>
sender == <<todo, failing>>
history == <<declared, strayed, overlapped, late>>
vars == <<net, session, manager, sender, history>>

Running(c) == task[c] = "running"

TypeOK ==
    /\ open \subseteq Conns
    /\ inbox \in [Conns -> Seq(Messages)]
    /\ task \in [Conns -> {"none", "new", "rejected", "running", "ended"}]
    /\ id \in [Conns -> Ids \cup {None}]
    /\ original \in [Conns -> Seq(Ids)]
    /\ handler \in Seq(Ids)
    /\ websocket \in Ids \cup {None}
    /\ clients \subseteq Ids
    /\ seq \in 0..Cardinality(Conns)
    /\ declaredRead \in [Ids -> SUBSET PduKeys]
    /\ readIndex \in [PduKeys -> SUBSET Ids]
    /\ registry \in [Names -> Handles]
    /\ ready \in Seq(Tasks)
    /\ todo \subseteq Ids \X PduKeys
    /\ failing \in Ids \cup {None}
    /\ declared \subseteq Ids \X PduKeys
    /\ strayed \subseteq Ids \X PduKeys
    /\ overlapped \in BOOLEAN
    /\ late \subseteq Ids

Init ==
    /\ open = {}
    /\ inbox = [c \in Conns |-> <<>>]
    /\ task = [c \in Conns |-> "none"]
    /\ id = [c \in Conns |-> None]
    /\ original = [c \in Conns |-> <<>>]
    /\ handler = <<>>
    /\ websocket = None
    /\ clients = {}
    /\ seq = 0
    /\ declaredRead = [i \in Ids |-> {}]
    /\ readIndex = [k \in PduKeys |-> {}]
    /\ registry = [n \in Names |-> NoHandle]
    /\ ready = <<>>
    /\ todo = {}
    /\ failing = None
    /\ declared = {}
    /\ strayed = {}
    /\ overlapped = FALSE
    /\ late = {}
-----------------------------------------------------------------------------
(* The clients and the network.                                            *)

Connect(c) ==
    /\ task[c] = "none"
    /\ task' = [task EXCEPT ![c] = "new"]
    /\ open' = open \cup {c}
    /\ UNCHANGED <<inbox, id, original, handler, websocket, clients, seq, manager, sender, history>>

Send(c) ==
    /\ c \in open /\ Len(inbox[c]) < MaxInbox
    /\ \E m \in Messages : inbox' = [inbox EXCEPT ![c] = Append(@, m)]
    /\ UNCHANGED <<open, session, manager, sender, history>>

Disconnect(c) ==
    /\ c \in open
    /\ open' = open \ {c}
    /\ UNCHANGED <<inbox, session, manager, sender, history>>
-----------------------------------------------------------------------------
(* Sessions: _client_handler and the receive loop.                         *)

Reject(c) ==
    /\ task[c] = "new" /\ websocket # None
    /\ task' = [task EXCEPT ![c] = "rejected"]
    /\ open' = open \ {c}
    /\ inbox' = [inbox EXCEPT ![c] = <<>>]
    /\ UNCHANGED <<id, original, handler, websocket, clients, seq, manager, sender, history>>

\* mutant: the id is taken before it is counted up
MutNextClientId == seq

NextClientId == seq + 1

Admit(c) ==
    /\ task[c] = "new" /\ websocket = None
    /\ LET i == NextClientId
       IN /\ seq' = i
          /\ id' = [id EXCEPT ![c] = i]
          /\ websocket' = i
          /\ clients' = clients \cup {i}
          /\ handler' = Append(handler, i)
    /\ original' = [original EXCEPT ![c] = handler]
    /\ task' = [task EXCEPT ![c] = "running"]
    /\ overlapped' = (overlapped \/ \E d \in Conns : Running(d))
    /\ UNCHANGED <<net, manager, sender, declared, strayed, late>>

\* mutant: a declaration replaces the ones before
MutDeclare(i, key) ==
    /\ declaredRead' = [declaredRead EXCEPT ![i] = {key}]
    /\ readIndex' = [readIndex EXCEPT ![key] = @ \cup {i}]
    /\ UNCHANGED registry

Declare(i, key) ==
    /\ declaredRead' = [declaredRead EXCEPT ![i] = @ \cup {key}]
    /\ readIndex' = IF key \in declaredRead[i] THEN readIndex
                    ELSE [readIndex EXCEPT ![key] = @ \cup {i}]
    /\ UNCHANGED registry

Registered == {n \in Names : registry[n] # NoHandle}

\* Another client of that name: ValueError.
RegisterClient(i, name) ==
    /\ registry' = IF name \in Registered THEN registry
                   ELSE [registry EXCEPT ![name] = [transport_client_id |-> i,
                                                    client_id |-> Cardinality(Registered)]]
    /\ UNCHANGED <<declaredRead, readIndex>>

Handle(m, i) ==
    \/ m.kind = "declare" /\ Declare(i, m.key)
    \/ m.kind = "register" /\ RegisterClient(i, m.name)

\* The loop creates a task of the handler in use and goes on to the next message.
Receive(c) ==
    /\ Running(c) /\ inbox[c] # <<>> /\ Head(inbox[c]).kind # "unknown"
    /\ Len(ready) < MaxReady
    /\ ready' = IF Len(handler) # 1 THEN ready
                ELSE Append(ready, [conn |-> c, message |-> Head(inbox[c]),
                                    client_id |-> handler[1]])
    /\ inbox' = [inbox EXCEPT ![c] = Tail(@)]
    /\ UNCHANGED <<open, session, tables, sender, history>>

\* Messages queued behind this one may have been taken before it runs, and the
\* loop may have ended.
RunTask ==
    /\ ready # <<>>
    /\ LET t == Head(ready)
       IN /\ Handle(t.message, t.client_id)
          /\ declared' = declared \cup ({id[c] : c \in {c \in {t.conn} : Running(c)}}
                \X {k \in PduKeys : t.message = [kind |-> "declare", key |-> k]})
          /\ late' = late \cup ({t.client_id} \ {id[c] : c \in Conns})
    /\ ready' = Tail(ready)
    /\ UNCHANGED <<net, session, sender, strayed, overlapped>>

RemoveClientById(i) ==
    /\ clients' = clients \ {i}
    /\ websocket' = IF i \in clients /\ websocket = i THEN None ELSE websocket

\* mutant: the index of the topics is not cleaned
MutForgetsIndex(i) ==
    /\ declaredRead' = [declaredRead EXCEPT ![i] = {}]
    /\ registry' = [n \in Names |-> IF registry[n].transport_client_id = i THEN NoHandle
                                                                           ELSE registry[n]]
    /\ UNCHANGED readIndex

\* mutant: the first of the connection's clients is removed, the others stay
MutRemovesOne(i) ==
    /\ declaredRead' = [declaredRead EXCEPT ![i] = {}]
    /\ readIndex' = [k \in PduKeys |-> readIndex[k] \ {i}]
    /\ registry' = [n \in Names |-> IF registry[n] = [transport_client_id |-> i, client_id |-> 0]
                                   THEN NoHandle ELSE registry[n]]

OnDisconnect(i) ==
    /\ declaredRead' = [declaredRead EXCEPT ![i] = {}]
    /\ readIndex' = [k \in PduKeys |-> IF k \in declaredRead[i] THEN readIndex[k] \ {i}
                                                                ELSE readIndex[k]]
    /\ registry' = [n \in Names |-> IF registry[n].transport_client_id = i THEN NoHandle
                                                                           ELSE registry[n]]

Ended(c) ==
    /\ task' = [task EXCEPT ![c] = "ended"]
    /\ open' = open \ {c}
    /\ inbox' = [inbox EXCEPT ![c] = <<>>]
    /\ id' = [id EXCEPT ![c] = None]
    /\ original' = [original EXCEPT ![c] = <<>>]
    /\ declared' = {d \in declared : d[1] # id[c]}

\* mutant: the handler keeps the id of the session
MutKeepsHandler(c) ==
    /\ Running(c)
    /\ IF inbox[c] = <<>> THEN c \notin open ELSE Head(inbox[c]).kind = "unknown"
    /\ RemoveClientById(id[c])
    /\ OnDisconnect(id[c])
    /\ Ended(c)
    /\ UNCHANGED <<handler, seq, ready, sender, strayed, overlapped, late>>

\* mutant: a session that a failed send has removed is not cleaned again
MutFinish(c) ==
    /\ Running(c)
    /\ IF inbox[c] = <<>> THEN c \notin open ELSE Head(inbox[c]).kind = "unknown"
    /\ handler' = original[c]
    /\ RemoveClientById(id[c])
    /\ IF id[c] \in clients THEN OnDisconnect(id[c]) ELSE UNCHANGED tables
    /\ Ended(c)
    /\ UNCHANGED <<seq, ready, sender, strayed, overlapped, late>>

\* The loop ends with the connection, or at a message of unknown type.
Finish(c) ==
    /\ Running(c)
    /\ IF inbox[c] = <<>> THEN c \notin open ELSE Head(inbox[c]).kind = "unknown"
    /\ handler' = original[c]
    /\ RemoveClientById(id[c])
    /\ OnDisconnect(id[c])
    /\ Ended(c)
    /\ UNCHANGED <<seq, ready, sender, strayed, overlapped, late>>
-----------------------------------------------------------------------------
(* publish_pdu() and send_binary_to().                                     *)

\* mutant: to every client, declared or not
MutPublishPdu(key) ==
    /\ todo = {} /\ failing = None
    /\ todo' = clients \X {key}
    /\ UNCHANGED <<net, session, manager, failing, history>>

PublishPdu(key) ==
    /\ todo = {} /\ failing = None
    /\ todo' = readIndex[key] \X {key}
    /\ UNCHANGED <<net, session, manager, failing, history>>

OpenIds == {id[c] : c \in open}

\* A session that is gone is passed over.
SendTo(i, key) ==
    /\ <<i, key>> \in todo /\ failing = None
    /\ todo' = todo \ {<<i, key>>}
    /\ strayed' = strayed \cup ({<<i, key>> : j \in {i} \cap clients \cap OpenIds} \ declared)
    /\ failing' = IF i \in clients \ OpenIds THEN i ELSE None
    /\ UNCHANGED <<net, session, manager, declared, overlapped, late>>

\* After the close() of the failed session has been awaited.
SendFailed ==
    /\ failing # None
    /\ failing' = None
    /\ RemoveClientById(failing)
    /\ OnDisconnect(failing)
    /\ UNCHANGED <<net, task, id, original, handler, seq, ready, todo, history>>

Next ==
    \/ \E c \in Conns : \/ Connect(c) \/ Send(c) \/ Disconnect(c)
                        \/ Reject(c) \/ Admit(c) \/ Receive(c) \/ Finish(c)
    \/ RunTask
    \/ \E k \in PduKeys : PublishPdu(k)
    \/ \E i \in Ids, k \in PduKeys : SendTo(i, k)
    \/ SendFailed

Spec == Init /\ [][Next]_vars
-----------------------------------------------------------------------------
\* The two tables of declarations say the same.
TablesAgree ==
    \A i \in Ids, k \in PduKeys : k \in declaredRead[i] <=> i \in readIndex[k]

\* issues/bugfix-process.md:105 zombie subscriptions: what a connection declared
\* or registered goes with it, also when a failed send removed it first, unless
\* a message of its was handled only after its end.
NoZombie ==
    \A i \in 1..seq : i \notin late /\ (\A c \in Conns : id[c] # i) =>
        /\ declaredRead[i] = {}
        /\ \A n \in Names : registry[n].transport_client_id # i

\* issues/bugfix-process.md:96 only a client that declared a topic gets it.
OnlyDeclarersReceive == strayed = {}

\* While one session lasts, the handler takes its packets under its id.
HandlerIsOwn ==
    \A c \in Conns : Running(c) /\ ~overlapped => handler = <<id[c]>>

\* What the client of a session declared stays declared until the session ends,
\* also while another session that a failed send removed still runs.
DeclaredStays ==
    \A c \in Conns : Running(c) /\ id[c] \in clients =>
        \A k \in PduKeys : <<id[c], k>> \in declared => k \in declaredRead[id[c]]

\* client_id, and with it the channels, is the number of clients at the time: no
\* two registered clients share one, because those of a connection leave at once,
\* unless one of them was registered only after its connection's end.
ChannelsUnique ==
    late = {} => \A m, n \in Registered :
        registry[m].client_id = registry[n].client_id => m = n
=============================================================================
