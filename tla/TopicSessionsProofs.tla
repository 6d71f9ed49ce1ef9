------------------------- MODULE TopicSessionsProofs -------------------------
(***************************************************************************)
(* Theorems about the sessions of Topics, also where sessions overlap: a   *)
(* failed send frees the service for the next client while the receive     *)
(* loop of the failed session still runs.                                  *)
(*                                                                         *)
(* Wrapping says what overlapping comes to: at most one session that runs  *)
(* found the bare handler (Plain); any other found a handler with an id    *)
(* wrapped around it already (Nested), so that its packets never get       *)
(* through, and nothing in the manager or the sender knows its id (Muted). *)
(* The ids of the tables are therefore those of the plain session, which   *)
(* makes the declarations and the channels those of one session.           *)
(***************************************************************************)
EXTENDS TopicsProofs

Plain(c) == Running(c) /\ original[c] = <<>>
Nested(c) == Running(c) /\ original[c] # <<>>

\* No table, task or send is about the id.
Muted(i) ==
    /\ \A k \in PduKeys : i \notin readIndex[k] /\ <<i, k>> \notin todo
    /\ \A n \in 1..Len(ready) : ready[n].client_id # i
    /\ \A n \in Names : registry[n].transport_client_id # i
    /\ failing # i

\* Ids that were not given out are known nowhere.
NewIdsUnknown ==
    /\ \A i \in Ids : i > seq => Muted(i)
    /\ \A d \in declared : d[1] <= seq

Wrapping ==
    /\ \A c, d \in Conns : Running(c) /\ Running(d) /\ id[c] = id[d] => c = d
    /\ \A c \in Conns : Nested(c) =>
          /\ Muted(id[c])
          /\ websocket = id[c]
          /\ handler = <<>> \/ Len(handler) > 1
    /\ \A c \in Conns : Plain(c) =>
          /\ handler # <<>> /\ handler[1] = id[c]
          /\ \A d \in Conns : Plain(d) => d = c
          /\ \A d \in Conns : Nested(d) => original[d][1] = id[c]

\* A task that was left behind has the id of the session it came from.
TasksOfSession ==
    \A n \in 1..Len(ready) :
        /\ task[ready[n].conn] \in {"running", "ended"}
        /\ \A c \in Conns : Running(c) => (ready[n].conn = c <=> ready[n].client_id = id[c])

\* What is sent, and what is indexed, was declared in the session.
DeclaredFirst ==
    \A c \in Conns, k \in PduKeys : Running(c) =>
        /\ id[c] \in readIndex[k] => <<id[c], k>> \in declared
        /\ <<id[c], k>> \in todo => <<id[c], k>> \in declared

\* The channels are the first ones.
FirstChannels ==
    /\ \A n \in Registered : registry[n].transport_client_id # None
    /\ late = {} => \A n \in Registered : registry[n].client_id < Cardinality(Registered)

SessionsInv ==
    /\ NewIdsUnknown /\ Wrapping /\ TasksOfSession
    /\ DeclaredFirst /\ OnlyDeclarersReceive /\ DeclaredStays
    /\ FirstChannels /\ ChannelsUnique

-----------------------------------------------------------------------------
(* Which steps change what. *)

LEMMA SessionSteps ==
  ASSUME Typed, [Next]_vars
  PROVE  \/ \E c \in Conns : Admit(c) \/ Finish(c)
         \/ /\ UNCHANGED <<id, original, handler, seq>>
            /\ \A c \in Conns : /\ Running(c)' <=> Running(c)
                                /\ task[c] \in {"running", "ended"} => task'[c] = task[c]
            /\ SendFailed \/ UNCHANGED <<websocket, clients>>
  BY DEF Next, vars, session, Connect, Send, Disconnect, Reject, Receive, RunTask, PublishPdu,
     SendTo, SendFailed, Running, Typed, TypeOK

LEMMA TableSteps ==
  ASSUME Typed, TablesAgree, [Next]_vars
  PROVE  \/ UNCHANGED tables
         \/ RunTask /\ Head(ready) \in Tasks
         \/ SendFailed /\ failing \in Ids
         \/ \E c \in Conns : Finish(c) /\ id[c] \in Ids
  <1>1. \/ UNCHANGED tables \/ RunTask \/ SendFailed
        \/ \E c \in Conns : Finish(c)
    BY DEF Next, vars, manager, Connect, Send, Disconnect, Reject, Admit, Receive, PublishPdu,
       SendTo, tables
  <1>2. RunTask => Head(ready) \in Tasks
    BY DEF RunTask, Typed, TypeOK
  <1>3. SendFailed => failing \in Ids
    BY DEF SendFailed, Typed, TypeOK
  <1>4. \A c \in Conns : Finish(c) => id[c] \in Ids
    BY DEF Finish, Typed, HasId, TypeOK
  <1>5. QED
    BY <1>1, <1>2, <1>3, <1>4

LEMMA ReadySteps ==
  ASSUME Typed, [Next]_vars
  PROVE  \/ ready' = ready
         \/ ready # <<>> /\ ready' = Tail(ready) /\ RunTask
         \/ \E c \in Conns : /\ Running(c) /\ Len(handler) = 1 /\ Receive(c)
                             /\ \E m \in Messages :
                                   ready' = Append(ready, [conn |-> c, message |-> m,
                                                           client_id |-> handler[1]])
  <1>1. ASSUME NEW c \in Conns, Receive(c)
        PROVE  \/ ready' = ready
               \/ /\ Running(c) /\ Len(handler) = 1
                  /\ \E m \in Messages : ready' = Append(ready, [conn |-> c, message |-> m,
                                                                 client_id |-> handler[1]])
    <2>1. inbox[c] \in Seq(Messages) /\ inbox[c] # <<>>
      BY <1>1 DEF Receive, Typed, TypeOK
    <2>2. Head(inbox[c]) \in Messages
      BY <2>1
    <2>3. QED
      BY <1>1, <2>2 DEF Receive
  <1>2. \/ ready' = ready \/ RunTask
        \/ \E c \in Conns : Receive(c)
    BY DEF Next, vars, manager, Connect, Send, Disconnect, Reject, Admit, Finish, PublishPdu,
       SendTo, SendFailed
  <1>3. QED
    BY <1>1, <1>2 DEF RunTask

LEMMA SenderSteps ==
  ASSUME Typed, [Next]_vars
  PROVE  \/ UNCHANGED sender
         \/ \E k \in PduKeys : todo' = readIndex[k] \X {k} /\ PublishPdu(k) /\ failing' = failing
         \/ \E i \in Ids, k \in PduKeys :
               /\ SendTo(i, k) /\ todo' \subseteq todo /\ <<i, k>> \in todo
               /\ failing' = i \/ failing' = None
         \/ SendFailed /\ todo' = todo /\ failing' = None
  BY DEF Next, vars, sender, Connect, Send, Disconnect, Reject, Admit, Receive, RunTask, Finish,
     PublishPdu, SendTo, SendFailed

\* The handler runs for the session whose id is the only one around it.
LEMMA OneWrapperIsPlain ==
  ASSUME Wrapping, NEW c \in Conns, Running(c), Len(handler) = 1
  PROVE  Plain(c) /\ handler[1] = id[c]
  BY DEF Wrapping, Plain, Nested

-----------------------------------------------------------------------------
(* Sessions that overlap. *)

\* An id that nothing knows stays unknown, as long as no packet arrives under it.
LEMMA MutedStays ==
  ASSUME Typed, TablesAgree, [Next]_vars, NEW i \in Ids, Muted(i),
         \A c \in Conns : Running(c) /\ Len(handler) = 1 => handler[1] # i
  PROVE  Muted(i)'
  <1>1. /\ \A k \in PduKeys : i \notin readIndex'[k]
        /\ \A n \in Names : registry'[n].transport_client_id # i
    <2>1. CASE UNCHANGED tables
      BY <2>1 DEF tables, Muted
    <2>2. \A k \in PduKeys : k \notin declaredRead[i]
      BY DEF TablesAgree, Muted
    <2>3. NoHandle.transport_client_id # i
      BY DEF NoHandle, None, Ids
    <2>4. ASSUME TablesAgree', declaredRead'[i] \subseteq declaredRead[i]
          PROVE  \A k \in PduKeys : i \notin readIndex'[k]
      BY <2>2, <2>4 DEF TablesAgree
    <2>5. CASE RunTask /\ Head(ready) \in Tasks
      <3>1. /\ Head(ready).message \in Messages /\ Head(ready).client_id \in Ids
            /\ Handle(Head(ready).message, Head(ready).client_id)
        BY <2>5 DEF RunTask, Tasks
      <3>2. Head(ready).client_id # i
        BY <2>5 DEF RunTask, Muted, Typed, TypeOK
      <3>3. /\ TablesAgree' /\ declaredRead'[i] = declaredRead[i]
            /\ \A n \in Names : registry'[n].transport_client_id # i
        BY <3>1, <3>2, HandleTables DEF Muted
      <3>4. QED
        BY <2>4, <3>3
    <2>6. ASSUME NEW j \in Ids, OnDisconnect(j)
          PROVE  /\ \A k \in PduKeys : i \notin readIndex'[k]
                 /\ \A n \in Names : registry'[n].transport_client_id # i
      BY <2>3, <2>4, <2>6, OnDisconnectTables DEF Muted
    <2>7. QED
      BY <2>1, <2>5, <2>6, TableSteps DEF Finish, SendFailed
  <1>2. \A n \in 1..Len(ready') : ready'[n].client_id # i
    <2>1. ready \in Seq(Tasks)
      BY DEF Typed, TypeOK
    <2>2. CASE ready' = ready
      BY <2>2 DEF Muted
    <2>3. CASE ready # <<>> /\ ready' = Tail(ready)
      BY <2>1, <2>3 DEF Muted
    <2>4. ASSUME NEW c \in Conns, Running(c), Len(handler) = 1, NEW m \in Messages,
                 ready' = Append(ready, [conn |-> c, message |-> m, client_id |-> handler[1]])
          PROVE  \A n \in 1..Len(ready') : ready'[n].client_id # i
      BY <2>1, <2>4 DEF Muted
    <2>5. QED
      BY <2>2, <2>3, <2>4, ReadySteps
  <1>3. (\A k \in PduKeys : <<i, k>> \notin todo') /\ failing' # i
    <2>1. i # None
      BY DEF None, Ids
    <2>2. QED
      BY <2>1, SenderSteps DEF sender, Muted
  <1>4. QED
    BY <1>1, <1>2, <1>3 DEF Muted

LEMMA NewIdsStep ==
  Typed /\ TablesAgree /\ Wrapping /\ NewIdsUnknown /\ [Next]_vars => NewIdsUnknown'
  <1> SUFFICES ASSUME Typed, TablesAgree, Wrapping, NewIdsUnknown, [Next]_vars
               PROVE  NewIdsUnknown'
    OBVIOUS
  <1>1. seq \in Nat /\ seq' \in Nat /\ seq <= seq'
    <2>1. seq' = seq \/ seq' = seq + 1
      BY SessionSteps DEF Admit, NextClientId, Finish
    <2>2. QED
      BY <2>1, ConnsFinite DEF Typed, TypeOK
  <1>2. \A c \in Conns : id[c] \in 0..seq
    BY DEF Typed, IdsCounted
  <1>3. ASSUME NEW i \in Ids, i > seq'
        PROVE  Muted(i)'
    <2>1. i > seq /\ Muted(i)
      BY <1>1, <1>3 DEF NewIdsUnknown, Ids
    <2>2. \A c \in Conns : Running(c) /\ Len(handler) = 1 => handler[1] # i
      BY <1>1, <1>2, <2>1, OneWrapperIsPlain
    <2>3. QED
      BY <2>1, <2>2, MutedStays
  <1>4. ASSUME NEW d \in declared'
        PROVE  d[1] <= seq'
    <2>1. CASE d \in declared
      BY <1>1, <2>1 DEF NewIdsUnknown, Typed, TypeOK, Ids
    <2>2. CASE d \notin declared
      <3>1. RunTask
        BY <1>4, <2>2 DEF Next, vars, history, Connect, Send, Disconnect, Reject, Admit,
           Receive, Finish, Ended, PublishPdu, SendTo, SendFailed
      <3>2. \E c \in Conns : d[1] = id[c]
        <4>1. Head(ready) \in Tasks
          BY <3>1 DEF RunTask, Typed, TypeOK
        <4>2. Head(ready).conn \in Conns
          BY <4>1 DEF Tasks
        <4>3. QED
          BY <1>4, <2>2, <3>1, <4>2 DEF RunTask
      <3>3. QED
        BY <1>1, <1>2, <3>2
    <2>3. QED
      BY <2>1, <2>2
  <1>5. QED
    BY <1>3, <1>4 DEF NewIdsUnknown

LEMMA WrappingStep ==
  Typed /\ TablesAgree /\ NewIdsUnknown /\ Wrapping /\ [Next]_vars => Wrapping'
  <1> SUFFICES ASSUME Typed, TablesAgree, NewIdsUnknown, Wrapping, [Next]_vars
               PROVE  Wrapping'
    OBVIOUS
  <1>0. /\ original \in [Conns -> Seq(Ids)] /\ handler \in Seq(Ids) /\ seq \in Nat
        /\ id \in [Conns -> Ids \cup {None}] /\ task \in [Conns -> {"none", "new", "rejected", "running", "ended"}]
        /\ \A c \in Conns : id[c] \in 0..seq /\ (Running(c) <=> id[c] # None)
        /\ None \notin Ids
    BY ConnsFinite DEF Typed, TypeOK, HasId, IdsCounted, None, Ids
  <1>1. ASSUME NEW c \in Conns, Nested(c)
        PROVE  \A i \in Ids : i = id[c] => Muted(i)'
    <2> SUFFICES ASSUME NEW i \in Ids, i = id[c]
                 PROVE  Muted(i)'
      OBVIOUS
    <2>1. Muted(i)
      BY <1>1 DEF Wrapping
    <2>2. Len(handler) # 1
      BY <1>1, OneWrapperIsPlain DEF Plain, Nested
    <2>3. QED
      BY <2>1, <2>2, MutedStays
  <1>2. ASSUME UNCHANGED <<id, original, handler, seq>>,
               \A c \in Conns : Running(c)' <=> Running(c),
               SendFailed \/ UNCHANGED <<websocket, clients>>
        PROVE  Wrapping'
    <2>1. \A c \in Conns : (Plain(c)' <=> Plain(c)) /\ (Nested(c)' <=> Nested(c))
      BY <1>2 DEF Plain, Nested
    <2>2. ASSUME NEW c \in Conns, Nested(c)
          PROVE  Muted(id[c])' /\ websocket' = id'[c] /\ (handler' = <<>> \/ Len(handler') > 1)
      <3>1. PICK i \in Ids : i = id[c]
        BY <1>0, <2>2 DEF Nested
      <3>2. Muted(i)' /\ Muted(i) /\ websocket = i
        BY <1>1, <2>2, <3>1 DEF Wrapping
      <3>3. websocket' = websocket
        BY <1>2, <3>2 DEF SendFailed, RemoveClientById, Muted
      <3>4. handler = <<>> \/ Len(handler) > 1
        BY <2>2 DEF Wrapping
      <3>5. QED
        BY <1>2, <3>1, <3>2, <3>3, <3>4 DEF Muted
    <2>3. QED
      BY <1>2, <2>1, <2>2 DEF Wrapping
  <1>3. ASSUME NEW c \in Conns, Admit(c)
        PROVE  Wrapping'
    <2>1. /\ websocket = None /\ ~Running(c)
          /\ id' = [id EXCEPT ![c] = seq + 1] /\ original' = [original EXCEPT ![c] = handler]
          /\ websocket' = seq + 1 /\ handler' = Append(handler, seq + 1)
          /\ seq' = seq + 1 /\ seq + 1 \in Ids
          /\ UNCHANGED <<manager, sender>>
      BY <1>3, IdLeft DEF Admit, NextClientId, Running
    <2>2. \A d \in Conns : Running(d)' <=> (Running(d) \/ d = c)
      BY <1>0, <1>3 DEF Admit, Running
    <2>3. \A d \in Conns : ~Nested(d)
      BY <1>0, <2>1 DEF Wrapping, Nested
    <2>4. \A d \in Conns : Plain(d)' <=> (Plain(d) \/ (d = c /\ handler = <<>>))
      BY <1>0, <2>1, <2>2 DEF Plain
    <2>5. \A d \in Conns : Nested(d)' <=> (d = c /\ handler # <<>>)
      BY <1>0, <2>1, <2>2, <2>3 DEF Nested
    <2>6. \A d \in Conns : Plain(d) => /\ d # c /\ id'[d] = id[d] /\ handler # <<>>
                                       /\ handler[1] = id[d] /\ handler'[1] = id[d]
      BY <1>0, <2>1 DEF Wrapping, Plain
    <2>7. \A d, e \in Conns : Running(d)' /\ Running(e)' /\ id'[d] = id'[e] => d = e
      BY <1>0, <2>1, <2>2 DEF Wrapping
    <2>8. ASSUME handler # <<>>
          PROVE  Muted(id[c])' /\ websocket' = id'[c] /\ Len(handler') > 1
      <3>1. PICK i \in Ids : i = seq + 1
        BY <2>1
      <3>2. Muted(i)
        BY <1>0, <3>1 DEF NewIdsUnknown
      <3>3. id'[c] = i
        BY <1>0, <2>1, <3>1
      <3>4. Muted(id[c])'
        BY <2>1, <3>2, <3>3 DEF Muted, manager, tables, sender
      <3>5. QED
        BY <1>0, <2>1, <2>8, <3>4
    <2>9. ASSUME handler = <<>>
          PROVE  handler' # <<>> /\ handler'[1] = id'[c]
      BY <1>0, <2>1, <2>9
    <2>10. original'[c] = handler
      BY <1>0, <2>1
    <2>11. \A d \in Conns : Plain(d) => handler' # <<>>
      BY <1>0, <2>1
    <2>12. \A d, e \in Conns : Plain(d) /\ Plain(e) => d = e
      BY DEF Wrapping
    <2>13. QED
      BY <2>4, <2>5, <2>6, <2>7, <2>8, <2>9, <2>10, <2>11, <2>12 DEF Wrapping
  <1>4. ASSUME NEW c \in Conns, Finish(c)
        PROVE  Wrapping'
    <2>1. /\ Running(c) /\ handler' = original[c]
          /\ \A d \in Conns \ {c} : id'[d] = id[d] /\ original'[d] = original[d]
          /\ \A d \in Conns : Running(d)' <=> (Running(d) /\ d # c)
          /\ websocket' = IF id[c] \in clients /\ websocket = id[c] THEN None ELSE websocket
      BY <1>0, <1>4 DEF Finish, Ended, RemoveClientById, Running
    <2>2. \A d \in Conns : /\ Plain(d)' <=> (Plain(d) /\ d # c)
                           /\ Nested(d)' <=> (Nested(d) /\ d # c)
      BY <2>1 DEF Plain, Nested
    <2>3. \A d, e \in Conns : Running(d)' /\ Running(e)' /\ id'[d] = id'[e] => d = e
      BY <2>1 DEF Wrapping
    <2>4. ASSUME NEW d \in Conns, Nested(d), d # c
          PROVE  Muted(id[d])' /\ websocket' = id'[d] /\ handler' = <<>>
      <3>1. PICK i \in Ids : i = id[d]
        BY <1>0, <2>4 DEF Nested
      <3>2. Muted(i)' /\ websocket = i /\ id[c] # i
        BY <1>1, <2>1, <2>4, <3>1 DEF Wrapping, Nested
      <3>3. id'[d] = i /\ websocket' = i
        BY <2>1, <2>4, <3>1, <3>2
      <3>4. ~Nested(c)
        BY <3>2 DEF Wrapping
      <3>5. handler' = <<>>
        BY <2>1, <3>4 DEF Nested
      <3>6. QED
        BY <3>2, <3>3, <3>5 DEF Muted
    <2>5. ASSUME NEW d \in Conns, Plain(d), d # c
          PROVE  handler' # <<>> /\ handler'[1] = id'[d]
      <3>1. Nested(c)
        BY <2>1, <2>5 DEF Wrapping, Plain, Nested
      <3>2. QED
        BY <2>1, <2>5, <3>1 DEF Wrapping, Nested
    <2>6. \A d, e \in Conns : Plain(d)' /\ Plain(e)' => d = e
      BY <2>2 DEF Wrapping
    <2>7. \A d, e \in Conns : Plain(d)' /\ Nested(e)' => original'[e][1] = id'[d]
      BY <2>1, <2>2 DEF Wrapping
    <2>8. QED
      BY <2>2, <2>3, <2>4, <2>5, <2>6, <2>7 DEF Wrapping
  <1>5. QED
    BY <1>2, <1>3, <1>4, SessionSteps

-----------------------------------------------------------------------------
(* Declarations. *)

LEMMA TasksStep ==
  Typed /\ NewIdsUnknown /\ Wrapping /\ TasksOfSession /\ [Next]_vars => TasksOfSession'
  <1> SUFFICES ASSUME Typed, NewIdsUnknown, Wrapping, TasksOfSession, [Next]_vars
               PROVE  TasksOfSession'
    OBVIOUS
  <1>0. /\ ready \in Seq(Tasks) /\ id \in [Conns -> Ids \cup {None}] /\ seq \in Nat
        /\ task \in [Conns -> {"none", "new", "rejected", "running", "ended"}]
    BY ConnsFinite DEF Typed, TypeOK
  <1>1. \A n \in 1..Len(ready) : ready[n].conn \in Conns
    <2> SUFFICES ASSUME NEW n \in 1..Len(ready)
                 PROVE  ready[n].conn \in Conns
      OBVIOUS
    <2>1. ready[n] \in Tasks
      BY <1>0
    <2>2. QED
      BY <2>1 DEF Tasks
  <1>2. ASSUME NEW c \in Conns, Admit(c)
        PROVE  TasksOfSession'
    <2>1. /\ id' = [id EXCEPT ![c] = seq + 1] /\ seq + 1 \in Ids /\ ready' = ready
          /\ task[c] = "new" /\ task' = [task EXCEPT ![c] = "running"]
      BY <1>2, IdLeft DEF Admit, NextClientId, manager
    <2>2. \A n \in 1..Len(ready) : ready[n].client_id # seq + 1
      BY <1>0, <2>1 DEF NewIdsUnknown, Muted
    <2>3. \A n \in 1..Len(ready) : ready[n].conn # c
      BY <2>1 DEF TasksOfSession
    <2>4. QED
      BY <1>0, <1>1, <2>1, <2>2, <2>3 DEF TasksOfSession, Running
  <1>3. ASSUME NEW c \in Conns, Finish(c)
        PROVE  TasksOfSession'
    BY <1>0, <1>1, <1>3 DEF Finish, Ended, TasksOfSession, Running
  <1>4. ASSUME id' = id, \A c \in Conns : /\ Running(c)' <=> Running(c)
                                          /\ task[c] \in {"running", "ended"} => task'[c] = task[c]
        PROVE  TasksOfSession'
    <2>1. CASE ready' = ready
      BY <1>0, <1>1, <1>4, <2>1 DEF TasksOfSession
    <2>2. CASE ready # <<>> /\ ready' = Tail(ready)
      <3>1. \A n \in 1..Len(ready') : n + 1 \in 1..Len(ready) /\ ready'[n] = ready[n + 1]
        BY <1>0, <2>2
      <3>2. QED
        BY <1>0, <1>1, <1>4, <3>1 DEF TasksOfSession
    <2>3. ASSUME NEW c \in Conns, Running(c), Len(handler) = 1, NEW m \in Messages,
                 ready' = Append(ready, [conn |-> c, message |-> m, client_id |-> handler[1]])
          PROVE  TasksOfSession'
      <3>1. handler[1] = id[c] /\ \A d \in Conns : Running(d) /\ id[d] = id[c] => d = c
        BY <2>3, OneWrapperIsPlain DEF Wrapping
      <3>2. \A n \in 1..Len(ready') :
               \/ n \in 1..Len(ready) /\ ready'[n] = ready[n]
               \/ ready'[n].conn = c /\ ready'[n].client_id = handler[1]
        BY <1>0, <2>3
      <3>3. task'[c] = "running"
        BY <1>4, <2>3 DEF Running
      <3>4. QED
        BY <1>0, <1>1, <1>4, <3>1, <3>2, <3>3 DEF TasksOfSession
    <2>4. QED
      BY <2>1, <2>2, <2>3, ReadySteps
  <1>5. QED
    BY <1>2, <1>3, <1>4, SessionSteps

\* The topics of a client after the handler of one of its messages.
LEMMA HandleDeclares ==
  ASSUME Typed, NEW m \in Messages, NEW i \in Ids, Handle(m, i)
  PROVE  \A k \in PduKeys : k \in declaredRead'[i] <=>
            k \in declaredRead[i] \/ m = [kind |-> "declare", key |-> k]
  <1>1. CASE m.kind = "declare" /\ Declare(i, m.key)
    <2>1. m.key \in PduKeys /\ m = [kind |-> "declare", key |-> m.key]
      BY <1>1 DEF Messages
    <2>2. declaredRead'[i] = declaredRead[i] \cup {m.key}
      BY <1>1 DEF Declare, Typed, TypeOK
    <2>3. QED
      BY <2>1, <2>2
  <1>2. CASE m.kind = "register" /\ RegisterClient(i, m.name)
    <2>1. \A k \in PduKeys : m # [kind |-> "declare", key |-> k]
      BY <1>2
    <2>2. QED
      BY <1>2, <2>1 DEF RegisterClient
  <1>3. QED
    BY <1>1, <1>2 DEF Handle

\* The task that runs, and whose it is.
LEMMA RunningTask ==
  ASSUME Typed, Wrapping, TasksOfSession, RunTask
  PROVE  \E t \in Tasks :
            /\ t = Head(ready)
            /\ t.message \in Messages /\ t.client_id \in Ids /\ t.conn \in Conns
            /\ Handle(t.message, t.client_id)
            /\ \A c \in Conns : Running(c) => (t.conn = c <=> t.client_id = id[c])
  <1>1. ready # <<>> /\ ready \in Seq(Tasks)
    BY DEF RunTask, Typed, TypeOK
  <1>2. PICK t \in Tasks : t = Head(ready)
    BY <1>1
  <1>3. t = ready[1] /\ 1 \in 1..Len(ready)
    BY <1>1, <1>2
  <1>4. t.message \in Messages /\ t.client_id \in Ids /\ t.conn \in Conns
    BY DEF Tasks
  <1>5. \A c \in Conns : Running(c) => (t.conn = c <=> t.client_id = id[c])
    BY <1>3 DEF TasksOfSession
  <1>6. Handle(t.message, t.client_id)
    BY <1>2 DEF RunTask
  <1>7. QED
    BY <1>2, <1>4, <1>5, <1>6

LEMMA DeclaredStep ==
  ASSUME Typed, TablesAgree, NewIdsUnknown, Wrapping, TasksOfSession,
         DeclaredFirst, DeclaredStays, [Next]_vars
  PROVE  DeclaredFirst' /\ DeclaredStays'
  <1> DEFINE First(c, k) ==
               /\ id[c] \in readIndex[k] => <<id[c], k>> \in declared
               /\ <<id[c], k>> \in todo => <<id[c], k>> \in declared
             Stays(c, k) ==
               id[c] \in clients /\ <<id[c], k>> \in declared => k \in declaredRead[id[c]]
  <1> SUFFICES ASSUME NEW c \in Conns, Running(c)', NEW k \in PduKeys
               PROVE  First(c, k)' /\ Stays(c, k)'
    BY DEF DeclaredFirst, DeclaredStays
  <1>0. /\ id \in [Conns -> Ids \cup {None}] /\ seq \in Nat /\ None \notin Ids
        /\ \A d \in Conns : id[d] \in 0..seq /\ (Running(d) => id[d] \in Ids)
        /\ todo \subseteq Ids \X PduKeys /\ declared \subseteq Ids \X PduKeys
    BY ConnsFinite DEF Typed, TypeOK, HasId, IdsCounted, None, Ids
  <1>1. Running(c) => First(c, k) /\ Stays(c, k)
    BY DEF DeclaredFirst, DeclaredStays
  <1>2. ASSUME NEW d \in Conns, Admit(d)
        PROVE  First(c, k)' /\ Stays(c, k)'
    <2>1. /\ id' = [id EXCEPT ![d] = seq + 1] /\ seq + 1 \in Ids
          /\ clients' = clients \cup {seq + 1}
          /\ UNCHANGED <<manager, sender, declared>>
      BY <1>2, IdLeft DEF Admit, NextClientId
    <2>2. UNCHANGED <<readIndex, declaredRead, todo>>
      BY <2>1 DEF manager, tables, sender
    <2>3. CASE c = d
      <3>1. id'[c] = seq + 1
        BY <1>0, <2>1, <2>3
      <3>2. seq + 1 \notin readIndex[k] /\ <<seq + 1, k>> \notin todo
        BY <1>0, <2>1 DEF NewIdsUnknown, Muted
      <3>3. <<seq + 1, k>> \notin declared
        BY <1>0 DEF NewIdsUnknown
      <3>4. QED
        BY <2>1, <2>2, <3>1, <3>2, <3>3
    <2>4. CASE c # d
      <3>1. Running(c) /\ id'[c] = id[c] /\ id[c] # seq + 1
        BY <1>0, <1>2, <2>1, <2>4 DEF Admit, Running, Typed, TypeOK
      <3>2. QED
        BY <1>1, <2>1, <2>2, <3>1
    <2>5. QED
      BY <2>3, <2>4
  \* The entries of an id are removed.
  <1>3. ASSUME NEW i \in Ids, OnDisconnect(i), Running(c), id'[c] = id[c], todo' = todo,
               clients' = clients \ {i},
               <<id[c], k>> \in declared' <=> <<id[c], k>> \in declared,
               id[c] # i \/ declared' = declared
        PROVE  First(c, k)' /\ Stays(c, k)'
    <2>1. /\ id[c] \in Ids /\ TablesAgree'
          /\ declaredRead'[id[c]] = IF id[c] = i THEN {} ELSE declaredRead[id[c]]
      BY <1>0, <1>3, OnDisconnectTables
    <2>2. id[c] \in readIndex'[k] => id[c] \in readIndex[k]
      BY <2>1 DEF TablesAgree
    <2>3. QED
      BY <1>1, <1>3, <2>1, <2>2
  <1>4. ASSUME NEW d \in Conns, Finish(d)
        PROVE  First(c, k)' /\ Stays(c, k)'
    <2>1. /\ Running(d) /\ OnDisconnect(id[d]) /\ todo' = todo /\ clients' = clients \ {id[d]}
          /\ id' = [id EXCEPT ![d] = None] /\ declared' = {e \in declared : e[1] # id[d]}
          /\ task' = [task EXCEPT ![d] = "ended"]
      BY <1>4 DEF Finish, Ended, RemoveClientById, sender
    <2>2. c # d /\ Running(c)
      BY <2>1 DEF Running, Typed, TypeOK
    <2>3. id'[c] = id[c] /\ id[c] # id[d] /\ id[d] \in Ids
      BY <1>0, <2>1, <2>2 DEF Wrapping
    <2>4. <<id[c], k>> \in declared' <=> <<id[c], k>> \in declared
      BY <2>1, <2>3
    <2>5. PICK i \in Ids : i = id[d]
      BY <2>3
    <2>6. QED
      BY <1>3, <2>1, <2>2, <2>3, <2>4, <2>5
  <1>5. ASSUME id' = id, Running(c), UNCHANGED <<tables, todo, declared, clients>>
        PROVE  First(c, k)' /\ Stays(c, k)'
    BY <1>1, <1>5 DEF tables
  <1>6. CASE RunTask
    <2>1. PICK t \in Tasks :
             /\ t = Head(ready)
             /\ t.message \in Messages /\ t.client_id \in Ids /\ t.conn \in Conns
             /\ Handle(t.message, t.client_id)
             /\ \A d \in Conns : Running(d) => (t.conn = d <=> t.client_id = id[d])
      BY <1>6, RunningTask
    <2>2. /\ id' = id /\ Running(c) /\ todo' = todo /\ clients' = clients
          /\ declared' = declared \cup ({id[d] : d \in {d \in {t.conn} : Running(d)}}
                \X {j \in PduKeys : t.message = [kind |-> "declare", key |-> j]})
      BY <1>6, <2>1 DEF RunTask, session, sender, Running
    <2>3. TablesAgree' /\ id[c] \in Ids
          /\ (id[c] # t.client_id => declaredRead'[id[c]] = declaredRead[id[c]])
      BY <1>0, <2>1, <2>2, HandleTables
    <2>4. k \in declaredRead'[t.client_id] <=>
             k \in declaredRead[t.client_id] \/ t.message = [kind |-> "declare", key |-> k]
      BY <2>1, HandleDeclares
    <2>5. <<id[c], k>> \in declared' <=>
             \/ <<id[c], k>> \in declared
             \/ t.conn = c /\ t.message = [kind |-> "declare", key |-> k]
      <3>1. \A d \in Conns : Running(d) /\ id[d] = id[c] => d = c
        BY <2>2 DEF Wrapping
      <3>2. id[c] \in {id[d] : d \in {d \in {t.conn} : Running(d)}} <=> t.conn = c
        BY <2>1, <2>2, <3>1
      <3>3. QED
        BY <2>2, <3>2
    <2>6. k \in declaredRead'[id[c]] <=>
             k \in declaredRead[id[c]]
             \/ (t.conn = c /\ t.message = [kind |-> "declare", key |-> k])
      BY <2>1, <2>2, <2>3, <2>4
    <2>7. id[c] \in readIndex'[k] <=> k \in declaredRead'[id[c]]
      BY <2>3 DEF TablesAgree
    <2>8. id[c] \in readIndex[k] <=> k \in declaredRead[id[c]]
      BY <2>3 DEF TablesAgree
    <2>9. QED
      BY <1>1, <2>2, <2>5, <2>6, <2>7, <2>8
  <1>7. CASE SendFailed
    <2>1. /\ failing \in Ids /\ OnDisconnect(failing) /\ id' = id /\ Running(c)
          /\ todo' = todo /\ declared' = declared /\ clients' = clients \ {failing}
      BY <1>7 DEF SendFailed, RemoveClientById, history, Running, Typed, TypeOK
    <2>2. QED
      BY <1>3, <2>1
  <1>8. ASSUME NEW j \in PduKeys, PublishPdu(j)
        PROVE  First(c, k)' /\ Stays(c, k)'
    <2>1. /\ UNCHANGED <<id, tables, declared, clients>> /\ Running(c)
          /\ todo' = readIndex[j] \X {j}
      BY <1>8 DEF PublishPdu, session, manager, history, Running
    <2>2. QED
      BY <1>1, <2>1 DEF tables
  <1>9. ASSUME NEW i \in Ids, NEW j \in PduKeys, SendTo(i, j)
        PROVE  First(c, k)' /\ Stays(c, k)'
    <2>1. /\ UNCHANGED <<id, tables, declared, clients>> /\ Running(c)
          /\ todo' \subseteq todo
      BY <1>9 DEF SendTo, session, manager, Running
    <2>2. QED
      BY <1>1, <2>1 DEF tables
  <1>10. ASSUME NEW d \in Conns,
                Connect(d) \/ Send(d) \/ Disconnect(d) \/ Reject(d) \/ Receive(d)
         PROVE  First(c, k)' /\ Stays(c, k)'
    BY <1>5, <1>10 DEF Connect, Send, Disconnect, Reject, Receive, session, manager, sender,
       history, Running, Typed, TypeOK
  <1>11. CASE UNCHANGED vars
    BY <1>5, <1>11 DEF vars, session, manager, sender, history, Running
  <1>12. QED
    BY <1>2, <1>4, <1>6, <1>7, <1>8, <1>9, <1>10, <1>11 DEF Next

\* A topic is sent to a session that runs, and it has declared it.
LEMMA StrayedStep ==
  Typed /\ DeclaredFirst /\ OnlyDeclarersReceive /\ [Next]_vars => OnlyDeclarersReceive'
  <1> SUFFICES ASSUME Typed, DeclaredFirst, OnlyDeclarersReceive, [Next]_vars
               PROVE  OnlyDeclarersReceive'
    OBVIOUS
  <1>1. ASSUME NEW i \in Ids, NEW k \in PduKeys, SendTo(i, k)
        PROVE  OnlyDeclarersReceive'
    <2>1. ASSUME i \in OpenIds
          PROVE  <<i, k>> \in declared
      <3>1. PICK c \in Conns : id[c] = i
        BY <2>1 DEF OpenIds, Typed, TypeOK
      <3>2. Running(c)
        BY <3>1 DEF Typed, HasId, None, Ids
      <3>3. QED
        BY <1>1, <3>1, <3>2 DEF DeclaredFirst, SendTo
    <2>2. strayed' = strayed \cup ({<<i, k>> : j \in {i} \cap clients \cap OpenIds} \ declared)
      BY <1>1 DEF SendTo
    <2>3. QED
      BY <2>1, <2>2 DEF OnlyDeclarersReceive
  <1>2. CASE UNCHANGED strayed
    BY <1>2 DEF OnlyDeclarersReceive
  <1>3. QED
    BY <1>1, <1>2 DEF Next, vars, history, Connect, Send, Disconnect, Reject, Admit, Receive,
       RunTask, Finish, PublishPdu, SendFailed

-----------------------------------------------------------------------------
(* Channels. *)

LEMMA RegisteredFinite ==
  IsFiniteSet(Registered) /\ Cardinality(Registered) \in Nat
  BY TopicsAssumption, FS_Subset, FS_CardinalityType DEF TopicsAssumption, Registered

\* As long as no task ran late, the registered clients are those of one session.
LEMMA OneTransport ==
  ASSUME Typed, NoZombie, NewIdsUnknown, Wrapping, FirstChannels, late = {},
         NEW m \in Registered, NEW n \in Registered
  PROVE  registry[m].transport_client_id = registry[n].transport_client_id
  <1>1. ASSUME NEW x \in Registered
        PROVE  \E c \in Conns : Plain(c) /\ registry[x].transport_client_id = id[c]
    <2>1. x \in Names /\ registry[x] \in Handles /\ registry[x].transport_client_id # None
      BY DEF Registered, FirstChannels, Typed, TypeOK
    <2>2. PICK i \in Ids : i = registry[x].transport_client_id
      BY <2>1 DEF Handles
    <2>3. ~Muted(i)
      BY <2>1, <2>2 DEF Muted
    <2>4. i \in 1..seq
      BY <2>2, <2>3, ConnsFinite DEF NewIdsUnknown, Ids, Typed, TypeOK
    <2>5. PICK c \in Conns : id[c] = i
      BY <2>1, <2>2, <2>4 DEF NoZombie
    <2>6. Running(c)
      BY <2>2, <2>5 DEF Typed, HasId, None, Ids
    <2>7. ~Nested(c)
      BY <2>3, <2>5 DEF Wrapping
    <2>8. QED
      BY <2>2, <2>5, <2>6, <2>7 DEF Plain, Nested
  <1>2. QED
    BY <1>1 DEF Wrapping

LEMMA ChannelsStep ==
  ASSUME Typed, NoZombie, TablesAgree, NewIdsUnknown, Wrapping, TasksOfSession,
         FirstChannels, ChannelsUnique, [Next]_vars
  PROVE  FirstChannels' /\ ChannelsUnique'
  <1>0. /\ late' = {} => late = {}
        /\ registry \in [Names -> Handles]
        /\ NoHandle.transport_client_id = None /\ None \notin Ids
    <2>1. late' = late \/ RunTask
      BY DEF Next, vars, history, Connect, Send, Disconnect, Reject, Admit, Receive, Finish,
         PublishPdu, SendTo, SendFailed
    <2>2. RunTask => late \subseteq late'
      BY DEF RunTask
    <2>3. NoHandle.transport_client_id = None /\ None \notin Ids
      BY DEF NoHandle, None, Ids
    <2>4. QED
      BY <2>1, <2>2, <2>3 DEF Typed, TypeOK
  <1>1. ASSUME UNCHANGED registry
        PROVE  FirstChannels' /\ ChannelsUnique'
    BY <1>0, <1>1 DEF FirstChannels, ChannelsUnique, Registered
  \* Of one session: all of the clients leave or none.
  <1>2. ASSUME NEW i \in Ids, OnDisconnect(i)
        PROVE  FirstChannels' /\ ChannelsUnique'
    <2>1. \A n \in Names : registry'[n] = IF registry[n].transport_client_id = i THEN NoHandle
                                                                              ELSE registry[n]
      BY <1>2 DEF OnDisconnect
    <2>2. \A n \in Names : /\ n \in Registered' <=> registry'[n] # NoHandle
                           /\ n \in Registered <=> registry[n] # NoHandle
      BY DEF Registered
    <2>3. Registered' \subseteq Names /\ Registered \subseteq Names
      BY DEF Registered
    <2>4. \A n \in Registered' : n \in Registered /\ registry'[n] = registry[n]
      BY <2>1, <2>2, <2>3
    <2>5. CASE late # {}
      BY <1>0, <2>4, <2>5 DEF FirstChannels, ChannelsUnique
    <2>6. CASE late = {} /\ \E n \in Registered : registry[n].transport_client_id = i
      <3>1. \A n \in Registered : registry[n].transport_client_id = i
        BY <2>6, OneTransport
      <3>2. Registered' = {}
        BY <2>1, <2>2, <2>3, <2>4, <3>1
      <3>3. QED
        BY <3>2 DEF FirstChannels, ChannelsUnique
    <2>7. CASE \A n \in Registered : registry[n].transport_client_id # i
      <3>1. Registered' = Registered
        BY <2>1, <2>2, <2>3, <2>7
      <3>2. QED
        BY <1>0, <2>4, <3>1 DEF FirstChannels, ChannelsUnique
    <2>8. QED
      BY <2>5, <2>6, <2>7
  \* Of the session that registers one more.
  <1>3. ASSUME NEW i \in Ids, NEW name \in Names, name \notin Registered,
               registry' = [registry EXCEPT ![name] = [transport_client_id |-> i,
                                                       client_id |-> Cardinality(Registered)]]
        PROVE  FirstChannels' /\ ChannelsUnique'
    <2>1. /\ registry'[name].transport_client_id = i
          /\ registry'[name].client_id = Cardinality(Registered)
          /\ \A n \in Names \ {name} : registry'[n] = registry[n]
      BY <1>0, <1>3
    <2>2. registry'[name] # NoHandle
      BY <1>0, <2>1
    <2>3. Registered' = Registered \cup {name}
      BY <1>3, <2>1, <2>2 DEF Registered
    <2>4. Registered \subseteq Names /\ Cardinality(Registered') = Cardinality(Registered) + 1
      BY <1>3, <2>3, RegisteredFinite, FS_AddElement DEF Registered
    <2>5. \A n \in Registered : registry'[n] = registry[n]
      BY <1>3, <2>1, <2>4
    <2>6. \A n \in Registered' : registry'[n].transport_client_id # None
      BY <1>0, <2>1, <2>3, <2>5 DEF FirstChannels
    <2>7. ASSUME late = {}, NEW n \in Registered
          PROVE  registry'[n].client_id < Cardinality(Registered)
      BY <2>5, <2>7 DEF FirstChannels
    <2>8. \A n \in Registered : registry[n].client_id \in Nat
      BY <1>0, <2>4, ConnsFinite DEF Handles
    <2>9. ASSUME late = {}
          PROVE  \A n \in Registered' : registry'[n].client_id < Cardinality(Registered')
      BY <2>1, <2>3, <2>4, <2>5, <2>7, <2>8, <2>9, RegisteredFinite
    <2>10. ASSUME late = {}, NEW m \in Registered', NEW n \in Registered',
                  registry'[m].client_id = registry'[n].client_id
           PROVE  m = n
      <3>1. CASE m \in Registered /\ n \in Registered
        BY <2>5, <2>10, <3>1 DEF ChannelsUnique
      <3>2. CASE m = name /\ n \in Registered
        BY <2>1, <2>7, <2>10, <3>2, RegisteredFinite
      <3>3. CASE m \in Registered /\ n = name
        BY <2>1, <2>7, <2>10, <3>3, RegisteredFinite
      <3>4. QED
        BY <2>3, <3>1, <3>2, <3>3
    <2>11. QED
      BY <1>0, <2>6, <2>9, <2>10 DEF FirstChannels, ChannelsUnique
  <1>4. CASE RunTask
    <2>1. PICK t \in Tasks :
             /\ t.message \in Messages /\ t.client_id \in Ids
             /\ Handle(t.message, t.client_id)
      BY <1>4, RunningTask
    <2>2. CASE t.message.kind = "declare"
      BY <1>1, <2>1, <2>2 DEF Handle, Declare
    <2>3. CASE t.message.kind = "register" /\ RegisterClient(t.client_id, t.message.name)
      <3>1. t.message.name \in Names
        BY <2>1, <2>3 DEF Messages
      <3>2. QED
        BY <1>1, <1>3, <2>1, <2>3, <3>1 DEF RegisterClient
    <2>4. QED
      BY <2>1, <2>2, <2>3 DEF Handle
  <1>5. QED
    BY <1>1, <1>2, <1>4, TableSteps DEF tables, Finish, SendFailed

-----------------------------------------------------------------------------
LEMMA SessionsInvariant == Spec => [](IInv /\ SessionsInv)
  <1>1. Init => SessionsInv
    <2> SUFFICES ASSUME Init PROVE SessionsInv
      OBVIOUS
    <2>1. NoHandle.transport_client_id = None /\ None \notin Ids
      BY DEF NoHandle, None, Ids
    <2>2. NewIdsUnknown
      BY <2>1 DEF Init, NewIdsUnknown, Muted
    <2>3. Wrapping /\ TasksOfSession
      BY DEF Init, Wrapping, TasksOfSession, Plain, Nested, Running
    <2>4. DeclaredFirst /\ OnlyDeclarersReceive /\ DeclaredStays
      BY DEF Init, DeclaredFirst, OnlyDeclarersReceive, DeclaredStays, Running
    <2>5. FirstChannels /\ ChannelsUnique
      BY DEF Init, FirstChannels, ChannelsUnique, Registered
    <2>6. QED
      BY <2>2, <2>3, <2>4, <2>5 DEF SessionsInv
  <1>2. IInv /\ SessionsInv /\ [Next]_vars => SessionsInv'
    <2> SUFFICES ASSUME IInv, SessionsInv, [Next]_vars PROVE SessionsInv'
      OBVIOUS
    <2>1. NewIdsUnknown' /\ Wrapping' /\ TasksOfSession'
      BY NewIdsStep, WrappingStep, TasksStep DEF IInv, SessionsInv
    <2>2. DeclaredFirst' /\ DeclaredStays' /\ OnlyDeclarersReceive'
      BY DeclaredStep, StrayedStep DEF IInv, SessionsInv
    <2>3. FirstChannels' /\ ChannelsUnique'
      BY ChannelsStep DEF IInv, SessionsInv
    <2>4. QED
      BY <2>1, <2>2, <2>3 DEF SessionsInv
  <1>3. QED
    BY <1>1, <1>2, InvariantHolds, PTL DEF Spec

\* publish_pdu() sends a topic to no session that has not declared it, also
\* where sessions overlap.
THEOREM TopicsGoToDeclarers == Spec => []OnlyDeclarersReceive
  BY SessionsInvariant, PTL DEF SessionsInv

\* What the client of a session declared stays declared as long as the session
\* is one of the service's clients, whatever other sessions begin and end.
THEOREM DeclarationsStay == Spec => []DeclaredStays
  BY SessionsInvariant, PTL DEF SessionsInv

\* No two registered clients have the same channels, unless a message was
\* handled after the end of its session.
THEOREM ChannelsAreUnique == Spec => []ChannelsUnique
  BY SessionsInvariant, PTL DEF SessionsInv
=============================================================================
