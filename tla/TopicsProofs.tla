---------------------------- MODULE TopicsProofs ----------------------------
(***************************************************************************)
(* Theorems about Topics, for any finite set of connections and of client  *)
(* names, any topics, and any bounds.                                      *)
(*                                                                         *)
(* That an id is never given out twice, and that there is one for every    *)
(* connection, is a matter of counting: _id_seq is the number of           *)
(* connections admitted so far.                                            *)
(***************************************************************************)
EXTENDS Topics, FiniteSetTheorems, TLAPS

Admitted == {c \in Conns : task[c] \in {"running", "ended"}}

Counted == seq = Cardinality(Admitted)

\* A connection has an id while its handler runs.
HasId == \A c \in Conns : Running(c) <=> id[c] # None

\* The ids given out are those counted.
IdsCounted == \A c \in Conns : id[c] \in 0..seq

Typed == TypeOK /\ Counted /\ HasId /\ IdsCounted

\* As long as no session began while another ran, the handler is the manager's,
\* or the manager's with the one id.
OneWrapper == ~overlapped =>
    /\ \A c, d \in Conns : Running(c) /\ Running(d) => c = d
    /\ \A c \in Conns : Running(c) => handler = <<id[c]>> /\ original[c] = <<>>
    /\ (\A c \in Conns : ~Running(c)) => handler = <<>>

IInv == Typed /\ TablesAgree /\ NoZombie /\ OneWrapper

-----------------------------------------------------------------------------
LEMMA ConnsFinite == Cardinality(Conns) \in Nat /\ Cardinality(Names) \in Nat
  BY TopicsAssumption, FS_CardinalityType DEF TopicsAssumption

LEMMA AdmittedFinite ==
  ASSUME NEW A \in SUBSET Conns
  PROVE  IsFiniteSet(A) /\ Cardinality(A) \in Nat /\ Cardinality(A) <= Cardinality(Conns)
  BY TopicsAssumption, FS_Subset, FS_CardinalityType DEF TopicsAssumption

\* There is an id for a connection that has not had one.
LEMMA IdLeft ==
  ASSUME Typed, NEW c \in Conns, task[c] = "new"
  PROVE  /\ seq + 1 \in Ids
         /\ seq + 1 = Cardinality(Admitted \cup {c})
  <1>1. c \notin Admitted /\ Admitted \cup {c} \in SUBSET Conns
    BY DEF Admitted
  <1>2. IsFiniteSet(Admitted)
    BY AdmittedFinite DEF Admitted
  <1>3. Cardinality(Admitted \cup {c}) = seq + 1
    BY <1>1, <1>2, FS_AddElement DEF Typed, Counted
  <1>4. seq \in Nat
    BY ConnsFinite DEF Typed, TypeOK
  <1>5. QED
    BY <1>1, <1>3, <1>4, AdmittedFinite, ConnsFinite DEF Ids

LEMMA TypedInit == Init => Typed
  <1> SUFFICES ASSUME Init PROVE Typed
    OBVIOUS
  <1> USE ConnsFinite DEF Init
  <1>1. Admitted = {}
    BY DEF Admitted
  <1>2. Counted
    BY <1>1, FS_EmptySet DEF Counted
  <1>3. NoHandle \in Handles
    BY DEF NoHandle, Handles
  <1>4. TypeOK
    <2>1. \A S : <<>> \in Seq(S)
      OBVIOUS
    <2>2. /\ inbox \in [Conns -> Seq(Messages)]
          /\ original \in [Conns -> Seq(Ids)]
          /\ handler \in Seq(Ids)
          /\ ready \in Seq(Tasks)
      BY <2>1, Zenon
    <2>3. /\ task \in [Conns -> {"none", "new", "rejected", "running", "ended"}]
          /\ id \in [Conns -> Ids \cup {None}]
          /\ seq \in 0..Cardinality(Conns)
      OBVIOUS
    <2>4. /\ declaredRead \in [Ids -> SUBSET PduKeys]
          /\ readIndex \in [PduKeys -> SUBSET Ids]
          /\ registry \in [Names -> Handles]
      BY <1>3
    <2>5. QED
      BY <2>2, <2>3, <2>4 DEF TypeOK
  <1>5. HasId /\ IdsCounted
    BY DEF HasId, IdsCounted, Running, None
  <1>6. QED
    BY <1>2, <1>4, <1>5 DEF Typed

\* The tables keep their type when a connection's entries are removed.
LEMMA OnDisconnectTyped ==
  ASSUME Typed, NEW i \in Ids, OnDisconnect(i)
  PROVE  /\ declaredRead' \in [Ids -> SUBSET PduKeys]
         /\ readIndex' \in [PduKeys -> SUBSET Ids]
         /\ registry' \in [Names -> Handles]
  <1>1. NoHandle \in Handles
    BY ConnsFinite DEF NoHandle, Handles
  <1>2. QED
    BY <1>1 DEF OnDisconnect, Typed, TypeOK

LEMMA RemoveTyped ==
  ASSUME Typed, NEW i, RemoveClientById(i)
  PROVE  clients' \subseteq Ids /\ websocket' \in Ids \cup {None}
  BY DEF RemoveClientById, Typed, TypeOK

LEMMA HandleTyped ==
  ASSUME Typed, NEW m \in Messages, NEW i \in Ids, Handle(m, i)
  PROVE  /\ declaredRead' \in [Ids -> SUBSET PduKeys]
         /\ readIndex' \in [PduKeys -> SUBSET Ids]
         /\ registry' \in [Names -> Handles]
  <1> USE DEF Typed, TypeOK
  <1>1. CASE m.kind = "declare" /\ Declare(i, m.key)
    <2>1. m.key \in PduKeys
      BY <1>1 DEF Messages
    <2>2. QED
      BY <1>1, <2>1 DEF Declare
  <1>2. CASE m.kind = "register" /\ RegisterClient(i, m.name)
    <2>1. m.name \in Names
      BY <1>2 DEF Messages
    <2>2. Cardinality(Registered) \in 0..Cardinality(Names)
      BY TopicsAssumption, FS_Subset, FS_CardinalityType DEF TopicsAssumption, Registered
    <2>3. [transport_client_id |-> i, client_id |-> Cardinality(Registered)] \in Handles
      BY <2>2 DEF Handles
    <2>4. QED
      BY <1>2, <2>1, <2>3 DEF RegisterClient
  <1>3. QED
    BY <1>1, <1>2 DEF Handle

\* Who is admitted changes only when somebody is.
LEMMA SameAdmitted ==
  ASSUME Typed, seq' = seq, id' = id,
         \A c \in Conns : /\ Running(c)' <=> Running(c)
                          /\ (task[c] = "ended")' <=> task[c] = "ended"
  PROVE  Counted' /\ HasId' /\ IdsCounted'
  <1>1. Admitted' = Admitted
    BY DEF Admitted, Running
  <1>2. QED
    BY <1>1 DEF Typed, Counted, HasId, IdsCounted

LEMMA TypedStep == Typed /\ [Next]_vars => Typed'
  <1> SUFFICES ASSUME Typed, [Next]_vars
               PROVE  Typed'
    OBVIOUS
  <1> USE DEF net, session, tables, manager, sender, history
  <1>1. ASSUME NEW c \in Conns, Connect(c) \/ Disconnect(c) \/ Reject(c)
        PROVE  Typed'
    <2>1. TypeOK'
      <3>0. \A S : <<>> \in Seq(S)
        OBVIOUS
      <3>1. inbox' \in [Conns -> Seq(Messages)] /\ open' \subseteq Conns
        <4>1. CASE Connect(c) \/ Disconnect(c)
          BY <4>1 DEF Connect, Disconnect, Typed, TypeOK
        <4>2. CASE Reject(c)
          BY <4>2, <3>0 DEF Reject, Typed, TypeOK
        <4>3. QED
          BY <1>1, <4>1, <4>2
      <3>2. task' \in [Conns -> {"none", "new", "rejected", "running", "ended"}]
        BY <1>1 DEF Connect, Disconnect, Reject, Typed, TypeOK
      <3>3. QED
        BY <1>1, <3>1, <3>2 DEF Connect, Disconnect, Reject, Typed, TypeOK
    <2>2. Counted' /\ HasId' /\ IdsCounted'
      BY <1>1, SameAdmitted DEF Connect, Disconnect, Reject, Running, Typed, TypeOK
    <2>3. QED
      BY <2>1, <2>2 DEF Typed
  <1>2. ASSUME NEW c \in Conns, Send(c)
        PROVE  Typed'
    <2>1. TypeOK'
      BY <1>2 DEF Send, Typed, TypeOK
    <2>2. Counted' /\ HasId' /\ IdsCounted'
      BY <1>2, SameAdmitted DEF Send, Running
    <2>3. QED
      BY <2>1, <2>2 DEF Typed
  <1>3. ASSUME NEW c \in Conns, Admit(c)
        PROVE  Typed'
    <2>1. seq + 1 \in Ids /\ seq + 1 = Cardinality(Admitted \cup {c})
      BY <1>3, IdLeft DEF Admit
    <2>2. Admitted' = Admitted \cup {c}
      BY <1>3 DEF Admit, Admitted, Typed, TypeOK
    <2>3. TypeOK'
      BY <1>3, <2>1 DEF Admit, NextClientId, Ids, Typed, TypeOK
    <2>4. HasId' /\ IdsCounted'
      BY <1>3, <2>1, ConnsFinite
      DEF Admit, NextClientId, HasId, IdsCounted, Running, None, Ids, Typed, TypeOK
    <2>5. Counted'
      BY <1>3, <2>1, <2>2 DEF Admit, NextClientId, Counted
    <2>6. QED
      BY <2>3, <2>4, <2>5 DEF Typed
  <1>4. ASSUME NEW c \in Conns, Receive(c)
        PROVE  Typed'
    <2>1. Head(inbox[c]) \in Messages /\ Tail(inbox[c]) \in Seq(Messages)
      BY <1>4 DEF Receive, Typed, TypeOK
    <2>2. ready' \in Seq(Tasks)
      <3>1. CASE Len(handler) # 1
        BY <1>4, <3>1 DEF Receive, Typed, TypeOK
      <3>2. CASE Len(handler) = 1
        <4>0. handler \in Seq(Ids)
          BY DEF Typed, TypeOK
        <4>1. handler[1] \in Ids
          BY <3>2, <4>0
        <4>2. [conn |-> c, message |-> Head(inbox[c]), client_id |-> handler[1]] \in Tasks
          BY <2>1, <4>1 DEF Tasks
        <4>3. QED
          BY <1>4, <3>2, <4>2 DEF Receive, Typed, TypeOK
      <3>3. QED
        BY <3>1, <3>2
    <2>3. TypeOK'
      BY <1>4, <2>1, <2>2 DEF Receive, Typed, TypeOK
    <2>4. Counted' /\ HasId' /\ IdsCounted'
      BY <1>4, SameAdmitted DEF Receive, Running
    <2>5. QED
      BY <2>3, <2>4 DEF Typed
  <1>5. ASSUME NEW c \in Conns, Finish(c)
        PROVE  Typed'
    <2>1. Running(c) /\ id[c] \in Ids
      BY <1>5 DEF Finish, HasId, Typed, TypeOK
    <2>2. Admitted' = Admitted
      BY <1>5, <2>1 DEF Finish, Ended, Admitted, Running, Typed, TypeOK
    <2>3. TypeOK'
      <3>1. \A S : <<>> \in Seq(S)
        OBVIOUS
      <3>2. handler' \in Seq(Ids) /\ original' \in [Conns -> Seq(Ids)]
        BY <1>5, <3>1 DEF Finish, Ended, Typed, TypeOK
      <3>3. open' \subseteq Conns /\ inbox' \in [Conns -> Seq(Messages)]
        BY <1>5, <3>1 DEF Finish, Ended, Typed, TypeOK
      <3>4. /\ declaredRead' \in [Ids -> SUBSET PduKeys]
            /\ readIndex' \in [PduKeys -> SUBSET Ids]
            /\ registry' \in [Names -> Handles]
        BY <1>5, <2>1, OnDisconnectTyped DEF Finish
      <3>5. clients' \subseteq Ids /\ websocket' \in Ids \cup {None}
        BY <1>5, RemoveTyped DEF Finish
      <3>6. QED
        BY <1>5, <3>2, <3>3, <3>4, <3>5 DEF Finish, Ended, Typed, TypeOK
    <2>4. HasId' /\ IdsCounted'
      BY <1>5, ConnsFinite DEF Finish, Ended, HasId, IdsCounted, Running, None, Typed, TypeOK
    <2>5. Counted'
      BY <1>5, <2>2 DEF Finish, Counted, Typed
    <2>6. QED
      BY <2>3, <2>4, <2>5 DEF Typed
  <1>6. CASE RunTask
    <2> DEFINE t == Head(ready)
    <2>1. t \in Tasks /\ ready' \in Seq(Tasks)
      BY <1>6 DEF RunTask, Typed, TypeOK
    <2>2. t.message \in Messages /\ t.client_id \in Ids /\ t.conn \in Conns
      BY <2>1 DEF Tasks
    <2>3. /\ declaredRead' \in [Ids -> SUBSET PduKeys]
          /\ readIndex' \in [PduKeys -> SUBSET Ids]
          /\ registry' \in [Names -> Handles]
      BY <1>6, <2>2, HandleTyped DEF RunTask
    <2>4. declared' \subseteq Ids \X PduKeys /\ late' \subseteq Ids
      <3>1. \A c \in {c \in {t.conn} : Running(c)} : id[c] \in Ids
        BY <2>2 DEF HasId, Typed, TypeOK
      <3>2. declared' = declared \cup ({id[c] : c \in {c \in {t.conn} : Running(c)}}
                \X {k \in PduKeys : t.message = [kind |-> "declare", key |-> k]})
        BY <1>6 DEF RunTask
      <3>3. late' \subseteq Ids
        BY <1>6, <2>2 DEF RunTask, Typed, TypeOK
      <3>4. declared \subseteq Ids \X PduKeys
        BY DEF Typed, TypeOK
      <3>5. QED
        BY <3>1, <3>2, <3>3, <3>4
    <2>5. TypeOK'
      BY <1>6, <2>1, <2>3, <2>4 DEF RunTask, Typed, TypeOK
    <2>6. Counted' /\ HasId' /\ IdsCounted'
      BY <1>6, SameAdmitted DEF RunTask, Running
    <2>7. QED
      BY <2>5, <2>6 DEF Typed
  <1>7. ASSUME NEW k \in PduKeys, PublishPdu(k) \/ \E i \in Ids : SendTo(i, k)
        PROVE  Typed'
    <2>1. TypeOK'
      BY <1>7 DEF PublishPdu, SendTo, Typed, TypeOK
    <2>2. Counted' /\ HasId' /\ IdsCounted'
      BY <1>7, SameAdmitted DEF PublishPdu, SendTo, Running
    <2>3. QED
      BY <2>1, <2>2 DEF Typed
  <1>8. CASE SendFailed
    <2>1. failing \in Ids
      BY <1>8 DEF SendFailed, Typed, TypeOK
    <2>2. /\ declaredRead' \in [Ids -> SUBSET PduKeys]
          /\ readIndex' \in [PduKeys -> SUBSET Ids]
          /\ registry' \in [Names -> Handles]
      BY <1>8, <2>1, OnDisconnectTyped DEF SendFailed
    <2>3. clients' \subseteq Ids /\ websocket' \in Ids \cup {None}
      BY <1>8, RemoveTyped DEF SendFailed
    <2>4. TypeOK'
      BY <1>8, <2>2, <2>3 DEF SendFailed, Typed, TypeOK
    <2>5. Counted' /\ HasId' /\ IdsCounted'
      BY <1>8, SameAdmitted DEF SendFailed, Running
    <2>6. QED
      BY <2>4, <2>5 DEF Typed
  <1>9. CASE UNCHANGED vars
    <2>1. TypeOK'
      BY <1>9 DEF vars, Typed, TypeOK
    <2>2. Counted' /\ HasId' /\ IdsCounted'
      BY <1>9, SameAdmitted DEF vars, Running
    <2>3. QED
      BY <2>1, <2>2 DEF Typed
  <1>10. QED
    BY <1>1, <1>2, <1>3, <1>4, <1>5, <1>6, <1>7, <1>8, <1>9 DEF Next
-----------------------------------------------------------------------------
\* What the removal of a connection's entries does to the others': nothing.
LEMMA OnDisconnectTables ==
  ASSUME Typed, TablesAgree, NEW i \in Ids, OnDisconnect(i)
  PROVE  /\ TablesAgree'
         /\ declaredRead'[i] = {}
         /\ \A j \in Ids : j # i => declaredRead'[j] = declaredRead[j]
         /\ \A n \in Names : /\ registry'[n].transport_client_id # i
                            /\ \/ registry'[n] = registry[n]
                               \/ registry'[n] = NoHandle
  <1>1. \A j \in Ids : declaredRead'[j] = IF j = i THEN {} ELSE declaredRead[j]
    BY DEF OnDisconnect, Typed, TypeOK
  <1>2. \A k \in PduKeys : readIndex'[k] = IF k \in declaredRead[i] THEN readIndex[k] \ {i}
                                                                     ELSE readIndex[k]
    BY DEF OnDisconnect
  <1>3. TablesAgree'
    <2> SUFFICES ASSUME NEW j \in Ids, NEW k \in PduKeys
                 PROVE  k \in declaredRead'[j] <=> j \in readIndex'[k]
      BY DEF TablesAgree
    <2>1. /\ k \in declaredRead[j] <=> j \in readIndex[k]
          /\ k \in declaredRead[i] <=> i \in readIndex[k]
      BY DEF TablesAgree
    <2>2. CASE j = i
      BY <1>1, <1>2, <2>1, <2>2
    <2>3. CASE j # i
      BY <1>1, <1>2, <2>1, <2>3
    <2>4. QED
      BY <2>2, <2>3
  <1>4. NoHandle.transport_client_id # i
    BY DEF NoHandle, None, Ids
  <1>5. \A n \in Names : registry'[n] = IF registry[n].transport_client_id = i THEN NoHandle
                                                                            ELSE registry[n]
    BY DEF OnDisconnect
  <1>6. QED
    BY <1>1, <1>3, <1>4, <1>5

LEMMA HandleTables ==
  ASSUME Typed, TablesAgree, NEW m \in Messages, NEW i \in Ids, Handle(m, i)
  PROVE  /\ TablesAgree'
         /\ \A j \in Ids : j # i => declaredRead'[j] = declaredRead[j]
         /\ \A n \in Names : \/ registry'[n] = registry[n]
                            \/ registry'[n].transport_client_id = i
  <1>1. CASE m.kind = "declare" /\ Declare(i, m.key)
    <2>1. m.key \in PduKeys
      BY <1>1 DEF Messages
    <2>2. \A j \in Ids : declaredRead'[j] = IF j = i THEN declaredRead[j] \cup {m.key}
                                                     ELSE declaredRead[j]
      BY <1>1 DEF Declare, Typed, TypeOK
    <2>3. \A k \in PduKeys : readIndex'[k] = IF k = m.key /\ k \notin declaredRead[i]
                                             THEN readIndex[k] \cup {i} ELSE readIndex[k]
      BY <1>1, <2>1 DEF Declare, Typed, TypeOK
    <2>4. TablesAgree'
      <3> SUFFICES ASSUME NEW j \in Ids, NEW k \in PduKeys
                   PROVE  k \in declaredRead'[j] <=> j \in readIndex'[k]
        BY DEF TablesAgree
      <3>1. /\ k \in declaredRead[j] <=> j \in readIndex[k]
            /\ k \in declaredRead[i] <=> i \in readIndex[k]
        BY DEF TablesAgree
      <3>2. CASE j = i
        BY <2>2, <2>3, <3>1, <3>2
      <3>3. CASE j # i
        BY <2>2, <2>3, <3>1, <3>3
      <3>4. QED
        BY <3>2, <3>3
    <2>5. QED
      BY <1>1, <2>2, <2>4 DEF Declare
  <1>2. CASE m.kind = "register" /\ RegisterClient(i, m.name)
    <2>1. declaredRead' = declaredRead /\ readIndex' = readIndex
      BY <1>2 DEF RegisterClient
    <2>2. \A n \in Names : \/ registry'[n] = registry[n]
                           \/ registry'[n].transport_client_id = i
      BY <1>2 DEF RegisterClient, Typed, TypeOK
    <2>3. QED
      BY <2>1, <2>2 DEF TablesAgree
  <1>3. QED
    BY <1>1, <1>2 DEF Handle

\* The tables change when a task runs, a session ends, or a send has failed.
LEMMA TablesStep == Typed /\ TablesAgree /\ [Next]_vars => TablesAgree'
  <1> SUFFICES ASSUME Typed, TablesAgree, [Next]_vars
               PROVE  TablesAgree'
    OBVIOUS
  <1>1. ASSUME NEW c \in Conns, Finish(c)
        PROVE  TablesAgree'
    <2>1. id[c] \in Ids
      BY <1>1 DEF Finish, Typed, HasId, TypeOK
    <2>2. QED
      BY <1>1, <2>1, OnDisconnectTables DEF Finish
  <1>2. CASE RunTask
    <2>1. Head(ready) \in Tasks
      BY <1>2 DEF RunTask, Typed, TypeOK
    <2>2. QED
      BY <1>2, <2>1, HandleTables DEF RunTask, Tasks
  <1>3. CASE SendFailed
    <2>1. failing \in Ids
      BY <1>3 DEF SendFailed, Typed, TypeOK
    <2>2. QED
      BY <1>3, <2>1, OnDisconnectTables DEF SendFailed
  <1>4. CASE UNCHANGED tables
    BY <1>4 DEF tables, TablesAgree
  <1>5. \/ UNCHANGED tables \/ RunTask \/ SendFailed
        \/ \E c \in Conns : Finish(c)
    BY DEF Next, vars, manager, Connect, Send, Disconnect, Reject, Admit, Receive, PublishPdu,
       SendTo, tables
  <1>6. QED
    BY <1>1, <1>2, <1>3, <1>4, <1>5

\* A session that has ended is cleaned by the step that ends it, and written to
\* afterwards by late tasks only.
LEMMA ZombieStep == Typed /\ TablesAgree /\ NoZombie /\ [Next]_vars => NoZombie'
  <1> SUFFICES ASSUME Typed, TablesAgree, NoZombie, [Next]_vars,
                      NEW i \in 1..seq', i \notin late', \A c \in Conns : id'[c] # i
               PROVE  /\ declaredRead'[i] = {}
                      /\ \A n \in Names : registry'[n].transport_client_id # i
    BY DEF NoZombie
  <1> DEFINE Clean == /\ declaredRead[i] = {}
                      /\ \A n \in Names : registry[n].transport_client_id # i
  <1>1. ASSUME i \in 1..seq, i \notin late, \A c \in Conns : id[c] # i
        PROVE  Clean
    BY <1>1 DEF NoZombie
  <1>2. seq \in 0..Cardinality(Conns) /\ NoHandle.transport_client_id # i
    BY DEF Typed, TypeOK, NoHandle, None
  <1>3. ASSUME NEW c \in Conns, Finish(c)
        PROVE  /\ declaredRead'[i] = {}
               /\ \A n \in Names : registry'[n].transport_client_id # i
    <2>1. id[c] \in Ids /\ i \in Ids /\ i \in 1..seq /\ i \notin late
      BY <1>2, <1>3, ConnsFinite DEF Finish, Typed, HasId, TypeOK, Ids
    <2>2. \A d \in Conns : id'[d] = IF d = c THEN None ELSE id[d]
      BY <1>3 DEF Finish, Ended, Typed, TypeOK
    <2>3. CASE i = id[c]
      BY <1>3, <2>1, <2>3, OnDisconnectTables DEF Finish
    <2>4. CASE i # id[c]
      <3>1. Clean
        BY <1>1, <2>1, <2>2, <2>4
      <3>2. QED
        BY <1>2, <1>3, <2>1, <2>4, <3>1, OnDisconnectTables DEF Finish
    <2>5. QED
      BY <2>3, <2>4
  <1>4. CASE RunTask
    <2>1. Head(ready) \in Tasks
      BY <1>4 DEF RunTask, Typed, TypeOK
    <2>2. seq' = seq /\ id' = id /\ late \subseteq late'
      BY <1>4 DEF RunTask, session
    <2>3. i # Head(ready).client_id
      BY <1>4, <2>2 DEF RunTask
    <2>4. Clean /\ i \in Ids
      BY <1>1, <1>2, <2>2, ConnsFinite DEF Ids
    <2>5. QED
      BY <1>4, <2>1, <2>3, <2>4, HandleTables DEF RunTask, Tasks
  <1>5. CASE SendFailed
    <2>1. failing \in Ids
      BY <1>5 DEF SendFailed, Typed, TypeOK
    <2>2. seq' = seq /\ id' = id /\ late' = late
      BY <1>5 DEF SendFailed, history
    <2>3. Clean /\ i \in Ids
      BY <1>1, <1>2, <2>2, ConnsFinite DEF Ids
    <2>4. QED
      BY <1>2, <1>5, <2>1, <2>3, OnDisconnectTables DEF SendFailed
  <1>6. ASSUME NEW c \in Conns, Admit(c)
        PROVE  /\ declaredRead'[i] = {}
               /\ \A n \in Names : registry'[n].transport_client_id # i
    <2>1. seq' = seq + 1 /\ late' = late /\ UNCHANGED tables
      BY <1>6 DEF Admit, NextClientId, manager
    <2>2. \A d \in Conns : id'[d] = IF d = c THEN seq + 1 ELSE id[d]
      BY <1>6 DEF Admit, NextClientId, Typed, TypeOK
    <2>3. i # seq + 1 /\ \A d \in Conns : d # c => id[d] # i
      BY <2>2
    <2>4. id[c] = None
      BY <1>6 DEF Admit, Typed, HasId, Running
    <2>5. Clean
      BY <1>1, <1>2, <2>1, <2>3, <2>4 DEF None
    <2>6. QED
      BY <2>1, <2>5 DEF tables
  <1>7. CASE UNCHANGED <<tables, id, seq, late>>
    BY <1>1, <1>7 DEF tables
  <1>8. \/ UNCHANGED <<tables, id, seq, late>> \/ RunTask \/ SendFailed
        \/ \E c \in Conns : Finish(c) \/ Admit(c)
    BY DEF Next, vars, session, manager, history, Connect, Send, Disconnect, Reject, Receive,
       PublishPdu, SendTo, tables
  <1>9. QED
    BY <1>3, <1>4, <1>5, <1>6, <1>7, <1>8

LEMMA WrapperStep == Typed /\ OneWrapper /\ [Next]_vars => OneWrapper'
  <1> SUFFICES ASSUME Typed, OneWrapper, [Next]_vars, ~overlapped'
               PROVE  OneWrapper'
    BY DEF OneWrapper
  <1>1. ASSUME NEW c \in Conns, Admit(c)
        PROVE  OneWrapper'
    <2>1. ~overlapped /\ \A d \in Conns : ~Running(d)
      BY <1>1 DEF Admit
    <2>2. handler = <<>>
      BY <2>1 DEF OneWrapper
    <2>3. handler' = <<seq + 1>> /\ id'[c] = seq + 1 /\ original'[c] = <<>>
      BY <1>1, <2>2 DEF Admit, NextClientId, Typed, TypeOK
    <2>4. \A d \in Conns : Running(d)' <=> d = c
      BY <1>1, <2>1 DEF Admit, Running, Typed, TypeOK
    <2>5. QED
      BY <2>3, <2>4 DEF OneWrapper
  <1>2. ASSUME NEW c \in Conns, Finish(c)
        PROVE  OneWrapper'
    <2>1. ~overlapped /\ Running(c)
      BY <1>2 DEF Finish
    <2>2. handler' = <<>>
      BY <1>2, <2>1 DEF OneWrapper, Finish
    <2>3. \A d \in Conns : ~Running(d)'
      BY <1>2, <2>1 DEF OneWrapper, Finish, Ended, Running, Typed, TypeOK
    <2>4. QED
      BY <2>2, <2>3 DEF OneWrapper
  <1>3. CASE /\ UNCHANGED <<handler, id, original, overlapped>>
             /\ \A c \in Conns : Running(c)' <=> Running(c)
    BY <1>3 DEF OneWrapper
  <1>4. \/ UNCHANGED <<handler, task, id, original, overlapped>>
        \/ \E c \in Conns : Connect(c) \/ Reject(c) \/ Finish(c) \/ Admit(c)
    BY DEF Next, vars, session, manager, history, Send, Disconnect, Receive, RunTask,
       PublishPdu, SendTo, SendFailed
  <1>5. ASSUME NEW c \in Conns, Connect(c) \/ Reject(c)
        PROVE  /\ UNCHANGED <<handler, id, original, overlapped>>
               /\ \A d \in Conns : Running(d)' <=> Running(d)
    BY <1>5 DEF Connect, Reject, Running, history, Typed, TypeOK
  <1>6. QED
    BY <1>1, <1>2, <1>3, <1>4, <1>5 DEF Running

LEMMA InvariantHolds == Spec => []IInv
  <1>1. Init => IInv
    <2> SUFFICES ASSUME Init PROVE IInv
      OBVIOUS
    <2>1. Typed
      BY TypedInit
    <2>2. TablesAgree /\ OneWrapper
      BY DEF Init, TablesAgree, OneWrapper, Running
    <2>3. NoZombie
      BY DEF Init, NoZombie
    <2>4. QED
      BY <2>1, <2>2, <2>3 DEF IInv
  <1>2. IInv /\ [Next]_vars => IInv'
    BY TypedStep, TablesStep, ZombieStep, WrapperStep DEF IInv
  <1>3. QED
    BY <1>1, <1>2, PTL DEF Spec

\* Every variable of the server keeps its type: there is an id for every
\* connection, and a client_id is smaller than the number of names.
THEOREM TypeCorrect == Spec => []TypeOK
  BY InvariantHolds, PTL DEF IInv, Typed

\* _declared_read and _read_index are each other's inverse.
THEOREM TablesAreInverse == Spec => []TablesAgree
  BY InvariantHolds, PTL DEF IInv

\* What a connection declared or registered goes with it, whichever of the
\* failed send and the end of the receive loop comes first, unless a task it
\* left behind writes it afterwards.
THEOREM NoZombieSubscription == Spec => []NoZombie
  BY InvariantHolds, PTL DEF IInv

\* Unless sessions have overlapped, a session's packets reach the handler with
\* the id of the session.
THEOREM HandlerOfSession == Spec => []HandlerIsOwn
  <1>1. IInv => HandlerIsOwn
    BY DEF IInv, OneWrapper, HandlerIsOwn
  <1>2. QED
    BY <1>1, InvariantHolds, PTL
=============================================================================
