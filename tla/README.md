# A TLA+ model of hakoniwa-pdu-python

The modules in this directory model the parts of hakoniwa-pdu-python that run
concurrently: the remote procedure calls over WebSocket and shared memory, the
topics over WebSocket, the launcher that starts, watches and stops simulation
assets, and its background sessions. TLC checks them on small instances; TLAPS
proves their safety properties for every instance.
Paths below are relative to `src/hakoniwa_pdu/`.

## 1. The system

| Component | State it keeps | Operations | What is hard | What makes it correct |
|---|---|---|---|---|
| Shared SHM RPC runtime, `rpc/async_shared` | `_pending`, `_pending_by_client`, futures, `_poll_lock`, the background thread | `register_client`, `call_async`, `poll_once`, start/stop of polling | submitting and polling threads, timeout, cancel and late answer in any order | a future ends once, with its own answer; one request per client; the two tables agree |
| Remote RPC client, `rpc/protocol_client.py`, `rpc/remote/*client*` | identifiers, `request_buffer`, timeout, request ids | `register`, `call`, `cancel` | one manager for many clients; late replies; a lost connection | a call ends, with its own answer, and lets the next call begin |
| Remote RPC server, `rpc/protocol_server.py`, `rpc/remote/*server*` | registries, current request, declaration tables | registration, `serve`, `poll_request`, `put_response`, `publish_pdu`, `on_disconnect` | disconnects while a handler awaits; handlers that raise | a request runs once, is answered to its own client, and holds back nobody after it |
| Transport, `impl/websocket_*` | the session, the wrapped handlers | accept, receive loops, directed send | a send fails before the receive loop ends; handler tasks that outlive the loop | one session; its packets are handled under its id; what it registered ends with it |
| Communication buffer, `impl/communication_buffer.py` | one packet per key | put, peek, contains, pop | the last packet wins; keys outlive connections | a packet is taken once |
| Launcher, `apps/launcher/hako_launcher.py`, `hako_monitor.py`, `hako_asset_runner.py`, `hako_cli.py` | state, current monitor, its processes, cleanup flags | activate, start/stop/reset, terminate, watch, SIGINT | three kinds of threads clean up one monitor; processes that do not die | one cleanup at a time; TERMINATED only when all is down; one asset down, all down |
| Background session, `hako_launcher_control.py`, `hako_launcher_ctl.py` | session file and its lock, control socket | reserve, claim, spawn, wait, persist, dispatch, ctl | launches and workers as processes of their own, a lock that is not waited for, crashes in between | one launcher operates; a terminal file is over; every launch returns |
| SHM RPC managers, `rpc/shm`; legacy service, `service/` | the current request of the server | poll, get, put, cancel | refused puts | no request holds back the others |
| Topics, `rpc/remote/*server_manager.py`, `topic/` | the two declaration tables | declare, publish, on_disconnect | sends await while clients come and go | the tables agree; a topic goes to its declared readers |
| `PduManager`, `pdu_manager.py` | service state, buffers | start/stop, flush, read | restart of a dead connection | the state reported is the state |
| Pure parts: launch files, environment merge, PDU definitions, binary layout, `auto_wire` | none | - | boundaries | agreement of writer and reader, order of dependencies |
| Applications `apps/rpcserver`, `apps/mcp`, `apps/drone`; `tools/`; generated `pdu_msgs/` | none of protocol interest | - | - | - |

They interact as follows. A `ProtocolClient` builds a packet with its manager,
which sends it through the communication service; the receive loop at the other
end puts it into that side's `CommunicationBuffer`, from which the `serve()`
loop polls it through the server manager, and the reply takes the same way back.
`SharedRpcRuntime` does the same over shared memory through the native client
behind hakopy, which answers polls with events. The launcher's main thread, its
watch threads and the SIGINT handler share one `LauncherService` and its current
`HakoMonitor`; the RPC server calls the same service from a handler. With
`--background` a parent process claims the session file, spawns a worker that
runs the service behind a control server, and leaves when the worker answers;
`hako_launcher_ctl` finds the worker through the file.

`PROJECT.json` lists the hazards, each with its line and the properties that
are about it.

## 2. The modules

| Module | What it is |
|---|---|
| `SharedRpc` | the shared SHM RPC runtime |
| `SharedRpcProofs` | theorems about it: types, the polling lock, the two tables |
| `FuturesProofs` | theorems about its futures |
| `Topics` | the WebSocket server's sessions, declarations and `publish_pdu` |
| `TopicsProofs` | theorems about it: types, the two tables, handlers |
| `TopicSessionsProofs` | theorems about its sessions, also where they overlap |
| `RpcCalls` | what a remote call promises its caller (abstract) |
| `RemoteRpc` | the remote RPC between one client program and a server |
| `RemoteRpcProofs` | theorems about it |
| `RpcCallsProofs` | the proof that it implements `RpcCalls` |
| `Launcher` | the launcher service, its monitors and their threads |
| `LauncherProofs` | theorems about it |
| `LauncherSession` | background sessions: parents, workers, the session file, ctl |
| `LauncherSessionProofs` | theorems about it |
| `MC*` | instances for TLC; one `.cfg` per run |

Some small operators are preceded by a definition `Mut...` with the same
parameters, the operator as a plausible bug would have it: replacing the one by
the other violates the property named with it in `PROJECT.json`. They are used
nowhere else.

### SharedRpc

A request is `<<client, id>>`. `pending` and `guard` are the keys of the two
tables, `state` and `future` the entry's state and its future. A thread in
`call_async()` goes through `create -> send -> (fail -> raise)`, a thread in
`poll_once()` holds `pollLock` and goes through the points at which the code
releases `_pending_lock` or calls the manager: the pop in `resolve_future` and
the completion of the future are two steps, and so are the three parts of
`_handle_timeout_event`. The native client is external: `serving` are the
requests it owes an answer for, `cancelling` says whether a cancel is under way;
it may refuse a request or a cancel, answer, time out, or report the end of a
cancel. Submitting a request ends a cancel under way, as it takes the client's
one slot. Unbounded request ids are cut at `MaxId`. One thread is taken to
control the background poller; `join(timeout=1.0)` gives up only on a thread
that holds or waits for the lock. The module assumes `max_pending_requests` is
set. An unset one is a `MaxPending` that is never reached.

### RemoteRpc and RpcCalls

A slot is one `ProtocolClient` (a service and a client name). The variables are
those of the client program (`pc`, `counter`, `current`, `busy`, `timed`,
`replies`), the network (`toServer`, one queue per connection, and `toClient`),
the server's sessions (`session`, `loops`, `handler`, `original`), its
registrations (`tasks`, `failing`, `registry`), and its `serve()` loop
(`requests`, `serving`, `serverPc`, `job`, `jobConn`). Messages carry the number
of the connection their call was made on; no action of the code looks at it. One
asyncio task runs from one `await` to the next, so:

- `poll_request()` and `get_request()` are one step (`PollRequest`), and the
  handler and the send of the response are steps of their own, during which
  connections end, clients register and requests arrive;
- `request_buffer` is tested in `CallBegin` and set in `CallSent`, after the send;
- the receive loop only creates the task of a registration (`ReceiveRegister`),
  which runs later (`RunRegister`), in the order of creation, with the id that was
  wrapped around the handler when it was created; by then the receive loop may
  have ended (`Disconnect`), and another connection may have been accepted;
- a send that raises waits for the `close()` of its connection and removes the
  session only then (`PutResponseRaises` and `PutResponseFailed` for a response,
  `failing` and `RegisterFailed` for the reply to a registration), before or after
  the receive loop ends and removes it too; between the two the loop still
  receives, and another connection may be accepted and wrap the wrapped handler.

`late` records the connections from which a client was registered after they had
been removed. The code does nothing about such a registration: the name stays
registered, so that its client, back on a new connection, cannot register again;
its reply goes by `send_binary` to whoever is connected then, where a
registration, or a call with request id 0, takes it for its own. The properties
except what follows a late registration and nothing more: without the exception
TLC finds `RegisteredIsConnected` and `RegisteredIsKnown` violated.

A client program registers its clients one after another before its first call,
as `HakoMcpBaseServer` does. It may die and be started again under the same
names (`Restart`); it does not connect twice from one process, which
`PduManager.start_service` refuses while `service_enabled` is set. A malformed
packet, a failed send and a closed socket all end the connection (`Break`,
`Disconnect`). `cancel_request` and `put_cancel_response` raise
`NotImplementedError`; what is behind them is unreachable. `Overlap` says
whether calls of two slots may be in progress at once, which the blocking client
does not prevent.

`RpcCalls` says what the caller may rely on: one call at a time, a handler that
runs at most once per call, an answer only after it ran. `CallsAsPromised` is
the refinement, with `caller` and `ran`, both history variables of `RemoteRpc`,
as its variables. It is stated for one connection. Across a restart it is not
true: a request that the previous connection left in the buffer is served when
its client registers again, and as request ids start at 0 again, its answer is
taken for the answer to the new call. `AnswerIsOwnOrLeftover` says exactly which
foreign answers are possible: those to requests left in the buffer, and those that
a late registration brings about. Without either of these TLC finds a violation
(without `m.conn \in late` it takes two registrations on their way, one more than
in the run).

### Launcher

Each activation has a monitor, numbered by `gen`; a process is its monitor, its
asset and a count, as `start` may be typed again. `mainPc` is the place of the
main thread in `main()`, `activate()`, `start_assets()` and `cmd()`; `pc`, `via`
and `mon` are each thread's place in `terminate()` and `abort()`. The steps of
`abort()` are those between which `_cleanup_condition` is free or a pass over
the processes is made. SIGINT is delivered once, at any step of the main thread,
which then does nothing else. `Stubborn` assets may survive SIGTERM and SIGKILL;
a process is the process group that `is_alive()` looks at. The serve mode types
any command at any time and may be quit or see the end of its input. Between its
check and its spawn, and between spawn and settle, every other thread may run.
`late` records the processes spawned after their monitor was aborted, and
`overtaken` the activations that were reported TERMINATED when a thread came back
from the `terminate()` of an earlier one.

Not modelled: `--no-watch`, notifications, `depends_on` (assets of one timing
are started in any order, a superset of the sorted one).

### Topics

One `WebSocketServerCommunicationService` and its manager. `task`, `id` and
`original` are the locals of `_client_handler` per connection, `handler`,
`websocket`, `clients` and `seq` the attributes of the service, `declaredRead`,
`readIndex` and `registry` the manager's tables. The event handler is the
sequence of the ids wrapped around the manager's `handler(packet, client_id)`:
only with exactly one does the call have the two arguments it takes, so a task
created with any other number ends in a `TypeError` and is left out. `Receive`
creates the task of a declaration or registration (`ready`, in order), `RunTask`
runs it. Tasks run in the order of their creation, but messages already queued,
and with them a malformed one that ends the loop, are taken before; so is the
end of a connection that is already known when the loop asks, with an
implementation of `websockets` that does not suspend for it.

`PublishPdu` takes its snapshot, `SendTo` sends to one of it; a send that fails
waits for `close()` (`failing`) and then removes the session (`SendFailed`),
while the session's own `_client_handler` is still to end (`Finish`). In between
a connection may be admitted: `overlapped` records it. Such a connection wraps
the wrapped handler, so none of its packets is handled; when the older handler
ends it restores the bare one, and when the younger ends *after* it, it restores
the one with the dead id, which every later session wraps again: from then on
the server handles no declaration and no registration until it is restarted.
`HandlerIsOwn` therefore speaks of sessions that have not overlapped.

Not modelled: `DECLARE_PDU_FOR_WRITE` and `REQUEST_PDU_READ`, which call handlers
of the application (`pdu_for_read_handler` and its like have no initial value:
if none is registered the call raises `AttributeError`, for a declaration after
the tables are updated), data handlers, `reply_latest_to` (which takes the value
out of the buffer, so that it can be asked for once), `stop_service`.

### LauncherSession

Every launch uses the same session file; a launch stands for its session id, as
id, token and pid are new for each and compared together. `parentPc` is the place
in `_spawn_background` and `claim_session`, `workerPc` that in
`_run_background_worker` and its `LauncherControlServer`. The service is reduced
to its state (`svc`) and its watch thread (`watch`), both as in `Launcher`; the
watch thread of a launch none of whose assets exits (not in `Failing`) has nothing
to do and stays `off`.

The lock is not a variable. What is done under it is one step of its holder, but
for the removal and the new reservation of the file by a claim, which a crash
may separate (`reserve`). Who is at such a step may hold the lock already when
another one asks: `Busy`. A claim is then refused, a parent that wants to record
its worker's pid fails with an exception, and a worker, which waits one second,
may time out, so `PersistRaises` is possible whenever the lock is busy.

`send_control_command` reads the file again, so the answer to a probe, or to the
parent's last question, may come from another session than the one it looked at.
A port may be used again by the next worker. A command of a ctl is executed
whether the ctl still waits or not, and what it prints of the answer is left out
(`from = None`); a status whose parent has given up is dropped, as it changes
nothing the loop around it would not. The parent stops a worker that is late
with SIGINT and then SIGKILL (`Interrupt`, `StopBackgroundProcess`). Any process
may die by itself up to `MaxCrashes` times.

Not modelled: an unreadable session file (the claim is refused), the log file,
tokens that do not match, unknown commands, Windows' own branches.

### Where steps are joined

An action stands for what the code does up to the next point at which another
actor can come in between. In some places it stands for a little more, to keep
the instances checkable. Each of these leaves out interleavings, and for each the
reason is given why no property here depends on them.

| Definition | What is one step, or left out | Why nothing depends on it |
|---|---|---|
| `SharedRpc.BeginPoll` | the background thread's look at its stop event (`shared_rpc_runtime.py:307`) and the taking of `_poll_lock` (`:210`) | a thread that is told to stop in between polls once more, as one told so just after it took the lock does |
| `Launcher.Terminate` | the writing of TERMINATING, `stop.set()` and the reading of `self.monitor` (`hako_launcher.py:105-108`) | see below |
| `Launcher.WatchFinds` | the looks of a watch thread at `stop` (`:123`), at the list (`:124`) and at its processes, and its call of `terminate()` (`:127`) | see below |
| `Launcher.Activate` | the two looks of `activate()` at the state, the new monitor and the writing of ACTIVATING (`:51-59`) | see below |
| `Launcher.Spawn` | the spawn and the append to `procs` (`hako_monitor.py:73-80`) | see below |
| `Launcher.CmdDone` | `hako-cmd stop` and `reset` do not raise | they are typed in serve mode only, where the exception is printed and the state stays as it was before the command |
| `LauncherSession.Activate` | the start of the watch thread (`hako_launcher.py:67`) and the writing of ACTIVATED (`:68`) | ACTIVATED over the watch thread's TERMINATED keeps the worker serving with no assets, a state the properties allow |
| `LauncherSession.WatchEnds` | the second `terminate()` after a first that raised (`:130-133`) | its end is that of the first or TERMINATED, and either is over |
| `LauncherSession.IsProcessAlive` | a zombie of the parent's own child, which `os.kill(pid, 0)` takes for alive | dead is the more permissive answer: it lets a claim go on that the code would refuse |
| `LauncherSession.Persisted` | the state and the payload are read before the lock is waited for, up to one second earlier | a file that lags behind the state is what the model has between two rounds of `serve_until_terminated`, the next of which writes it again |
| `Topics.RegisterClient` | the send of its reply and what follows if it fails | `SendFailed` removes the session in the same way; `RemoteRpc` has the reply |

The four of `Launcher` belong together: with them apart, a watch thread that has
seen a dead process of one activation may come to `terminate()` when the next is
up, and then ends a healthy one; and `activate()` may find at its second look that
the state is TERMINATING again, and go on with the old, aborted monitor, to be
ACTIVATED with nothing started. Neither is against a property: what is terminated
is the current monitor, all of it, and an aborted monitor starts nothing. A
variant of the module with all of these steps apart has been checked besides: two
activations completely (426,614 states) and the instance of `launcher_ends`
completely (120,687 states), and the instance of `launcher` as far as a run's time
goes (13 million states), without a violation; `RemainingTerminated` is violated
there in the same way.

## 3. What TLC checks

| Run | Instance | What it shows |
|---|---|---|
| `sharedrpc` | 1 client, 2 callers, 2 pollers, 2 ids, both modes; 32,149 states | the tables agree (`GuardIsPending`), one request per client while no cancel is refused, a request whose future says timeout is no longer served, no future is dropped, results are own, one poller, and every future ends |
| `sharedrpc_inflight` | 1 client, 3 ids | **violated**: with a refused cancel, two requests of a client in flight |
| `remoterpc` | 1 slot, 3 connections, 2 calls each, 1 registration on its way; 1,211,033 states | answers, handlers, refusals and registrations across two restarts, with handler tasks and failed sends that outlive their connection |
| `remoterpc_calls` | 2 slots, 1 connection, 2 calls each; 55,908 states | refinement of `RpcCalls`; every call ends |
| `remoterpc_overlap` | 2 slots, 1 call each, at once | **violated**: a call takes the other slot's reply |
| `launcher` | 1 asset before start (stubborn), 3 activations, all modes; 357,328 states | cleanups exclude each other, `TERMINATED` is true, activations do not overlap |
| `launcher_ends` | 1 asset before start, 1 after (stubborn), 1 activation, 2 starts, all modes; 58,293 states | cleanups end, one asset down brings all down, `TERMINATED` is true with both kinds of assets |
| `launcher_remaining` | 1 before, 1 after, nothing stubborn | **violated**: an asset spawned behind the abort's back remains |
| `session` | 2 launches, 1 control command (start or terminate), one of the launches with an asset that may exit, `activate-only`, 2 ports, symmetric; 794,475 states | `OneLauncherOperates`, `TerminalIsOver`, and a launch that reports success had its worker write the session |
| `session_ends` | 2 immediate launches, one crash of any process; 40,697 states | `OneLauncherOperates` and `TerminalIsOver` with a crash, and: every launch returns, a worker whose session was taken ends, a worker whose file does not name its port does not stay so |
| `session_live` | 2 immediate launches, no crash | **violated**: a live session is replaced |
| `topics` | 3 connections, 2 topics, 2 client names, 1 message ahead, 1 task pending, all symmetric; 325,647 states | the tables agree and forget what has ended; a topic goes to declared readers; handlers carry the right id; no two clients share channels |

Why the bounds are enough. The hazards of `SharedRpc` are between one request
and the next of the same client: two ids and two callers show a retry racing a
late answer, the third id is needed to observe the consequence of a freed guard.
Clients share only `poll_once()`'s scan and the size of the table. In
`RemoteRpc` a stale packet needs two connections, a mismatched id two calls; what
a late registration or a half-removed session does to the next connection shows
when there is a third. A second slot matters for the buffers, so the runs of one
connection have two; two slots on two connections (2 calls each, 1 registration
on its way) are 8.0 million states, too many for a run, and have been checked
once, without a violation. In `Launcher` one asset of each timing separates what is started
before and after the watch; an old watch thread next to a new monitor takes two
activations, and what it does to `activate()`'s condition shows with the third;
two starts show a repeated `start`. In `LauncherSession`
everything that two launches can do to one file takes two launches; three, with
a crash and a control command, have been tried by simulation. The control command and
the failing asset are in one run, the crash and the liveness in the other, as
all of them together are too many states. In `Topics` an overlap needs two
connections and its consequence a third; a message ahead and a pending task are
enough for the loop to overtake a task (two pending tasks have been tried, with
the same result). Larger instances (four connections and three names in `Topics`,
two clients and four ids in `SharedRpc`) have been simulated without a violation.
The safety properties of the passing runs are proved for all bounds besides
(section 4).

`CHECK_DEADLOCK FALSE`: every model stops when its bounds are used up, the
launcher also when it has exited or, rightly reported as `SelfBlocked`, when its
SIGINT handler waits for the thread it interrupted; `Topics` when every
connection has come and gone, `LauncherSession` when every launch is over.

### Fairness

- `SharedRpc`: a thread inside `call_async()` or `poll_once()` goes on (threads
  are scheduled); a thread that wants `_poll_lock` gets it in the end (strong
  fairness, as it is free again and again); the native client ends a request by
  a response, a timeout or the end of a cancel. `EveryFutureCompletes` is about
  manual mode, as a background thread may be stopped, and excepts clients whose
  cancel was refused or whose response could not be decoded, for which the code
  gives no guarantee.
- `RemoteRpc`: event loops run ready tasks, an open connection delivers,
  handlers return or raise, timeouts pass. A call without a timeout on a broken
  connection, or behind a handler that raised, does wait forever, and so does one
  whose client the server no longer has registered from its connection;
  `EveryCallEnds` says so.
- `Launcher`: threads are scheduled, hako-cmd ends. Nobody has to type a
  command. A watch thread waiting for a cleanup is strongly fair in leaving the
  wait: a user does not type `terminate` so fast, forever, that it never does.
- `LauncherSession`: parents and workers go on, a control request times out, and
  the deadline of the wait for a worker passes however often the parent polls
  (strong fairness, since it is looked at between the polls only). Nothing has
  to crash, fail, be typed, or be interrupted.

### Disagreements found

1. `_pending_by_client` is popped without regard to the request
   (`sharedrpc_inflight`), against `docs/rpc/async_shared_runtime.md:255`.
2. Calls that overlap on one manager read each other's buffer
   (`remoterpc_overlap`), against the comment at `rpc/protocol_client.py:58`.
3. An asset can be spawned after its monitor's cleanup (`launcher_remaining`),
   against `README.md:295-296` of the repository.
4. A launch takes over the session of a worker that has its assets running
   (`session_live`), against `docs/launcher-background-lifecycle.md:54`: the other
   launch's parent did not wait for the lock, failed without recording its
   worker's pid, and the pid in the file was its own.

Seen on the way, and no run of their own: a watch thread that comes back from
`terminate()` after the next activation is up writes TERMINATED (or FAILED) over
its state (`hako_launcher.py:114`), and a further `activate` then replaces a
monitor whose assets run, so that nobody watches or terminates them any more:
`OneActivation` without its last alternative is violated with three activations;
a launch file without before-start
assets is not watched, as the watch thread ends at once (with `Before` empty
`RemainingTerminated` is violated without any race); a worker whose service is
FAILED serves forever, while no ctl command reaches it and the next launch takes
its file; `NoZombie` without its exception for late tasks is violated, and then a
client name may stay registered for a connection that is gone, so that it cannot
be registered again (`RegisteredIsConnected` and `RegisteredIsKnown` likewise);
and the overlap of sessions described under `Topics`.

## 4. What is proved

Every safety property of the passing runs is a theorem as well, for every value
of the constants that the module's named assumption allows (finite sets where
the code counts or exhausts them, sentinels outside the sets they stand beside,
bounds that are natural numbers). Two theorems have a hypothesis of their own,
said below. Each proof states an inductive invariant, which TLC has checked as
an invariant of an instance first, and has a step per action, or sorts the
actions by what they change and has a step per sort. The temporal theorems
combine these with `PTL`.

| Module | Theorems |
|---|---|
| `SharedRpcProofs` | `TypeCorrect`, `OnePoller`, `GuardNamesPending`, `OneRequestInFlight` |
| `FuturesProofs` | `FuturesAreNotDropped`, `ResultsAreOwn`, `TimeoutsAreSettled` |
| `RemoteRpcProofs` | `TypeCorrect`, `ServePollsFreely`, `NoStaleRegistration`, `ClientKnowsItsRegistration`, `RefusalHasCause`, `HandledOnce`, `AnswersOwnCall` |
| `RpcCallsProofs` | `RemoteRpcImplementsCalls` |
| `TopicsProofs` | `TypeCorrect`, `TablesAreInverse`, `NoZombieSubscription`, `HandlerOfSession` |
| `TopicSessionsProofs` | `TopicsGoToDeclarers`, `DeclarationsStay`, `ChannelsAreUnique` |
| `LauncherProofs` | `TypeCorrect`, `CleanupsExclude`, `ActivationsExclude`, `ReportedClean` |
| `LauncherSessionProofs` | `TypeCorrect`, `SuccessIsEarned`, `TerminalSessionsAreOver`, `OneOperates`, `OnlyOrphansAreReplaced` |

### SharedRpc

The inductive invariant is

    IInv == TypeOK /\ LocalsSet /\ PollMutex /\ GuardIsPending /\ Ownership

`LocalsSet` says that a thread has in hand what its program point works on: a
caller that is not idle holds a request, and a poller past its scan holds a
client and, where it needs one, a request id. `Ownership` is what
`OneInFlightUnlessRefused` lacks to be inductive. It is stated for the clients
none of whose cancels was refused, and says of such a client that

- every pending request and every request the native client still serves is the
  one the guard names;
- a caller about to send, or to fail, owns that guard alone: nothing is served,
  no other caller is at that point, and no poller is handling the client;
- a poller that handles an event of the client does so with a guard set, with
  the guarded request in hand, and with nothing left to serve once the event or
  the cancel has ended the native request.

So a late answer pops the guarded request or none.

`FuturesProofs` starts from this invariant, and needs three more:

    FuturesInv == IInv /\ Fresh /\ CompletedOnce /\ NoFutureDropped /\ Endings

`Fresh`: an id that was not taken yet occurs nowhere, so that no event and no
local of a thread is about a request still to come. `CompletedOnce`: the thread
that popped a request is the only one that will complete it; with it an
incomplete future is pending or in that thread's hands. `Endings`: a request is
settled (the native client does not serve it and will not be given it) from the
moment the thread that will complete its future knows its end. `Settled` is
stable because ids are fresh, and it gives both `ResultIsOwn` and, outside
refused cancels, where `Ownership` is needed again, `TimedOutIsSettled`.

### RemoteRpc and RpcCalls

Each theorem has the invariant it needs. `PollsFreely`, `RefusesOnlyWhenBusy` and
`RegisteredIsConnected` are inductive on top of the types (`Typed`), which say
besides that a slot in `call()` has taken an id and a handler that runs has a
request. The last is so because whoever removes a session forgets its
registrations in the same step, and a task that registers from a connection
which is not the session's makes that connection `late`. `RunsOnce` is an action
property: `Once` says that a request on its way to a handler is in one place, the
network or the buffer, only once, and was not handled.

The rest needs to know who was admitted. `Admissions` says that the accepted
session, the ids wrapped around the handler, and the connections that tasks, the
registry and the job in hand name are connections the server has accepted, none
of them the one the client program is still connecting on; that the session is
the present connection while that is up; and that a failed send was on a
connection that is over (`SessionAdmitted`, `HandlersAdmitted`,
`RegistrationsAdmitted`, `FailedIsOver`).

`RegisteredIsKnown` follows from `Registrations`: a client that is connecting has
been sent nothing (`NothingYet`); the client of a request that `serve()` took from
the present connection is registered from it while it is up (`JobRegistered`);
and while nothing but the present connection was registered late, each slot is
sent one reply to its registrations, before any other message and only when it is
registered, and has consumed it when it takes itself for registered (`Timely`).

`AnswersOwnCall` needs three invariants: every message on its way to the client
or taken by it was made on the present connection, or answers a request left in
the server's buffer, or comes from a late registration (`Provenance`, which
follows it through network, buffer, handler and registration task); while a slot
waits, the manager's current names are its own and no other slot is in a call
(`OneAtATime`); and the last call of a slot, if answered, was answered by the
message the slot took last, one with its slot and its id, and with no late
registration no reply to one (`AnswerTaken`). It assumes `~Overlap`, the program
that makes one call at a time: the manager has one place for the names of the call
in progress, so with two of them a reply is read by whoever waits, as the run
`remoterpc_overlap` shows.

`RemoteRpcImplementsCalls` maps each step to a step of `RpcCalls` or a stutter.
The step that needs an invariant is the return of a call with an answer, which
`RpcCalls` allows only after its handler ran: on a first connection the only
other message a slot can be sent is the reply to its registration, and that one
is consumed, or will not come, when the slot is registered (`Registrations` again:
with one connection no registration is late while its link is up). Hence the hypotheses
`MaxConn = 1` and `~Overlap`. On a second connection the theorem is false, for
the reason given in section 2, and `AnswersOwnCall` says what is left of it.

### Topics

The invariant of `TopicsProofs` is

    IInv == Typed /\ TablesAgree /\ NoZombie /\ OneWrapper

`Typed` adds to the types what makes them inductive: `seq` counts the connections
that were admitted, hence the next id is again one of `Ids`, and a connection has
an id just while its handler runs. `TablesAgree` and `NoZombie` are inductive on
that ground, the second because whoever ends a session removes its entries in
the same step. `OneWrapper` says what the handler is while no two sessions have
overlapped: the bare one if none runs, and otherwise the bare one wrapped once,
by a session that will restore the bare one.

`TopicSessionsProofs` is about sessions that do overlap:

    SessionsInv == /\ NewIdsUnknown /\ Wrapping /\ TasksOfSession
                   /\ OnlyDeclarersReceive /\ DeclaredFirst /\ DeclaredStays
                   /\ FirstChannels /\ ChannelsUnique

`Wrapping` says what an overlap comes to: at most one session that runs found the
bare handler, every other found one with an id around it already. The packets of
such a session raise a `TypeError`, so its id gets into no table, task or send
(`Muted`), and what the tables hold is the one session's.

### Launcher

For any assets, any of which may be stubborn, and any number of activations and
starts the invariant is

    IInv == /\ Typed /\ Flagged /\ OneCleanup
            /\ Aborts /\ AliveIsListed /\ TerminatedIsClean /\ OneActivation

`Typed` adds to the types that nothing happens before the first activation, and
that what `start_assets()` has still to spawn was started less than `MaxRuns`
times in this activation, so that every process is one of `Procs`. `Flagged`
(who cleans up has set `_cleanup_in_progress` of its monitor) makes `OneCleanup`
inductive. `Aborts` says that a thread past the flag has an aborted monitor, not
a later one than the current, and before it comes back as clean one without
processes but the `late` ones; as the monitor is aborted, whatever is spawned
for it from then on is late. `TerminatedIsClean` carries that over to the state
which `activate()` reads, for activations that are not `overtaken`. Each step is
an activation, a spawn, the end of an asset, a step of `abort()`, or one
`Elsewhere`, which only calls or leaves `terminate()` and `abort()`
(`StepKinds`); there is a lemma of preservation for each kind.

### LauncherSession

For any number of launches, ctls, ports and crashes the invariant adds to the
types

    SessionInv == /\ Beginnings /\ PidOfSession /\ Reserving /\ Spawning
                  /\ WorkerOfParent /\ Finished /\ Lost

A worker is harmless when its service is TERMINATING or over and no step of its
own starts it again. `Finished` (the worker of a terminal session is harmless)
gives `TerminalIsOver`. `Lost` (a worker alive without the file is harmless,
unless the file named its parent when it was taken) gives `OneLauncherOperates`,
as the file has one owner. A claim that takes a file has found it terminal, where
`Finished` gives `Lost`, or its process gone, where `PidOfSession` says that this
is the worker, or that the exception applies. `Spawning` (a parent about to spawn
has the file, and it names the parent, who is alive) is why no worker starts
without it, `Reserving` why no reservation overwrites another: the lock is free
for nobody else between unlink and link. `SuccessMeansStarted` follows from
`Beginnings` alone. `OnlyOrphansAreReplaced` says of the disagreement that
`session_live` shows that it is the only one: a live session is taken only from
a launch whose parent has come back or died before it recorded its worker.

### Only model-checked

Liveness (`EveryFutureCompletes`, `EveryCallEnds`, `CleanupEnds`,
`OneDownAllDown`, `LaunchReturns`, `ReplacedEnds`, `UnreachableEnds`) stays with
TLC, as the prover handles neither fairness nor `ENABLED`. So do the four
violations, each of which is one behaviour that TLC finds.

## 5. What is not modelled, and the plan

In the order of what matters most:

1. `ShmRpcServer`: the SHM server manager and the legacy client's cancel.
2. Pure algorithms: `toposort_assets` against its definition, environment
   operations, merging of PDU definitions, heap layout of variable arrays.
3. `PduManager` and the topic side of the communication buffer; the start of the
   services (`start_rpc_service` and its retry).
4. Proofs: what a call may rely on across a restart, as an abstract
   specification of its own with `RpcCalls` as its one-connection case; the
   safety halves of the liveness properties (what a thread that waits waits for).

Left out for good: generated `pdu_msgs`, imports by name in `auto_wire`, the
drone simulator's API, command line tools, logging, wording, log files and the
Windows branches of process control.

The map covers a small share of the repository's lines. Nine tenths of them are
generated packers and types under `pdu_msgs`, one file per message, which have no
behaviour to model; of what is left, the modules cover the parts that keep state
shared by several tasks, threads or processes.
