# Ambud: a TLA+ verification project

Ambud is a small container platform: an operator deploys *workloads* through a
control plane (`ambud-controlplane`, PostgreSQL behind an HTTP API), and an agent
on every node (`ambud-agent`) pulls the workloads assigned to its node with each
heartbeat and makes containerd run them. This directory models the parts of it
that decide, fail and race: the SQL transactions, the agent's registration, its
reconcile loop, the containerd driver, the path of a workload from the command line
to a running container and back, and the timing behind a node's online/offline
status up to the dashboard. It holds the modules, the TLC
configurations that check them on small instances, and TLAPS proofs of the most
important results for every instance.

    tlc -workers 2 -config Registration.cfg MCRegistration   # any run: see PROJECT.json
    tlapm RegistrationProofs.tla                             # any proof module

## Inventory

| Part (source) | State | Operations | What is hard | What makes it correct |
|---|---|---|---|---|
| Store, registration (`internal/controlplane/store/nodes.go`, `jointokens.go`) | `join_tokens`, `nodes` | CreateJoinToken, RegisterNode, AuthenticateNode | concurrent transactions, connection loss | token and node appear together, once, under one name |
| Store, workloads (`store/workloads.go`, migrations) | `workloads`, `workload_ports` | CreateWorkload, UpdateWorkloadStatus, ListWorkloads, ListWorkloadsForNode | unique-index waits and deadlocks, reads by two queries | names and host ports exclusive, the list read is complete |
| API handlers (`internal/controlplane/api`) | none of their own | createJoinToken, registerNode, createWorkload, heartbeat, listNodes, listWorkloads | several statements per request, no transaction around them | replies are true; reports are recorded in order and by the right node |
| Agent registration (`internal/agent/reconciler.go`, `credentials.go`, `controlplane.go`) | credential file | ensureRegistered, Load/SaveCredential | lost replies, torn file, crash between commit and save | an agent has its own identity or none |
| Agent reconciler (`reconciler.go`) | none kept between ticks | heartbeatOnce, reconcile | acts on a list taken earlier; outages; crashes; one failing workload among several; rounds longer than the interval | desired workloads run, as deployed; running ones are left alone; heartbeats keep coming |
| Agent local API (`containers.go`, `server.go`) | none | create, stop, restart, get, list, pull | concurrent with the reconciler and each other | same |
| containerd driver (`internal/runtime/containerd.go`, `network.go`) | network namespace, CNI state, container record, task | Run, Stop, List, Pull | seven external calls per operation, any may fail; no locking by name | operations look atomic; nothing is orphaned; a running container is reachable |
| Runtime interface, Fake (`runtime.go`, `fake.go`) | map of containers | Run, Stop, List | - | the contract of the driver |
| Node status (`api/nodes.go` nodeState) | last heartbeat time | computed at each request | two clocks, boundary, rows read before the clock, abandoned heartbeats recorded late | a healthy node is not called offline, a dead one is in the end |
| Resource collector (`resources.go`) | latest sample | sample, Latest | the first heartbeat may precede the first sample | real values reach the node's row |
| `ambudctl`, API clients, web UI | none / React state | single requests, parsing of ports, polling | a port is converted five times on its way; overlapping polls | the ports asked for are the ports forwarded; the truth is shown in the end |

The agent calls the control plane (register, heartbeat) and never the reverse. In
the agent, one goroutine reconciles and one goroutine per HTTP request runs a
handler; both call the `Runtime`, which does not serialise them. On the control
plane one goroutine per request executes SQL statements; PostgreSQL is the only
synchronisation.

## Modules

| Module | Models | Kind |
|---|---|---|
| `JoinRegistry` | what the store promises: RegisterNode as one step | abstract specification |
| `Registration` | RegisterNode statement by statement; ensureRegistered; the credential file | detailed, implements `JoinRegistry` |
| `RuntimeApi` | the Runtime interface as `Fake` implements it | abstract specification |
| `ContainerRuntime` | Containerd.Run, Stop, List call by call, for one container name | detailed, implements `RuntimeApi` for callers that take turns |
| `Agent` | reconciler and local API on top of `ContainerRuntime` (EXTENDS) | composition |
| `WorkloadStore` | what the store promises about workloads: creating, recording and reading as one step each | abstract specification |
| `PortSpec` | the conversions of a port between the command line and CNI | operators |
| `Workloads` | createWorkload, heartbeat and listWorkloads handlers, statement by statement | detailed, implements `WorkloadStore` |
| `Cluster` | several nodes and workloads from `ambudctl deploy` to running containers and back, beside the local API | composition of `WorkloadStore` (INSTANCE), `PortSpec`, the reconciler and the runtime's interface |
| `NodeStatus` | the heartbeat loop in time, resource samples, nodeState | component |
| `Dashboard` | listNodes and usePolling on top of `NodeStatus` (EXTENDS) | composition |
| `MCRegistration`, `MCRuntime`, `MCAgent`, `MCWorkloads`, `MCCluster`, `MCDashboard` | instances for TLC | |
| `RegistrationProofs`, `ContainerRuntimeProofs`, `RuntimeApiProofs`, `AgentProofs`, `WorkloadsProofs`, `ClusterProofs`, `DashboardProofs` | TLAPS proofs | |

An action whose name starts a comment with "Mutant of" is not part of a
specification: it is a plausible mistake in the code, kept to show that a property
would notice it. PROJECT.json says which.

### Registration

A *start* is one run of an agent process. Run calls ensureRegistered once, so a start
makes at most one Register call, and the id and credential that RegisterNode draws
for it (`uuid.New`, `newCredential`) are identified with the start. `txPc` walks
through BEGIN .. SELECT FOR UPDATE, INSERT, UPDATE, COMMIT; `lock` is the row lock of
the token, `nodes` holds committed and uncommitted rows, and `Rollback` is the
deferred `tx.Rollback`. READ COMMITTED PostgreSQL is modelled from its use: FOR
UPDATE waits for the lock and reads the latest committed row, an INSERT into a
unique index waits for another transaction's uncommitted row with the key and fails
on a committed one. The agent side has a load of the credential file (absent, torn
or whole), the call, and the save in its two steps (truncate, write), with
`LoseReply`, `SaveFails` and `Exit` at every point. A lost reply covers the 30 s
client timeout and a COMMIT whose outcome was not reported. The request validation
of registerNode (empty token or name) precedes every state change and is left out;
an agent without a token stops at the client. Loading fails on a torn file, without a
token, and on a read error (`LoadFails`); such a start ends in `failed`, since
main only logs the error.

### ContainerRuntime and RuntimeApi

Everything Run creates is keyed by the container's name, so one name is modelled;
other containers appear at most as failing steps.
The state is what survives the agent: the named namespace, CNI's state for the id
(`stale` once its namespace is gone), containerd's record and its task. Each call of
the code to containerd, CNI or `ip netns` is one action; a step succeeds only when
its context is live and its precondition holds, and fails otherwise or on a fault.
Error paths run the code's undo steps, which ignore their errors. `Faults` selects
what may fail: steps, clean-ups, undo steps, contexts, the process. MkdirAll of the log
directory shares NewTask's action because its error path is the same; so do Wait,
SIGTERM, the grace period and SIGKILL, which are `KillTask`. Images and port labels
are carried through unchanged and left out.

containerd, CNI and iproute2 are not in the repository and are modelled from their use.
Two of their properties matter. CNI's id "must be unique per call"
(`network.go:138-141`) and the repository's conflist allocates addresses with host-local,
which keeps one per id: `SetupNetwork` fails over state that is still kept for the name,
attached or stale. And container.Delete of the containerd client is two calls, one that
looks for a task and one that removes the record (`UndoCheck` and `UndoContainer`,
`DeleteCheck` and `DeleteContainer`), so another caller can come in between.

`RuntimeApi` has Run, Stop and List as single steps. Its parameters are the errors that
Run has for a name that exists (`Existing`) and whether operations can fail for a reason
outside the caller's control (`Failing`). `ImplementsRuntime` instantiates it with what
the driver does: an existing name is refused as `AlreadyExists` or with the error of
`ip netns add` (`NetNSExists`), and an operation answers `Error` only if `Faults` is not
empty. The first of these is weaker than what `runtime.go` promises and `Fake` does, see
*Observations without a run*.

### Agent

`job` says what a caller is doing with its current Runtime call, so heartbeatOnce,
reconcile and the handlers are sequences of actions between calls while the calls
themselves interleave step by step. `snapshot` is the result of List that
heartbeatOnce keeps while it awaits the heartbeat's answer. SIGTERM cancels the
reconciler's context and ends the process: nothing takes effect after the
cancellation, which is a crash at that point (`AgentRestarts`). One workload name is
modelled; reconcile treats the names one after the other and shares nothing between
them except the snapshot. `Cluster` has several names over whole runtime operations.
`Orphaned` says that a namespace, CNI state or a task is left without a record and no
operation in progress will remove it: the states that `agent_orphan` and overlapping
calls end in. With them excluded `ConvergesUnlessOrphaned` holds under the faults of
`Agent.cfg` (crashes, cancelled requests, failing undo steps, an outage), which shows that
what no Stop can find is the only lasting obstacle. A container counts as running for
`Up` only if it also has its record.

### Workloads and WorkloadStore

A request is identified with the row it inserts. `wname` and `ports` hold rows,
committed or not; `Blockers` is whom an INSERT waits for; a cycle of waits is broken
by failing any one of its members, as PostgreSQL does. Workloads are read by two
queries (`ListWorkloadsForNode`, `AttachPorts`), and the heartbeat handler's
statements are separate actions because no transaction surrounds them. `Beats` are
numbered in the order they are sent; an agent sends one at a time but may give up
on one (`GiveUp`) that the server is still executing. Authentication is the
identity of the sender, justified by `OwnIdentity` of `Registration`. `due` is a
ghost: the workloads acknowledged when the heartbeat was sent. `alone` is another:
the node's earlier heartbeats had all been served when this one was sent;
`StatusIsLatest` needs it (see *Observations without a run*). listWorkloads is three
queries: workloads, ports, nodes (`ListWorkloads`, `ListPorts`, `ListNodes`), with
`ldue` for what had been acknowledged before.

`WorkloadStore` is the same store for those who rely on it: a table of rows, in which
a workload appears in one step under a free name with all its ports free on its node,
a report is recorded, and a node's desired state is read at one moment. The mapping
counts a row as present from its COMMIT on, and an answer as given when the rows are
read: the second query finds every port because ports are committed with their row
and never change. `ImplementsStore` is checked in both runs. The statuses of one
report are recorded one by one; each is a step of `UpdateWorkloadStatus` with a
report of one name.

### PortSpec and Cluster

`PortSpec` has a port as a record of host port, container port and protocol. What an
operator types is such a record too, whose numbers may be out of range or not numbers
(`NotANumber`) and whose protocol may be missing or in capitals; splitting the text at
`:` and `/` is left out. `ParsePortSpec` and `Accepts` are ambudctl's, `Decodes` is the
JSON decoding into uint16 that any other client meets, `Normalise` the default that the
store applies and `Setup` the one that network.setup applies.

In `Cluster` a request to deploy stands for its own image, so a container tells whose
it is. `box` is what the runtime of a node has under a name. The reconciler is
heartbeatOnce and reconcile for every desired workload: `seen` is its List, `todo` the
rest of its loop, `clearing` the workload between its Stop and its Run; any order of
the workloads is allowed. `RecordReport` and `Answer` are the heartbeat handler's
steps by `WorkloadStore`; `HeartbeatFails` may leave part of a report recorded.
restartContainer is three steps; createContainer and stopContainer are one call of the
runtime each. A Run or a Stop happens as a whole or not at all, under `Crash` too: the
driver does so only for calls that do not overlap and are not interrupted
(`ImplementsRuntime`), and what the others may leave is the subject of `ContainerRuntime`
and `Agent`, so the orphan of `agent_orphan` cannot occur here. Containers of the local
API take their ports from `LocalPorts`, which no table guards: in the run they want the
host port that two deployments want as well. CNI's portmap is taken not to refuse a host
port that another container forwards, so such a Run succeeds; `HostPortsDisjoint` is
about deployed workloads. Images of `Bad` can never be
pulled. `touched` is a ghost for the one race the code leaves open, and
`ReconcilerSparesRunning` says that there is no other.

### NodeStatus and Dashboard

Time is discrete and relative: `tick` counts down to the ticker's next tick, `age` up
from last_heartbeat_at. The ticker's channel holds one tick (`due`), and further ones
are dropped, as `time.Ticker` does. A round is List, heartbeat, reconcile; each may
take any time, `spent` measures it. The ghost `missed` counts the heartbeats lost in a
row and saturates (`Excused`) after too many, after a round longer than `MaxRound`, and
before the first. `Steady` is what a healthy node is. Between two heartbeats that are
recorded there can be MaxLost lost ones; each round starts at most
max(Interval, MaxRound) after the one before, and within a round the time of recording
may vary by MaxRound. With the query's time and the clocks' difference this gives
`TimingAssumption`, under which `OfflineIsDeserved` holds; the run uses the smallest
timeout it allows. An abandoned heartbeat (`stray`) is recorded at any later time. The
resource sample is zeros or real values.

`Dashboard` adds usePolling in NodeList: polls start at any time while others are
outstanding, are answered in any order or fail, and setState applies them as they
come. Two clients and pages do not interact, so one page and one node are modelled.

## Runs

Passing runs:

| Run | Instance | Shows |
|---|---|---|
| `registration` | 3 agents (2 with one name), 2 tokens, 2 starts, all faults; 58 thousand states | `TypeOK`, `TokenNodeAtomic`, `UniqueNodeNames`, `TokenSingleUse`, `OwnIdentity`; that the transactions implement `JoinRegistry` (`RegistersAtomically`); that no registration hangs (`StartSettles`) |
| `runtime_api` | 2 callers taking turns, steps and clean-ups fail; 1.5 thousand states | `ImplementsRuntime`, `NoOrphans` |
| `runtime_runs` | 3 concurrent callers of Run and List; steps, undo steps, contexts and the process fail; 44 thousand states | `TypeOK`, `RunningReachable`, `NoHiddenProcess`, `RunLeavesRunningAlone` |
| `agent` | reconciler and a handler, 1 request, 1 crash, 1 outage, cancelled requests, failing undo steps; 628 thousand states | `AgentTypeOK`, `ConvergesUnlessOrphaned`, `StatusCatchesUp` |
| `workloads_deploy` | 2 requests, 2 names, 2 host ports in 5 port lists, a reader, faults; 193 thousand states | `UniqueWorkloadNames`, `PortsExclusive`, `ReplyIsTrue`, `ListingComplete`, `ImplementsStore`; that every request is answered, also through deadlocks (`CreateSettles`) |
| `workloads_desired` | 1 request, 2 nodes, 2 heartbeats, 2 statuses, faults; 359 thousand states | `TypeOK`, `DesiredComplete`, `StatusFromOwnNode`, `StatusIsLatest`, `ImplementsStore` |
| `cluster` | 2 nodes, 5 deployments competing for 2 names and a host port, 1 request to a local API, 2 faults; 180 thousand states | `ClusterTypeOK`, `RunsAsDeployed`, `HostPortsDisjoint`, `ReconcilerSparesRunning`, `DeployedRuns`, `StatusTrue` |
| `dashboard` | interval 2, rounds to 3, 1 lost heartbeat, timeout 11, 2 polls at a time; 955 thousand states | `DashboardTypeOK`, `OfflineIsDeserved`, `ResourcesCatchUp`, `DeadShownOffline`, `SteadyShownOnline` |

Violations: each states what the repository says of the code and finds that the code
does otherwise. The quotations are in PROJECT.json.

| Run | Property | What happens |
|---|---|---|
| `registration_rejoin` | `FreshTokenRegisters` | after deleting the credential file a fresh token does not help: the node's own old row holds its name |
| `runtime_latestop` | `RunningReachable` | a Stop in its clean-up removes the network of the container a concurrent Run is starting |
| `agent_orphan` | `Converges` | after a crash between createNetNS and NewContainer, Run fails on every tick for ever |
| `agent_outage` | `KeepsReconciling` | no heartbeat, no reconcile: an exited workload stays down for the outage |

### Observations without a run

Met while modelling; the models contain the behaviour, and no run is about it:

- A missing credential file is documented as "never registered" (`credentials.go`,
  LoadCredential). A reply lost after COMMIT, or a crash before the save, leaves a
  registered node without one; its token and name stay taken.
- Run of a name that exists does not return "an error wrapping ErrAlreadyExists"
  (`runtime.go:65-67`; `fake_test.go:60` tests it of `Fake` only). It fails at
  `ip netns add`, because the namespace is created before the record, and the local API
  answers 500 instead of 409. `NetNSExists` stands for this error; with
  `Existing <- {"AlreadyExists"}` TLC refutes `ImplementsRuntime` for a single caller
  without faults.
- When a Stop and two Runs of one name overlap, a process can become invisible without
  any fault: a Run whose CNI set-up fails finds no task, another Run creates one, and the
  first deletes the record under it. List and Stop start from records. `NoHiddenProcess`
  is therefore checked and proved for Runs alone; TLC finds it true also for callers that
  take turns, under every fault.
- CNI's allocation for a name can outlive its namespace when a Stop overlaps a Run or an
  undo step fails; each later Run then fails at network.setup and, having no attachment
  of its own to undo, leaves the allocation. Without a record no Stop clears it.
- A torn credential file makes every later start fail until someone deletes it; the agent
  runs on without its reconciler. `StartSettles` counts `failed` as settled.
- createWorkload answers 500 when its GetNode fails after the COMMIT. `ReplyIsTrue` says
  nothing about a 500; the repeated request gets a 409.
- A heartbeat the agent abandoned may be served after the next one and put an older
  status back; UpdateWorkloadStatus has no order to go by. `StatusIsLatest` is
  stated for heartbeats sent when no earlier one was still being served.
- "Stop is safe to call on an already-non-running container; it just removes the
  stale record" (`reconciler.go:144`). The state is from the List before the heartbeat:
  a container that the local API has restarted meanwhile is running, and is killed and
  started again. `ReconcilerSparesRunning` holds with exactly this exception.
- "ports are validated 1-65535 at store insert time" (`heartbeat.go:86`): only `ambudctl`
  validates them. The API and the table accept port 0, sent or left out, from any other
  client, and the agent gets it. The range in `RunsAsDeployed` is for ambudctl's requests;
  said of every row of the store, TLC refutes it.
- The protocol is stored as a client other than `ambudctl` gave it: `TCP` and `tcp` are
  different to the index.
- The host ports of containers created through the local API are unknown to the store.
- A local container with a workload's name is taken for the workload, whatever its
  image, and the workload is shown running. `DeployedRuns` has this exception.
- A container that is gone is not reported, so until it runs again its workload keeps
  the last status that was.
- The default timeout is "three missed heartbeats" (`server.go:13`), 15 s for an
  interval of 5 s. By `TimingAssumption` it covers two lost in a row only if rounds take
  no time, and one if they take up to 5 s, the clocks agreeing. A round that pulls an
  image takes as long as the pull, without heartbeats, and the node is shown offline.
- `fetch` has no timeout, so usePolling may have any number
  outstanding.

### Bounds

Two transactions are what every race in the store takes: a winner and a loser, or
a cycle of two waits; two tokens and two names let the collisions be on either or
both, and the proofs lift both halves of the store to any number. One workload and two
heartbeats of two nodes are what it takes to read a half-made workload, to report
another node's, or to report in the wrong order. Two callers are what a Stop needs to meet a Run; the proofs
lift the runs without Stop, and the callers that take turns, to any number. In `cluster`, two of the deployments want
one host port of a node (one as `TCP`, one without a protocol), two pairs one name, one
has an image that cannot be pulled and one a port that ambudctl refuses, so that at
most two workloads exist: two on one node, or one on each. In `dashboard`, an interval
shorter than a round makes ticks drop; two polls are what an overtaken answer takes,
and ages beyond the timeout and the skew are one value (`Old`). `Starts`, `Reqs`, `Beats`, `MaxRequests`,
`MaxCrashes`, `MaxOutages` and `MaxFaults` bound what can happen only finitely often in
a run, and `Polls` how many polls are outstanding at a time; nothing else is bounded. The reconciler ticks for ever. Runs with bounded requests
end when these are used up, hence `CHECK_DEADLOCK FALSE` for `Registration` and
`Workloads`; the others never stop and are checked for deadlock.
Symmetry is used only in `runtime_runs` and `workloads_desired`, which check no
liveness, on sets whose members are interchangeable.

### Fairness

A request the server has begun is executed and a goroutine that can go on does
(weak fairness of `RegisterTx`, `EnsureRegistered`, `CreateStep`, `BeatStep`,
`Reconcile`, `Handle`): Go's scheduler and PostgreSQL guarantee it. The ticker fires
for ever, so `Tick` is part of `Reconcile`. PostgreSQL breaks deadlocks after
`deadlock_timeout` (weak fairness of `DeadlockVictim`). Strong fairness of
`HeartbeatAnswered` says that a control plane that is reachable again and again does
not lose every single answer. Only `ConnectedSpec` assumes that outages end;
`KeepsReconciling` is refuted without it. No one has to send a request, start an
agent or let a process exit. Steps of the runtime do not fail at will in `agent` (a
pull that fails for ever justifies no progress), and in `cluster` only `MaxFaults` times
in all, whatever their kind, so that weak fairness of the loop suffices; the images of
`Bad` do fail for ever. In `Dashboard` time passes, a tick is received, polls start and
requests end (the browser's too, although `fetch` in `web/src/api/client.ts` has no
timeout: a poll that hangs for ever shows nothing, but does not hold up the next);
heartbeats, starts of the agent and samples are not fair, and may all be
lost or missing.

## Proofs

Every invariant, action property and refinement that a passing run checks is also a
theorem, for every value of the constants that the named assumptions allow. Each proof
module has one inductive invariant, shown to hold initially and to be preserved by one
lemma or step per action; the properties follow from it. TLC agrees with the
invariants on the runs' instances.

`RegistrationProofs` holds for all sets of agents, tokens, names and starts, under
`NodeNameAssumption` (every agent has a name) and `NullAssumption` (the markers are
not members of the sets). None of the properties is inductive: that a token is used
exactly by a committed node rests on who holds the row lock. The invariant `IInv`
adds four parts: `LockInv` (the lock of a token row is held by exactly the
transaction between its SELECT and its COMMIT), `UseInv` (a token's use belongs to
the transaction whose UPDATE wrote it, and the token is unused while a transaction
holds it before that), `NodeInv` (a row exists from the INSERT on and carries the
agent's name) and `AgentInv` (an agent follows its own start, which is committed
once the reply is in). One lemma per action shows that it is preserved. From it
follow `TypeCorrect`, `Atomicity`, `NamesUnique`, `IdentityIsOwn`, the action property
`SingleUse`, and `Refinement`: with `absToken` and `absNode` (a token counts as used
and a node as present from the commit on) CommitTx is JoinRegistry's RegisterNode
and every other step but CreateJoinToken is a stutter.

`ContainerRuntimeProofs` holds for any number of callers and any faults.
`RuntimeTypeCorrect` allows every operation. `RunningIsReachable`, `LosersDoNoHarm` and
`NoProcessHidden` assume that nobody calls Stop, which is necessary: `runtime_latestop`
shows it for the first, the observation above for the last. Their invariant `RunInv` says
that creating the namespace is a lock:
at most one caller is between createNetNS and the end of Run (`OneOwner`), the
attachment is in place from network.setup on (`SetupFirst`), a running container
keeps the namespace, so that no later Run becomes owner (`RunningKept`), and a task has a
record that no undo is about to remove (`RecordKept`).

`RuntimeApiProofs` holds for any number of callers whose calls do not overlap
(`OneAtATime`: they take turns, or there is one), Stop included: what a lock per name,
which the code does not have, would give. With all faults `TurnsKeepReachable` and
`TurnsLeaveRunningAlone` show that the overlap of calls is all that `runtime_latestop`
takes; `TurnInv` says that neither a Run past createNetNS nor the clean-up of a Stop
meets a running task. With steps and clean-ups that fail at will, but no other fault
(`TurnsTaken`), `NothingIsOrphaned` and `RuntimeRefines` hold; the other faults are
excluded because the properties are false with them: an undo step that fails, a
cancelled context or a crash leaves a namespace without a record. `SerialInv` says what
the one busy caller knows of the node from the steps it has taken (`Known`: past
NewContainer there is a record, past teardown no attachment, an undo has an error to
return, and `Error` only if something can fail), and that without a record there is
nothing but the namespace of a Run around
NewContainer (`Traces`). In the refinement StartTask is the interface's Run,
DeleteContainer its Stop, KillTask an exit, the return of List its List, every other
return a reply that is true of the container, and the rest stutters. A name is refused as
taken only while its container exists, and without faults no call answers `Error`.

`AgentProofs` holds for any number of handlers, requests, crashes and outages and any
faults. `AgentUsesRuntime` shows that the agent's specification implements
`ContainerRuntime`'s: every action of reconciler and handlers is a step of a caller or
leaves the node alone. If nobody uses
the local API, the reconciler is the only caller: `ReconcilerKeepsReachable` for all
faults, and `ReconcilerUsesApi`, without crashes and failing undo steps. `AgentTypes` needs
that a heartbeat is sent only with what a List that did not fail has answered
(`ListCalls`, `Truthful`).

`WorkloadsProofs` holds for all sets of requests, names, nodes, port lists, heartbeats
and readers, under the assumptions of `Workloads`: the markers are not members of the
sets and no rows or answers (`NullAssumption`, `MarkerAssumption`), port lists are
sequences of ports (`PortsAssumption`), heartbeats are numbered (`BeatsAssumption`).
None of the properties is inductive. `TxInv` ties a request's row and port rows to the
`pc` of its transaction, so that a roll-back removes exactly what was written and a
COMMIT finds everything in place; `PortInv` says that port rows are the request's ports
in order, normalised, and `PortKeys` is the unique index, which with the normalisation
gives `PortsExclusive`. The readers' invariants rest on `CommittedStays`: no step
changes a committed workload, its ports or its node, so what two or three queries read
at different times fits together (`BeatInv`, `ListInv`). `StatusIsLatest` needs the
order of heartbeats (`OrderInv`), which names a heartbeat has still to record
(`TodoInv`), and the property itself name by name (`StatusInv`). `Refinement` shows that
CommitWorkload is WorkloadStore's CreateWorkload, each status UPDATE its
UpdateWorkloadStatus, the first query of a heartbeat its ListWorkloadsForNode, a
failure after that its Forget, and every other step a stutter, attaching the ports
included.

`ClusterProofs` holds for all nodes, names and deployments and any bounds on requests to
the local APIs and on faults. Deployments ask for a name and a node (`AskedAssumption`);
typed ports are numbers and a protocol, and clients other than `ambudctl` keep to the
wire type's `"tcp" or "udp"; empty defaults to "tcp"` (`PortsAssumption`;
`internal/apitypes/apitypes.go:21`), which the API does not verify: with another
protocol a container is not what was meant. The invariant follows the copies of a
request: the row (`RowInv`), what an agent has been told (`TodoInv`), the container
(`BoxInv`) and what a restart remembers (`OpInv`) agree with it, rows exclude each other
(`UniqueInv`), and a container that was listed as stopped and runs by now was run by the
local API (`SeenInv`). The lemmas `PortConverted` and `ForwardedPorts` compose the
conversions of `PortSpec`.

`DashboardProofs` holds for all durations that satisfy `TimingAssumption`, which says how
long a timeout must be, and any number of polls. `OfflineIsDeserved` needs how old the
last heartbeat can be: `AgeInv` bounds `age` by (missed + 1) * max(Interval, MaxRound),
plus the time spent in the present round, and between rounds leaves room for the time to
the next tick; `RoundInv` says why the next round begins in time: while no tick is
waiting, a round and the time to the next tick together are no longer than the interval.

Only model-checked: the liveness properties (`StartSettles`, `ConvergesUnlessOrphaned`,
`StatusCatchesUp`, `CreateSettles`, `DeployedRuns`, `StatusTrue`, `ResourcesCatchUp`,
`DeadShownOffline`, `SteadyShownOnline`), which rest on fairness and are out of the
prover's reach, and the violations. `RunningReachable` and `RunLeavesRunningAlone` are
proved without Stop and without overlap, and false otherwise; `NoHiddenProcess` is proved
without Stop.

## Not modelled

- Store set-up and migrations: golang-migrate, once, before serving.
- JSON, CORS and logging helpers, the encoding of requests: stateless.
- The listing commands of `ambudctl`, and the forms and tables of the web UI: single
  requests and rendering. The name derived from an image (`defaultContainerName`,
  `deriveWorkloadName`) is a function of text.
- pullImage, getContainer, listContainers, getResources of the local API: they read, or
  fill containerd's image store, on which nothing here depends.
- newNetwork and ensureCNIConflist: file set-up before serving.
- The scheduler, logs, storage and authentication of operators that the documents
  describe: not in the code yet.
- What a CNI plugin leaves behind when its ADD fails half-way.

## Plan

Modelled, in this order because registration and the runtime carry the properties all
else relies on: `JoinRegistry`, `Registration`, `RuntimeApi`, `ContainerRuntime`,
`Agent`, `Workloads`, then `WorkloadStore`, `PortSpec`, `Cluster`, `NodeStatus` and
`Dashboard`. Proved, in the order of the modules' importance: `RegistrationProofs`,
`ContainerRuntimeProofs`, `WorkloadsProofs`, `ClusterProofs`, `DashboardProofs`,
`RuntimeApiProofs`, `AgentProofs`.

Next: a safety property behind each liveness property that the prover cannot reach (how
long a dead node can be answered for as online; what a round of the reconciler has done
by its end), so that more of what is only model-checked now is proved.
