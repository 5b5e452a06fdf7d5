# Verification of ma-runtime

TLA+ models of the parts of ma-runtime (`src/src/*.rs`) where tasks, threads and
failures meet, the TLC runs that check them and the proofs TLAPS checks.

Paths below are relative to `src/src/`.

## The system

ma-runtime is a daemon that hosts *entities*: Wasm plugins that receive
messages, keep a state and send messages.  Everything it keeps is a DAG in IPFS
(through a Kubo node) below one root, the *runtime manifest*.

| Component | State it keeps | Operations | Talks to |
|---|---|---|---|
| Entity worker (`plugin/backend.rs`) | `StateCtx`: pending, persisted, dirty; a mailbox of 64 messages | dispatch, take pending, mark saved, shutdown, terminate | one OS thread per entity, oneshot replies |
| Entity handle (`plugin/mod.rs`) | `state_persist_in_flight`, handle of the mailbox | dispatch, background persist loop, shutdown save, load | worker, Kubo, manifest writer |
| Manifest writer (`manifest.rs`) | root CID and cached manifest under an async mutex | mutate, mutate_async, update_entity_node and its callers, insert_entity | Kubo, `Stats.root_cid` |
| CRUD (`crud/`) | caches of ACLs, groups and kinds; `shared_config` | get, set, delete of entities, kinds, ACLs, groups, config | manifest writer, registry, reloads |
| Registry and dispatch (`dispatch.rs`) | name → entity | create, delete, self-delete, dispatch with side effects | worker, manifest writer |
| Event loop (`eventloop.rs`) | two gates, the plugin outbox | inbox, CRUD, IPFS, local and remote envelopes, shutdown | everything |
| Claim (`status.rs`) | `Stats.owners` | POST /claim, read-only pages | root ACL, `config.yaml` |
| Republisher (`republish.rs`) | last published root | periodic publication, `config.yaml` | `Stats`, IPNS |
| Scheduler (`scheduler_actor.rs`, `schedule.rs`) | schedule key → version, job id | register, overwrite, fire, reschedule, deactivate | tokio-cron-scheduler, entities |
| Outbox, IPFS service (`ipfs.rs`) | unreachable peers and their delays | resolve, open, back off, publish documents | peers, Kubo |
| ACL (`acl.rs`) | group cache | capability checks | CRUD, event loop |
| Kinds (`entity.rs`, `crud/kinds.rs`) | kind tree | extends resolution, dependent reloads | registry |
| DID documents (`doccache.rs`) | cached documents | resolve, refresh, merge | resolver |
| Boot (`boot.rs`, `startup.rs`, `bootstrap.rs`) | `config.yaml` | choose the root, overlay kinds, load entities, fill caches, seed owners | everything |

What is hard in it:

- *concurrency*: one thread per entity, a task per request, persist task,
  registration and callback, with bounded channels and `try_send` between them;
- *cancellation*: handlers run under 30 s timeouts, which drop a future at
  whatever `await` it is at;
- *partial failure*: every change is several Kubo requests, each of which may
  fail;
- *copies*: `Stats.root_cid` is a copy of the writer's root, `config.yaml` and the
  IPNS record are copies of that, every cache is a copy of a part of the manifest,
  and `config.yaml` has two writers, of which one has a copy in memory;
- *backpressure*: bounded queues that drop, gates that block or drop, and one loop
  that serves everything;
- *restart*: the daemon comes back with what `config.yaml` leads to.

What makes each component correct:

- worker and persist loop: one loop at a time, no state left behind, no newer
  state confirmed by the save of an older one;
- manifest writer: serialisable mutations, all or nothing, Ok and Err truthful;
- shutdown: what the actors had is what the next boot loads;
- scheduler: the definition registered last under a key wins, superseded ones stop;
- registry: never a stopped worker under a live name, no state lost by a reload;
- control plane: caches, registries and owners say what the manifest says, and
  what is stored can be started from;
- event loop: every queue and gate within its bound; requests and Ctrl-C served
  although entities flood the outbox or never answer; every delivery ends that is not
  stuck in a wait without deadline;
- peers: no resolution displaces a published document, the backoff follows its numbers.

`PROJECT.json` lists the hazards line by line.

## Modules

| Module | Models |
|---|---|
| `EntityState` | state of one entity: worker, mailbox, calls, persist tasks, shutdown, republisher, crash and boot |
| `EntityState_proofs`, `EntityStateDurable_proofs` | its theorems |
| `ManifestOps` | entity nodes, manifests, what each operation does to them |
| `AtomicManifest` | abstract specification: operations take effect one at a time |
| `ManifestWriter` | the writer's read-modify-write step by step |
| `ManifestWriter_proofs` | its theorems, the refinement of `AtomicManifest` among them |
| `Scheduler` | one schedule key: registry, registrations, jobs |
| `Scheduler_proofs` | its theorems |
| `EntityLifecycle` | registry, manifest, instances and their persist loops under creation, deletion, upsert, reload and change of behaviour |
| `EntityLifecycle_proofs` | its theorems |
| `Kinds`, `AccessControl` | operators: `extends` chains and dependents; the access decision |
| `ControlPlane` | CRUD on ACLs, groups, kinds and settings; claim; republication: against manifest, caches, owners, `config.yaml`, IPNS |
| `Boot` | extends `ControlPlane` with the phases of a start, the stop and crashes |
| `Boot_proofs` | theorems of `Boot`, `ControlPlane` and `Kinds` |
| `PeerDelivery` | document cache, deliveries, backoff and refresh for one peer |
| `EventLoop` | extends `PeerDelivery` with the loop, its inboxes, outbox, gates and tasks |
| `EventLoop_proofs` | theorems of `EventLoop` and `PeerDelivery` |
| `SetInduction` | induction and iteration over the natural numbers, for the proofs about recursive functions |
| `MC*` | instances for TLC: symmetry sets, and the inputs (requests, command lines, workloads) |

How they fit together.  The manifest of `EntityState`, `EntityLifecycle` and
`ControlPlane` changes in one step, because `ManifestWriter` refines
`AtomicManifest`.  What `EventLoop` does with a message is what starts an operation
of the other modules; it keeps of it only how long it may take and whether it is
answered.  `EntityState` looks into one worker, mailbox and persist loop;
`EntityLifecycle` has several instances of an entity and keeps of each worker its
state, whether it is pending and what its persist loop carries.

Operators named `X_Something` in front of a definition `X` that takes the same
parameters are deliberate faults; `PROJECT.json` says which property each must
break.

### EntityState

Each element of `Call` is one call on the entity and, once it has reported a new
state, the persist task it becomes; `pc` is the `await` it is at.  One action per
step of the code between two awaits:

- `Dispatch`, `DispatchTimeout`, `spawn_state_persist`: the caller;
- `WorkerDispatch`, `WorkerTakePending`, `WorkerMarkSaved`, `WorkerShutdown`: the
  worker thread takes the next `EntityMsg`;
- `AddBytes`, `set_entity_state`, `MarkSaved`, `TakeSnapshot`, `StoreInFlight`,
  `TakeTail`: `run_state_persist_loop`;
- `CtrlC`, `Shutdown*`, `Exit`: `handle_shutdown` and `save_all_entity_states`;
- `RepublishStart`, `RepublishFinish`, `Crash`, `Boot`.

Abstractions.  A state is a model value; a CID is the content it names, so a
manifest root is identified with the state it links for the one entity.  The
update of the manifest is one step here, which `ManifestWriter` justifies.  Retry
delays and republish intervals are free choices.  A handler sets its state at
most once per call (later calls of `ma_set_state` in one handler override the
earlier ones before anybody can see them).  A trap comes after the state was set.

`latest`, `used`, `orphaned` and `due` are history.  `orphaned` records that a
fault (trap, timeout, full mailbox) lost the only report of a change.

### ManifestWriter

A task does one operation: the five edits of `update_entity_node`, an insert, a
removal, a mutation whose closure fails, or the CRUD acl field.  A node field holds
the task that wrote it, so that a lost update is visible.  `Fetch` is the
`dag_get` (or `take` of the cache) with the synchronous closure; `EditNode`,
`PutNode`, `PutManifest`, `PinAndSwap`, `PublishStats` are the awaits that follow.
`Cut` is the drop of the future at any await; a pin request that was sent may
still be carried out.  `Fail` is the `?` of any request: the guard and the copy are
dropped, the cache stays empty.

The entities are the only field of the manifest that is modelled: the writer
treats the others the same way (a closure on the whole manifest).
`entity_node`, which reads without changing anything, is left out.

### Scheduler

One schedule key, since keys share nothing.  A definition is one registration
message and the job it adds.  `register_schedule` puts the job into the
scheduler before `commit_registration` stores its id; a callback asks the guard
(`dispatch_if_active`), dispatches, and completes or adds its successor
(`JobDone`, `AddAgain`).  tokio-cron-scheduler is external: `Fire` and `Removed` say
what the code relies on.  A message is accepted (`Register`) before the task it spawns
begins, and the version is assigned when it begins: `current` is the definition that
began last, `older[d]` those accepted before `d`.  `Overtaking` says whether tasks may
begin in another order than they were spawned in, which tokio's threads allow.

### EntityLifecycle

A task performs one operation, `pc` is the `await` it is at.  `Start` begins one of
eight: a creation asked for by a peer's message (`create`: `dispatch.rs`) or by a
local envelope (`local`: `eventloop.rs`, under `entity_creation_gate`), a deletion by an
actor, a CRUD deletion, an upsert, the acl field, a reload because a kind changed,
and `ma_set_behaviour`.  An instance is a loaded `EntityPlugin`; it bears the name of
the task that loads it, or of its fragment when the boot did.  A handle keeps a
worker alive (`Held`), `terminate_worker` ends it anyway (`WorkerEnds`).

`load` is `EntityPlugin::load` with `:init` and `:start`; `trigger_save` and
`prepare_reload_save` save what is pending; `Change` is a message that changes the
state, delivered perhaps late to an instance that has left the registry; `Persist`
is a round of the persist loop, which links by fragment name; `Cut` is a handler's
timeout (spawned reloads and the spawned `insert_entity` have none).  The event loop
handles one CRUD request at a time (`drain_crud_messages`): two handlers never overlap,
but the reloads a handler spawned go on.

`retired` and `exposed` are history.  `exposed` names the instances whose newest
state some other writer, or a failure the code only logs, has cut from the manifest:
a second reload of the same entity, a persist loop of an older instance, an upsert or
acl write with a stale node, a save that was marked but not linked, a state that
could not be fetched.  `ReloadKeepsState` is about the instances that are not exposed.

### Kinds, AccessControl, ControlPlane, Boot

A CID stands for its content: a root CID is the manifest.  `handle_*` actions accept a
CRUD request and validate it (`req.pc = "mutate"`), `with_manifest_crud` changes the
manifest, and the actions named after the rest of each handler update its cache;
the loop handles one request at a time and may cut it off in between (`CutOff`).
A claim (`Claim*`, `persist_owners_*`), the republisher (`Republish*`) and an owner's
`:publish` run beside it.  `Boot` has one action per phase of `main`; a phase that
returns an error leaves no step but `Crash`, which is the end of the process.

`lag` names the caches that a failed load, a failed reconciliation or a cut-off has
left behind: nothing in the code repairs them before the next start.  `granted` and
`known` are history.  An ACL entry grants the capability that is distinguished, or only
others, or denies; a principal's own entry overrides the wildcard.  A kind is its
behaviour and what it extends; of the settings, one of each sort is kept.

`ipns` is the record under the runtime's name, `key` whether Kubo's key list has the key
that the name belongs to.  A publication imports the key before it stores the record;
a start asks the key list first, so that without the key it sees no record, and a
key without a record is an error.  `KeyLost` is a Kubo with another keystore.

`set_daemon_config_key` takes the lock of `shared_config` twice, to apply the value and to
save.  One step stands for both: only the republisher's `persist_root_cid` could come in
between; it sets another field of the same record and saves, so that either order gives the
file that the merged step gives.

`check_full` and `resolve_kind_extends` are operators; the loops of the code became a
formula and a recursive function bounded by `MAX_DEPTH`.

### PeerDelivery, EventLoop

`task[d]` is a delivery in `open_outbox_for_did`: cooldown, cached document, first
lookup, connect, staggered resolve attempts (`reading` holds what each has read), connect
again, send.  A document is its version (`updated_at`); the endpoint of the current
version is the one that answers, and a resolution may find any version published
so far.  Time is not modelled: a cooldown may end at any moment (`CooldownEnds`), a
deadline may pass at any moment.

`loop.pc` is the place of the event loop: `select`, one of the three inboxes, inside
an IPFS or CRUD handler, the outbox, or waiting for a permit of the local gate.  The
reply to a CRUD request is a delivery in the loop itself (`Inline`).  Whether a message
passes its access check is part of the message (`ok`): the decision is `AccessControl`'s.
`Delivery` is finite where the code spawns without end: an envelope to a peer that finds
a permit but no free slot is a delivery that ends at once.
A call into an entity may never return, so `dispatch_local_plugin_envelope` has no
fairness and `LocalTimesOut` has.  A target that is this runtime itself without a
fragment is delivered like a peer.

## Runs

| Run | Configuration | Result |
|---|---|---|
| `entity_safety` | 2 calls, 2 states, mailbox of 2, every failure and fault, one Ctrl-C, republisher, late callers | holds, no deadlock |
| `entity_durable` | 3 calls, 4 states, mailbox of 2, no shutdown, prompt callers, no recurring state | holds |
| `entity_live` | 2 calls, failing requests, one Ctrl-C, fairness | holds |
| `shutdown` | 1 call, failing puts, two Ctrl-C, republisher | `ShutdownKeepsState` violated |
| `manifest_writer` | 2 tasks, 2 entities, all operations, failures and cut-offs, fairness | holds |
| `manifest_acl` | 2 tasks, 1 entity, no failure | `StateSurvives` violated |
| `scheduler` | 2 definitions of any kind, every failure, shutdown signal, fairness | holds |
| `scheduler_latest` | 3 definitions, no failure | `StrictLatestWins` violated |
| `lifecycle` | 2 tasks with any operation on one entity, 2 changes, every failure and cut-off | holds |
| `control` | 2 principals, 2 groups, 3 kinds, 15 requests of which 2 are made, a claim, 4 command lines, 2 starts, 1 fault | holds |
| `restart` | a claim and a CRUD set, 2 starts, crash, failing publication, loss of the key | `RestartRestores` violated |
| `services` | one peer with 2 services, 7 workloads, queues and gates of 1, backoff limits 1 and 3, fairness | holds |

What the passing runs show, beyond types:

- `scheduler`: `LastBegunWinsUntilReset`, of the registrations that have begun the last to
  begin wins however slowly the older ones add, commit or clean up, while the key keeps its
  entry (that it need not be the last message is `scheduler_latest`); `NoZombieEntry`;
  `SupersededStops`.
- `lifecycle`: `RegistryFresh`, no interleaving of two operations leaves a stopped or
  retired instance registered; `ReloadKeepsState`, a reload starts the new instance
  from the state the old one had, pending or not.  `TypeOK` includes that the creation
  gate is held exactly while a local creation loads.
- `control`: `CachesCurrent`, `KindsCurrent` and `OwnersAgree` relate each cache to the
  manifest between requests and across restarts, apart from what `lag` names;
  `Bootable`, no accepted setting prevents a start (a `root_cid` that is no CID can be
  stored by CRUD and does: `set_daemon_config_key` does not validate it, and
  `select_root_cid` then refuses; the property is about the two settings that are
  validated).
- `services`: `TypeOK` bounds outbox and gates.  `NoResolutionUndoesPublication`: no
  resolution or refresh, however late, takes the cache behind the document handed in last
  (a later publication of an older document does replace a newer one:
  `insert_published` compares nothing).  `BackoffCounts`: the delay is the Fibonacci number
  of the failed connects, neither fewer nor more, within the limits, whatever order
  connects, contacts and changes of the limit come in.  `CrudServed` and `SignalHandled`
  hold although entities flood the outbox and never answer.  `DeliveryEnds`: a delivery
  keeps its permit for good only in the first lookup (`ipfs.rs:645`) or in `outbox.send`
  (`eventloop.rs:903`), which have no deadline; the reply to a CRUD request ends even there,
  by the handler's timeout.  Messages are finitely many, so a flood by peers is outside.

Bounds.  Two calls are a running persist loop and one that finds it running; the third
of `entity_durable` adds one that arrives during the last look.  A mailbox of two is
full with one call and one confirmation in it; the liveness run has a mailbox that
never fills, since a full one may lose a report, which is what `orphaned` excepts.
Two manifest tasks are a reader and the writer that overtakes it; two entities make a
write to the wrong one visible.  Three definitions are the shortest sequence in which
a version recurs; two are a definition and the one that supersedes it.  Two tasks of
`lifecycle` are any operation and the one that overtakes it, with a persist loop of
each instance besides; two changes are a state that is lost and the one that hides it.
In `control` two requests are a change and its dependent, two starts are what was
stored and what is read back; `MAX_DEPTH` 2 with three kinds makes a chain of full
length, and a cycle exceeds it.  In `services` queues and gates have one place, so
that they are full with one entry; a backoff limit of 3 has the first delay that
differs from the others (1, 1, 2), and it falls to 1 or rises from it; the workloads
separate concerns (publication against resolution, refresh, backoff and limit,
replies, flood and Ctrl-C) that share no state but the loop.  For every safety
property of the passing runs the proofs cover what the bounds cut off.

`entity_safety` checks deadlock: the daemon can always crash and boot.  The other
passing runs without deadlock check end when every call, task or definition has
been used.

Fairness.  `Worker`: an OS thread.  Persist tasks, registrations, callbacks and
the shutdown: tasks of a multi-threaded tokio runtime, whose steps end because every
Kubo request has a timeout.  Strong fairness of a successful add and link: the loop
retries for ever, and Kubo is assumed to be up again and again.  The mutex of the
manifest writer is handed on in order (tokio's is FIFO; weak fairness is enough with
finitely many tasks).  Nothing obliges an operator, the republisher, a crash, a
boot, a timeout or a failure.

In `services`: the loop is a task; `select!` picks at random among the ready branches,
hence strong fairness of the tick and of Ctrl-C; the 30 s timeout of a local dispatch
is a timer; so are the deadlines of a delivery's steps (`TimedStep`).  The first lookup of a
document and `outbox.send` have no deadline, and nothing obliges them to end; nor are
entities, peers, or a call into an entity obliged to anything.

### Findings

1. *Republisher over shutdown* (`shutdown`; alone with `Failures = {}`).
   `republish.rs` writes to `config.yaml` the root it read before the publication; a
   shutdown in between has already written a newer one.  The next boot loads the old
   state.
2. *Saved before linked* (`shutdown`; alone with `Republishing = FALSE`).
   `shutdown_signal_save` marks the state saved when Kubo has the bytes.  If the
   manifest cannot be published the shutdown is aborted, and the retry has nothing
   to save.
3. *acl outside the lock* (`manifest_acl`).  The CRUD acl field writes back a
   node it read before it took the lock.
4. *Version reuse* (`scheduler_latest`; alone with `Overtaking = FALSE`).  Versions
   are unique only while the key's entry exists.  A one-shot that completes removes
   it; a superseded callback that has not asked its guard yet can then find its
   version current again.
5. *Claim undone* (`restart`; alone with `Failures = {}`).  A claim rewrites
   `config.yaml` but not the configuration in memory; the next save of the latter
   removes the owner.  Owners are also lost without a claim, with `Failures =
   {"load"}` and two starts with `--owner bob`, the first of which bootstraps a
   manifest owned by alice: the owners seeded into `config.yaml` are removed by the
   shutdown's save in the same way, the second start cannot load `/grp/owners`, and
   the reconciliation overwrites the group with bob alone; `boot.rs:1243-1244` says
   "so a restart never silently forgets owners set only via CRUD".
6. *Messages overtaken* (`scheduler_latest`).  A registration is given its version by a
   task of its own; two tasks may begin in the reverse order of their messages, and
   the older definition then replaces the newer one for good.
7. *Fallback to IPNS needs the key* (`restart`; alone with `Failures = {"crash", "key"}` and
   `Claim = {}`).  `resolve_runtime_root_cid_by_ipns_id` looks
   for the key in Kubo's key list and finds nothing without it, although the record can be
   resolved: the daemon starts over.
8. *First start not repeatable* (`restart`).  A publication that fails after it
   imported the key leaves a name without a record; if `config.yaml` has no root yet,
   every later start ends with the error of `name/resolve`.

A deleted entity may come back: `finish_reload` inserts what it loaded without asking the
manifest, so that a reload spawned before a CRUD DELETE registers the entity again
after it was answered, and a second DELETE answers that there is no such entity.  No
document says what becomes of a reload that is under way, so no run is about it.

Disagreements between comments and code that no property is about: `finish_reload`'s
comment promises a roll back, the code removes the entry; `ma_end` is said to remove
the entity from the manifest and does not; a reload that fails to record
`initialised` lets `:init` run again, which "fires exactly once, ever";
`group_cache_update` is said to resolve to no members when the load fails and keeps
the old ones.

## Proofs

All theorems are for any constants that satisfy the modules' assumptions.

`EntityState_proofs`.  `TypeCorrect` and `ContextCorrect` are inductive as they stand.
`RepliesCorrect` needs, for each waiter, ownership, uniqueness and existence of its
request together (`RequestsMatch` with `TypeOK`): a message leaves the mailbox at the
head, joins at the tail or loses its reply handle, and each of the three
must keep the other two facts.  `LoopCorrect` follows from the swap of the flag.
`WakeupCorrect` rests on the other four: pending state changes only in
`WorkerDispatch`, which makes its caller a carrier, and a carrier leaves only
after a look that found nothing, or with the loss recorded.

`EntityStateDurable_proofs`.  Under `Undisturbed` (prompt callers, no recurring state,
no Ctrl-C, no failing state fetch) `DurabilityCorrect` uses `DurableInv`: only the
last state is ever pending, a confirmation of it is under way only when it is linked,
and once it is linked no task carries an older one.  Each assumption is needed: TLC
finds counterexamples without it.

`ManifestWriter_proofs`.  The inductive invariant says what a task holds at each
control point: before the lock the node it will insert, while it edits a copy equal to
the root, when it publishes the root with exactly its effect on it (`Ready`).  `Frame`
shows once that a step leaves the other tasks' part alone, since the root changes
only under the lock.  `AtomicityCorrect` then maps `PinAndSwap` (and an edit that changes
nothing) to the abstract operation and every other step to a stutter.  For the
acl field the abstract specification promises only that other entities are untouched.

`Scheduler_proofs`.  `LastBegunWinsCorrect` uses `VersionsGrow`: while the entry has never
been removed it carries the version of the definition that began last, and every
other definition has a smaller one.  `NoZombieCorrect` names the definition that
`NoZombieEntry` says exists: it is the one that began last (`CurrentAlive`), which no
other registration takes for the previous one it has to remove (`PreviousBegun`).

`SetInduction`.  The backoff is a Fibonacci number and the resolution of a kind is a
loop; both are recursive functions, and the library's induction theorems take an
operator, which the provers cannot instantiate.  `AllNumbers` states induction with a
set, from the well-foundedness of the numbers; `Iterates` shows that a function from a
set to itself can be iterated, which is the witness that turns the definition of a
recursive function into its equation.

`EventLoop_proofs`.  `LoopInv` has a part per theorem.  `DocInv`: every document that
is cached, published or in a resolution under way is a version, a delivery that merges
has one, and the cache is not behind the last publication; that is inductive because a
resolution keeps the newer of two documents and a publication sets both sides.
`GateInv`: the deliveries that hold a permit are at most `RemoteLimit`.  `BackoffInv`
adds to `BackoffCounts` that `previous` is the Fibonacci number before `delay`, that
the attempts are within the largest limit so far, that the limit is between `lowest`
and `highest`, and that nobody cools down without a backoff.  `QueueInv` gives the
bounds of outbox and local gate.

`EntityLifecycle_proofs`, for any number of tasks, fragments, changes and retries.
`LifecycleTypeCorrect` uses `TypeInv`, which adds to the types what a task holds at
each place (`PlaceOK`).  `RegistryCorrect` uses `FreshInv`: before it is registered
nobody else knows the instance a task loads, its worker lives from the load on, and a
task replaces only instances of its own fragment.  `ReloadCorrect` uses `KeepInv`: of
a current instance that is not exposed the state is pending, or linked in the
manifest, or about to be linked by the one reload that replaces it (`KeepInstance`);
that reload knows the state place by place (`KeepPlace`); two tasks replace the same
instance only if it is exposed (`Alone`).

`Boot_proofs`, for any requests, command lines, claims, failures and starts.

- `BootTypeCorrect`: `TypeInv` adds that a request is in hand only while the daemon runs
  and has a manifest, that a claim at its write has read a configuration, that a start
  has its command line.
- `BootableCorrect`: `SettingsInv` follows a root through every place it passes (file, memory,
  boot, manifest, IPNS, republisher, `:publish`, a claim's copy of the file).  It assumes
  `SoundInputs`: the code validates neither the manifest behind `--root-cid`, nor the one
  a `root_cid` request names, nor the first `config.yaml`.  `MCBoot` checks that its
  instances satisfy it.
- `CachesCorrect`: `CacheInv` says by how much the manifest is ahead of each cache while the
  request that changed it is on its way to the cache, that the start filled the caches
  from the root it found, and that nobody claims or is granted anything before that.
- `OwnersCorrect`: `OwnersInv` adds that the owners of a start include those of the group it
  loaded, so that either they are the same or the reconciliation is due; and that between
  the mutation of `+owners` and the assignment of the owners a request is in hand.
- `KindsCorrect`: `KindsInv` says that between the mutation and the update of the
  registry only the kinds in `affected_kind_protocols_for` are stale.  It rests on two
  lemmas about chains of `extends` of any length: what that operator leaves out
  resolves as before (`UnaffectedResolves`), and what depends on a kind that is gone
  does not resolve (`DeletedBreaks`), which is why a deletion need not hydrate
  anything.  Both follow from `HopsFollowBases`: up to a base that is missing,
  `resolve_kind_extends` and `kind_depends_on` look at the same protocols, hop by hop.
  The argument uses that the two functions, each of which has a `MAX_DEPTH` of its
  own, have the same one.

Assumptions on the constants, beyond positive bounds: `None` and `BadCid` are none of
the values they stand beside (`NoneAssumption`, `ProtocolAssumption`, parts of
`RequestAssumption`, `PeerAssumption`, `LifecycleAssumption`); a request carries a
value of the type of what it sets (`RequestAssumption`), a message what its kind says
(`LoopAssumption`); command lines and files are of their types (`StartAssumption`);
limits have a largest one. TLC evaluates all of them in the runs.

Only model-checked: the liveness properties (`Drained`, `FlagReleased`,
`ShutdownEnds`, `EveryTaskEnds`, `SupersededStops`, `CrudServed`, `SignalHandled`,
`DeliveryEnds`), which are out of the prover's reach, and the violations.

## Not modelled

- Status pages (read-only), localisation (text), parsing and encoding of messages,
  schedule specs, behaviour documents and kinds trees: no state, and nothing in them
  interleaves.  The unchecked arithmetic of `parse_duration` is listed as a hazard.
- Key material, endpoint set-up, remote pinning: I/O whose failure is logged or ends
  the start.
- Host functions of Wasm that only read.
- The two boot-time writes that concern entities rather than the control plane
  (`persist_initialised_transition`, `populate_default_config_root`).
- Kubo, the resolver, the transport and tokio-cron-scheduler are external: modelled
  by what the code relies on.
- Liveness of `EntityLifecycle`: a reload waits for loads that retry and for workers,
  each bounded by a timeout; there is no lock across tasks but the creation gate, whose
  release is in `TypeOK`.
