-------------------------- MODULE EntityLifecycle --------------------------
(***************************************************************************)
(* The registry of live entities against the runtime manifest: creation by *)
(* an actor (dispatch.rs for messages of peers, eventloop.rs for local     *)
(* envelopes), deletion by an actor, CRUD deletion, CRUD upsert and acl    *)
(* (crud/entities.rs), kind reloads (crud/helpers.rs) and a change of      *)
(* behaviour (dispatch.rs), any number of them at once.                    *)
(*                                                                         *)
(* A task performs one operation; an instance is a loaded EntityPlugin     *)
(* with its worker thread.  The instance a task loads bears the task's     *)
(* name, the one loaded at boot the name of its fragment.  A state is the  *)
(* number of the change that produced it, 0 the empty state.  A mutation   *)
(* of the manifest is one step that may fail (see ManifestWriter).         *)
(***************************************************************************)
EXTENDS Naturals

CONSTANTS
    Fragment, Task, None,
    Actor,       \* the fragment whose messages ask for creation and deletion
    Target,      \* the fragments that operations and messages are about
    Ops,         \* kinds of operations in use
    Failures,    \* what may fail
    Cutoffs,     \* may a handler's timeout cut a task off?
    MaxTries,    \* attempts of load_with_fibonacci_backoff
    MaxChanges   \* bound on the changes of states

AllOps == {"create", "local", "delete", "crudDelete", "upsert", "acl", "kind", "behaviour"}

ASSUME LifecycleAssumption ==
    /\ Actor \in Fragment /\ Target \subseteq Fragment
    /\ Fragment \cap Task = {} /\ None \notin Fragment \cup Task
    /\ None \notin Nat \cup AllOps
    /\ None \notin [state : Nat, parent : Fragment \cup {None}, initialised : BOOLEAN, reload_error : BOOLEAN]
    /\ Ops \subseteq AllOps
    /\ Failures \subseteq {"writer", "kubo", "load", "init", "signal", "cat"}
    /\ Cutoffs \in BOOLEAN
    /\ MaxTries \in Nat \ {0} /\ MaxChanges \in Nat

VARIABLES
    op, pc,      \* each task's operation and the await it is at
    seen,        \* the node each task works with
    cur,         \* current_entity of a reload: the instance it will replace
    saved,       \* the state a task saved and has yet to link
    tries, life, \* attempts to load, and the lifecycle the load returned
    gate,        \* holder of entity_creation_gate
    registry,    \* EntityRegistry
    manifest,    \* the entities of the runtime manifest
    worker,      \* the worker thread of each instance
    val,         \* the state an instance has
    pending,     \* is it unsaved?
    loop,        \* the bytes its persist loop, if any, is writing
    parent,      \* EntityPlugin.parent
    terminated,  \* instances that were sent Terminate
    clock,       \* number of changes so far
    (* History. *)
    retired,     \* instances that have left the registry
    exposed      \* instances whose newest state a named race or failure has lost

tasks == <<op, seen, cur, saved, tries, life>>
insts == <<worker, val, pending, loop, parent, clock>>
vars  == <<op, pc, seen, cur, saved, tries, life, gate, registry, manifest, worker,
           val, pending, loop, parent, terminated, clock, retired, exposed>>

Maybe(S) == S \cup {None}
Instance == Fragment \cup Task
State    == 0 .. MaxChanges

EntityNode == [state : State, parent : Maybe(Fragment), initialised : BOOLEAN,
               reload_error : BOOLEAN]
Node(s, p, i) == [state |-> s, parent |-> p, initialised |-> i, reload_error |-> FALSE]

KindOf(t) == op[t].kind

FragmentOf(i) == IF i \in Fragment THEN i ELSE op[i].frag

Step(t, from, to) == pc[t] = from /\ pc' = [pc EXCEPT ![t] = to]

\* A task ends: its locals are dropped, with them its handle to an instance.
Drop(t) ==
    /\ seen' = [seen EXCEPT ![t] = None] /\ cur' = [cur EXCEPT ![t] = None]
    /\ saved' = [saved EXCEPT ![t] = None] /\ tries' = [tries EXCEPT ![t] = 0]
    /\ life' = [life EXCEPT ![t] = "Running"]
    /\ op' = [op EXCEPT ![t].kind = None]

\* The instances of f, other than i, whose state differs from s.
Others(f, i, s) ==
    {j \in Instance \ {i} : /\ worker[j] = "live" /\ FragmentOf(j) = f /\ val[j] # s}

\* The manifest links state s for f.
Linked(f, s) == manifest[f] # None /\ manifest[f].state = s

\* Some task is about to replace i.
BeingReplaced(i) == \E u \in Task : cur[u] = i

\* A task links state s, saved from its instance t.
Settle(t, f, s) ==
    exposed' = (exposed \ {i \in {t} : val[i] = s /\ ~BeingReplaced(i)}) \cup Others(f, t, s)

\* A task writes a node; any other live instance's state is no longer linked.
WriteNode(i, f, n) ==
    /\ manifest' = [manifest EXCEPT ![f] = n]
    /\ exposed' = exposed \cup Others(f, i, n.state)

Register(f, i) ==
    /\ registry' = [registry EXCEPT ![f] = i]
    /\ retired' = IF registry[f] = None \/ registry[f] = i THEN retired ELSE retired \cup {registry[f]}

Unregister(f) ==
    /\ registry' = [registry EXCEPT ![f] = None]
    /\ retired' = IF registry[f] = None THEN retired ELSE retired \cup {registry[f]}

terminate_worker(i) == terminated' = IF i = None THEN terminated ELSE terminated \cup {i}

(***************************************************************************)
(* EntityPlugin::load.  A refused :init leaves an entity in error, a :start *)
(* that fails fails the load.  A state that cannot be fetched becomes the  *)
(* empty one.  The lifecycle signals may queue a new state.                *)
(***************************************************************************)
run_genesis_and_start(t) ==
    \/ life' = [life EXCEPT ![t] = "Running"]
    \/ /\ "init" \in Failures /\ ~seen[t].initialised
       /\ life' = [life EXCEPT ![t] = "Error"]

load(t, to) ==
    LET f == op[t].frag
        n == seen[t]
    IN  /\ Step(t, "load", to)
        /\ run_genesis_and_start(t)
        /\ tries' = [tries EXCEPT ![t] = 0]
        /\ worker' = [worker EXCEPT ![t] = "live"]
        /\ parent' = [parent EXCEPT ![t] = n.parent]
        /\ \/ /\ val' = [val EXCEPT ![t] = n.state]
              /\ exposed' = IF Linked(f, n.state) THEN exposed ELSE exposed \cup {t}
              /\ UNCHANGED <<pending, clock>>
           \/ /\ "cat" \in Failures /\ n.state # 0
              /\ val' = [val EXCEPT ![t] = 0]
              /\ exposed' = exposed \cup {t}
              /\ UNCHANGED <<pending, clock>>
           \/ /\ clock < MaxChanges
              /\ clock' = clock + 1
              /\ val' = [val EXCEPT ![t] = clock + 1]
              /\ pending' = [pending EXCEPT ![t] = TRUE]
              /\ UNCHANGED exposed
        /\ UNCHANGED <<op, seen, cur, saved, gate, registry, manifest, loop,
                       terminated, retired>>

\* A document that cannot be fetched or is malformed fails the attempt.
resolve_wasm_and_behaviour_Fails == "load" \in Failures

\* An attempt that fails; the last one takes the task to `to`.
load_with_fibonacci_backoff(t, attempts, to) ==
    /\ resolve_wasm_and_behaviour_Fails
    /\ pc[t] = "load"
    /\ \/ /\ tries[t] + 1 < attempts
          /\ tries' = [tries EXCEPT ![t] = @ + 1]
          /\ UNCHANGED <<pc, op, seen, cur, saved, life>>
       \/ /\ tries[t] + 1 = attempts
          /\ Step(t, "load", to)
          /\ IF to = "done" THEN Drop(t) ELSE UNCHANGED tasks
    /\ UNCHANGED <<gate, registry, manifest, insts, terminated, retired, exposed>>

\* trigger_save: pending bytes are added and marked saved; a failure leaves
\* them pending.  It yields the state to link, or None.
trigger_save(i, s) ==
    \/ s = None /\ ~pending[i] /\ UNCHANGED pending
    \/ s = val[i] /\ pending[i] /\ pending' = [pending EXCEPT ![i] = FALSE]
    \/ s = None /\ pending[i] /\ "kubo" \in Failures /\ UNCHANGED pending

(***************************************************************************)
(* ma_create_entity requested through a peer's message (dispatch.rs).      *)
(***************************************************************************)
Begin(t, k, f, to, n) ==
    /\ k \in Ops
    /\ Step(t, "idle", to)
    /\ op' = [op EXCEPT ![t] = [kind |-> k, frag |-> f]]
    /\ seen' = [seen EXCEPT ![t] = n]
    /\ UNCHANGED <<cur, saved, tries, life, gate, registry, manifest, insts, terminated,
                   retired, exposed>>

\* A request that is refused or has nothing to do.
Skip(t, k) ==
    /\ k \in Ops
    /\ Step(t, "idle", "done")
    /\ UNCHANGED <<tasks, gate, registry, manifest, insts, terminated, retired, exposed>>

Finish(t, from) ==
    /\ Step(t, from, "done")
    /\ gate' = IF gate = t THEN None ELSE gate
    /\ Drop(t)
    /\ UNCHANGED <<registry, manifest, insts, terminated, retired, exposed>>

\* The host function queues a request of a live entity; a name that is no
\* fragment, or reserved, is refused.
ma_create_entity == registry[Actor] # None

\* The request is skipped when its kind is unknown or its behaviour malformed.
process_entity_create_requests(t, f) ==
    /\ ma_create_entity
    /\ \/ Begin(t, "create", f, "load", Node(0, Actor, FALSE))
       \/ Skip(t, "create")

create_entity_from_request(t) ==
    /\ KindOf(t) = "create"
    /\ load(t, "register") \/ load_with_fibonacci_backoff(t, 1, "done")

\* Registered over whatever bears the name; a rejected :init is dropped.
finish_created_entity(t) ==
    /\ KindOf(t) = "create" /\ pc[t] = "register"
    /\ \/ life[t] = "Error" /\ Finish(t, "register")
       \/ /\ life[t] = "Running"
          /\ Step(t, "register", "insert")
          /\ \E s \in Maybe(State) : trigger_save(t, s) /\ saved' = [saved EXCEPT ![t] = s]
          /\ Register(op[t].frag, t)
          /\ exposed' = exposed \cup {t}
          /\ UNCHANGED <<op, seen, cur, tries, life, gate, manifest, worker, val, loop,
                         parent, clock, terminated>>

\* The spawned writer.insert_entity.
insert_entity(t) ==
    /\ pc[t] = "insert"
    /\ \/ "writer" \in Failures /\ Finish(t, "insert")
       \/ LET f == op[t].frag
              s == IF saved[t] = None THEN 0 ELSE saved[t]
          IN  /\ Step(t, "insert", "done")
              /\ manifest' = [manifest EXCEPT ![f] = Node(s, Actor, TRUE)]
              /\ Settle(t, f, s)
              /\ Drop(t)
              /\ UNCHANGED <<gate, registry, insts, terminated, retired>>

(***************************************************************************)
(* ma_create_entity requested through a local envelope (eventloop.rs).     *)
(***************************************************************************)
StartLocal(t, f) ==
    /\ ma_create_entity
    /\ Begin(t, "local", f, "gate", Node(0, Actor, FALSE))

\* Mutant: the early return keeps the creation gate.
handle_create_request_Leaks(t) ==
    /\ pc[t] = "gate" /\ gate = None
    /\ \/ registry[op[t].frag] # None /\ Step(t, "gate", "done")
       \/ registry[op[t].frag] = None /\ Step(t, "gate", "load")
    /\ gate' = t
    /\ UNCHANGED <<tasks, registry, manifest, insts, terminated, retired, exposed>>

\* Under the gate: nothing to do if the name is taken or the kind unknown.
handle_create_request(t) ==
    /\ pc[t] = "gate" /\ gate = None
    /\ \/ Finish(t, "gate")
       \/ /\ registry[op[t].frag] = None
          /\ Step(t, "gate", "load")
          /\ gate' = t
          /\ UNCHANGED <<tasks, registry, manifest, insts, terminated, retired, exposed>>

LoadLocal(t) ==
    /\ KindOf(t) = "local"
    /\ load(t, "register") \/ load_with_fibonacci_backoff(t, MaxTries, "failed")

insert_if_absent(f, i) ==
    IF registry[f] = None THEN Register(f, i) ELSE UNCHANGED <<registry, retired>>

finish_create_request(t) ==
    /\ KindOf(t) = "local"
    /\ \/ pc[t] = "failed" /\ Finish(t, "failed")
       \/ pc[t] = "register" /\ life[t] = "Error" /\ Finish(t, "register")
       \/ /\ life[t] = "Running"
          /\ LET won == registry[op[t].frag] = None IN
             /\ Step(t, "register", IF won THEN "insert" ELSE "done")
             /\ exposed' = IF won THEN exposed \cup {t} ELSE exposed
          /\ \E s \in Maybe(State) : trigger_save(t, s) /\ saved' = [saved EXCEPT ![t] = s]
          /\ insert_if_absent(op[t].frag, t)
          /\ gate' = None
          /\ UNCHANGED <<op, seen, cur, tries, life, manifest, worker, val, loop, parent,
                         clock, terminated>>

(***************************************************************************)
(* ma_delete_entity and ma_end: by the parent or the entity itself, unless *)
(* it has children.  The manifest keeps the entity, and its worker lives   *)
(* until the last handle is dropped.                                       *)
(***************************************************************************)
HasChildren(f) ==
    \E g \in Fragment : registry[g] # None /\ parent[registry[g]] = f

\* A live entity asks to end itself (ma_end) or another one.
ma_delete_entity(caller) == registry[caller] # None

\* Under the read lock, which is dropped before the removal.
CheckDelete(t, f) ==
    /\ \/ ma_delete_entity(Actor) /\ Skip(t, "delete")
       \/ /\ registry[f] # None
          /\ \E caller \in Fragment :
                /\ ma_delete_entity(caller)
                /\ caller = f \/ parent[registry[f]] = caller
          /\ ~HasChildren(f)
          /\ Begin(t, "delete", f, "remove", None)

process_entity_delete_requests(t) ==
    /\ KindOf(t) = "delete"
    /\ Step(t, "remove", "done")
    /\ Unregister(op[t].frag)
    /\ Drop(t)
    /\ UNCHANGED <<gate, manifest, insts, terminated, exposed>>

\* The event loop handles one CRUD request at a time; what a handler spawns
\* goes on beside the next ones.
drain_crud_messages == \A t \in Task : pc[t] \notin {"drop", "unlink", "link", "config"}

(***************************************************************************)
(* CRUD deletion: registry and worker first, then the manifest.            *)
(***************************************************************************)
StartCrudDelete(t, f) ==
    /\ drain_crud_messages
    /\ IF manifest[f] = None THEN Skip(t, "crudDelete") ELSE Begin(t, "crudDelete", f, "drop", None)

handle_entity_delete(t) ==
    LET f == op[t].frag IN
    /\ KindOf(t) = "crudDelete"
    /\ \/ /\ Step(t, "drop", "unlink")
          /\ Unregister(f)
          /\ terminate_worker(registry[f])
          /\ UNCHANGED <<tasks, gate, manifest, insts, exposed>>
       \/ /\ Step(t, "unlink", "done")
          /\ manifest' = [manifest EXCEPT ![f] = None]
          /\ exposed' = exposed \cup Others(f, None, None)
          /\ Drop(t)
          /\ UNCHANGED <<gate, registry, insts, terminated, retired>>
       \/ "writer" \in Failures /\ Finish(t, "unlink")

(***************************************************************************)
(* CRUD upsert and acl: the node, then a reload of it in the background.   *)
(***************************************************************************)
\* The node the caller published: never run, at the root of the tree.
StartUpsert(t, f) == drain_crud_messages /\ Begin(t, "upsert", f, "link", Node(0, None, FALSE))

handle_entity_upsert(t) ==
    LET f == op[t].frag IN
    /\ KindOf(t) = "upsert"
    /\ \/ "writer" \in Failures /\ Finish(t, "link")
       \/ /\ Step(t, "link", "config")
          /\ WriteNode(None, f, seen[t])
          /\ UNCHANGED <<tasks, gate, registry, insts, terminated, retired>>

\* fetch_entity_node without the writer's lock.
StartAcl(t, f) ==
    drain_crud_messages /\ manifest[f] # None /\ Begin(t, "acl", f, "link", manifest[f])

handle_entity_acl_field(t) ==
    /\ KindOf(t) = "acl"
    /\ \/ "writer" \in Failures /\ Finish(t, "link")
       \/ /\ Step(t, "link", "config")
          /\ WriteNode(None, op[t].frag, seen[t])
          /\ UNCHANGED <<tasks, gate, registry, insts, terminated, retired>>

\* runtime_config_snapshot: without it no reload is started.
SpawnReload(t) ==
    \/ "kubo" \in Failures /\ Finish(t, "config")
    \/ /\ Step(t, "config", "resolve")
       /\ UNCHANGED <<tasks, gate, registry, manifest, insts, terminated, retired, exposed>>

\* One entity of an affected kind, with the node read when the kind changed.
spawn_kind_dependency_reloads_for(t, f) ==
    drain_crud_messages /\ manifest[f] # None /\ Begin(t, "kind", f, "resolve", manifest[f])

(***************************************************************************)
(* The reload task of crud/helpers.rs.                                     *)
(***************************************************************************)
Reloads == {"upsert", "acl", "kind"}

\* The entity that will be replaced, by another reload too perhaps: nothing
\* keeps two reloads of one entity apart.
TakeCurrent(t) ==
    LET c == registry[op[t].frag] IN
    /\ cur' = [cur EXCEPT ![t] = c]
    /\ exposed' = exposed \cup {i \in {c} \ {None} : BeingReplaced(i)}

\* The registry of kinds, then the manifest and Kubo, are asked for the kind.
resolve_kind_node_for_reload_Fails == "kubo" \in Failures

\* The kind is resolved, then the current entity is looked up.
spawn_entity_reload(t) ==
    /\ pc[t] = "resolve"
    /\ \/ resolve_kind_node_for_reload_Fails /\ Step(t, "resolve", "mark") /\ UNCHANGED <<cur, exposed>>
       \/ /\ TakeCurrent(t)
          /\ Step(t, "resolve", IF registry[op[t].frag] = None THEN "load" ELSE "prepare")
    /\ UNCHANGED <<op, seen, saved, tries, life, gate, registry, manifest, insts, terminated,
                   retired>>

\* :shutdown, and the pending state added and marked saved.
prepare_reload_save(t, s) ==
    /\ worker[cur[t]] = "live"
    /\ \/ s = None /\ ~pending[cur[t]] /\ UNCHANGED pending
       \/ s = val[cur[t]] /\ pending[cur[t]] /\ pending' = [pending EXCEPT ![cur[t]] = FALSE]
    /\ saved' = [saved EXCEPT ![t] = s]

PrepareFails(t) == worker[cur[t]] # "live" \/ "signal" \in Failures

\* Mutant: the node read when the reload was asked for is used.
RereadNode_Stale(t) == seen[t]

RereadNode(t) == manifest[op[t].frag]

\* The old worker's state is linked and the node read again; any failure
\* keeps the current plugin.
refresh_entity_before_reload(t) ==
    LET f == op[t].frag IN
    /\ KindOf(t) \in Reloads
    /\ \/ /\ pc[t] = "prepare"
          /\ \/ /\ PrepareFails(t)
                /\ Step(t, "prepare", "mark")
                /\ UNCHANGED <<saved, pending>>
             \/ \E s \in Maybe(State) :
                   /\ prepare_reload_save(t, s)
                   /\ Step(t, "prepare", IF s = None THEN "reread" ELSE "relink")
          /\ UNCHANGED <<op, seen, cur, tries, life, gate, registry, manifest, worker, val,
                         loop, parent, clock, terminated, retired, exposed>>
       \/ /\ manifest[f] = None \/ "writer" \in Failures
          /\ Step(t, "relink", "mark")
          /\ exposed' = exposed \cup {cur[t]}
          /\ UNCHANGED <<tasks, gate, registry, manifest, insts, terminated, retired>>
       \/ /\ manifest[f] # None
          /\ Step(t, "relink", "reread")
          /\ WriteNode(cur[t], f, [manifest[f] EXCEPT !.state = saved[t]])
          /\ UNCHANGED <<tasks, gate, registry, insts, terminated, retired>>
       \/ /\ manifest[f] = None \/ "writer" \in Failures
          /\ Step(t, "reread", "mark")
          /\ UNCHANGED <<tasks, gate, registry, manifest, insts, terminated, retired, exposed>>
       \/ /\ manifest[f] # None
          /\ Step(t, "reread", "load")
          /\ seen' = [seen EXCEPT ![t] = RereadNode(t)]
          /\ UNCHANGED <<op, cur, saved, tries, life, gate, registry, manifest, insts,
                         terminated, retired, exposed>>

LoadReload(t) ==
    /\ KindOf(t) \in Reloads
    /\ load(t, "finish") \/ load_with_fibonacci_backoff(t, MaxTries, "finishFailed")

\* Mutant: the doc comment's promise, the old plugin is put back on failure.
AbandonReload_RollsBack(t) ==
    /\ registry' = [registry EXCEPT ![op[t].frag] = cur[t]]
    /\ retired' = retired
    /\ UNCHANGED terminated

\* On failure the entry goes, whatever it is by now, and the old worker too.
AbandonReload(t) == Unregister(op[t].frag) /\ terminate_worker(cur[t])

InstallReload(t) == Register(op[t].frag, t) /\ terminate_worker(cur[t])

finish_reload(t) ==
    /\ KindOf(t) \in Reloads
    /\ \/ /\ \/ Step(t, "finishFailed", "mark")
             \/ life[t] = "Error" /\ cur[t] # None /\ Step(t, "finish", "mark")
          /\ AbandonReload(t)
          /\ UNCHANGED <<tasks, gate, manifest, insts, exposed>>
       \/ /\ life[t] = "Running" \/ cur[t] = None
          /\ Step(t, "finish", IF life[t] = "Running" THEN "complete" ELSE "done")
          /\ \E s \in Maybe(State) :
                /\ trigger_save(t, s)
                /\ saved' = [saved EXCEPT ![t] = s]
                /\ exposed' = IF s = None THEN exposed ELSE exposed \cup {t}
          /\ InstallReload(t)
          /\ UNCHANGED <<op, seen, cur, tries, life, gate, manifest, worker, val, loop,
                         parent, clock>>

complete_entity_reload(t) ==
    LET f == op[t].frag IN
    \/ (manifest[f] = None \/ "writer" \in Failures) /\ Finish(t, "complete")
    \/ /\ manifest[f] # None
       /\ Step(t, "complete", "done")
       /\ LET n == [manifest[f] EXCEPT !.initialised = TRUE, !.reload_error = FALSE,
                                       !.state = IF saved[t] = None THEN @ ELSE saved[t]]
          IN  /\ manifest' = [manifest EXCEPT ![f] = n]
              /\ Settle(t, f, n.state)
       /\ Drop(t)
       /\ UNCHANGED <<gate, registry, insts, terminated, retired>>

mark_entity_reload_failed(t) ==
    LET f == op[t].frag IN
    \/ (manifest[f] = None \/ "writer" \in Failures) /\ Finish(t, "mark")
    \/ /\ manifest[f] # None
       /\ Step(t, "mark", "done")
       /\ manifest' = [manifest EXCEPT ![f].reload_error = TRUE]
       /\ Drop(t)
       /\ UNCHANGED <<gate, registry, insts, terminated, retired, exposed>>

(***************************************************************************)
(* ma_set_behaviour (dispatch.rs): a reload within the handler.            *)
(***************************************************************************)
\* An entity asks for a change of its own behaviour.
ma_set_behaviour(f) == registry[f] # None

StartBehaviour(t, f) == ma_set_behaviour(f) /\ Begin(t, "behaviour", f, "current", None)

apply_behaviour_request(t) ==
    LET f == op[t].frag IN
    /\ KindOf(t) = "behaviour"
    /\ \/ /\ Step(t, "current", IF registry[f] = None THEN "node" ELSE "prepare")
          /\ TakeCurrent(t)
          /\ UNCHANGED <<op, seen, saved, tries, life, gate, registry, manifest, insts,
                         terminated, retired>>
       \/ /\ pc[t] = "prepare"  \* a failure to save is logged and ignored
          /\ \/ /\ PrepareFails(t) /\ Step(t, "prepare", "node")
                /\ exposed' = exposed \cup {cur[t]}
                /\ UNCHANGED <<saved, pending>>
             \/ \E s \in Maybe(State) :
                   /\ prepare_reload_save(t, s)
                   /\ Step(t, "prepare", IF s = None THEN "node" ELSE "relink")
                   /\ UNCHANGED exposed
          /\ UNCHANGED <<op, seen, cur, tries, life, gate, registry, manifest, worker, val,
                         loop, parent, clock, terminated, retired>>
       \/ /\ manifest[f] = None \/ "writer" \in Failures
          /\ Step(t, "relink", "done")
          /\ exposed' = exposed \cup {cur[t]}
          /\ Drop(t)
          /\ UNCHANGED <<gate, registry, manifest, insts, terminated, retired>>
       \/ /\ manifest[f] # None
          /\ Step(t, "relink", "node")
          /\ WriteNode(cur[t], f, [manifest[f] EXCEPT !.state = saved[t]])
          /\ UNCHANGED <<tasks, gate, registry, insts, terminated, retired>>

\* The node as the manifest has it, taken as initialised if the entity runs.
load_entity_node_for_update(t) ==
    LET f == op[t].frag IN
    \/ (manifest[f] = None \/ "kubo" \in Failures) /\ Finish(t, "node")
    \/ /\ manifest[f] # None
       /\ Step(t, "node", "load")
       /\ seen' = [seen EXCEPT ![t] = [manifest[f] EXCEPT !.initialised = @ \/ cur[t] # None]]
       /\ UNCHANGED <<op, cur, saved, tries, life, gate, registry, manifest, insts,
                      terminated, retired, exposed>>

LoadBehaviour(t) ==
    /\ KindOf(t) = "behaviour"
    /\ load(t, "behaviour") \/ load_with_fibonacci_backoff(t, MaxTries, "done")

\* The new worker's state is saved, the behaviour and the state are linked.
set_entity_behaviour(t) ==
    LET f == op[t].frag IN
    \/ /\ manifest[f] = None \/ "writer" \in Failures
       /\ Finish(t, "behaviour")
    \/ /\ manifest[f] # None
       /\ Step(t, "behaviour", "state")
       /\ \E s \in Maybe(State) :
             /\ trigger_save(t, s)
             /\ saved' = [saved EXCEPT ![t] = s]
             /\ exposed' = IF s = None THEN exposed ELSE exposed \cup {t}
       /\ manifest' = [manifest EXCEPT ![f].initialised = TRUE]
       /\ UNCHANGED <<op, seen, cur, tries, life, gate, registry, worker, val, loop, parent,
                      clock, terminated, retired>>

LinkNewState(t) ==
    LET f == op[t].frag IN
    /\ Step(t, "state", "swap")
    /\ \/ saved[t] = None /\ UNCHANGED <<manifest, exposed>>
       \/ /\ saved[t] # None /\ (manifest[f] = None \/ "writer" \in Failures)
          /\ UNCHANGED <<manifest, exposed>>
       \/ /\ saved[t] # None /\ manifest[f] # None
          /\ manifest' = [manifest EXCEPT ![f].state = saved[t]]
          /\ Settle(t, f, saved[t])
    /\ UNCHANGED <<tasks, gate, registry, insts, terminated, retired>>

SwapBehaviour(t) ==
    /\ Step(t, "swap", "done")
    /\ InstallReload(t)
    /\ Drop(t)
    /\ UNCHANGED <<gate, manifest, insts, exposed>>

(***************************************************************************)
(* Instances: messages, the persist loop, the end of a worker.             *)
(***************************************************************************)
\* After :shutdown the replacement will not know of a change.
Replacing(i) == \E t \in Task : cur[t] = i /\ pc[t] # "prepare"

\* A handler that looked the entity up delivers its message, perhaps late;
\* spawn_state_persist starts a loop with the new bytes unless one runs.
Change(i) ==
    /\ worker[i] = "live" /\ clock < MaxChanges /\ FragmentOf(i) \in Target
    /\ i \in retired \/ registry[FragmentOf(i)] = i
    /\ clock' = clock + 1
    /\ val' = [val EXCEPT ![i] = clock + 1]
    /\ pending' = [pending EXCEPT ![i] = TRUE]
    /\ loop' = [loop EXCEPT ![i] = IF @ = None THEN clock + 1 ELSE @]
    /\ exposed' = IF Replacing(i) THEN exposed \cup {i} ELSE exposed
    /\ UNCHANGED <<tasks, pc, gate, registry, manifest, worker, parent, terminated, retired>>

\* The next bytes of the loop: what the worker, if there is one, has pending.
pending_state_snapshot(i, isPending) ==
    IF worker[i] = "live" /\ isPending THEN val[i] ELSE None

\* run_state_persist_loop links its bytes by fragment, whoever bears the name
\* now, and marks them saved.
Persist(i) ==
    LET f     == FragmentOf(i)
        still == pending[i] /\ val[i] # loop[i]
    IN  /\ loop[i] # None /\ manifest[f] # None
        /\ manifest' = [manifest EXCEPT ![f].state = loop[i]]
        /\ exposed' = exposed \cup Others(f, i, loop[i])
                      \cup (IF val[i] # loop[i] /\ ~pending[i] THEN {i} ELSE {})
        /\ pending' = [pending EXCEPT ![i] = still]
        /\ loop' = [loop EXCEPT ![i] = pending_state_snapshot(i, still)]
        /\ UNCHANGED <<tasks, pc, gate, registry, worker, val, parent, clock, terminated,
                       retired>>

\* A failed attempt; with the worker gone, or its state saved by another
\* path, there is nothing more to write.
PersistFails(i) ==
    /\ loop[i] # None
    /\ manifest[FragmentOf(i)] = None \/ {"writer", "kubo"} \cap Failures # {}
    /\ loop' = [loop EXCEPT ![i] = pending_state_snapshot(i, pending[i])]
    /\ loop' # loop
    /\ UNCHANGED <<tasks, pc, gate, registry, manifest, worker, val, pending, parent, clock,
                   terminated, retired, exposed>>

Held(i) ==
    \/ registry[FragmentOf(i)] = i
    \/ loop[i] # None
    \/ i \in Task /\ pc[i] # "done"
    \/ \E t \in Task : cur[t] = i

\* Terminate is taken from the mailbox, or the last handle is dropped.
WorkerEnds(i) ==
    /\ worker[i] = "live"
    /\ i \in terminated \/ ~Held(i)
    /\ worker' = [worker EXCEPT ![i] = "ended"]
    /\ UNCHANGED <<tasks, pc, gate, registry, manifest, val, pending, loop, parent, clock,
                   terminated, retired, exposed>>

\* The handler's timeout; spawned tasks have none.
Cut(t) ==
    /\ Cutoffs
    /\ \/ KindOf(t) \in {"create", "local", "behaviour"} /\ pc[t] \notin {"insert", "done"}
       \/ pc[t] \in {"drop", "unlink", "remove", "link", "config"}
    /\ pc' = [pc EXCEPT ![t] = "done"]
    /\ gate' = IF gate = t THEN None ELSE gate
    /\ exposed' = IF pc[t] = "relink" THEN exposed \cup {cur[t]} ELSE exposed
    /\ Drop(t)
    /\ UNCHANGED <<registry, manifest, insts, terminated, retired>>

-----------------------------------------------------------------------------
\* An entity a boot may find: as publish_entities stored it, or run before.
publish_entities == {Node(0, None, b) : b \in BOOLEAN}

\* The entity is loaded or left out; that :init was delivered may have gone
\* unrecorded.
load_wasm_entity(f) == registry[f] \in {None, f} /\ (registry[f] = f => manifest[f] # None)

\* A boot loads the entities of the manifest.
load_entities ==
    /\ registry \in [Fragment -> Maybe(Fragment)]
    /\ \A f \in Fragment : load_wasm_entity(f)

Init ==
    /\ manifest \in [Fragment -> Maybe(publish_entities)]
    /\ load_entities
    /\ \A f \in Fragment \ Target : registry[f] = f /\ manifest[f].initialised
    /\ worker = [i \in Instance |-> IF i \in Fragment /\ registry[i] = i THEN "live" ELSE "none"]
    /\ op = [t \in Task |-> [kind |-> None, frag |-> Actor]] /\ pc = [t \in Task |-> "idle"]
    /\ seen = [t \in Task |-> None] /\ cur = [t \in Task |-> None]
    /\ saved = [t \in Task |-> None] /\ tries = [t \in Task |-> 0]
    /\ life = [t \in Task |-> "Running"]
    /\ val = [i \in Instance |-> 0] /\ pending = [i \in Instance |-> FALSE]
    /\ loop = [i \in Instance |-> None] /\ parent = [i \in Instance |-> None]
    /\ gate = None /\ terminated = {} /\ clock = 0
    /\ retired = {} /\ exposed = {}

Start(t, f) ==
    \/ process_entity_create_requests(t, f)
    \/ StartLocal(t, f)
    \/ CheckDelete(t, f)
    \/ StartCrudDelete(t, f)
    \/ StartUpsert(t, f)
    \/ StartAcl(t, f)
    \/ spawn_kind_dependency_reloads_for(t, f)
    \/ StartBehaviour(t, f)

Progress(t) ==
    \/ create_entity_from_request(t)
    \/ finish_created_entity(t)
    \/ insert_entity(t)
    \/ handle_create_request(t)
    \/ LoadLocal(t)
    \/ finish_create_request(t)
    \/ process_entity_delete_requests(t)
    \/ handle_entity_delete(t)
    \/ handle_entity_upsert(t)
    \/ handle_entity_acl_field(t)
    \/ SpawnReload(t)
    \/ spawn_entity_reload(t)
    \/ refresh_entity_before_reload(t)
    \/ LoadReload(t)
    \/ finish_reload(t)
    \/ complete_entity_reload(t)
    \/ mark_entity_reload_failed(t)
    \/ apply_behaviour_request(t)
    \/ load_entity_node_for_update(t)
    \/ LoadBehaviour(t)
    \/ set_entity_behaviour(t)
    \/ LinkNewState(t)
    \/ SwapBehaviour(t)

Next ==
    \/ \E t \in Task, f \in Target : Start(t, f)
    \/ \E t \in Task : Progress(t) \/ Cut(t)
    \/ \E i \in Instance : Change(i) \/ Persist(i) \/ PersistFails(i) \/ WorkerEnds(i)

Spec == Init /\ [][Next]_vars

-----------------------------------------------------------------------------
Loading == {"load", "failed", "register"}
PC == {"idle", "gate", "remove", "drop", "unlink", "link", "config", "resolve", "prepare",
       "relink", "reread", "finish", "finishFailed", "mark", "complete", "insert", "current",
       "node", "behaviour", "state", "swap", "done"} \cup Loading

(* Every variable has its type, and the creation gate is held exactly by the  *)
(* local creation that is loading: no early return, failure or cut-off leaves *)
(* it taken.                                                                  *)
TypeOK ==
    /\ op \in [Task -> [kind : Maybe(AllOps), frag : Fragment]]
    /\ pc \in [Task -> PC]
    /\ seen \in [Task -> Maybe(EntityNode)]
    /\ cur \in [Task -> Maybe(Instance)]
    /\ saved \in [Task -> Maybe(State)]
    /\ tries \in [Task -> 0 .. MaxTries]
    /\ life \in [Task -> {"Running", "Error"}]
    /\ registry \in [Fragment -> Maybe(Instance)]
    /\ manifest \in [Fragment -> Maybe(EntityNode)]
    /\ worker \in [Instance -> {"none", "live", "ended"}]
    /\ val \in [Instance -> State] /\ clock \in State
    /\ pending \in [Instance -> BOOLEAN] /\ loop \in [Instance -> Maybe(State)]
    /\ parent \in [Instance -> Maybe(Fragment)]
    /\ terminated \subseteq Instance /\ retired \subseteq Instance /\ exposed \subseteq Instance
    /\ gate \in Maybe(Task)
    /\ \A t \in Task : gate = t <=> KindOf(t) = "local" /\ pc[t] \in Loading

(* terminate_worker: "after it has been removed from the live registry or     *)
(* superseded".  Whatever creations, deletions and reloads of one name        *)
(* interleave, the registry never leads to a worker that was told to stop,    *)
(* and an instance that has left the registry never comes back.               *)
RegistryFresh ==
    \A f \in Fragment : LET i == registry[f] IN
       i # None => /\ worker[i] = "live"
                   /\ i \notin terminated \cup retired
                   /\ FragmentOf(i) = f

(* refresh_entity_before_reload: "so the reload sees that state CID".  The    *)
(* instance a reload installs starts from the state of the one it replaces,   *)
(* pending or not, unless that state was lost before: changed after :shutdown,*)
(* marked saved but never linked, or overwritten by another writer.           *)
ReloadKeepsState ==
    [][\A t \in Task : LET f == op[t].frag IN
          /\ pc[t] = "finish" /\ pc'[t] # "finish" /\ registry'[f] = t
          /\ cur[t] # None /\ registry[f] = cur[t] /\ cur[t] \notin exposed
          => seen[t].state = val[cur[t]]]_vars

=============================================================================
