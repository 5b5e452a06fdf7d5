----------------------- MODULE EntityLifecycle_proofs -----------------------
(***************************************************************************)
(* Proofs about EntityLifecycle, for every set of fragments and tasks.     *)
(***************************************************************************)
EXTENDS EntityLifecycle, TLAPS

(***************************************************************************)
(* Types.  TypeOK in three parts, and what a task holds where it needs it. *)
(***************************************************************************)
TasksOK ==
    /\ op \in [Task -> [kind : Maybe(AllOps), frag : Fragment]]
    /\ pc \in [Task -> PC]
    /\ seen \in [Task -> Maybe(EntityNode)]
    /\ cur \in [Task -> Maybe(Instance)]
    /\ saved \in [Task -> Maybe(State)]
    /\ tries \in [Task -> 0 .. MaxTries]
    /\ life \in [Task -> {"Running", "Error"}]

WorldOK ==
    /\ registry \in [Fragment -> Maybe(Instance)]
    /\ manifest \in [Fragment -> Maybe(EntityNode)]
    /\ worker \in [Instance -> {"none", "live", "ended"}]
    /\ val \in [Instance -> State] /\ clock \in State
    /\ pending \in [Instance -> BOOLEAN] /\ loop \in [Instance -> Maybe(State)]
    /\ parent \in [Instance -> Maybe(Fragment)]
    /\ terminated \subseteq Instance /\ retired \subseteq Instance /\ exposed \subseteq Instance

GateOK ==
    /\ gate \in Maybe(Task)
    /\ \A t \in Task : gate = t <=> KindOf(t) = "local" /\ pc[t] \in Loading

\* Only local creations pass the gate; a task that will load has a node, one
\* that prepares or links a state has an instance, and the latter a state.
PlaceOK(t) ==
    /\ pc[t] = "gate" => KindOf(t) = "local"
    /\ KindOf(t) = "local" => pc[t] \in {"gate", "load", "failed", "register", "insert", "done"}
    /\ pc[t] \in {"gate", "load", "link", "config", "resolve"} => seen[t] \in EntityNode
    /\ pc[t] \in {"prepare", "relink"} => cur[t] \in Instance
    /\ pc[t] = "relink" => saved[t] \in State

TypeInv == TasksOK /\ WorldOK /\ GateOK /\ \A t \in Task : PlaceOK(t)

(* The parts of TypeInv give TypeOK. *)
LEMMA TypeInvImplies == TypeInv => TypeOK
  BY DEF TypeInv, TypeOK, TasksOK, WorldOK, GateOK

\* Everything about tasks other than t is as before.
OnlyTask(t) ==
    \A u \in Task \ {t} : /\ op'[u] = op[u] /\ pc'[u] = pc[u] /\ seen'[u] = seen[u]
                          /\ cur'[u] = cur[u] /\ saved'[u] = saved[u]

(* The numbers and None. *)
LEMMA StateFacts ==
    /\ None \notin State /\ 0 \in State /\ None \notin Instance
    /\ clock \in State /\ clock < MaxChanges => clock + 1 \in State
  BY LifecycleAssumption DEF State, Instance

(* What Drop leaves. *)
LEMMA DropTypes ==
    ASSUME TasksOK, NEW t \in Task, Drop(t), pc' = [pc EXCEPT ![t] = "done"]
    PROVE  /\ TasksOK'
           /\ OnlyTask(t)
           /\ op'[t].kind = None /\ op'[t].frag = op[t].frag /\ cur'[t] = None /\ pc'[t] = "done"
  <1>1. "done" \in PC /\ 0 \in 0 .. MaxTries
    BY LifecycleAssumption DEF PC
  <1>2. op' \in [Task -> [kind : Maybe(AllOps), frag : Fragment]]
    BY DEF TasksOK, Drop, Maybe
  <1> QED BY <1>1, <1>2 DEF TasksOK, Drop, Maybe, OnlyTask

(* Tasks that are left alone keep their place. *)
LEMMA OthersKeepPlace ==
    ASSUME NEW t \in Task, OnlyTask(t), \A u \in Task : PlaceOK(u), PlaceOK(t)'
    PROVE  \A u \in Task : PlaceOK(u)'
  BY DEF OnlyTask, PlaceOK, KindOf

(* A task that is done is in its place. *)
LEMMA DonePlace ==
    ASSUME NEW t \in Task, pc'[t] = "done"
    PROVE  PlaceOK(t)'
  BY DEF PlaceOK, KindOf

(* The gate after a step of t, released if t held it and leaves Loading. *)
LEMMA GateReleased ==
    ASSUME GateOK, NEW t \in Task, OnlyTask(t), pc'[t] \notin Loading,
           gate' = IF gate = t THEN None ELSE gate
    PROVE  GateOK'
  BY LifecycleAssumption DEF GateOK, OnlyTask, KindOf, Maybe

(* The gate after a step of a task that has nothing to do with it. *)
LEMMA GateKept ==
    ASSUME GateOK, NEW t \in Task, OnlyTask(t), UNCHANGED gate,
           (KindOf(t) = "local" /\ pc[t] \in Loading) <=> (KindOf(t)' = "local" /\ pc'[t] \in Loading)
    PROVE  GateOK'
  BY DEF GateOK, OnlyTask, KindOf, Maybe

(* Finish keeps the types. *)
LEMMA FinishTypes ==
    ASSUME TypeInv, NEW t \in Task, NEW from, Finish(t, from)
    PROVE  TypeInv'
  <1>1. pc' = [pc EXCEPT ![t] = "done"]
    BY DEF Finish, Step
  <1>2. TasksOK' /\ OnlyTask(t) /\ pc'[t] = "done"
    BY <1>1, DropTypes DEF Finish, TypeInv
  <1>3. \A u \in Task : PlaceOK(u)'
    BY <1>2, OthersKeepPlace, DonePlace DEF TypeInv
  <1>4. GateOK'
    BY <1>2, GateReleased DEF Finish, TypeInv, Loading
  <1>5. WorldOK'
    BY DEF Finish, TypeInv, WorldOK, insts
  <1> QED BY <1>2, <1>3, <1>4, <1>5 DEF TypeInv

(* All parts together, after a step of t. *)
LEMMA StepTypes ==
    ASSUME TypeInv, NEW t \in Task, OnlyTask(t), TasksOK', PlaceOK(t)', GateOK', WorldOK'
    PROVE  TypeInv'
  BY OthersKeepPlace DEF TypeInv

(* A step that changes the task's place and none of its locals. *)
LEMMA MoveTypes ==
    ASSUME TasksOK, NEW t \in Task, NEW from, NEW to \in PC, Step(t, from, to), UNCHANGED tasks
    PROVE  TasksOK' /\ OnlyTask(t) /\ pc[t] = from /\ pc'[t] = to
  BY DEF TasksOK, Step, OnlyTask, tasks

(* Begin. *)
LEMMA BeginTypes ==
    ASSUME TypeInv, NEW t \in Task, NEW f \in Fragment, NEW k \in AllOps, NEW n \in Maybe(EntityNode),
           NEW to \in {"load", "gate", "remove", "drop", "link", "resolve", "current"},
           Begin(t, k, f, to, n),
           k = "local" <=> to = "gate",
           to \in {"load", "gate", "link", "resolve"} => n \in EntityNode
    PROVE  TypeInv'
  <1>1. TasksOK' /\ OnlyTask(t) /\ pc[t] = "idle" /\ pc'[t] = to /\ KindOf(t)' = k /\ seen'[t] = n
    BY DEF TypeInv, TasksOK, Begin, Step, PC, Loading, OnlyTask, KindOf, Maybe
  <1>2. PlaceOK(t)'
    BY <1>1 DEF PlaceOK
  <1>3. GateOK'
    BY <1>1, GateKept DEF TypeInv, Begin, Loading
  <1>4. WorldOK'
    BY DEF TypeInv, Begin, WorldOK, insts
  <1> QED BY <1>1, <1>2, <1>3, <1>4, StepTypes

(* Skip. *)
LEMMA SkipTypes ==
    ASSUME TypeInv, NEW t \in Task, NEW k, Skip(t, k)
    PROVE  TypeInv'
  <1>1. "done" \in PC
    BY DEF PC
  <1>2. TasksOK' /\ OnlyTask(t) /\ pc[t] = "idle" /\ pc'[t] = "done"
    BY <1>1, MoveTypes DEF Skip, TypeInv
  <1>3. GateOK'
    BY <1>2, GateKept DEF TypeInv, Skip, Loading
  <1>4. WorldOK'
    BY DEF TypeInv, Skip, WorldOK, insts
  <1> QED BY <1>2, <1>3, <1>4, StepTypes, DonePlace

(* Registering, unregistering and terminating. *)
LEMMA RegisterTypes ==
    ASSUME registry \in [Fragment -> Maybe(Instance)], retired \subseteq Instance,
           NEW f \in Fragment, NEW i \in Instance, Register(f, i) \/ Unregister(f)
    PROVE  registry' \in [Fragment -> Maybe(Instance)] /\ retired' \subseteq Instance
  BY DEF Register, Unregister, Maybe

(* Terminate is sent to instances only. *)
LEMMA TerminateTypes ==
    ASSUME terminated \subseteq Instance, NEW i \in Maybe(Instance), terminate_worker(i)
    PROVE  terminated' \subseteq Instance
  BY DEF terminate_worker, Maybe

(* Settle and Others only name instances. *)
LEMMA SettleTypes ==
    ASSUME exposed \subseteq Instance, NEW t \in Task, NEW f, NEW s, Settle(t, f, s)
    PROVE  exposed' \subseteq Instance
  BY DEF Settle, Others, Instance

(* Saving yields a state or nothing. *)
LEMMA SaveTypes ==
    ASSUME WorldOK, NEW i \in Instance, NEW s, trigger_save(i, s)
    PROVE  pending' \in [Instance -> BOOLEAN] /\ s \in Maybe(State)
  <1>1. val[i] \in State /\ pending \in [Instance -> BOOLEAN]
    BY DEF WorldOK
  <1>2. CASE pending' = [pending EXCEPT ![i] = FALSE]
    BY <1>1, <1>2 DEF trigger_save, Maybe
  <1>3. CASE UNCHANGED pending
    BY <1>1, <1>3 DEF trigger_save, Maybe
  <1> QED BY <1>2, <1>3 DEF trigger_save

(* The nodes that are written. *)
LEMMA NodeTypes ==
    ASSUME NEW s \in State, NEW p \in Maybe(Fragment), NEW b \in BOOLEAN
    PROVE  Node(s, p, b) \in EntityNode
  BY DEF Node, EntityNode

(* The updates of a node the writers make yield nodes. *)
LEMMA NodeUpdates ==
    ASSUME NEW n \in EntityNode
    PROVE  /\ \A s \in State : [n EXCEPT !.state = s] \in EntityNode
           /\ \A b \in BOOLEAN : [n EXCEPT !.initialised = b] \in EntityNode
           /\ [n EXCEPT !.reload_error = TRUE] \in EntityNode
           /\ \A s \in State : [n EXCEPT !.initialised = TRUE, !.reload_error = FALSE, !.state = s] \in EntityNode
  BY DEF EntityNode

(* The start of an operation. *)
LEMMA StartKeepsTypes ==
    ASSUME TypeInv, NEW t \in Task, NEW f \in Target, Start(t, f)
    PROVE  TypeInv'
  <1>0. /\ f \in Fragment /\ Actor \in Fragment /\ 0 \in State
        /\ manifest[f] \in Maybe(EntityNode) /\ None \in Maybe(EntityNode)
    BY LifecycleAssumption, StateFacts DEF TypeInv, WorldOK, Maybe
  <1>1. Node(0, Actor, FALSE) \in EntityNode /\ Node(0, None, FALSE) \in EntityNode
    BY <1>0, NodeTypes DEF Maybe
  <1>2. /\ Node(0, Actor, FALSE) \in Maybe(EntityNode) /\ Node(0, None, FALSE) \in Maybe(EntityNode)
        /\ manifest[f] # None => manifest[f] \in EntityNode
    BY <1>0, <1>1 DEF Maybe
  <1> DEFINE places == {"load", "gate", "remove", "drop", "link", "resolve", "current"}
  <1>3. \A k \in AllOps \ {"local"}, to \in places \ {"gate"}, n \in Maybe(EntityNode) :
           Begin(t, k, f, to, n) /\ (to \in {"load", "link", "resolve"} => n \in EntityNode) => TypeInv'
    BY <1>0, BeginTypes
  <1>4. Begin(t, "local", f, "gate", Node(0, Actor, FALSE)) => TypeInv'
    BY <1>0, <1>1, <1>2, BeginTypes DEF AllOps
  <1>5. \A k : Skip(t, k) => TypeInv'
    BY SkipTypes
  <1>6. {"create", "delete", "crudDelete", "upsert", "acl", "kind", "behaviour"} \subseteq AllOps \ {"local"}
    BY DEF AllOps
  <1>7. CASE process_entity_create_requests(t, f)
    BY <1>1, <1>2, <1>3, <1>5, <1>6, <1>7 DEF process_entity_create_requests
  <1>8. CASE StartLocal(t, f)
    BY <1>4, <1>8 DEF StartLocal
  <1>9. CASE CheckDelete(t, f)
    BY <1>0, <1>3, <1>5, <1>6, <1>9 DEF CheckDelete
  <1>10. CASE StartCrudDelete(t, f)
    BY <1>0, <1>3, <1>5, <1>6, <1>10 DEF StartCrudDelete
  <1>11. CASE StartUpsert(t, f)
    BY <1>1, <1>2, <1>3, <1>6, <1>11 DEF StartUpsert
  <1>12. CASE StartAcl(t, f)
    BY <1>0, <1>2, <1>3, <1>6, <1>12 DEF StartAcl
  <1>13. CASE spawn_kind_dependency_reloads_for(t, f)
    BY <1>0, <1>2, <1>3, <1>6, <1>13 DEF spawn_kind_dependency_reloads_for
  <1>14. CASE StartBehaviour(t, f)
    BY <1>0, <1>3, <1>6, <1>14 DEF StartBehaviour
  <1> QED BY <1>7, <1>8, <1>9, <1>10, <1>11, <1>12, <1>13, <1>14 DEF Start

(* EntityPlugin::load with success. *)
LEMMA LoadKeepsTypes ==
    ASSUME TypeInv, NEW t \in Task, NEW to \in {"register", "finish", "behaviour"}, load(t, to),
           KindOf(t) = "local" => to = "register"
    PROVE  TypeInv'
  <1>0. t \in Instance /\ to \in PC /\ pc[t] = "load" /\ seen[t] \in EntityNode /\ 0 \in 0 .. MaxTries
    BY LifecycleAssumption DEF TypeInv, PlaceOK, load, Step, Instance, PC, Loading
  <1>1. life' \in [Task -> {"Running", "Error"}]
    BY DEF TypeInv, TasksOK, load, run_genesis_and_start
  <1>2. TasksOK' /\ OnlyTask(t) /\ pc'[t] = to /\ UNCHANGED <<op, gate>>
    BY <1>0, <1>1 DEF TypeInv, TasksOK, load, Step, OnlyTask
  <1>3. PlaceOK(t)'
    BY <1>2 DEF PlaceOK, KindOf
  <1>4. GateOK'
    BY <1>0, <1>2, GateKept DEF TypeInv, Loading, KindOf
  <1>5. seen[t].state \in State /\ seen[t].parent \in Maybe(Fragment)
    BY <1>0 DEF EntityNode
  <1>6. /\ val' \in [Instance -> State] /\ clock' \in State /\ exposed' \subseteq Instance
        /\ pending' \in [Instance -> BOOLEAN]
    <2>1. CASE UNCHANGED <<pending, clock>>
      BY <1>0, <1>5, <2>1, StateFacts DEF TypeInv, WorldOK, load
    <2>2. CASE /\ clock < MaxChanges /\ clock' = clock + 1 /\ val' = [val EXCEPT ![t] = clock + 1]
               /\ pending' = [pending EXCEPT ![t] = TRUE] /\ UNCHANGED exposed
      BY <1>0, <2>2, StateFacts DEF TypeInv, WorldOK
    <2> QED BY <2>1, <2>2 DEF load
  <1>7. WorldOK'
    BY <1>0, <1>5, <1>6 DEF TypeInv, WorldOK, load
  <1> QED BY <1>2, <1>3, <1>4, <1>7, StepTypes

(* A load that fails, with another attempt or the end of the task. *)
LEMMA LoadFailsKeepsTypes ==
    ASSUME TypeInv, NEW t \in Task, NEW n \in 1 .. MaxTries, NEW to \in {"done", "failed", "finishFailed"},
           load_with_fibonacci_backoff(t, n, to),
           KindOf(t) = "local" => to = "failed"
    PROVE  TypeInv'
  <1>0. tries[t] \in Nat /\ MaxTries \in Nat /\ n <= MaxTries /\ pc[t] = "load" /\ to \in PC
    BY LifecycleAssumption DEF TypeInv, TasksOK, PC, Loading, load_with_fibonacci_backoff
  <1>1. WorldOK' /\ UNCHANGED gate
    BY DEF TypeInv, WorldOK, load_with_fibonacci_backoff, insts
  <1>2. CASE tries' = [tries EXCEPT ![t] = @ + 1] /\ tries[t] + 1 < n /\ UNCHANGED <<pc, op, seen, cur, saved, life>>
    <2>1. tries[t] + 1 \in 0 .. MaxTries
      BY <1>0, <1>2
    <2>2. TasksOK'
      BY <1>2, <2>1 DEF TypeInv, TasksOK
    <2> QED BY <1>1, <1>2, <2>2 DEF TypeInv, PlaceOK, GateOK, KindOf
  <1>3. CASE Step(t, "load", to) /\ UNCHANGED tasks
    <2>1. TasksOK' /\ OnlyTask(t) /\ pc[t] = "load" /\ pc'[t] = to /\ UNCHANGED op
      BY <1>0, <1>3, MoveTypes DEF TypeInv, tasks
    <2>2. PlaceOK(t)'
      BY <2>1 DEF PlaceOK, KindOf
    <2>3. GateOK'
      BY <1>1, <2>1, GateKept DEF TypeInv, Loading, KindOf
    <2> QED BY <1>1, <2>1, <2>2, <2>3, StepTypes
  <1>4. CASE to = "done" /\ Step(t, "load", to) /\ Drop(t)
    <2>1. TasksOK' /\ OnlyTask(t) /\ pc'[t] = "done"
      BY <1>4, DropTypes DEF TypeInv, Step
    <2>2. GateOK'
      BY <1>1, <1>4, <2>1, GateKept DEF TypeInv, Loading, KindOf
    <2> QED BY <1>1, <2>1, <2>2, DonePlace, StepTypes
  <1> QED BY <1>2, <1>3, <1>4 DEF load_with_fibonacci_backoff

(* A task ends that does not hold the gate. *)
LEMMA EndKeepsTypes ==
    ASSUME TypeInv, NEW t \in Task, Drop(t), pc' = [pc EXCEPT ![t] = "done"], WorldOK',
           \/ gate' = IF gate = t THEN None ELSE gate
           \/ pc[t] \notin Loading /\ UNCHANGED gate
    PROVE  TypeInv'
  <1>1. TasksOK' /\ OnlyTask(t) /\ pc'[t] = "done" /\ pc'[t] \notin Loading
    BY DropTypes DEF TypeInv, Loading
  <1>2. CASE gate' = IF gate = t THEN None ELSE gate
    BY <1>1, <1>2, GateReleased, DonePlace, StepTypes DEF TypeInv
  <1>3. CASE pc[t] \notin Loading /\ UNCHANGED gate
    <2>1. GateOK'
      BY <1>1, <1>3, GateKept DEF TypeInv
    <2> QED BY <1>1, <2>1, DonePlace, StepTypes
  <1> QED BY <1>2, <1>3

(* A task that is no local creation moves on. *)
LEMMA MoveKeepsTypes ==
    ASSUME TypeInv, NEW t \in Task, KindOf(t) # "local", UNCHANGED <<op, gate>>,
           TasksOK', OnlyTask(t), WorldOK',
           pc'[t] # "gate",
           pc'[t] \in {"load", "link", "config", "resolve"} => seen'[t] \in EntityNode,
           pc'[t] \in {"prepare", "relink"} => cur'[t] \in Instance,
           pc'[t] = "relink" => saved'[t] \in State
    PROVE  TypeInv'
  <1>1. PlaceOK(t)'
    BY DEF PlaceOK, KindOf
  <1>2. GateOK'
    BY GateKept DEF TypeInv, KindOf
  <1> QED BY <1>1, <1>2, StepTypes

(* Creation by a message. *)
LEMMA CreateKeepsTypes ==
    ASSUME TypeInv, NEW t \in Task,
           create_entity_from_request(t) \/ finish_created_entity(t) \/ insert_entity(t)
    PROVE  TypeInv'
  <1>a. 1 \in 1 .. MaxTries
    BY LifecycleAssumption
  <1>0. t \in Instance /\ op[t].frag \in Fragment /\ WorldOK /\ TasksOK
    BY DEF TypeInv, TasksOK, Instance
  <1>1. CASE create_entity_from_request(t)
    BY <1>0, <1>a, <1>1, LoadKeepsTypes, LoadFailsKeepsTypes DEF create_entity_from_request
  <1>2. CASE finish_created_entity(t)
    <2>1. CASE Finish(t, "register")
      BY <2>1, FinishTypes
    <2>2. CASE Step(t, "register", "insert")
      <3>1. PICK s \in Maybe(State) : trigger_save(t, s) /\ saved' = [saved EXCEPT ![t] = s]
        BY <1>2, <2>2 DEF finish_created_entity, Finish, Step, TypeInv, TasksOK
      <3>2. /\ Register(op[t].frag, t) /\ exposed' = exposed \cup {t}
            /\ UNCHANGED <<op, seen, cur, tries, life, gate, manifest, worker, val, loop, parent, clock, terminated>>
        BY <1>2, <2>2 DEF finish_created_entity, Finish, Step, TypeInv, TasksOK
      <3>3. TasksOK' /\ OnlyTask(t) /\ pc'[t] = "insert"
        BY <2>2, <3>1, <3>2 DEF TypeInv, TasksOK, Step, PC, OnlyTask
      <3>4. WorldOK'
        BY <1>0, <3>1, <3>2, RegisterTypes, SaveTypes DEF WorldOK
      <3> QED BY <1>2, <3>2, <3>3, <3>4, MoveKeepsTypes DEF finish_created_entity
    <2> QED BY <1>2, <2>1, <2>2 DEF finish_created_entity
  <1>3. CASE insert_entity(t)
    <2>1. CASE Finish(t, "insert")
      BY <2>1, FinishTypes
    <2>2. CASE Step(t, "insert", "done") /\ Drop(t) /\ UNCHANGED gate
      <3> DEFINE s == IF saved[t] = None THEN 0 ELSE saved[t]
      <3>1. s \in State
        BY <1>0, StateFacts DEF TasksOK, Maybe
      <3>2. Node(s, Actor, TRUE) \in EntityNode
        BY <3>1, NodeTypes, LifecycleAssumption DEF Maybe
      <3>3. CASE /\ manifest' = [manifest EXCEPT ![op[t].frag] = Node(s, Actor, TRUE)]
                 /\ Settle(t, op[t].frag, s) /\ UNCHANGED <<registry, insts, terminated, retired>>
        <4>1. WorldOK'
          BY <1>0, <3>2, <3>3, SettleTypes DEF WorldOK, insts, Maybe
        <4> QED BY <2>2, <4>1, EndKeepsTypes DEF Step, Loading
      <3> QED BY <1>3, <2>1, <3>3 DEF insert_entity
    <2> QED BY <1>3, <2>1, <2>2 DEF insert_entity
  <1> QED BY <1>1, <1>2, <1>3

(* Creation by a local envelope. *)
LEMMA LocalKeepsTypes ==
    ASSUME TypeInv, NEW t \in Task,
           handle_create_request(t) \/ LoadLocal(t) \/ finish_create_request(t)
    PROVE  TypeInv'
  <1>a. MaxTries \in 1 .. MaxTries /\ t # None
    BY LifecycleAssumption
  <1>0. t \in Instance /\ op[t].frag \in Fragment /\ WorldOK /\ TasksOK
    BY DEF TypeInv, TasksOK, Instance
  <1>1. CASE handle_create_request(t)
    <2>1. CASE Finish(t, "gate")
      BY <2>1, FinishTypes
    <2>2. CASE /\ Step(t, "gate", "load") /\ gate' = t
               /\ UNCHANGED <<tasks, registry, manifest, insts, terminated, retired, exposed>>
      <3>1. TasksOK' /\ OnlyTask(t) /\ pc[t] = "gate" /\ pc'[t] = "load" /\ UNCHANGED <<op, seen>>
        BY <1>0, <2>2, MoveTypes DEF PC, Loading, tasks
      <3>2. PlaceOK(t)'
        BY <3>1 DEF TypeInv, PlaceOK, KindOf
      <3>3. GateOK'
        <4>1. KindOf(t) = "local" /\ gate = None
          BY <1>1, <3>1 DEF TypeInv, PlaceOK, handle_create_request
        <4>2. \A u \in Task : ~(KindOf(u) = "local" /\ pc[u] \in Loading)
          BY <4>1, LifecycleAssumption DEF TypeInv, GateOK
        <4>3. \A u \in Task \ {t} : pc'[u] = pc[u] /\ KindOf(u)' = KindOf(u)
          BY <3>1 DEF OnlyTask, KindOf
        <4> QED BY <2>2, <3>1, <4>1, <4>2, <4>3 DEF GateOK, Loading, KindOf, Maybe
      <3>4. WorldOK'
        BY <1>0, <2>2 DEF WorldOK, insts
      <3> QED BY <3>1, <3>2, <3>3, <3>4, StepTypes
    <2> QED BY <1>1, <2>1, <2>2 DEF handle_create_request
  <1>2. CASE LoadLocal(t)
    BY <1>0, <1>a, <1>2, LoadKeepsTypes, LoadFailsKeepsTypes DEF LoadLocal
  <1>3. CASE finish_create_request(t)
    <2>1. CASE Finish(t, "failed") \/ Finish(t, "register")
      BY <2>1, FinishTypes
    <2>2. CASE /\ Step(t, "register", IF registry[op[t].frag] = None THEN "insert" ELSE "done")
               /\ exposed' = IF registry[op[t].frag] = None THEN exposed \cup {t} ELSE exposed
               /\ \E s \in Maybe(State) : trigger_save(t, s) /\ saved' = [saved EXCEPT ![t] = s]
               /\ insert_if_absent(op[t].frag, t)
               /\ gate' = None
               /\ UNCHANGED <<op, seen, cur, tries, life, manifest, worker, val, loop, parent, clock, terminated>>
      <3>1. PICK s \in Maybe(State) : trigger_save(t, s) /\ saved' = [saved EXCEPT ![t] = s]
        BY <2>2
      <3>2. TasksOK' /\ OnlyTask(t) /\ pc[t] = "register" /\ pc'[t] \in {"insert", "done"}
        BY <1>0, <2>2, <3>1 DEF TasksOK, Step, PC, OnlyTask
      <3>3. registry' \in [Fragment -> Maybe(Instance)] /\ retired' \subseteq Instance
        BY <1>0, <2>2, RegisterTypes DEF WorldOK, insert_if_absent
      <3>4. pending' \in [Instance -> BOOLEAN]
        BY <1>0, <3>1, SaveTypes
      <3>5. WorldOK'
        BY <1>0, <2>2, <3>3, <3>4 DEF WorldOK
      <3>6. PlaceOK(t)'
        BY <2>2, <3>2 DEF PlaceOK, KindOf
      <3>7. GateOK'
        <4>1. gate = t
          BY <1>3, <3>2 DEF finish_create_request, TypeInv, GateOK, Loading
        <4>2. pc'[t] \notin Loading
          BY <3>2 DEF Loading
        <4> QED BY <2>2, <3>2, <4>1, <4>2, GateReleased DEF TypeInv
      <3> QED BY <3>2, <3>5, <3>6, <3>7, StepTypes
    <2> QED BY <1>3, <2>1, <2>2 DEF finish_create_request
  <1> QED BY <1>1, <1>2, <1>3

(* Deletion by an actor and by CRUD. *)
LEMMA DeleteKeepsTypes ==
    ASSUME TypeInv, NEW t \in Task, process_entity_delete_requests(t) \/ handle_entity_delete(t)
    PROVE  TypeInv'
  <1>0. t \in Instance /\ op[t].frag \in Fragment /\ WorldOK /\ TasksOK
    BY LifecycleAssumption DEF TypeInv, TasksOK, Instance
  <1>1. CASE process_entity_delete_requests(t)
    <2>1. WorldOK'
      BY <1>0, <1>1, RegisterTypes DEF process_entity_delete_requests, WorldOK, insts
    <2> QED BY <1>1, <2>1, EndKeepsTypes DEF process_entity_delete_requests, Step, Loading
  <1>2. CASE handle_entity_delete(t)
    <2>1. CASE Finish(t, "unlink")
      BY <2>1, FinishTypes
    <2>2. CASE /\ Step(t, "drop", "unlink") /\ Unregister(op[t].frag) /\ terminate_worker(registry[op[t].frag])
               /\ UNCHANGED <<tasks, gate, manifest, insts, exposed>>
      <3>1. registry' \in [Fragment -> Maybe(Instance)] /\ retired' \subseteq Instance
        BY <1>0, <2>2, RegisterTypes DEF WorldOK
      <3>2. terminated' \subseteq Instance
        BY <1>0, <2>2, TerminateTypes DEF WorldOK
      <3>3. WorldOK'
        BY <1>0, <2>2, <3>1, <3>2 DEF WorldOK, insts
      <3>4. TasksOK' /\ OnlyTask(t) /\ pc'[t] = "unlink" /\ UNCHANGED op
        BY <1>0, <2>2, MoveTypes DEF PC, tasks
      <3> QED BY <1>2, <2>2, <3>3, <3>4, MoveKeepsTypes DEF handle_entity_delete
    <2>3. CASE /\ Step(t, "unlink", "done") /\ Drop(t)
               /\ manifest' = [manifest EXCEPT ![op[t].frag] = None]
               /\ exposed' = exposed \cup Others(op[t].frag, None, None)
               /\ UNCHANGED <<gate, registry, insts, terminated, retired>>
      <3>1. WorldOK'
        BY <1>0, <2>3 DEF WorldOK, insts, Others, Maybe
      <3> QED BY <2>3, <3>1, EndKeepsTypes DEF Step, Loading
    <2> QED BY <1>2, <2>1, <2>2, <2>3 DEF handle_entity_delete
  <1> QED BY <1>1, <1>2

(* A node is written. *)
LEMMA WriteNodeTypes ==
    ASSUME WorldOK, NEW i, NEW f \in Fragment, NEW n \in EntityNode, WriteNode(i, f, n),
           UNCHANGED <<registry, insts, terminated, retired>>
    PROVE  WorldOK'
  BY DEF WorldOK, WriteNode, Others, insts, Maybe

(* CRUD upsert and acl, up to the reload. *)
LEMMA WriteKeepsTypes ==
    ASSUME TypeInv, NEW t \in Task, handle_entity_upsert(t) \/ handle_entity_acl_field(t) \/ SpawnReload(t)
    PROVE  TypeInv'
  <1>0. op[t].frag \in Fragment /\ WorldOK /\ TasksOK
    BY DEF TypeInv, TasksOK
  <1>1. CASE Finish(t, "link") \/ Finish(t, "config")
    BY <1>1, FinishTypes
  <1>2. CASE /\ Step(t, "link", "config") /\ WriteNode(None, op[t].frag, seen[t])
             /\ UNCHANGED <<tasks, gate, registry, insts, terminated, retired>>
    <2>1. TasksOK' /\ OnlyTask(t) /\ pc[t] = "link" /\ pc'[t] = "config" /\ UNCHANGED <<op, seen>>
      BY <1>0, <1>2, MoveTypes DEF PC, tasks
    <2>2. seen[t] \in EntityNode /\ KindOf(t) # "local"
      BY <2>1 DEF TypeInv, PlaceOK
    <2>3. WorldOK'
      BY <1>0, <1>2, <2>2, WriteNodeTypes
    <2> QED BY <1>2, <2>1, <2>2, <2>3, MoveKeepsTypes
  <1>3. CASE /\ Step(t, "config", "resolve")
             /\ UNCHANGED <<tasks, gate, registry, manifest, insts, terminated, retired, exposed>>
    <2>1. TasksOK' /\ OnlyTask(t) /\ pc[t] = "config" /\ pc'[t] = "resolve" /\ UNCHANGED <<op, seen>>
      BY <1>0, <1>3, MoveTypes DEF PC, tasks
    <2>2. seen[t] \in EntityNode /\ KindOf(t) # "local"
      BY <2>1 DEF TypeInv, PlaceOK
    <2>3. WorldOK'
      BY <1>0, <1>3 DEF WorldOK, insts
    <2> QED BY <1>3, <2>1, <2>2, <2>3, MoveKeepsTypes
  <1> QED BY <1>1, <1>2, <1>3 DEF handle_entity_upsert, handle_entity_acl_field, SpawnReload

(* The current instance of a reload. *)
LEMMA TakeCurrentTypes ==
    ASSUME TasksOK, WorldOK, NEW t \in Task, TakeCurrent(t)
    PROVE  /\ cur' \in [Task -> Maybe(Instance)] /\ exposed' \subseteq Instance
           /\ cur'[t] = registry[op[t].frag] /\ \A u \in Task \ {t} : cur'[u] = cur[u]
  <1>1. op[t].frag \in Fragment /\ registry[op[t].frag] \in Maybe(Instance)
    BY DEF TasksOK, WorldOK
  <1> QED BY <1>1 DEF TasksOK, WorldOK, TakeCurrent, Maybe

(* The reload looks up what it will replace. *)
LEMMA ResolveKeepsTypes ==
    ASSUME TypeInv, NEW t \in Task, spawn_entity_reload(t)
    PROVE  TypeInv'
  <1>0. op[t].frag \in Fragment /\ registry[op[t].frag] \in Maybe(Instance) /\ WorldOK /\ TasksOK
    BY DEF TypeInv, TasksOK, WorldOK
  <1>1. pc[t] = "resolve" /\ seen[t] \in EntityNode /\ KindOf(t) # "local"
    BY DEF spawn_entity_reload, TypeInv, PlaceOK
  <1>2. /\ cur' \in [Task -> Maybe(Instance)] /\ exposed' \subseteq Instance
        /\ \A u \in Task \ {t} : cur'[u] = cur[u]
        /\ \/ pc' = [pc EXCEPT ![t] = "mark"] \/ pc' = [pc EXCEPT ![t] = "load"]
           \/ pc' = [pc EXCEPT ![t] = "prepare"] /\ cur'[t] \in Instance
    BY <1>0, TakeCurrentTypes DEF spawn_entity_reload, Step, TasksOK, WorldOK, Maybe
  <1>3. TasksOK' /\ OnlyTask(t) /\ pc'[t] \in {"mark", "load", "prepare"} /\ (pc'[t] = "prepare" => cur'[t] \in Instance)
    BY <1>0, <1>2 DEF spawn_entity_reload, TasksOK, OnlyTask, PC, Loading
  <1>4. WorldOK'
    BY <1>0, <1>2 DEF spawn_entity_reload, WorldOK, insts
  <1> QED BY <1>1, <1>3, <1>4, MoveKeepsTypes DEF spawn_entity_reload

(* The save of the old worker. *)
LEMMA PrepareTypes ==
    ASSUME TasksOK, WorldOK, NEW t \in Task, cur[t] \in Instance, NEW s \in Maybe(State), prepare_reload_save(t, s)
    PROVE  /\ pending' \in [Instance -> BOOLEAN] /\ saved' \in [Task -> Maybe(State)]
           /\ saved'[t] = s /\ \A u \in Task \ {t} : saved'[u] = saved[u]
  <1>1. CASE UNCHANGED pending
    BY <1>1 DEF TasksOK, WorldOK, prepare_reload_save
  <1>2. CASE pending' = [pending EXCEPT ![cur[t]] = FALSE]
    BY <1>2 DEF TasksOK, WorldOK, prepare_reload_save
  <1> QED BY <1>1, <1>2 DEF prepare_reload_save

(* The old worker's state is linked. *)
LEMMA RelinkTypes ==
    ASSUME TypeInv, NEW t \in Task, pc[t] = "relink", manifest[op[t].frag] # None,
           WriteNode(cur[t], op[t].frag, [manifest[op[t].frag] EXCEPT !.state = saved[t]]),
           UNCHANGED <<registry, insts, terminated, retired>>
    PROVE  WorldOK'
  <1>1. op[t].frag \in Fragment /\ WorldOK /\ saved[t] \in State
    BY DEF TypeInv, TasksOK, PlaceOK
  <1>2. manifest[op[t].frag] \in EntityNode
    BY <1>1 DEF WorldOK, Maybe
  <1>3. [manifest[op[t].frag] EXCEPT !.state = saved[t]] \in EntityNode
    BY <1>1, <1>2, NodeUpdates
  <1> QED BY <1>1, <1>3, WriteNodeTypes

(* The old worker is prepared and the node read again. *)
LEMMA RefreshKeepsTypes ==
    ASSUME TypeInv, NEW t \in Task, refresh_entity_before_reload(t)
    PROVE  TypeInv'
  <1> DEFINE f == op[t].frag
  <1>0. f \in Fragment /\ manifest[f] \in Maybe(EntityNode) /\ WorldOK /\ TasksOK
    BY DEF TypeInv, TasksOK, WorldOK
  <1>k. KindOf(t) # "local" /\ UNCHANGED <<op, gate>>
    BY DEF refresh_entity_before_reload, Reloads, tasks
  <1>1. CASE /\ pc[t] = "prepare"
             /\ UNCHANGED <<op, seen, cur, tries, life, gate, registry, manifest, worker, val,
                            loop, parent, clock, terminated, retired, exposed>>
    <2>0. cur[t] \in Instance
      BY <1>1 DEF TypeInv, PlaceOK
    <2>1. CASE Step(t, "prepare", "mark") /\ UNCHANGED <<saved, pending>>
      <3>1. TasksOK' /\ OnlyTask(t) /\ pc'[t] = "mark"
        BY <1>0, <1>1, <2>1 DEF TasksOK, Step, OnlyTask, PC
      <3>2. WorldOK'
        BY <1>0, <1>1, <2>1 DEF WorldOK
      <3> QED BY <1>k, <3>1, <3>2, MoveKeepsTypes
    <2>2. ASSUME NEW s \in Maybe(State), prepare_reload_save(t, s),
                 Step(t, "prepare", IF s = None THEN "reread" ELSE "relink")
          PROVE  TypeInv'
      <3>1. /\ pending' \in [Instance -> BOOLEAN] /\ saved' \in [Task -> Maybe(State)]
            /\ saved'[t] = s /\ \A u \in Task \ {t} : saved'[u] = saved[u]
        BY <1>0, <2>0, <2>2, PrepareTypes
      <3>2. /\ TasksOK' /\ OnlyTask(t) /\ pc'[t] \in {"reread", "relink"} /\ cur'[t] \in Instance
            /\ pc'[t] = "relink" => saved'[t] \in State
        BY <1>0, <1>1, <2>0, <2>2, <3>1 DEF TasksOK, Step, OnlyTask, PC, Maybe
      <3>3. WorldOK'
        BY <1>0, <1>1, <3>1 DEF WorldOK
      <3> QED BY <1>k, <3>2, <3>3, MoveKeepsTypes
    <2> QED BY <1>1, <2>1, <2>2 DEF refresh_entity_before_reload, Step
  <1>2. CASE /\ Step(t, "relink", "mark") /\ exposed' = exposed \cup {cur[t]}
             /\ UNCHANGED <<tasks, gate, registry, manifest, insts, terminated, retired>>
    <2>1. cur[t] \in Instance
      BY <1>2 DEF TypeInv, PlaceOK, Step
    <2>2. TasksOK' /\ OnlyTask(t) /\ pc'[t] = "mark"
      BY <1>0, <1>2, MoveTypes DEF PC
    <2>3. WorldOK'
      BY <1>0, <1>2, <2>1 DEF WorldOK, insts
    <2> QED BY <1>k, <2>2, <2>3, MoveKeepsTypes
  <1>3. CASE /\ manifest[f] # None /\ Step(t, "relink", "reread")
             /\ WriteNode(cur[t], f, [manifest[f] EXCEPT !.state = saved[t]])
             /\ UNCHANGED <<tasks, gate, registry, insts, terminated, retired>>
    <2>1. TasksOK' /\ OnlyTask(t) /\ pc[t] = "relink" /\ pc'[t] = "reread"
      BY <1>0, <1>3, MoveTypes DEF PC
    <2>2. WorldOK'
      BY <1>3, <2>1, RelinkTypes
    <2> QED BY <1>k, <2>1, <2>2, MoveKeepsTypes
  <1>4. CASE /\ Step(t, "reread", "mark")
             /\ UNCHANGED <<tasks, gate, registry, manifest, insts, terminated, retired, exposed>>
    <2>1. TasksOK' /\ OnlyTask(t) /\ pc'[t] = "mark"
      BY <1>0, <1>4, MoveTypes DEF PC
    <2>2. WorldOK'
      BY <1>0, <1>4 DEF WorldOK, insts
    <2> QED BY <1>k, <2>1, <2>2, MoveKeepsTypes
  <1>5. CASE /\ manifest[f] # None /\ Step(t, "reread", "load") /\ seen' = [seen EXCEPT ![t] = RereadNode(t)]
             /\ UNCHANGED <<op, cur, saved, tries, life, gate, registry, manifest, insts,
                            terminated, retired, exposed>>
    <2>1. RereadNode(t) \in EntityNode
      BY <1>0, <1>5 DEF RereadNode, Maybe
    <2>2. TasksOK' /\ OnlyTask(t) /\ pc'[t] = "load" /\ seen'[t] \in EntityNode
      BY <1>0, <1>5, <2>1 DEF TasksOK, Step, OnlyTask, PC, Loading, Maybe
    <2>3. WorldOK'
      BY <1>0, <1>5 DEF WorldOK, insts
    <2> QED BY <1>k, <2>2, <2>3, MoveKeepsTypes
  <1> QED BY <1>1, <1>2, <1>3, <1>4, <1>5 DEF refresh_entity_before_reload

(* The new instance takes the place of the old one. *)
LEMMA InstallTypes ==
    ASSUME TasksOK, WorldOK, NEW t \in Task, InstallReload(t) \/ AbandonReload(t)
    PROVE  /\ registry' \in [Fragment -> Maybe(Instance)]
           /\ retired' \subseteq Instance /\ terminated' \subseteq Instance
  <1>1. t \in Instance /\ op[t].frag \in Fragment /\ cur[t] \in Maybe(Instance)
    BY DEF TasksOK, Instance
  <1> QED BY <1>1, RegisterTypes, TerminateTypes DEF WorldOK, InstallReload, AbandonReload

(* The end of a reload. *)
LEMMA FinishReloadKeepsTypes ==
    ASSUME TypeInv, NEW t \in Task, LoadReload(t) \/ finish_reload(t)
    PROVE  TypeInv'
  <1>a. MaxTries \in 1 .. MaxTries
    BY LifecycleAssumption
  <1>0. t \in Instance /\ WorldOK /\ TasksOK
    BY DEF TypeInv, Instance
  <1>k. KindOf(t) # "local"
    BY DEF LoadReload, finish_reload, Reloads
  <1>1. CASE LoadReload(t)
    BY <1>a, <1>k, <1>1, LoadKeepsTypes, LoadFailsKeepsTypes DEF LoadReload
  <1>2. CASE /\ Step(t, "finishFailed", "mark") \/ Step(t, "finish", "mark")
             /\ AbandonReload(t) /\ UNCHANGED <<tasks, gate, manifest, insts, exposed>>
    <2>1. TasksOK' /\ OnlyTask(t) /\ pc'[t] = "mark" /\ UNCHANGED op
      BY <1>0, <1>2, MoveTypes DEF PC, tasks
    <2>2. WorldOK'
      BY <1>0, <1>2, InstallTypes DEF WorldOK, insts
    <2> QED BY <1>k, <1>2, <2>1, <2>2, MoveKeepsTypes
  <1>3. ASSUME Step(t, "finish", IF life[t] = "Running" THEN "complete" ELSE "done"), InstallReload(t),
               NEW s \in Maybe(State), trigger_save(t, s), saved' = [saved EXCEPT ![t] = s],
               exposed' = IF s = None THEN exposed ELSE exposed \cup {t},
               UNCHANGED <<op, seen, cur, tries, life, gate, manifest, worker, val, loop, parent, clock>>
        PROVE  TypeInv'
    <2>1. TasksOK' /\ OnlyTask(t) /\ pc'[t] \in {"complete", "done"}
      BY <1>0, <1>3 DEF TasksOK, Step, OnlyTask, PC
    <2>2. pending' \in [Instance -> BOOLEAN]
      BY <1>0, <1>3, SaveTypes
    <2>3. /\ registry' \in [Fragment -> Maybe(Instance)]
          /\ retired' \subseteq Instance /\ terminated' \subseteq Instance
      BY <1>0, <1>3, InstallTypes
    <2>4. WorldOK'
      BY <1>0, <1>3, <2>2, <2>3 DEF WorldOK
    <2> QED BY <1>k, <1>3, <2>1, <2>4, MoveKeepsTypes
  <1> QED BY <1>1, <1>2, <1>3 DEF finish_reload

(* The outcome of a reload is written. *)
LEMMA OutcomeKeepsTypes ==
    ASSUME TypeInv, NEW t \in Task, complete_entity_reload(t) \/ mark_entity_reload_failed(t)
    PROVE  TypeInv'
  <1> DEFINE f == op[t].frag
  <1>0. f \in Fragment /\ (manifest[f] # None => manifest[f] \in EntityNode) /\ WorldOK /\ TasksOK
    BY DEF TypeInv, TasksOK, WorldOK, Maybe
  <1>1. CASE Finish(t, "complete") \/ Finish(t, "mark")
    BY <1>1, FinishTypes
  <1>2. CASE /\ manifest[f] # None /\ Step(t, "mark", "done") /\ Drop(t)
             /\ manifest' = [manifest EXCEPT ![f].reload_error = TRUE]
             /\ UNCHANGED <<gate, registry, insts, terminated, retired, exposed>>
    <2>1. [manifest[f] EXCEPT !.reload_error = TRUE] \in EntityNode
      BY <1>0, <1>2, NodeUpdates
    <2>2. manifest' = [manifest EXCEPT ![f] = [manifest[f] EXCEPT !.reload_error = TRUE]]
      BY <1>2
    <2>3. WorldOK'
      BY <1>0, <1>2, <2>1, <2>2 DEF WorldOK, insts, Maybe
    <2> QED BY <1>2, <2>3, EndKeepsTypes DEF Step, Loading
  <1> DEFINE n == [manifest[f] EXCEPT !.initialised = TRUE, !.reload_error = FALSE,
                                      !.state = IF saved[t] = None THEN @ ELSE saved[t]]
  <1>3. CASE /\ manifest[f] # None /\ Step(t, "complete", "done") /\ Drop(t)
             /\ manifest' = [manifest EXCEPT ![f] = n] /\ Settle(t, f, n.state)
             /\ UNCHANGED <<gate, registry, insts, terminated, retired>>
    <2>1. manifest[f] \in EntityNode /\ saved[t] \in Maybe(State)
      BY <1>0, <1>3 DEF TasksOK
    <2>2. n \in EntityNode
      BY <2>1 DEF EntityNode, Maybe
    <2> HIDE DEF n
    <2>3. WorldOK'
      BY <1>0, <1>3, <2>2, SettleTypes DEF WorldOK, insts, Maybe
    <2> QED BY <1>3, <2>3, EndKeepsTypes DEF Step, Loading
  <1> QED BY <1>1, <1>2, <1>3 DEF complete_entity_reload, mark_entity_reload_failed

(* A change of behaviour, up to the new node. *)
LEMMA BehaviourKeepsTypes ==
    ASSUME TypeInv, NEW t \in Task, apply_behaviour_request(t)
    PROVE  TypeInv'
  <1> DEFINE f == op[t].frag
  <1>0. f \in Fragment /\ manifest[f] \in Maybe(EntityNode) /\ registry[f] \in Maybe(Instance) /\ WorldOK /\ TasksOK
    BY DEF TypeInv, TasksOK, WorldOK
  <1>k. KindOf(t) # "local"
    BY DEF apply_behaviour_request
  <1>1. CASE /\ Step(t, "current", IF registry[f] = None THEN "node" ELSE "prepare") /\ TakeCurrent(t)
             /\ UNCHANGED <<op, seen, saved, tries, life, gate, registry, manifest, insts, terminated, retired>>
    <2>1. /\ cur' \in [Task -> Maybe(Instance)] /\ exposed' \subseteq Instance
          /\ cur'[t] = registry[f] /\ \A u \in Task \ {t} : cur'[u] = cur[u]
      BY <1>0, <1>1, TakeCurrentTypes
    <2>2. TasksOK' /\ OnlyTask(t) /\ pc'[t] \in {"node", "prepare"} /\ (pc'[t] = "prepare" => cur'[t] \in Instance)
      BY <1>0, <1>1, <2>1 DEF TasksOK, Step, OnlyTask, PC, Maybe
    <2>3. WorldOK'
      BY <1>0, <1>1, <2>1 DEF WorldOK, insts
    <2> QED BY <1>k, <1>1, <2>2, <2>3, MoveKeepsTypes
  <1>2. CASE /\ pc[t] = "prepare"
             /\ UNCHANGED <<op, seen, cur, tries, life, gate, registry, manifest, worker, val,
                            loop, parent, clock, terminated, retired>>
    <2>0. cur[t] \in Instance
      BY <1>2 DEF TypeInv, PlaceOK
    <2>1. CASE Step(t, "prepare", "node") /\ exposed' = exposed \cup {cur[t]} /\ UNCHANGED <<saved, pending>>
      <3>1. TasksOK' /\ OnlyTask(t) /\ pc'[t] = "node"
        BY <1>0, <1>2, <2>1 DEF TasksOK, Step, OnlyTask, PC
      <3>2. WorldOK'
        BY <1>0, <1>2, <2>0, <2>1 DEF WorldOK
      <3> QED BY <1>k, <1>2, <3>1, <3>2, MoveKeepsTypes
    <2>2. ASSUME NEW s \in Maybe(State), prepare_reload_save(t, s),
                 Step(t, "prepare", IF s = None THEN "node" ELSE "relink"), UNCHANGED exposed
          PROVE  TypeInv'
      <3>1. /\ pending' \in [Instance -> BOOLEAN] /\ saved' \in [Task -> Maybe(State)]
            /\ saved'[t] = s /\ \A u \in Task \ {t} : saved'[u] = saved[u]
        BY <1>0, <2>0, <2>2, PrepareTypes
      <3>2. /\ TasksOK' /\ OnlyTask(t) /\ pc'[t] \in {"node", "relink"} /\ cur'[t] \in Instance
            /\ pc'[t] = "relink" => saved'[t] \in State
        BY <1>0, <1>2, <2>0, <2>2, <3>1 DEF TasksOK, Step, OnlyTask, PC, Maybe
      <3>3. WorldOK'
        BY <1>0, <1>2, <2>2, <3>1 DEF WorldOK
      <3> QED BY <1>k, <1>2, <3>2, <3>3, MoveKeepsTypes
    <2> QED BY <1>2, <2>1, <2>2 DEF apply_behaviour_request, Step
  <1>3. CASE /\ Step(t, "relink", "done") /\ exposed' = exposed \cup {cur[t]} /\ Drop(t)
             /\ UNCHANGED <<gate, registry, manifest, insts, terminated, retired>>
    <2>1. cur[t] \in Instance
      BY <1>3 DEF TypeInv, PlaceOK, Step
    <2>2. WorldOK'
      BY <1>0, <1>3, <2>1 DEF WorldOK, insts
    <2> QED BY <1>3, <2>2, EndKeepsTypes DEF Step, Loading
  <1>4. CASE /\ manifest[f] # None /\ Step(t, "relink", "node")
             /\ WriteNode(cur[t], f, [manifest[f] EXCEPT !.state = saved[t]])
             /\ UNCHANGED <<tasks, gate, registry, insts, terminated, retired>>
    <2>1. TasksOK' /\ OnlyTask(t) /\ pc[t] = "relink" /\ pc'[t] = "node" /\ UNCHANGED op
      BY <1>0, <1>4, MoveTypes DEF PC, tasks
    <2>2. WorldOK'
      BY <1>4, <2>1, RelinkTypes
    <2> QED BY <1>k, <1>4, <2>1, <2>2, MoveKeepsTypes
  <1> QED BY <1>1, <1>2, <1>3, <1>4 DEF apply_behaviour_request

(* A change of behaviour, from the new node to the new instance. *)
LEMMA SwapKeepsTypes ==
    ASSUME TypeInv, NEW t \in Task,
           \/ load_entity_node_for_update(t) \/ LoadBehaviour(t) \/ set_entity_behaviour(t)
           \/ LinkNewState(t) \/ SwapBehaviour(t)
    PROVE  TypeInv'
  <1> DEFINE f == op[t].frag
  <1>0. /\ t \in Instance /\ f \in Fragment /\ WorldOK /\ TasksOK
        /\ manifest[f] # None => manifest[f] \in EntityNode
    BY DEF TypeInv, TasksOK, WorldOK, Maybe, Instance
  <1>a. MaxTries \in 1 .. MaxTries
    BY LifecycleAssumption
  <1>f. ASSUME NEW from, Finish(t, from) PROVE TypeInv'
    BY <1>f, FinishTypes
  <1>1. CASE load_entity_node_for_update(t)
    <2>1. CASE /\ manifest[f] # None /\ Step(t, "node", "load")
               /\ seen' = [seen EXCEPT ![t] = [manifest[f] EXCEPT !.initialised = @ \/ cur[t] # None]]
               /\ UNCHANGED <<op, cur, saved, tries, life, gate, registry, manifest, insts,
                              terminated, retired, exposed>>
      <3> DEFINE n == [manifest[f] EXCEPT !.initialised = @ \/ cur[t] # None]
      <3>1. n \in EntityNode
        <4>1. manifest[f] \in EntityNode
          BY <1>0, <2>1
        <4>2. (manifest[f].initialised \/ cur[t] # None) \in BOOLEAN
          OBVIOUS
        <4> QED BY <4>1, <4>2, NodeUpdates
      <3> HIDE DEF n
      <3>2. TasksOK' /\ OnlyTask(t) /\ pc[t] = "node" /\ pc'[t] = "load" /\ seen'[t] \in EntityNode
        BY <1>0, <2>1, <3>1 DEF TasksOK, Step, OnlyTask, PC, Loading, Maybe, n
      <3>3. WorldOK'
        BY <1>0, <2>1 DEF WorldOK, insts
      <3>4. KindOf(t) # "local"
        BY <3>2 DEF TypeInv, PlaceOK
      <3> QED BY <2>1, <3>2, <3>3, <3>4, MoveKeepsTypes
    <2> QED BY <1>f, <1>1, <2>1 DEF load_entity_node_for_update
  <1>2. CASE LoadBehaviour(t)
    BY <1>a, <1>2, LoadKeepsTypes, LoadFailsKeepsTypes DEF LoadBehaviour
  <1>3. CASE set_entity_behaviour(t)
    <2>1. ASSUME manifest[f] # None, Step(t, "behaviour", "state"), NEW s \in Maybe(State), trigger_save(t, s),
                 saved' = [saved EXCEPT ![t] = s], exposed' = IF s = None THEN exposed ELSE exposed \cup {t},
                 manifest' = [manifest EXCEPT ![f].initialised = TRUE],
                 UNCHANGED <<op, seen, cur, tries, life, gate, registry, worker, val, loop, parent,
                             clock, terminated, retired>>
          PROVE  TypeInv'
      <3>1. TasksOK' /\ OnlyTask(t) /\ pc[t] = "behaviour" /\ pc'[t] = "state"
        BY <1>0, <2>1 DEF TasksOK, Step, OnlyTask, PC
      <3>2. [manifest[f] EXCEPT !.initialised = TRUE] \in EntityNode
        BY <1>0, <2>1, NodeUpdates
      <3>3. manifest' \in [Fragment -> Maybe(EntityNode)]
        BY <1>0, <2>1, <3>2 DEF WorldOK, Maybe
      <3>4. pending' \in [Instance -> BOOLEAN]
        BY <1>0, <2>1, SaveTypes
      <3>5. WorldOK'
        BY <1>0, <2>1, <3>3, <3>4 DEF WorldOK
      <3>6. KindOf(t) # "local"
        BY <3>1 DEF TypeInv, PlaceOK
      <3> QED BY <2>1, <3>1, <3>5, <3>6, MoveKeepsTypes
    <2> QED BY <1>f, <1>3, <2>1 DEF set_entity_behaviour
  <1>4. CASE LinkNewState(t)
    <2>1. TasksOK' /\ OnlyTask(t) /\ pc[t] = "state" /\ pc'[t] = "swap" /\ UNCHANGED <<op, gate>>
      BY <1>0, <1>4, MoveTypes DEF LinkNewState, PC, tasks
    <2>2. manifest' \in [Fragment -> Maybe(EntityNode)] /\ exposed' \subseteq Instance
      <3>1. CASE UNCHANGED <<manifest, exposed>>
        BY <1>0, <3>1 DEF WorldOK
      <3>2. CASE /\ saved[t] # None /\ manifest[f] # None
                 /\ manifest' = [manifest EXCEPT ![f].state = saved[t]] /\ Settle(t, f, saved[t])
        <4>1. [manifest[f] EXCEPT !.state = saved[t]] \in EntityNode
          BY <1>0, <3>2, NodeUpdates DEF TasksOK, Maybe
        <4> QED BY <1>0, <3>2, <4>1, SettleTypes DEF WorldOK, Maybe
      <3> QED BY <1>4, <3>1, <3>2 DEF LinkNewState
    <2>3. WorldOK'
      BY <1>0, <1>4, <2>2 DEF LinkNewState, WorldOK, insts
    <2>4. KindOf(t) # "local"
      BY <2>1 DEF TypeInv, PlaceOK
    <2> QED BY <2>1, <2>3, <2>4, MoveKeepsTypes
  <1>5. CASE SwapBehaviour(t)
    <2>1. WorldOK'
      BY <1>0, <1>5, InstallTypes DEF SwapBehaviour, WorldOK, insts
    <2> QED BY <1>5, <2>1, EndKeepsTypes DEF SwapBehaviour, Step, Loading
  <1> QED BY <1>1, <1>2, <1>3, <1>4, <1>5

(* Instances, and the timeout of a handler. *)
LEMMA InstanceKeepsTypes ==
    ASSUME TypeInv, NEW i \in Instance, Change(i) \/ Persist(i) \/ PersistFails(i) \/ WorkerEnds(i)
    PROVE  TypeInv'
  <1>0. WorldOK /\ TasksOK
    BY DEF TypeInv
  <1>1. UNCHANGED <<tasks, pc, gate>>
    BY DEF Change, Persist, PersistFails, WorkerEnds
  <1>2. TasksOK' /\ GateOK' /\ \A t \in Task : PlaceOK(t)'
    BY <1>1 DEF TypeInv, TasksOK, GateOK, PlaceOK, KindOf, tasks
  <1>3. CASE Change(i)
    BY <1>0, <1>2, <1>3, StateFacts DEF TypeInv, Change, WorldOK, Maybe
  <1>4. CASE Persist(i)
    <2> DEFINE f == FragmentOf(i)
    <2>1. f \in Fragment
      BY <1>0 DEF FragmentOf, TasksOK, Instance
    <2>2. loop[i] \in State /\ manifest[f] \in EntityNode
      BY <1>0, <1>4, <2>1 DEF Persist, WorldOK, Maybe
    <2>3. manifest' \in [Fragment -> Maybe(EntityNode)]
      <3>1. [manifest[f] EXCEPT !.state = loop[i]] \in EntityNode
        BY <2>2, NodeUpdates
      <3> QED BY <1>0, <1>4, <2>1, <3>1 DEF Persist, WorldOK, Maybe
    <2>4. exposed' \subseteq Instance
      BY <1>0, <1>4 DEF Persist, WorldOK, Others
    <2>5. \A b \in BOOLEAN : pending_state_snapshot(i, b) \in Maybe(State)
      BY <1>0 DEF pending_state_snapshot, WorldOK, Maybe
    <2>6. pending' \in [Instance -> BOOLEAN]
      BY <1>0, <1>4 DEF Persist, WorldOK
    <2>7. loop' \in [Instance -> Maybe(State)]
      <3>1. (pending[i] /\ val[i] # loop[i]) \in BOOLEAN
        OBVIOUS
      <3> QED BY <1>0, <1>4, <2>5, <3>1 DEF Persist, WorldOK
    <2>8. WorldOK'
      BY <1>0, <1>4, <2>3, <2>4, <2>6, <2>7 DEF Persist, WorldOK
    <2> QED BY <1>2, <2>8 DEF TypeInv
  <1>5. CASE PersistFails(i)
    <2>1. pending_state_snapshot(i, pending[i]) \in Maybe(State)
      BY <1>0 DEF pending_state_snapshot, WorldOK, Maybe
    <2> QED BY <1>0, <1>2, <1>5, <2>1 DEF TypeInv, PersistFails, WorldOK
  <1>6. CASE WorkerEnds(i)
    BY <1>0, <1>2, <1>6 DEF TypeInv, WorkerEnds, WorldOK
  <1> QED BY <1>3, <1>4, <1>5, <1>6

(* The cut-off of a handler. *)
LEMMA CutKeepsTypes ==
    ASSUME TypeInv, NEW t \in Task, Cut(t)
    PROVE  TypeInv'
  <1>1. pc[t] = "relink" => cur[t] \in Instance
    BY DEF TypeInv, PlaceOK
  <1>2. WorldOK'
    BY <1>1 DEF TypeInv, WorldOK, Cut, insts
  <1> QED BY <1>2, EndKeepsTypes DEF Cut

(* The start. *)
LEMMA InitTypes == Init => TypeInv
  <1> SUFFICES ASSUME Init PROVE TypeInv
    OBVIOUS
  <1>1. TasksOK
    BY LifecycleAssumption DEF Init, TasksOK, PC, Maybe
  <1>2. publish_entities \subseteq EntityNode
    BY NodeTypes, StateFacts DEF publish_entities, Maybe
  <1>3. WorldOK
    BY <1>2, StateFacts DEF Init, load_entities, load_wasm_entity, WorldOK, Maybe, Instance
  <1>4. GateOK
    BY LifecycleAssumption DEF Init, GateOK, Loading, Maybe
  <1>5. \A t \in Task : PlaceOK(t)
    <2>1. \A t \in Task : pc[t] = "idle" /\ KindOf(t) = None
      BY DEF Init, KindOf
    <2> QED BY <2>1, LifecycleAssumption DEF PlaceOK, AllOps
  <1> QED BY <1>1, <1>3, <1>4, <1>5 DEF TypeInv

(* Every step keeps the types. *)
LEMMA NextTypes == TypeInv /\ [Next]_vars => TypeInv'
  <1> SUFFICES ASSUME TypeInv, [Next]_vars PROVE TypeInv'
    OBVIOUS
  <1>1. CASE UNCHANGED vars
    BY <1>1 DEF vars, TypeInv, TasksOK, WorldOK, GateOK, PlaceOK, KindOf
  <1>2. CASE \E t \in Task, f \in Target : Start(t, f)
    BY <1>2, StartKeepsTypes
  <1>3. CASE \E t \in Task : Progress(t)
    BY <1>3, CreateKeepsTypes, LocalKeepsTypes, DeleteKeepsTypes, WriteKeepsTypes, ResolveKeepsTypes,
       RefreshKeepsTypes, FinishReloadKeepsTypes, OutcomeKeepsTypes, BehaviourKeepsTypes, SwapKeepsTypes
       DEF Progress
  <1>4. CASE \E t \in Task : Cut(t)
    BY <1>4, CutKeepsTypes
  <1>5. CASE \E i \in Instance : Change(i) \/ Persist(i) \/ PersistFails(i) \/ WorkerEnds(i)
    BY <1>5, InstanceKeepsTypes
  <1> QED BY <1>1, <1>2, <1>3, <1>4, <1>5 DEF Next

(* Every variable has its type, and the creation gate is held exactly by   *)
(* the local creation that is loading.                                     *)
THEOREM LifecycleTypeCorrect == Spec => []TypeOK
  <1>1. Spec => []TypeInv
    BY InitTypes, NextTypes, PTL DEF Spec
  <1> QED BY <1>1, TypeInvImplies, PTL

-----------------------------------------------------------------------------
(***************************************************************************)
(* What a step of a task may do to the registry: nothing, enter the task's *)
(* own instance, or remove an entry.                                       *)
(***************************************************************************)
\* Places with a loaded instance that is not registered yet, and places that
\* come after the registration.
Loaded == {"register", "finish", "behaviour", "state", "swap"}
Late == {"insert", "complete", "done"}

QuietStep(t) ==
    /\ OnlyTask(t)
    /\ UNCHANGED <<registry, terminated, retired>>
    /\ op'[t].frag = op[t].frag \/ pc[t] = "idle"
    /\ \/ cur'[t] \in {cur[t], None}
       \/ pc[t] # "idle" /\ cur'[t] = registry[op[t].frag]
    /\ \/ UNCHANGED worker /\ (pc'[t] \in Loaded => pc[t] \in Loaded)
       \/ pc[t] = "load" /\ worker' = [worker EXCEPT ![t] = "live"]
    /\ pc[t] \in Late => pc'[t] \in Late
    /\ pc'[t] # "idle"

RegisterStep(t) ==
    /\ OnlyTask(t)
    /\ Register(op[t].frag, t)
    /\ terminate_worker(cur[t]) \/ UNCHANGED terminated
    /\ op'[t].frag = op[t].frag /\ cur'[t] \in {cur[t], None} /\ UNCHANGED worker
    /\ pc[t] \in Loaded /\ pc'[t] \in Late
    /\ KindOf(t) = "local" => registry[op[t].frag] = None

UnregisterStep(t) ==
    /\ OnlyTask(t)
    /\ Unregister(op[t].frag)
    /\ \/ UNCHANGED terminated
       \/ terminate_worker(cur[t])
       \/ terminate_worker(registry[op[t].frag])
    /\ op'[t].frag = op[t].frag /\ cur'[t] \in {cur[t], None} /\ UNCHANGED worker
    /\ pc[t] \notin Late /\ pc'[t] \notin Loaded \cup {"idle"}
    /\ KindOf(t) # "local"

(* A task ends. *)
LEMMA DropQuiet ==
    ASSUME TypeInv, NEW t \in Task, Drop(t), pc' = [pc EXCEPT ![t] = "done"],
           UNCHANGED <<registry, terminated, retired, worker>>
    PROVE  QuietStep(t)
  <1>1. OnlyTask(t) /\ op'[t].frag = op[t].frag /\ cur'[t] = None /\ pc'[t] = "done"
    BY DropTypes DEF TypeInv
  <1> QED BY <1>1 DEF QuietStep, Loaded, Late

(* A task moves on with its instance and its name. *)
LEMMA MoveQuiet ==
    ASSUME TypeInv, NEW t \in Task, NEW from, NEW to \in PC \ {"idle"}, Step(t, from, to), UNCHANGED <<op, cur>>,
           \A u \in Task \ {t} : seen'[u] = seen[u] /\ saved'[u] = saved[u],
           UNCHANGED <<registry, terminated, retired, worker>>,
           to \in Loaded => from \in Loaded, from \in Late => to \in Late
    PROVE  QuietStep(t)
  BY DEF TypeInv, TasksOK, Step, OnlyTask, QuietStep

(* The same for the part of the actions that do not touch the locals. *)
LEMMA PassQuiet ==
    ASSUME TypeInv, NEW t \in Task, NEW from, NEW to \in PC \ {"idle"}, Step(t, from, to), UNCHANGED tasks,
           UNCHANGED <<registry, terminated, retired, insts>>,
           to \in Loaded => from \in Loaded, from \in Late => to \in Late
    PROVE  QuietStep(t)
  BY MoveQuiet DEF tasks, insts

(* Starts are quiet. *)
LEMMA StartQuiet ==
    ASSUME TypeInv, NEW t \in Task, NEW f \in Target, Start(t, f)
    PROVE  QuietStep(t)
  <1>1. ASSUME NEW k, NEW g, NEW to \in {"load", "gate", "remove", "drop", "link", "resolve", "current"}, NEW n,
               Begin(t, k, g, to, n)
        PROVE  QuietStep(t)
    BY <1>1 DEF TypeInv, TasksOK, Begin, Step, QuietStep, OnlyTask, Loaded, Late, insts
  <1>2. ASSUME NEW k, Skip(t, k) PROVE QuietStep(t)
    <2>1. "done" \in PC \ {"idle"}
      BY DEF PC
    <2> QED BY <1>2, <2>1, PassQuiet DEF Skip, Late, Loaded
  <1> QED BY <1>1, <1>2 DEF Start, process_entity_create_requests, StartLocal, CheckDelete, StartCrudDelete,
             StartUpsert, StartAcl, spawn_kind_dependency_reloads_for, StartBehaviour

(* Finish is quiet. *)
LEMMA FinishQuiet ==
    ASSUME TypeInv, NEW t \in Task, NEW from, Finish(t, from)
    PROVE  QuietStep(t)
  BY DropQuiet DEF Finish, Step, insts

(* Loading, with or without success. *)
LEMMA LoadQuiet ==
    ASSUME TypeInv, NEW t \in Task, NEW to \in PC \ {"idle"}, NEW n,
           \/ load(t, to)
           \/ to \notin Loaded /\ load_with_fibonacci_backoff(t, n, to)
    PROVE  QuietStep(t)
  <1>1. CASE load(t, to)
    BY <1>1 DEF TypeInv, TasksOK, load, Step, OnlyTask, QuietStep, Late
  <1>2. CASE to \notin Loaded /\ load_with_fibonacci_backoff(t, n, to)
    <2>1. CASE UNCHANGED <<pc, op, seen, cur, saved, life>>
      BY <1>2, <2>1 DEF load_with_fibonacci_backoff, OnlyTask, QuietStep, insts, Late, Loaded
    <2>2. CASE Step(t, "load", to) /\ UNCHANGED tasks
      BY <1>2, <2>2, PassQuiet DEF load_with_fibonacci_backoff, Late
    <2>3. CASE Step(t, "load", "done") /\ Drop(t)
      BY <1>2, <2>3, DropQuiet DEF load_with_fibonacci_backoff, Step, insts
    <2> QED BY <1>2, <2>1, <2>2, <2>3 DEF load_with_fibonacci_backoff
  <1> QED BY <1>1, <1>2

\* What StepKinds shows of every step of a task.
Kinds(t) == QuietStep(t) \/ RegisterStep(t) \/ UnregisterStep(t)

(* Creations. *)
LEMMA CreateKinds ==
    ASSUME TypeInv, NEW t \in Task,
           \/ create_entity_from_request(t) \/ finish_created_entity(t) \/ insert_entity(t)
           \/ handle_create_request(t) \/ LoadLocal(t) \/ finish_create_request(t)
    PROVE  Kinds(t)
  <1>p. {"register", "done", "failed", "load"} \subseteq PC \ {"idle"} /\ {"done", "failed"} \cap Loaded = {}
    BY DEF PC, Loading, Loaded
  <1>f. ASSUME NEW from, Finish(t, from) PROVE Kinds(t)
    BY <1>f, FinishQuiet DEF Kinds
  <1>1. CASE create_entity_from_request(t) \/ LoadLocal(t)
    BY <1>p, <1>1, LoadQuiet DEF create_entity_from_request, LoadLocal, Kinds
  <1>2. CASE finish_created_entity(t)
    <2>1. CASE Step(t, "register", "insert") /\ ~Finish(t, "register")
      <3>1. PICK s \in Maybe(State) : saved' = [saved EXCEPT ![t] = s]
        BY <1>2, <2>1 DEF finish_created_entity
      <3>2. /\ Register(op[t].frag, t) /\ UNCHANGED <<op, seen, cur, worker, terminated>> /\ KindOf(t) # "local"
        BY <1>2, <2>1 DEF finish_created_entity
      <3> QED BY <2>1, <3>1, <3>2 DEF TypeInv, TasksOK, Step, OnlyTask, RegisterStep, Kinds, Loaded, Late
    <2> QED BY <1>f, <1>2, <2>1 DEF finish_created_entity
  <1>3. CASE insert_entity(t)
    BY <1>f, <1>3, DropQuiet DEF insert_entity, Step, insts, Kinds
  <1>4. CASE handle_create_request(t)
    BY <1>f, <1>p, <1>4, PassQuiet DEF handle_create_request, Kinds, Loaded, Late
  <1>5. CASE finish_create_request(t)
    <2>1. CASE Finish(t, "failed") \/ Finish(t, "register")
      BY <1>f, <2>1
    <2>2. CASE /\ Step(t, "register", IF registry[op[t].frag] = None THEN "insert" ELSE "done")
               /\ \E s \in Maybe(State) : trigger_save(t, s) /\ saved' = [saved EXCEPT ![t] = s]
               /\ insert_if_absent(op[t].frag, t)
               /\ UNCHANGED <<op, seen, cur, worker, terminated>>
      <3>1. OnlyTask(t)
        BY <2>2 DEF TypeInv, TasksOK, Step, OnlyTask
      <3>2. pc[t] = "register" /\ pc'[t] = IF registry[op[t].frag] = None THEN "insert" ELSE "done"
        BY <2>2 DEF TypeInv, TasksOK, Step
      <3>3. CASE registry[op[t].frag] = None
        BY <2>2, <3>1, <3>2, <3>3 DEF insert_if_absent, Kinds, RegisterStep, Loaded, Late
      <3>4. CASE registry[op[t].frag] # None
        BY <2>2, <3>1, <3>2, <3>4 DEF insert_if_absent, Kinds, QuietStep, Loaded, Late
      <3> QED BY <3>3, <3>4
    <2> QED BY <1>5, <2>1, <2>2 DEF finish_create_request
  <1> QED BY <1>1, <1>2, <1>3, <1>4, <1>5

(* Deletions, and what comes before a reload. *)
LEMMA DeleteKinds ==
    ASSUME TypeInv, NEW t \in Task,
           \/ process_entity_delete_requests(t) \/ handle_entity_delete(t)
           \/ handle_entity_upsert(t) \/ handle_entity_acl_field(t) \/ SpawnReload(t) \/ Cut(t)
    PROVE  Kinds(t)
  <1>f. ASSUME NEW from, Finish(t, from) PROVE Kinds(t)
    BY <1>f, FinishQuiet DEF Kinds
  <1>1. CASE process_entity_delete_requests(t)
    <2>1. OnlyTask(t) /\ op'[t].frag = op[t].frag /\ cur'[t] = None /\ pc'[t] = "done" /\ pc[t] = "remove"
      BY <1>1, DropTypes DEF process_entity_delete_requests, TypeInv, Step
    <2> QED BY <1>1, <2>1 DEF process_entity_delete_requests, Kinds, UnregisterStep, Loaded, Late, insts
  <1>2. CASE handle_entity_delete(t)
    <2>1. CASE /\ Step(t, "drop", "unlink") /\ Unregister(op[t].frag) /\ terminate_worker(registry[op[t].frag])
               /\ UNCHANGED <<tasks, insts>>
      <3>1. OnlyTask(t) /\ pc[t] = "drop" /\ pc'[t] = "unlink" /\ UNCHANGED <<op, cur>>
        BY <2>1, MoveTypes DEF TypeInv, PC, tasks
      <3> QED BY <1>2, <2>1, <3>1 DEF handle_entity_delete, Kinds, UnregisterStep, Loaded, Late, insts
    <2>2. CASE Step(t, "unlink", "done") /\ Drop(t) /\ UNCHANGED <<registry, insts, terminated, retired>>
      BY <2>2, DropQuiet DEF Step, insts, Kinds
    <2> QED BY <1>f, <1>2, <2>1, <2>2 DEF handle_entity_delete
  <1>3. CASE handle_entity_upsert(t) \/ handle_entity_acl_field(t) \/ SpawnReload(t)
    <2>1. {"config", "resolve"} \subseteq PC \ {"idle"}
      BY DEF PC
    <2> QED BY <1>f, <1>3, <2>1, PassQuiet
            DEF handle_entity_upsert, handle_entity_acl_field, SpawnReload, Kinds, Loaded, Late
  <1>4. CASE Cut(t)
    BY <1>4, DropQuiet DEF Cut, insts, Kinds
  <1> QED BY <1>1, <1>2, <1>3, <1>4

(* Taking the current instance. *)
LEMMA TakeQuiet ==
    ASSUME TypeInv, NEW t \in Task, TakeCurrent(t), NEW to \in {"load", "prepare", "node"},
           pc[t] \notin Late \cup {"idle"}, pc' = [pc EXCEPT ![t] = to],
           UNCHANGED <<op, seen, saved, registry, terminated, retired, worker>>
    PROVE  QuietStep(t)
  <1>1. cur'[t] = registry[op[t].frag] /\ \A u \in Task \ {t} : cur'[u] = cur[u]
    BY TakeCurrentTypes DEF TypeInv
  <1> QED BY <1>1 DEF TypeInv, TasksOK, QuietStep, OnlyTask, Loaded, Late

(* Reloads. *)
LEMMA ReloadKinds ==
    ASSUME TypeInv, NEW t \in Task,
           \/ spawn_entity_reload(t) \/ refresh_entity_before_reload(t) \/ LoadReload(t) \/ finish_reload(t)
           \/ complete_entity_reload(t) \/ mark_entity_reload_failed(t)
    PROVE  Kinds(t)
  <1>f. ASSUME NEW from, Finish(t, from) PROVE Kinds(t)
    BY <1>f, FinishQuiet DEF Kinds
  <1>p. {"mark", "load", "prepare", "relink", "reread", "finish", "finishFailed", "complete", "done"} \subseteq PC \ {"idle"}
    BY DEF PC, Loading
  <1>l. {"mark", "load", "prepare", "relink", "reread", "finishFailed", "resolve"} \cap (Loaded \cup Late) = {}
    BY DEF Loaded, Late
  <1>1. CASE spawn_entity_reload(t)
    <2>1. CASE Step(t, "resolve", "mark") /\ UNCHANGED <<cur, exposed>>
      BY <1>p, <1>l, <1>1, <2>1, MoveQuiet DEF spawn_entity_reload, Kinds, insts
    <2>2. CASE TakeCurrent(t) /\ Step(t, "resolve", IF registry[op[t].frag] = None THEN "load" ELSE "prepare")
      BY <1>l, <1>1, <2>2, TakeQuiet DEF spawn_entity_reload, Kinds, insts, Step, Late
    <2> QED BY <1>1, <2>1, <2>2 DEF spawn_entity_reload
  <1>2. CASE refresh_entity_before_reload(t)
    <2>1. CASE /\ pc[t] = "prepare" /\ UNCHANGED <<op, seen, cur, registry, worker, terminated, retired>>
      <3>1. CASE Step(t, "prepare", "mark") /\ UNCHANGED <<saved, pending>>
        BY <1>p, <1>l, <2>1, <3>1, MoveQuiet DEF Kinds
      <3>2. CASE \E s \in Maybe(State) : /\ saved' = [saved EXCEPT ![t] = s]
                                         /\ Step(t, "prepare", IF s = None THEN "reread" ELSE "relink")
        <4>1. \A u \in Task \ {t} : saved'[u] = saved[u]
          BY <3>2 DEF TypeInv, TasksOK
        <4> QED BY <1>p, <1>l, <2>1, <3>2, <4>1, MoveQuiet DEF Kinds
      <3> QED BY <1>2, <2>1, <3>1, <3>2 DEF refresh_entity_before_reload, prepare_reload_save, Step
    <2>2. CASE /\ \/ Step(t, "relink", "mark") \/ Step(t, "relink", "reread") \/ Step(t, "reread", "mark")
               /\ UNCHANGED <<tasks, registry, insts, terminated, retired>>
      BY <1>p, <1>l, <2>2, PassQuiet DEF Kinds
    <2>3. CASE /\ Step(t, "reread", "load") /\ seen' = [seen EXCEPT ![t] = RereadNode(t)]
               /\ UNCHANGED <<op, cur, saved, registry, insts, terminated, retired>>
      <3>1. \A u \in Task \ {t} : seen'[u] = seen[u]
        BY <2>3 DEF TypeInv, TasksOK
      <3> QED BY <1>p, <1>l, <2>3, <3>1, MoveQuiet DEF Kinds, insts
    <2> QED BY <1>2, <2>1, <2>2, <2>3 DEF refresh_entity_before_reload
  <1>3. CASE LoadReload(t)
    BY <1>p, <1>l, <1>3, LoadQuiet DEF LoadReload, Kinds
  <1>4. CASE finish_reload(t)
    <2>k. KindOf(t) # "local"
      BY <1>4 DEF finish_reload, Reloads
    <2>1. CASE /\ Step(t, "finishFailed", "mark") \/ Step(t, "finish", "mark")
               /\ AbandonReload(t) /\ UNCHANGED <<tasks, insts>>
      <3>1. OnlyTask(t) /\ pc[t] \in {"finishFailed", "finish"} /\ pc'[t] = "mark" /\ UNCHANGED <<op, cur>>
        BY <1>p, <2>1, MoveTypes DEF TypeInv, tasks
      <3> QED BY <2>k, <2>1, <3>1 DEF AbandonReload, Kinds, UnregisterStep, Loaded, Late, insts
    <2>2. CASE /\ Step(t, "finish", IF life[t] = "Running" THEN "complete" ELSE "done")
               /\ \E s \in Maybe(State) : saved' = [saved EXCEPT ![t] = s]
               /\ InstallReload(t) /\ UNCHANGED <<op, seen, cur, worker>>
      <3>1. OnlyTask(t) /\ pc[t] = "finish" /\ pc'[t] \in {"complete", "done"}
        BY <2>2 DEF TypeInv, TasksOK, Step, OnlyTask
      <3> QED BY <2>k, <2>2, <3>1 DEF InstallReload, Kinds, RegisterStep, Loaded, Late
    <2> QED BY <1>4, <2>1, <2>2 DEF finish_reload
  <1>5. CASE complete_entity_reload(t) \/ mark_entity_reload_failed(t)
    BY <1>f, <1>5, DropQuiet DEF complete_entity_reload, mark_entity_reload_failed, Kinds, Step, insts
  <1> QED BY <1>1, <1>2, <1>3, <1>4, <1>5

(* Changes of behaviour. *)
LEMMA BehaviourKinds ==
    ASSUME TypeInv, NEW t \in Task,
           \/ apply_behaviour_request(t) \/ load_entity_node_for_update(t) \/ LoadBehaviour(t)
           \/ set_entity_behaviour(t) \/ LinkNewState(t) \/ SwapBehaviour(t)
    PROVE  Kinds(t)
  <1>f. ASSUME NEW from, Finish(t, from) PROVE Kinds(t)
    BY <1>f, FinishQuiet DEF Kinds
  <1>p. {"node", "load", "prepare", "relink", "behaviour", "state", "swap", "done"} \subseteq PC \ {"idle"}
    BY DEF PC, Loading
  <1>l. {"node", "load", "prepare", "relink", "current"} \cap (Loaded \cup Late) = {}
    BY DEF Loaded, Late
  <1>1. CASE apply_behaviour_request(t)
    <2>1. CASE /\ Step(t, "current", IF registry[op[t].frag] = None THEN "node" ELSE "prepare") /\ TakeCurrent(t)
               /\ UNCHANGED <<op, seen, saved, registry, insts, terminated, retired>>
      BY <1>l, <2>1, TakeQuiet DEF Kinds, insts, Step, Late
    <2>2. CASE pc[t] = "prepare" /\ UNCHANGED <<op, seen, cur, registry, worker, terminated, retired>>
      <3>1. CASE Step(t, "prepare", "node") /\ UNCHANGED <<saved, pending>>
        BY <1>p, <1>l, <2>2, <3>1, MoveQuiet DEF Kinds
      <3>2. CASE \E s \in Maybe(State) : /\ saved' = [saved EXCEPT ![t] = s]
                                         /\ Step(t, "prepare", IF s = None THEN "node" ELSE "relink")
        <4>1. \A u \in Task \ {t} : saved'[u] = saved[u]
          BY <3>2 DEF TypeInv, TasksOK
        <4> QED BY <1>p, <1>l, <2>2, <3>2, <4>1, MoveQuiet DEF Kinds
      <3> QED BY <1>1, <2>2, <3>1, <3>2 DEF apply_behaviour_request, prepare_reload_save, Step
    <2>3. CASE Step(t, "relink", "done") /\ Drop(t) /\ UNCHANGED <<registry, insts, terminated, retired>>
      BY <2>3, DropQuiet DEF Kinds, Step, insts
    <2>4. CASE Step(t, "relink", "node") /\ UNCHANGED <<tasks, registry, insts, terminated, retired>>
      BY <1>p, <1>l, <2>4, PassQuiet DEF Kinds
    <2> QED BY <1>1, <2>1, <2>2, <2>3, <2>4 DEF apply_behaviour_request
  <1>2. CASE load_entity_node_for_update(t)
    <2>1. CASE /\ Step(t, "node", "load") /\ \A u \in Task \ {t} : seen'[u] = seen[u]
               /\ UNCHANGED <<op, cur, saved, registry, insts, terminated, retired>>
      BY <1>p, <1>l, <2>1, MoveQuiet DEF Kinds, insts
    <2> QED BY <1>f, <1>2, <2>1 DEF load_entity_node_for_update, TypeInv, TasksOK
  <1>3. CASE LoadBehaviour(t)
    <2>1. "done" \notin Loaded
      BY DEF Loaded
    <2> QED BY <1>p, <1>3, <2>1, LoadQuiet DEF LoadBehaviour, Kinds
  <1>4. CASE set_entity_behaviour(t)
    <2>1. CASE /\ Step(t, "behaviour", "state") /\ \E s \in Maybe(State) : saved' = [saved EXCEPT ![t] = s]
               /\ UNCHANGED <<op, seen, cur, registry, worker, terminated, retired>>
      <3>1. \A u \in Task \ {t} : saved'[u] = saved[u] /\ seen'[u] = seen[u]
        BY <2>1 DEF TypeInv, TasksOK
      <3> QED BY <1>p, <2>1, <3>1, MoveQuiet DEF Kinds, Loaded, Late
    <2> QED BY <1>f, <1>4, <2>1 DEF set_entity_behaviour
  <1>5. CASE LinkNewState(t)
    BY <1>p, <1>5, PassQuiet DEF LinkNewState, Kinds, Loaded, Late
  <1>6. CASE SwapBehaviour(t)
    <2>1. OnlyTask(t) /\ op'[t].frag = op[t].frag /\ cur'[t] = None /\ pc'[t] = "done" /\ pc[t] = "swap"
      BY <1>6, DropTypes DEF SwapBehaviour, TypeInv, Step
    <2>2. KindOf(t) # "local"
      BY <2>1 DEF TypeInv, PlaceOK
    <2> QED BY <1>6, <2>1, <2>2 DEF SwapBehaviour, InstallReload, Kinds, RegisterStep, Loaded, Late, insts
  <1> QED BY <1>1, <1>2, <1>3, <1>4, <1>5, <1>6

(* Every step of a task is of one of the three kinds. *)
LEMMA StepKinds ==
    ASSUME TypeInv, NEW t \in Task, (\E f \in Target : Start(t, f)) \/ Progress(t) \/ Cut(t)
    PROVE  Kinds(t)
  <1>1. CASE \E f \in Target : Start(t, f)
    BY <1>1, StartQuiet DEF Kinds
  <1>2. CASE Progress(t) \/ Cut(t)
    BY <1>2, CreateKinds, DeleteKinds, ReloadKinds, BehaviourKinds DEF Progress
  <1> QED BY <1>1, <1>2

-----------------------------------------------------------------------------
(***************************************************************************)
(* The registry leads to live workers.                                     *)
(***************************************************************************)
\* Nobody knows an instance before it is registered, and its worker lives
\* from its load on; a task replaces an instance of its own fragment.
UnknownBefore(t) ==
    pc[t] \notin Late => /\ t \notin terminated \cup retired
                         /\ \A f \in Fragment : registry[f] # t
                         /\ \A u \in Task : cur[u] # t

FreshTask(t) ==
    /\ UnknownBefore(t)
    /\ pc[t] \in Loaded => worker[t] = "live"
    /\ cur[t] # None => FragmentOf(cur[t]) = op[t].frag
    /\ pc[t] = "idle" => cur[t] = None

FreshInv == RegistryFresh /\ \A t \in Task : FreshTask(t)

(* Tasks do not change the fragment of an instance that somebody knows. *)
LEMMA FragmentStays ==
    ASSUME TypeInv, NEW t \in Task, OnlyTask(t), op'[t].frag = op[t].frag \/ pc[t] = "idle",
           NEW i \in Instance, pc[t] = "idle" => i # t
    PROVE  FragmentOf(i)' = FragmentOf(i)
  BY DEF FragmentOf, OnlyTask, Instance

(* Quiet steps. *)
LEMMA QuietFresh ==
    ASSUME TypeInv, FreshInv, NEW t \in Task, QuietStep(t)
    PROVE  FreshInv'
  <1>0. t \in Instance /\ op[t].frag \in Fragment /\ t # None
    BY LifecycleAssumption DEF TypeInv, TasksOK, Instance
  <1>1. \A i \in Instance : (pc[t] = "idle" => i # t) => FragmentOf(i)' = FragmentOf(i)
    BY FragmentStays DEF QuietStep
  <1>2. \A i \in Instance : worker[i] = "live" => worker'[i] = "live"
    BY <1>0 DEF TypeInv, WorldOK, QuietStep
  <1>3. \A f \in Fragment : registry[f] \in Maybe(Instance)
    BY DEF TypeInv, WorldOK
  <1>4. pc[t] = "idle" => /\ \A f \in Fragment : registry[f] # t
                          /\ \A u \in Task : cur[u] # t
                          /\ cur[t] = None
    BY DEF FreshInv, FreshTask, UnknownBefore, Late
  <1>5. RegistryFresh'
    BY <1>1, <1>2, <1>3, <1>4 DEF FreshInv, RegistryFresh, QuietStep, Maybe
  <1>6. ASSUME NEW u \in Task PROVE FreshTask(u)'
    <2>0. pc'[u] = pc[u] \/ u = t
      BY DEF QuietStep, OnlyTask
    <2>1. UnknownBefore(u)'
      <3>1. pc'[u] \notin Late => pc[u] \notin Late
        BY <2>0 DEF QuietStep
      <3>2. ASSUME pc[u] \notin Late, NEW v \in Task PROVE cur'[v] # u
        <4>1. u # None /\ cur[v] # u /\ \A f \in Fragment : registry[f] # u
          BY <3>2, LifecycleAssumption DEF FreshInv, FreshTask, UnknownBefore
        <4> QED BY <1>0, <4>1 DEF QuietStep, OnlyTask
      <3> QED BY <3>1, <3>2 DEF FreshInv, FreshTask, UnknownBefore, QuietStep
    <2>2. pc'[u] \in Loaded => worker'[u] = "live"
      <3>1. u \in Instance
        BY DEF Instance
      <3> QED BY <1>2, <2>0, <3>1 DEF FreshInv, FreshTask, QuietStep, TypeInv, WorldOK
    <2>3. (cur[u] # None => FragmentOf(cur[u]) = op[u].frag)'
      <3>1. CASE u # t
        <4>1. cur'[u] = cur[u] /\ op'[u] = op[u] /\ cur[u] \in Maybe(Instance)
          BY <3>1 DEF QuietStep, OnlyTask, TypeInv, TasksOK
        <4> QED BY <1>1, <1>4, <4>1 DEF FreshInv, FreshTask, Maybe
      <3>2. CASE u = t /\ cur'[t] \in {cur[t], None}
        <4>1. cur[t] \in Maybe(Instance)
          BY DEF TypeInv, TasksOK
        <4> QED BY <1>1, <1>4, <3>2, <4>1 DEF FreshInv, FreshTask, Maybe, QuietStep
      <3>3. CASE u = t /\ pc[t] # "idle" /\ cur'[t] = registry[op[t].frag]
        <4>1. registry[op[t].frag] # None => FragmentOf(registry[op[t].frag]) = op[t].frag
          BY <1>0 DEF FreshInv, RegistryFresh
        <4> QED BY <1>0, <1>1, <1>3, <3>3, <4>1 DEF QuietStep, Maybe
      <3> QED BY <3>1, <3>2, <3>3 DEF QuietStep
    <2>4. pc'[u] = "idle" => cur'[u] = None
      BY DEF QuietStep, OnlyTask, FreshInv, FreshTask
    <2> QED BY <2>1, <2>2, <2>3, <2>4 DEF FreshTask
  <1> QED BY <1>5, <1>6 DEF FreshInv

(* Only the entry of t's fragment changes, and what is told to stop was in *)
(* it or is what t replaces: the registry stays fresh.                     *)
LEMMA EntryFresh ==
    ASSUME TypeInv, FreshInv, NEW t \in Task, RegisterStep(t) \/ UnregisterStep(t)
    PROVE  FreshInv'
  <1> DEFINE f == op[t].frag
  <1>a. t \in Instance /\ f \in Fragment /\ t # None /\ op'[t].frag = f
    BY LifecycleAssumption DEF TypeInv, TasksOK, Instance, RegisterStep, UnregisterStep
  <1>1. \A i \in Instance : FragmentOf(i)' = FragmentOf(i)
    BY <1>a DEF RegisterStep, UnregisterStep, OnlyTask, FragmentOf, Instance
  <1>2. /\ OnlyTask(t) /\ UNCHANGED worker /\ cur'[t] \in {cur[t], None}
        /\ pc[t] \in Late => pc'[t] \in Late
        /\ pc'[t] \notin Loaded \cup {"idle"}
        /\ \A g \in Fragment \ {f} : registry'[g] = registry[g]
        /\ registry'[f] \in {None, t} /\ (registry'[f] = t => pc[t] \in Loaded /\ pc'[t] \in Late)
    BY <1>a DEF RegisterStep, UnregisterStep, Register, Unregister, TypeInv, WorldOK, Loaded, Late
  <1>3. retired' \subseteq retired \cup {registry[f]} /\ terminated' \subseteq terminated \cup {registry[f], cur[t]}
    BY DEF RegisterStep, UnregisterStep, Register, Unregister, terminate_worker
  <1>4. \A g \in Fragment : registry[g] \in Maybe(Instance)
    BY DEF TypeInv, WorldOK
  <1>5. RegistryFresh'
    <2> SUFFICES ASSUME NEW g \in Fragment, registry'[g] # None
                 PROVE  /\ worker'[registry'[g]] = "live" /\ registry'[g] \notin terminated' \cup retired'
                        /\ (FragmentOf(registry[g]) = g)'
      BY DEF RegistryFresh
    <2>1. CASE g # f
      <3>1. registry'[g] = registry[g] /\ registry[g] \in Instance
        BY <1>2, <1>4, <2>1 DEF Maybe
      <3>2. worker[registry[g]] = "live" /\ registry[g] \notin terminated \cup retired /\ FragmentOf(registry[g]) = g
        BY <3>1, LifecycleAssumption DEF FreshInv, RegistryFresh, Instance
      <3>3. registry[f] # None => FragmentOf(registry[f]) = f
        BY <1>a DEF FreshInv, RegistryFresh
      <3>4. cur[t] # None => FragmentOf(cur[t]) = f
        BY DEF FreshInv, FreshTask
      <3>5. registry[g] # registry[f] /\ registry[g] # cur[t]
        BY <2>1, <3>1, <3>2, <3>3, <3>4, LifecycleAssumption DEF Instance
      <3> QED BY <1>1, <1>2, <1>3, <3>1, <3>2, <3>5
    <2>2. CASE g = f
      <3>1. registry'[f] = t /\ pc[t] \in Loaded
        BY <1>2, <2>2
      <3>2. pc[t] \notin Late
        BY <3>1 DEF Loaded, Late
      <3>3. worker[t] = "live" /\ t \notin terminated \cup retired /\ registry[f] # t /\ cur[t] # t
        BY <1>a, <3>1, <3>2 DEF FreshInv, FreshTask, UnknownBefore
      <3>4. FragmentOf(t)' = f
        BY <1>a, <1>1, LifecycleAssumption DEF FragmentOf
      <3> QED BY <1>2, <1>3, <2>2, <3>1, <3>3, <3>4
    <2> QED BY <2>1, <2>2
  <1>6. ASSUME NEW u \in Task PROVE FreshTask(u)'
    <2>0. (pc'[u] = pc[u] \/ u = t) /\ u # None
      BY <1>2, LifecycleAssumption DEF OnlyTask
    <2>1. UnknownBefore(u)'
      <3> SUFFICES ASSUME pc'[u] \notin Late
                   PROVE  /\ u \notin terminated' \cup retired'
                          /\ \A g \in Fragment : registry'[g] # u
                          /\ \A v \in Task : cur'[v] # u
        BY DEF UnknownBefore
      <3>1. pc[u] \notin Late
        BY <1>2, <2>0
      <3>2. u \notin terminated \cup retired /\ (\A g \in Fragment : registry[g] # u) /\ \A v \in Task : cur[v] # u
        BY <3>1 DEF FreshInv, FreshTask, UnknownBefore
      <3>3. \A v \in Task : cur'[v] # u
        BY <1>2, <2>0, <3>2 DEF OnlyTask
      <3>4. \A g \in Fragment : registry'[g] # u
        BY <1>2, <2>0, <3>2
      <3> QED BY <1>a, <1>3, <3>2, <3>3, <3>4
    <2>2. pc'[u] \in Loaded => worker'[u] = "live"
      BY <1>2, <2>0 DEF FreshInv, FreshTask
    <2>3. (cur[u] # None => FragmentOf(cur[u]) = op[u].frag)'
      <3>1. cur'[u] # None => cur'[u] = cur[u] /\ op'[u].frag = op[u].frag /\ cur[u] \in Instance
        BY <1>a, <1>2 DEF OnlyTask, TypeInv, TasksOK, Maybe
      <3> QED BY <1>1, <3>1 DEF FreshInv, FreshTask
    <2>4. pc'[u] = "idle" => cur'[u] = None
      BY <1>2 DEF OnlyTask, FreshInv, FreshTask
    <2> QED BY <2>1, <2>2, <2>3, <2>4 DEF FreshTask
  <1> QED BY <1>5, <1>6 DEF FreshInv

(* The steps of instances.  A worker ends only when it was told to or no   *)
(* handle is left, the registry's and the loading task's among them.       *)
LEMMA InstanceFresh ==
    ASSUME TypeInv, FreshInv, NEW i \in Instance, Change(i) \/ Persist(i) \/ PersistFails(i) \/ WorkerEnds(i)
    PROVE  FreshInv'
  <1>1. UNCHANGED <<op, cur, pc, registry, terminated, retired>>
    BY DEF Change, Persist, PersistFails, WorkerEnds, tasks
  <1>2. \A j : FragmentOf(j)' = FragmentOf(j)
    BY <1>1 DEF FragmentOf
  <1>3. \A j \in Instance : worker'[j] = worker[j] \/ (j = i /\ (i \in terminated \/ ~Held(i)))
    BY DEF Change, Persist, PersistFails, WorkerEnds, TypeInv, WorldOK
  <1>4. RegistryFresh'
    <2> SUFFICES ASSUME NEW f \in Fragment, registry[f] # None
                 PROVE  /\ worker'[registry[f]] = "live" /\ registry[f] \notin terminated \cup retired
                        /\ FragmentOf(registry[f]) = f
      BY <1>1, <1>2 DEF RegistryFresh
    <2>1. registry[f] \in Instance
      BY DEF TypeInv, WorldOK, Maybe
    <2>2. worker[registry[f]] = "live" /\ registry[f] \notin terminated \cup retired /\ FragmentOf(registry[f]) = f
      BY DEF FreshInv, RegistryFresh
    <2>3. registry[f] = i => Held(i)
      BY <2>2 DEF Held
    <2> QED BY <1>3, <2>1, <2>2, <2>3
  <1>5. ASSUME NEW t \in Task PROVE FreshTask(t)'
    <2>1. pc[t] \in Loaded => worker'[t] = "live"
      <3> SUFFICES ASSUME pc[t] \in Loaded PROVE worker'[t] = "live"
        OBVIOUS
      <3>1. worker[t] = "live" /\ t \notin terminated /\ pc[t] # "done" /\ t \in Instance
        BY DEF FreshInv, FreshTask, UnknownBefore, Loaded, Late, Instance
      <3>2. t = i => Held(i)
        BY <3>1 DEF Held
      <3> QED BY <1>3, <3>1, <3>2
    <2> QED BY <1>1, <1>2, <2>1 DEF FreshInv, FreshTask, UnknownBefore
  <1> QED BY <1>4, <1>5 DEF FreshInv

(* The start. *)
LEMMA InitFresh == Init => FreshInv
  <1> SUFFICES ASSUME Init PROVE FreshInv
    OBVIOUS
  <1>1. \A f \in Fragment : registry[f] # None => registry[f] = f
    BY DEF Init, load_entities, load_wasm_entity
  <1>2. RegistryFresh
    BY <1>1 DEF Init, RegistryFresh, FragmentOf, Instance
  <1>3. \A t \in Task : FreshTask(t)
    BY <1>1, LifecycleAssumption DEF Init, FreshTask, UnknownBefore, Loaded
  <1> QED BY <1>2, <1>3 DEF FreshInv

(* Every step keeps the registry fresh. *)
LEMMA NextFresh == TypeInv /\ FreshInv /\ [Next]_vars => FreshInv'
  <1> SUFFICES ASSUME TypeInv, FreshInv, [Next]_vars PROVE FreshInv'
    OBVIOUS
  <1>1. CASE UNCHANGED vars
    BY <1>1 DEF vars, FreshInv, RegistryFresh, FreshTask, UnknownBefore, FragmentOf
  <1>2. ASSUME NEW t \in Task, (\E f \in Target : Start(t, f)) \/ Progress(t) \/ Cut(t) PROVE FreshInv'
    BY <1>2, StepKinds, QuietFresh, EntryFresh DEF Kinds
  <1>3. CASE \E i \in Instance : Change(i) \/ Persist(i) \/ PersistFails(i) \/ WorkerEnds(i)
    BY <1>3, InstanceFresh
  <1> QED BY <1>1, <1>2, <1>3 DEF Next

(* Whatever creations, deletions and reloads interleave, the registry leads *)
(* only to instances whose worker lives, was not told to stop (terminate_   *)
(* worker) and never left the registry before.                              *)
THEOREM RegistryCorrect == Spec => []RegistryFresh
  <1>1. Init => TypeInv /\ FreshInv
    BY InitTypes, InitFresh
  <1>2. TypeInv /\ FreshInv /\ [Next]_vars => (TypeInv /\ FreshInv)'
    BY NextTypes, NextFresh
  <1>3. TypeInv /\ FreshInv => RegistryFresh
    BY DEF FreshInv
  <1> QED BY <1>1, <1>2, <1>3, PTL DEF Spec

-----------------------------------------------------------------------------
(***************************************************************************)
(* A reload keeps the state of the instance it replaces.                   *)
(***************************************************************************)
\* c is registered, or loaded and about to be.
Current(c) == registry[FragmentOf(c)] = c \/ (c \in Task /\ pc[c] \in Loaded)

\* The manifest has, or a reload is about to link, every state of a current
\* instance that is marked saved and was not lost.
Relinking(c) == \E u \in Task : pc[u] = "relink" /\ cur[u] = c

KeepInstance(c) ==
    Current(c) /\ c \notin exposed /\ ~pending[c] => Linked(FragmentOf(c), val[c]) \/ Relinking(c)

\* What a task knows of the current instance it replaces, place by place.
KeepPlace(t) ==
    /\ pc[t] \in {"idle", "gate", "link", "config", "resolve", "current"} => cur[t] = None
    /\ cur[t] # None /\ Current(cur[t]) /\ cur[t] \notin exposed =>
          /\ pc[t] = "relink" => saved[t] = val[cur[t]] /\ ~pending[cur[t]]
          /\ pc[t] \in {"reread", "node"} => Linked(op[t].frag, val[cur[t]]) /\ ~pending[cur[t]]
          /\ pc[t] \in {"load", "finish"} => seen[t].state = val[cur[t]]
    /\ pc[t] = "insert" => t \in exposed
    /\ pc[t] \in {"complete", "state"} /\ saved[t] # None => t \in exposed

\* Two tasks replace the same instance only if it counts as lost.
Alone(t) == \A u \in Task \ {t} : cur[t] # None /\ cur[u] = cur[t] => cur[t] \in exposed

KeepInv ==
    /\ \A c \in Instance : KeepInstance(c)
    /\ \A t \in Task : KeepPlace(t) /\ Alone(t)

(* A current instance lives. *)
LEMMA CurrentLives ==
    ASSUME TypeInv, FreshInv, NEW c \in Instance
    PROVE  FragmentOf(c) \in Fragment /\ (Current(c) => worker[c] = "live")
  <1>1. FragmentOf(c) \in Fragment
    BY DEF FragmentOf, Instance, TypeInv, TasksOK
  <1>2. c # None
    BY LifecycleAssumption DEF Instance
  <1> QED BY <1>1, <1>2 DEF Current, FreshInv, RegistryFresh, FreshTask

(* A step of a task makes no instance current, unless it loads one. *)
LEMMA CurrentBefore ==
    ASSUME TypeInv, FreshInv, TypeInv', NEW t \in Task, Kinds(t), NEW c \in Instance, Current(c)'
    PROVE  \/ c = t /\ pc'[t] \in Loaded /\ pc[t] \notin Loaded
           \/ Current(c) /\ FragmentOf(c)' = FragmentOf(c)
  <1>0. t \in Instance /\ op[t].frag \in Fragment /\ registry \in [Fragment -> Maybe(Instance)]
    BY DEF TypeInv, TasksOK, WorldOK, Instance
  <1>1. /\ OnlyTask(t) /\ (op'[t].frag = op[t].frag \/ pc[t] = "idle")
        /\ pc'[t] \in Loaded => pc[t] \in Loaded \/ pc[t] = "load"
        /\ \A f \in Fragment : registry'[f] = registry[f] \/ registry'[f] = None \/ (registry'[f] = t /\ pc[t] \in Loaded)
    BY <1>0 DEF Kinds, QuietStep, RegisterStep, UnregisterStep, Register, Unregister, Late, Loaded
  <1>2. c \in Fragment => FragmentOf(c)' = c /\ FragmentOf(c) = c /\ c \notin Task
    BY LifecycleAssumption DEF FragmentOf
  <1>3. c \in Task => FragmentOf(c)' = op'[c].frag /\ FragmentOf(c) = op[c].frag /\ c \notin Fragment
    BY LifecycleAssumption DEF FragmentOf
  <1>4. c # None
    BY LifecycleAssumption DEF Instance
  <1>5. CASE c # t
    <2>1. FragmentOf(c)' = FragmentOf(c) /\ FragmentOf(c) \in Fragment /\ (c \in Task => pc'[c] = pc[c])
      BY <1>1, <1>2, <1>3, <1>5, CurrentLives DEF OnlyTask, Instance
    <2> QED BY <1>1, <1>4, <1>5, <2>1 DEF Current
  <1>6. CASE c = t
    <2>1. CASE pc[t] = "idle"
      <3>1. pc'[t] \notin Loaded /\ \A f \in Fragment : registry'[f] # t
        BY <1>1, <1>4, <1>6, <2>1 DEF FreshInv, FreshTask, UnknownBefore, Late, Loaded
      <3>2. op'[t].frag \in Fragment
        BY DEF TypeInv, TasksOK
      <3> QED BY <1>3, <1>6, <3>1, <3>2 DEF Current
    <2>2. CASE pc[t] # "idle"
      <3>1. FragmentOf(c)' = FragmentOf(c) /\ FragmentOf(c) \in Fragment
        BY <1>0, <1>1, <1>3, <1>6, <2>2
      <3> QED BY <1>1, <1>4, <1>6, <3>1 DEF Current
    <2> QED BY <2>1, <2>2
  <1> QED BY <1>5, <1>6

\* What a step of t that loads nothing may do to states: forget that a state
\* is pending only if it links it or gives it up, find a state only by linking
\* it, and leave every other linked state linked.
PendingStep(t) ==
    \A c \in Instance : /\ pending'[c] => pending[c]
                        /\ Current(c)' => \/ pending'[c] = pending[c]
                                          \/ c \in exposed'
                                          \/ pc'[t] = "relink" /\ cur'[t] = c

ExposedStep(t) ==
    \A c \in exposed : \/ c \in exposed'
                       \/ c = t /\ ~BeingReplaced(t) /\ Linked(op[t].frag, val[t])'

LinkStep ==
    \A c \in Instance : /\ Current(c) /\ c \notin exposed' /\ Linked(FragmentOf(c), val[c])
                        => Linked(FragmentOf(c), val[c])'

\* The state a task is to link is linked when it goes on.
RelinkStep(t) ==
    \A c \in Instance : /\ pc[t] = "relink" /\ cur[t] = c
                        /\ Current(c) /\ c \notin exposed'
                        => (pc'[t] = "relink" /\ cur'[t] = c) \/ Linked(FragmentOf(c), val[c])'

(* The state of a step that loads nothing. *)
LEMMA KeepStep ==
    ASSUME TypeInv, FreshInv, KeepInv, TypeInv', FreshInv', NEW t \in Task, Kinds(t), pc'[t] \in Loaded => pc[t] \in Loaded,
           UNCHANGED val, PendingStep(t), ExposedStep(t), LinkStep, RelinkStep(t),
           \/ cur'[t] \in {cur[t], None}
           \/ (\E u \in Task \ {t} : cur[u] = cur'[t]) => cur'[t] \in exposed',
           KeepPlace(t)'
    PROVE  KeepInv'
  <1>0. t \in Instance /\ OnlyTask(t)
    BY DEF Instance, Kinds, QuietStep, RegisterStep, UnregisterStep
  <1>1. \A c \in Instance : Current(c)' => Current(c) /\ FragmentOf(c)' = FragmentOf(c)
    BY CurrentBefore
  <1>2. ASSUME NEW c \in Instance PROVE KeepInstance(c)'
    <2> SUFFICES ASSUME Current(c)', c \notin exposed', ~pending'[c]
                 PROVE  (Linked(FragmentOf(c), val[c]) \/ Relinking(c))'
      BY DEF KeepInstance
    <2>1. Current(c) /\ FragmentOf(c)' = FragmentOf(c)
      BY <1>1
    <2>2. CASE c \in exposed
      <3>1. c = t /\ Linked(op[t].frag, val[t])'
        BY <2>2 DEF ExposedStep
      <3>2. (FragmentOf(t) = op[t].frag)'
        BY LifecycleAssumption DEF FragmentOf
      <3> QED BY <3>1, <3>2
    <2>3. CASE pending[c]
      BY <1>0, <2>3 DEF PendingStep, Relinking, TypeInv, WorldOK
    <2>4. CASE c \notin exposed /\ ~pending[c]
      <3>1. Linked(FragmentOf(c), val[c]) \/ Relinking(c)
        BY <2>1, <2>4 DEF KeepInv, KeepInstance
      <3>2. CASE Linked(FragmentOf(c), val[c])
        BY <2>1, <3>2 DEF LinkStep
      <3>3. CASE Relinking(c)
        <4>1. PICK u \in Task : pc[u] = "relink" /\ cur[u] = c
          BY <3>3 DEF Relinking
        <4>2. CASE u # t
          BY <1>0, <4>1, <4>2 DEF OnlyTask, Relinking
        <4>3. CASE u = t
          BY <2>1, <4>1, <4>3 DEF RelinkStep, Relinking
        <4> QED BY <4>2, <4>3
      <3> QED BY <3>1, <3>2, <3>3
    <2> QED BY <2>2, <2>3, <2>4
  <1>3. ASSUME NEW u \in Task \ {t} PROVE KeepPlace(u)'
    <2>0. op'[u] = op[u] /\ pc'[u] = pc[u] /\ seen'[u] = seen[u] /\ cur'[u] = cur[u] /\ saved'[u] = saved[u]
      BY <1>0 DEF OnlyTask
    <2>1. u \in exposed => u \in exposed'
      BY DEF ExposedStep
    <2>2. ASSUME cur[u] # None, Current(cur[u])', cur[u] \notin exposed'
          PROVE  /\ pc[u] = "relink" => saved[u] = val[cur[u]] /\ ~pending'[cur[u]]
                 /\ pc[u] \in {"reread", "node"} => Linked(op[u].frag, val[cur[u]])' /\ ~pending'[cur[u]]
                 /\ pc[u] \in {"load", "finish"} => seen[u].state = val[cur[u]]
      <3>1. cur[u] \in Instance
        BY <2>2 DEF TypeInv, TasksOK, Maybe
      <3>2. Current(cur[u]) /\ FragmentOf(cur[u]) = op[u].frag
        BY <1>1, <2>0, <2>2, <3>1 DEF FreshInv, FreshTask
      <3>3. cur[u] \notin exposed
        BY <2>2 DEF ExposedStep, BeingReplaced
      <3>4. /\ pc[u] = "relink" => saved[u] = val[cur[u]] /\ ~pending[cur[u]]
            /\ pc[u] \in {"reread", "node"} => Linked(op[u].frag, val[cur[u]]) /\ ~pending[cur[u]]
            /\ pc[u] \in {"load", "finish"} => seen[u].state = val[cur[u]]
        BY <2>2, <3>2, <3>3 DEF KeepInv, KeepPlace
      <3>5. ASSUME NEW c \in Instance, c = cur[u]
            PROVE  Linked(op[u].frag, val[c]) => Linked(op[u].frag, val[c])'
        <4>1. Linked(FragmentOf(c), val[c]) => Linked(FragmentOf(c), val[c])'
          BY <2>2, <3>2, <3>5 DEF LinkStep
        <4>2. (FragmentOf(c))' = FragmentOf(c)
          BY <1>1, <2>0, <2>2, <3>5
        <4> QED BY <2>0, <3>2, <3>5, <4>1, <4>2
      <3>6. ~pending[cur[u]] => ~pending'[cur[u]]
        BY <3>1 DEF PendingStep
      <3> QED BY <2>0, <3>1, <3>4, <3>5, <3>6
    <2> QED BY <2>0, <2>1, <2>2 DEF KeepPlace, KeepInv
  <1>4. ASSUME NEW u \in Task PROVE Alone(u)'
    <2> SUFFICES ASSUME NEW v \in Task \ {u}, cur'[u] # None, cur'[v] = cur'[u] PROVE cur'[u] \in exposed'
      BY DEF Alone
    <2>1. CASE cur'[u] = cur[u] /\ cur'[v] = cur[v]
      <3>1. cur[u] \in exposed
        BY <2>1 DEF KeepInv, Alone
      <3> QED BY <2>1, <3>1 DEF ExposedStep, BeingReplaced
    <2>2. CASE u = t /\ cur'[t] # cur[t]
      BY <1>0, <2>2 DEF OnlyTask
    <2>3. CASE v = t /\ cur'[t] # cur[t]
      BY <1>0, <2>3 DEF OnlyTask
    <2> QED BY <1>0, <2>1, <2>2, <2>3 DEF OnlyTask
  <1> QED BY <1>2, <1>3, <1>4 DEF KeepInv

(* A current instance keeps its fragment. *)
LEMMA FragmentKept ==
    ASSUME TypeInv, FreshInv, NEW t \in Task, Kinds(t), NEW c \in Instance, Current(c)
    PROVE  FragmentOf(c)' = FragmentOf(c)
  <1>1. OnlyTask(t) /\ (op'[t].frag = op[t].frag \/ pc[t] = "idle")
    BY DEF Kinds, QuietStep, RegisterStep, UnregisterStep
  <1>2. pc[t] = "idle" => c # t
    BY CurrentLives DEF Current, FreshInv, FreshTask, UnknownBefore, Loaded, Late
  <1> QED BY <1>1, <1>2, FragmentStays

\* The states of the manifest stay, and nothing is found that was lost.
StatesStay ==
    /\ UNCHANGED val
    /\ exposed \subseteq exposed'
    /\ \A f \in Fragment : manifest[f] # None => manifest'[f] # None /\ manifest'[f].state = manifest[f].state

(* StatesStay and its consequences. *)
LEMMA StatesStayLinked ==
    ASSUME TypeInv, FreshInv, NEW t \in Task, Kinds(t), StatesStay
    PROVE  ExposedStep(t) /\ LinkStep
  <1>1. ExposedStep(t)
    BY DEF StatesStay, ExposedStep
  <1>2. ASSUME NEW c \in Instance, Current(c), Linked(FragmentOf(c), val[c])
        PROVE  Linked(FragmentOf(c), val[c])'
    <2>1. FragmentOf(c)' = FragmentOf(c) /\ FragmentOf(c) \in Fragment
      BY <1>2, FragmentKept, CurrentLives
    <2>2. manifest'[FragmentOf(c)] # None /\ manifest'[FragmentOf(c)].state = val'[c]
      BY <1>2, <2>1 DEF StatesStay, Linked
    <2> QED BY <2>1, <2>2 DEF Linked
  <1> QED BY <1>1, <1>2 DEF LinkStep

\* What all the lemmas below assume.
KeepBefore == TypeInv /\ FreshInv /\ KeepInv /\ TypeInv' /\ FreshInv'

(* A step that saves and links nothing. *)
LEMMA CalmKeeps ==
    ASSUME KeepBefore, NEW t \in Task, Kinds(t), pc'[t] \in Loaded => pc[t] \in Loaded,
           StatesStay, UNCHANGED pending, cur'[t] \in {cur[t], None},
           pc[t] = "relink" => cur[t] \in exposed',
           KeepPlace(t)'
    PROVE  KeepInv'
  <1>1. ExposedStep(t) /\ LinkStep
    BY StatesStayLinked DEF KeepBefore
  <1>2. PendingStep(t)
    BY DEF PendingStep
  <1>3. RelinkStep(t)
    BY DEF RelinkStep
  <1> QED BY <1>1, <1>2, <1>3, KeepStep DEF KeepBefore, StatesStay

(* Places where a task knows nothing of an instance. *)
LEMMA RestPlace ==
    ASSUME NEW t \in Task,
           \/ pc'[t] \in {"done", "mark", "unlink", "drop", "remove", "register", "failed", "finishFailed",
                          "prepare", "behaviour", "swap"}
           \/ cur'[t] = None /\ pc'[t] \notin {"insert", "complete", "state"}
    PROVE  KeepPlace(t)'
  BY DEF KeepPlace

(* The end of a task. *)
LEMMA DropKeeps ==
    ASSUME KeepBefore, NEW t \in Task, Kinds(t), Drop(t), pc' = [pc EXCEPT ![t] = "done"],
           StatesStay, UNCHANGED pending, pc[t] = "relink" => cur[t] \in exposed'
    PROVE  KeepInv'
  <1>1. cur'[t] = None /\ pc'[t] = "done"
    BY DropTypes DEF KeepBefore, TypeInv
  <1>2. pc'[t] \notin Loaded
    BY <1>1 DEF Loaded
  <1> QED BY <1>1, <1>2, CalmKeeps, RestPlace

(* The end of a task that links nothing. *)
LEMMA FinishKeeps ==
    ASSUME KeepBefore, NEW t \in Task, Kinds(t), NEW from, from # "relink", Finish(t, from)
    PROVE  KeepInv'
  <1>1. StatesStay
    BY DEF StatesStay, Finish, insts
  <1> QED BY <1>1, DropKeeps DEF Finish, Step, insts

(* A task goes on to a place where it knows nothing. *)
LEMMA PassKeeps ==
    ASSUME KeepBefore, NEW t \in Task, Kinds(t), NEW from, from # "relink",
           NEW to \in {"done", "mark", "unlink", "failed", "finishFailed", "prepare", "swap"},
           to = "swap" => from = "state",
           Step(t, from, to), UNCHANGED <<cur, val, pending, manifest>>, exposed \subseteq exposed'
    PROVE  KeepInv'
  <1>1. StatesStay
    BY DEF StatesStay
  <1>2. pc[t] = from /\ pc'[t] = to /\ cur'[t] = cur[t]
    BY DEF Step, KeepBefore, TypeInv, TasksOK
  <1>3. pc'[t] \in Loaded => pc[t] \in Loaded
    BY <1>2 DEF Loaded
  <1>4. KeepPlace(t)'
    BY <1>2, RestPlace
  <1> QED BY <1>1, <1>2, <1>3, <1>4, CalmKeeps

(* The start of an operation. *)
LEMMA StartKeeps ==
    ASSUME KeepBefore, NEW t \in Task, NEW f \in Target, Start(t, f)
    PROVE  KeepInv'
  <1>k. Kinds(t)
    BY StartQuiet DEF KeepBefore, Kinds
  <1>1. ASSUME NEW k, NEW g, NEW to \in {"load", "gate", "remove", "drop", "link", "resolve", "current"}, NEW n,
               Begin(t, k, g, to, n)
        PROVE  KeepInv'
    <2>1. pc[t] = "idle" /\ pc'[t] = to /\ UNCHANGED cur
      BY <1>1 DEF Begin, Step, KeepBefore, TypeInv, TasksOK
    <2>2. cur'[t] = None
      BY <2>1 DEF KeepBefore, KeepInv, KeepPlace
    <2>3. StatesStay /\ UNCHANGED pending
      BY <1>1 DEF StatesStay, Begin, insts
    <2>4. KeepPlace(t)'
      BY <2>1, <2>2, RestPlace
    <2>5. to \notin Loaded
      BY DEF Loaded
    <2> QED BY <1>k, <2>1, <2>2, <2>3, <2>4, <2>5, CalmKeeps
  <1>2. ASSUME NEW k, Skip(t, k) PROVE KeepInv'
    BY <1>k, <1>2, PassKeeps DEF Skip, tasks, insts
  <1> QED BY <1>1, <1>2 DEF Start, process_entity_create_requests, StartLocal, CheckDelete, StartCrudDelete,
             StartUpsert, StartAcl, spawn_kind_dependency_reloads_for, StartBehaviour

(* The load of an instance: its state is linked, pending or given up. *)
LEMMA LoadKeeps ==
    ASSUME KeepBefore, NEW t \in Task, Kinds(t), NEW to \in {"register", "finish", "behaviour"}, load(t, to)
    PROVE  KeepInv'
  <1>0. TypeInv /\ FreshInv /\ KeepInv /\ TypeInv' /\ FreshInv'
    BY DEF KeepBefore
  <1>1. t \in Instance /\ pc[t] = "load" /\ pc'[t] = to /\ UNCHANGED <<op, seen, cur, saved, registry, manifest>>
    BY <1>0 DEF Instance, load, Step, TypeInv, TasksOK
  <1>2. \A u \in Task \ {t} : pc'[u] = pc[u]
    BY DEF load, Step
  <1>3. /\ exposed \subseteq exposed'
        /\ \A c \in Instance \ {t} : val'[c] = val[c] /\ pending'[c] = pending[c]
        /\ \/ t \in exposed' \/ pending'[t] \/ Linked(op[t].frag, val'[t])
    <2>1. val \in [Instance -> State] /\ pending \in [Instance -> BOOLEAN]
      BY <1>0 DEF TypeInv, WorldOK
    <2> QED BY <1>1, <2>1 DEF load
  <1>4. \A c : FragmentOf(c)' = FragmentOf(c)
    BY <1>1 DEF FragmentOf
  <1>5. \A c \in Instance \ {t} : Current(c)' => Current(c)
    BY <1>1, <1>2, <1>4 DEF Current
  <1>6. \A u \in Task : cur[u] # t
    BY <1>0, <1>1 DEF FreshInv, FreshTask, UnknownBefore, Late
  <1>7. ASSUME NEW c \in Instance PROVE KeepInstance(c)'
    <2>1. CASE c = t
      <3>1. FragmentOf(t) = op[t].frag
        BY LifecycleAssumption DEF FragmentOf
      <3> QED BY <1>1, <1>3, <1>4, <2>1, <3>1 DEF KeepInstance, Linked
    <2>2. CASE c # t
      <3> SUFFICES ASSUME Current(c)', c \notin exposed', ~pending'[c]
                   PROVE  (Linked(FragmentOf(c), val[c]) \/ Relinking(c))'
        BY DEF KeepInstance
      <3>1. Linked(FragmentOf(c), val[c]) \/ Relinking(c)
        BY <1>0, <1>3, <1>5, <2>2 DEF KeepInv, KeepInstance
      <3>2. Linked(FragmentOf(c), val[c]) => Linked(FragmentOf(c), val[c])'
        BY <1>1, <1>3, <1>4, <2>2 DEF Linked
      <3>3. Relinking(c) => Relinking(c)'
        BY <1>1, <1>2 DEF Relinking
      <3> QED BY <3>1, <3>2, <3>3
    <2> QED BY <2>1, <2>2
  <1>8. ASSUME NEW u \in Task PROVE KeepPlace(u)' /\ Alone(u)'
    <2>1. Alone(u)'
      BY <1>0, <1>1, <1>3 DEF KeepInv, Alone
    <2>2. u \in exposed => u \in exposed'
      BY <1>3
    <2>3. ASSUME cur[u] = None PROVE KeepPlace(u)'
      <3>1. pc'[u] \in {"insert", "complete", "state"} => pc'[u] = pc[u]
        BY <1>1, <1>2
      <3>2. KeepPlace(u) /\ cur'[u] = None /\ saved'[u] = saved[u]
        BY <1>0, <1>1, <2>3 DEF KeepInv
      <3>3. CASE pc'[u] \notin {"insert", "complete", "state"}
        BY <3>2, <3>3, RestPlace
      <3>4. CASE pc'[u] \in {"insert", "complete", "state"}
        <4>1. pc[u] = "insert" \/ saved[u] # None => u \in exposed'
          BY <2>2, <3>1, <3>2, <3>4 DEF KeepPlace
        <4> QED BY <3>1, <3>2, <3>4, <4>1 DEF KeepPlace
      <3> QED BY <3>3, <3>4
    <2>4. ASSUME NEW c \in Instance, c = cur[u] PROVE KeepPlace(u)'
      <3>1. c # t
        BY <1>6, <2>4
      <3>2. val'[c] = val[c] /\ pending'[c] = pending[c] /\ (Current(c)' => Current(c))
        BY <1>3, <1>5, <3>1
      <3>3. Linked(op[u].frag, val[c])' <=> Linked(op[u].frag, val[c])
        BY <1>1, <3>2 DEF Linked
      <3>4. pc'[u] = pc[u] \/ (pc[u] = "load" /\ pc'[u] \in {"register", "finish", "behaviour"})
        BY <1>1, <1>2
      <3>5. KeepPlace(u)
        BY <1>0 DEF KeepInv
      <3> QED BY <1>1, <1>3, <2>2, <2>4, <3>2, <3>3, <3>4, <3>5 DEF KeepPlace
    <2> QED BY <1>0, <2>1, <2>3, <2>4 DEF TypeInv, TasksOK, Maybe
  <1> QED BY <1>7, <1>8 DEF KeepInv

(* A load that fails. *)
LEMMA LoadFailsKeeps ==
    ASSUME KeepBefore, NEW t \in Task, Kinds(t), NEW n, NEW to \in {"done", "failed", "finishFailed"},
           load_with_fibonacci_backoff(t, n, to)
    PROVE  KeepInv'
  <1>1. UNCHANGED <<val, pending, manifest, exposed, registry>>
    BY DEF load_with_fibonacci_backoff, insts
  <1>2. CASE UNCHANGED <<pc, op, seen, cur, saved, life>>
    BY <1>1, <1>2 DEF KeepBefore, KeepInv, KeepInstance, KeepPlace, Alone, Current, FragmentOf, Linked, Relinking
  <1>3. CASE Step(t, "load", to) /\ UNCHANGED tasks
    BY <1>1, <1>3, PassKeeps DEF tasks
  <1>4. CASE Step(t, "load", "done") /\ Drop(t)
    <2>1. StatesStay /\ pc[t] # "relink"
      BY <1>1, <1>4 DEF StatesStay, Step
    <2> QED BY <1>1, <1>4, <2>1, DropKeeps DEF Step
  <1> QED BY <1>2, <1>3, <1>4 DEF load_with_fibonacci_backoff

(* The task's own instance is saved; the step gives it up for the time, or *)
(* it is not current.                                                      *)
LEMMA SaveKeeps ==
    ASSUME KeepBefore, NEW t \in Task, Kinds(t), pc[t] \in {"register", "finish", "behaviour"},
           NEW s, trigger_save(t, s), saved' = [saved EXCEPT ![t] = s],
           pc'[t] \in {"insert", "done", "complete", "state"},
           StatesStay, UNCHANGED cur,
           t \in exposed' \/ (s = None /\ pc'[t] # "insert") \/ (pc'[t] = "done" /\ ~Current(t)')
    PROVE  KeepInv'
  <1>1. t \in Instance /\ pending \in [Instance -> BOOLEAN] /\ saved'[t] = s /\ cur'[t] = cur[t]
    BY DEF KeepBefore, TypeInv, TasksOK, WorldOK, Instance
  <1>2. ExposedStep(t) /\ LinkStep
    BY StatesStayLinked DEF KeepBefore
  <1>3. PendingStep(t)
    <2>1. val[t] # None
      BY <1>1, StateFacts DEF KeepBefore, TypeInv, WorldOK
    <2> QED BY <1>1, <2>1 DEF PendingStep, trigger_save
  <1>4. RelinkStep(t) /\ (pc'[t] \in Loaded => pc[t] \in Loaded)
    BY DEF RelinkStep, Loaded
  <1>5. KeepPlace(t)'
    BY <1>1 DEF KeepPlace
  <1> QED BY <1>1, <1>2, <1>3, <1>4, <1>5, KeepStep DEF KeepBefore, StatesStay

(* Creations, up to the registration. *)
LEMMA CreateKeeps ==
    ASSUME KeepBefore, NEW t \in Task, Kinds(t),
           \/ create_entity_from_request(t) \/ finish_created_entity(t)
           \/ handle_create_request(t) \/ LoadLocal(t) \/ finish_create_request(t)
    PROVE  KeepInv'
  <1>0. TypeInv /\ FreshInv /\ KeepInv /\ t \in Instance /\ op[t].frag \in Fragment
    BY DEF KeepBefore, TypeInv, TasksOK, Instance
  <1>f. ASSUME NEW from, from # "relink", Finish(t, from) PROVE KeepInv'
    BY <1>f, FinishKeeps
  <1>1. CASE create_entity_from_request(t) \/ LoadLocal(t)
    BY <1>1, LoadKeeps, LoadFailsKeeps DEF create_entity_from_request, LoadLocal
  <1>2. CASE finish_created_entity(t)
    <2>1. ASSUME Step(t, "register", "insert"), NEW s, trigger_save(t, s), saved' = [saved EXCEPT ![t] = s],
                 exposed' = exposed \cup {t}, UNCHANGED <<cur, manifest, val>>
          PROVE  KeepInv'
      <3>1. pc[t] = "register" /\ pc'[t] = "insert"
        BY <1>0, <2>1 DEF Step, TypeInv, TasksOK
      <3>2. StatesStay
        BY <2>1 DEF StatesStay
      <3> QED BY <2>1, <3>1, <3>2, SaveKeeps
    <2> QED BY <1>f, <1>2, <2>1 DEF finish_created_entity
  <1>3. CASE handle_create_request(t)
    <2>1. CASE /\ Step(t, "gate", "load") /\ UNCHANGED <<tasks, manifest, insts, exposed>>
      <3>1. pc[t] = "gate" /\ pc'[t] = "load" /\ UNCHANGED cur
        BY <1>0, <2>1 DEF Step, TypeInv, TasksOK, tasks
      <3>2. cur'[t] = None
        BY <1>0, <3>1 DEF KeepInv, KeepPlace
      <3>3. StatesStay /\ UNCHANGED pending /\ pc'[t] \notin Loaded
        BY <2>1, <3>1 DEF StatesStay, insts, Loaded
      <3>4. KeepPlace(t)'
        BY <3>1, <3>2, RestPlace
      <3> QED BY <3>1, <3>2, <3>3, <3>4, CalmKeeps
    <2> QED BY <1>f, <1>3, <2>1 DEF handle_create_request
  <1>4. CASE finish_create_request(t)
    <2>1. ASSUME Step(t, "register", IF registry[op[t].frag] = None THEN "insert" ELSE "done"),
                 exposed' = IF registry[op[t].frag] = None THEN exposed \cup {t} ELSE exposed,
                 NEW s, trigger_save(t, s), saved' = [saved EXCEPT ![t] = s],
                 insert_if_absent(op[t].frag, t), UNCHANGED <<op, cur, manifest, val>>
          PROVE  KeepInv'
      <3>1. pc[t] = "register" /\ pc'[t] = IF registry[op[t].frag] = None THEN "insert" ELSE "done"
        BY <1>0, <2>1 DEF Step, TypeInv, TasksOK
      <3>2. StatesStay
        BY <2>1 DEF StatesStay
      <3>3. registry[op[t].frag] # None => pc'[t] = "done" /\ ~Current(t)'
        <4>1. registry[op[t].frag] # t /\ FragmentOf(t)' = op'[t].frag
          BY <1>0, <3>1, LifecycleAssumption DEF FreshInv, FreshTask, UnknownBefore, Late, FragmentOf
        <4>2. "done" \notin Loaded
          BY DEF Loaded
        <4> QED BY <2>1, <3>1, <4>1, <4>2 DEF Current, insert_if_absent
      <3> QED BY <2>1, <3>1, <3>2, <3>3, SaveKeeps
    <2> QED BY <1>f, <1>4, <2>1 DEF finish_create_request
  <1> QED BY <1>1, <1>2, <1>3, <1>4

(* A node is not None. *)
LEMMA NodeNotNone == None \notin EntityNode
  <1>1. EntityNode \subseteq [state : Nat, parent : Fragment \cup {None}, initialised : BOOLEAN, reload_error : BOOLEAN]
    BY LifecycleAssumption DEF EntityNode, State, Maybe
  <1> QED BY <1>1, LifecycleAssumption

(* A task links the state of its own instance. *)
LEMMA SettleKeeps ==
    ASSUME KeepBefore, NEW t \in Task, Kinds(t), pc[t] \in {"insert", "complete", "state"}, pc'[t] \in {"done", "swap"},
           pc'[t] = "swap" => pc[t] = "state",
           cur'[t] \in {cur[t], None}, op'[t].frag = op[t].frag, UNCHANGED <<val, pending>>,
           NEW n \in EntityNode, manifest' = [manifest EXCEPT ![op[t].frag] = n], Settle(t, op[t].frag, n.state),
           t \in exposed \/ Linked(op[t].frag, n.state)
    PROVE  KeepInv'
  <1> DEFINE f == op[t].frag
             s == n.state
  <1>0. TypeInv /\ FreshInv /\ KeepInv /\ t \in Instance /\ f \in Fragment
    BY DEF KeepBefore, TypeInv, TasksOK, Instance
  <1>1. manifest'[f] = n /\ n # None /\ \A g \in Fragment \ {f} : manifest'[g] = manifest[g]
    BY <1>0, NodeNotNone DEF TypeInv, WorldOK
  <1>2. ExposedStep(t)
    <2> SUFFICES ASSUME NEW c \in exposed, c \notin exposed'
                 PROVE  c = t /\ ~BeingReplaced(t) /\ Linked(op[t].frag, val[t])'
      BY DEF ExposedStep
    <2>1. c = t /\ val[t] = s /\ ~BeingReplaced(t)
      BY DEF Settle
    <2>2. Linked(op[t].frag, val[t])'
      BY <1>1, <2>1 DEF Linked
    <2> QED BY <2>1, <2>2
  <1>3. ASSUME NEW c \in Instance, Current(c), c \notin exposed', Linked(FragmentOf(c), val[c])
        PROVE  Linked(FragmentOf(c), val[c])'
    <2>1. FragmentOf(c)' = FragmentOf(c) /\ FragmentOf(c) \in Fragment /\ worker[c] = "live"
      BY <1>0, <1>3, FragmentKept, CurrentLives
    <2>2. CASE FragmentOf(c) # f
      BY <1>1, <1>3, <2>1, <2>2 DEF Linked
    <2>3. CASE FragmentOf(c) = f /\ val[c] = s
      BY <1>1, <2>1, <2>3 DEF Linked
    <2>4. CASE FragmentOf(c) = f /\ val[c] # s
      <3>1. c = t
        BY <1>3, <2>1, <2>4 DEF Settle, Others
      <3>2. t \notin exposed
        BY <1>3, <2>4, <3>1 DEF Settle
      <3> QED BY <1>3, <2>4, <3>1, <3>2 DEF Linked
    <2> QED BY <2>2, <2>3, <2>4
  <1>4. PendingStep(t) /\ RelinkStep(t) /\ KeepPlace(t)' /\ (pc'[t] \in Loaded => pc[t] \in Loaded)
    BY RestPlace DEF PendingStep, RelinkStep, Loaded
  <1>5. LinkStep
    BY <1>3 DEF LinkStep
  <1> QED BY <1>2, <1>4, <1>5, KeepStep DEF KeepBefore

(* A task writes a node, or links the state of the instance it replaces. *)
LEMMA WriteKeeps ==
    ASSUME KeepBefore, NEW t \in Task, Kinds(t), cur'[t] = cur[t], op'[t].frag = op[t].frag, UNCHANGED <<val, pending>>,
           NEW n \in EntityNode, NEW i, WriteNode(i, op[t].frag, n),
           \/ i = None /\ pc[t] = "link" /\ pc'[t] = "config"
           \/ i = cur[t] /\ pc[t] = "relink" /\ n.state = saved[t] /\ pc'[t] \in {"reread", "node"}
    PROVE  KeepInv'
  <1> DEFINE f == op[t].frag
             s == n.state
  <1>0. TypeInv /\ FreshInv /\ KeepInv /\ t \in Instance /\ f \in Fragment
    BY DEF KeepBefore, TypeInv, TasksOK, Instance
  <1>1. manifest'[f] = n /\ n # None /\ \A g \in Fragment \ {f} : manifest'[g] = manifest[g]
    BY <1>0, NodeNotNone DEF TypeInv, WorldOK, WriteNode
  <1>2. exposed \subseteq exposed'
    BY DEF WriteNode
  <1>3. ASSUME NEW c \in Instance, Current(c), c \notin exposed'
        PROVE  /\ Linked(FragmentOf(c), val[c]) => Linked(FragmentOf(c), val[c])'
               /\ i = c => Linked(FragmentOf(c), val[c])' /\ ~pending[c]
    <2>1. FragmentOf(c)' = FragmentOf(c) /\ FragmentOf(c) \in Fragment /\ worker[c] = "live" /\ c # None
      BY <1>0, <1>3, FragmentKept, CurrentLives, LifecycleAssumption DEF Instance
    <2>2. i = c => FragmentOf(c) = f /\ val[c] = s /\ ~pending[c]
      BY <1>0, <1>2, <1>3, <2>1 DEF KeepInv, KeepPlace, FreshInv, FreshTask
    <2>3. CASE FragmentOf(c) # f
      BY <1>1, <2>1, <2>2, <2>3 DEF Linked
    <2>4. CASE FragmentOf(c) = f
      <3>1. val[c] = s
        BY <1>3, <2>1, <2>2, <2>4 DEF WriteNode, Others
      <3> QED BY <1>1, <2>1, <2>2, <2>4, <3>1 DEF Linked
    <2> QED BY <2>3, <2>4
  <1>4. ExposedStep(t) /\ PendingStep(t) /\ (pc'[t] \notin Loaded)
    BY <1>2 DEF ExposedStep, PendingStep, Loaded
  <1>5. LinkStep /\ RelinkStep(t)
    BY <1>3 DEF LinkStep, RelinkStep
  <1>6. KeepPlace(t)'
    <2>1. CASE pc[t] = "link"
      <3>1. cur'[t] = None /\ pc'[t] = "config"
        BY <1>0, <2>1 DEF KeepInv, KeepPlace
      <3> QED BY <3>1, RestPlace
    <2>2. CASE pc[t] = "relink"
      <3>1. ASSUME NEW c \in Instance, c = cur[t], Current(c)', c \notin exposed'
            PROVE  Linked(op[t].frag, val[c])' /\ ~pending'[c]
        <4>1. Current(c) /\ FragmentOf(c)' = FragmentOf(c)
          BY <1>4, <3>1, CurrentBefore DEF KeepBefore
        <4>2. FragmentOf(c) = f
          BY <1>0, <3>1, LifecycleAssumption DEF FreshInv, FreshTask, Instance
        <4>3. Linked(FragmentOf(c), val[c])' /\ ~pending[c]
          BY <1>3, <2>2, <3>1, <4>1
        <4> QED BY <4>1, <4>2, <4>3
      <3>2. cur[t] \in Instance /\ pc'[t] \in {"reread", "node"}
        BY <1>0, <2>2 DEF TypeInv, PlaceOK
      <3> QED BY <3>1, <3>2 DEF KeepPlace
    <2> QED BY <2>1, <2>2
  <1> QED BY <1>4, <1>5, <1>6, KeepStep DEF KeepBefore

(* The manifest forgets a fragment. *)
LEMMA UnlinkKeeps ==
    ASSUME KeepBefore, NEW t \in Task, Kinds(t), Step(t, "unlink", "done"), Drop(t),
           manifest' = [manifest EXCEPT ![op[t].frag] = None],
           exposed' = exposed \cup Others(op[t].frag, None, None), UNCHANGED <<val, pending>>
    PROVE  KeepInv'
  <1>0. TypeInv /\ FreshInv /\ KeepInv /\ op[t].frag \in Fragment
    BY DEF KeepBefore, TypeInv, TasksOK
  <1>1. cur'[t] = None /\ pc[t] = "unlink" /\ pc'[t] = "done"
    BY <1>0, DropTypes DEF TypeInv, Step
  <1>2. ASSUME NEW c \in Instance, Current(c), c \notin exposed', Linked(FragmentOf(c), val[c])
        PROVE  Linked(FragmentOf(c), val[c])'
    <2>1. FragmentOf(c)' = FragmentOf(c) /\ FragmentOf(c) \in Fragment /\ worker[c] = "live"
      BY <1>0, <1>2, FragmentKept, CurrentLives
    <2>2. c # None /\ val[c] # None
      BY <1>0, StateFacts DEF TypeInv, WorldOK
    <2>3. FragmentOf(c) # op[t].frag
      BY <1>2, <2>1, <2>2 DEF Others
    <2> QED BY <1>0, <1>2, <2>1, <2>3 DEF Linked, TypeInv, WorldOK
  <1>3. ExposedStep(t) /\ PendingStep(t) /\ RelinkStep(t) /\ pc'[t] \notin Loaded /\ KeepPlace(t)'
    BY <1>1, RestPlace DEF ExposedStep, PendingStep, RelinkStep, Loaded
  <1>4. LinkStep
    BY <1>2 DEF LinkStep
  <1> QED BY <1>1, <1>3, <1>4, KeepStep DEF KeepBefore

(* Deletions, and the manifest's part of the creations and of the CRUD *)
(* requests.                                                           *)
LEMMA ManifestKeeps ==
    ASSUME KeepBefore, NEW t \in Task, Kinds(t),
           \/ insert_entity(t) \/ process_entity_delete_requests(t) \/ handle_entity_delete(t)
           \/ handle_entity_upsert(t) \/ handle_entity_acl_field(t) \/ SpawnReload(t)
    PROVE  KeepInv'
  <1>0. TypeInv /\ FreshInv /\ KeepInv /\ t \in Instance /\ op[t].frag \in Fragment
    BY DEF KeepBefore, TypeInv, TasksOK, Instance
  <1>f. ASSUME NEW from, from # "relink", Finish(t, from) PROVE KeepInv'
    BY <1>f, FinishKeeps
  <1>1. CASE insert_entity(t)
    <2>1. ASSUME NEW s \in State, Step(t, "insert", "done"),
                 manifest' = [manifest EXCEPT ![op[t].frag] = Node(s, Actor, TRUE)],
                 Settle(t, op[t].frag, s), Drop(t), UNCHANGED <<val, pending>>
          PROVE  KeepInv'
      <3>1. pc[t] = "insert" /\ pc'[t] = "done" /\ cur'[t] = None /\ op'[t].frag = op[t].frag
        BY <1>0, <2>1, DropTypes DEF Step, TypeInv
      <3>2. t \in exposed
        BY <1>0, <3>1 DEF KeepInv, KeepPlace
      <3>3. Node(s, Actor, TRUE) \in EntityNode /\ Node(s, Actor, TRUE).state = s
        BY NodeTypes, LifecycleAssumption DEF Node, Maybe
      <3> QED BY <2>1, <3>1, <3>2, <3>3, SettleKeeps
    <2>2. (IF saved[t] = None THEN 0 ELSE saved[t]) \in State
      BY <1>0, StateFacts DEF TypeInv, TasksOK, Maybe
    <2> QED BY <1>f, <1>1, <2>1, <2>2 DEF insert_entity, insts
  <1>2. CASE process_entity_delete_requests(t)
    <2>1. StatesStay /\ Drop(t) /\ pc' = [pc EXCEPT ![t] = "done"] /\ pc[t] = "remove" /\ UNCHANGED pending
      BY <1>2 DEF process_entity_delete_requests, StatesStay, insts, Step
    <2> QED BY <2>1, DropKeeps
  <1>3. CASE handle_entity_delete(t)
    <2>1. CASE Step(t, "drop", "unlink") /\ UNCHANGED <<tasks, manifest, insts, exposed>>
      BY <2>1, PassKeeps DEF tasks, insts
    <2>2. CASE /\ Step(t, "unlink", "done") /\ Drop(t)
               /\ manifest' = [manifest EXCEPT ![op[t].frag] = None]
               /\ exposed' = exposed \cup Others(op[t].frag, None, None)
               /\ UNCHANGED insts
      BY <2>2, UnlinkKeeps DEF insts
    <2> QED BY <1>f, <1>3, <2>1, <2>2 DEF handle_entity_delete
  <1>4. CASE handle_entity_upsert(t) \/ handle_entity_acl_field(t)
    <2>1. CASE Step(t, "link", "config") /\ WriteNode(None, op[t].frag, seen[t]) /\ UNCHANGED <<tasks, insts>>
      <3>1. pc[t] = "link" /\ pc'[t] = "config" /\ UNCHANGED <<op, cur, val, pending>>
        BY <1>0, <2>1 DEF Step, TypeInv, TasksOK, tasks, insts
      <3>2. seen[t] \in EntityNode
        BY <1>0, <3>1 DEF TypeInv, PlaceOK
      <3> QED BY <2>1, <3>1, <3>2, WriteKeeps
    <2> QED BY <1>f, <1>4, <2>1 DEF handle_entity_upsert, handle_entity_acl_field
  <1>5. CASE SpawnReload(t)
    <2>1. CASE Step(t, "config", "resolve") /\ UNCHANGED <<tasks, manifest, insts, exposed>>
      <3>1. pc[t] = "config" /\ pc'[t] = "resolve" /\ UNCHANGED cur
        BY <1>0, <2>1 DEF Step, TypeInv, TasksOK, tasks
      <3>2. cur'[t] = None
        BY <1>0, <3>1 DEF KeepInv, KeepPlace
      <3>3. StatesStay /\ UNCHANGED pending /\ pc'[t] \notin Loaded
        BY <2>1, <3>1 DEF StatesStay, insts, Loaded
      <3>4. KeepPlace(t)'
        BY <3>1, <3>2, RestPlace
      <3> QED BY <3>1, <3>2, <3>3, <3>4, CalmKeeps
    <2> QED BY <1>f, <1>5, <2>1 DEF SpawnReload
  <1> QED BY <1>1, <1>2, <1>3, <1>4, <1>5

(* The outcomes of reloads, and the cut-off of a handler. *)
LEMMA OutcomeKeeps ==
    ASSUME KeepBefore, NEW t \in Task, Kinds(t),
           \/ finish_reload(t) \/ complete_entity_reload(t) \/ mark_entity_reload_failed(t)
           \/ set_entity_behaviour(t) \/ LinkNewState(t) \/ SwapBehaviour(t) \/ Cut(t)
    PROVE  KeepInv'
  <1>0. TypeInv /\ FreshInv /\ KeepInv /\ t \in Instance /\ op[t].frag \in Fragment
    BY DEF KeepBefore, TypeInv, TasksOK, Instance
  <1>m. manifest \in [Fragment -> Maybe(EntityNode)] /\ saved[t] \in Maybe(State)
    BY <1>0 DEF TypeInv, TasksOK, WorldOK
  <1>f. ASSUME NEW from, from # "relink", Finish(t, from) PROVE KeepInv'
    BY <1>f, FinishKeeps
  <1>1. CASE finish_reload(t)
    <2>1. CASE /\ Step(t, "finishFailed", "mark") \/ Step(t, "finish", "mark")
               /\ UNCHANGED <<tasks, manifest, insts, exposed>>
      BY <2>1, PassKeeps DEF tasks, insts
    <2>2. ASSUME Step(t, "finish", IF life[t] = "Running" THEN "complete" ELSE "done"),
                 NEW s, trigger_save(t, s), saved' = [saved EXCEPT ![t] = s],
                 exposed' = IF s = None THEN exposed ELSE exposed \cup {t}, UNCHANGED <<cur, manifest, val>>
          PROVE  KeepInv'
      <3>1. pc[t] = "finish" /\ pc'[t] \in {"complete", "done"}
        BY <1>0, <2>2 DEF Step, TypeInv, TasksOK
      <3>2. StatesStay
        BY <2>2 DEF StatesStay
      <3> QED BY <2>2, <3>1, <3>2, SaveKeeps
    <2> QED BY <1>1, <2>1, <2>2 DEF finish_reload
  <1>2. CASE complete_entity_reload(t)
    <2>1. ASSUME NEW n \in EntityNode, Step(t, "complete", "done"), manifest[op[t].frag] # None,
                 n.state = IF saved[t] = None THEN manifest[op[t].frag].state ELSE saved[t],
                 manifest' = [manifest EXCEPT ![op[t].frag] = n], Settle(t, op[t].frag, n.state),
                 Drop(t), UNCHANGED <<val, pending>>
          PROVE  KeepInv'
      <3>1. pc[t] = "complete" /\ pc'[t] = "done" /\ cur'[t] = None /\ op'[t].frag = op[t].frag
        BY <1>0, <2>1, DropTypes DEF Step, TypeInv
      <3>2. t \in exposed \/ Linked(op[t].frag, n.state)
        BY <1>0, <2>1, <3>1 DEF KeepInv, KeepPlace, Linked
      <3> QED BY <2>1, <3>1, <3>2, SettleKeeps
    <2>2. ASSUME manifest[op[t].frag] # None
          PROVE  LET n == [manifest[op[t].frag] EXCEPT !.initialised = TRUE, !.reload_error = FALSE,
                                       !.state = IF saved[t] = None THEN @ ELSE saved[t]]
                 IN  n \in EntityNode /\ n.state = IF saved[t] = None THEN manifest[op[t].frag].state ELSE saved[t]
      BY <1>0, <1>m, <2>2 DEF EntityNode, Maybe
    <2> QED BY <1>f, <1>2, <2>1, <2>2 DEF complete_entity_reload, insts
  <1>3. CASE mark_entity_reload_failed(t)
    <2>1. CASE /\ manifest[op[t].frag] # None /\ Step(t, "mark", "done") /\ Drop(t)
               /\ manifest' = [manifest EXCEPT ![op[t].frag].reload_error = TRUE]
               /\ UNCHANGED <<insts, exposed>>
      <3>1. manifest[op[t].frag] \in EntityNode
        BY <1>0, <1>m, <2>1 DEF Maybe
      <3>2. [manifest[op[t].frag] EXCEPT !.reload_error = TRUE] # None
        BY <3>1, NodeUpdates, NodeNotNone
      <3>3. [manifest[op[t].frag] EXCEPT !.reload_error = TRUE].state = manifest[op[t].frag].state
        BY <3>1 DEF EntityNode
      <3>4. StatesStay
        BY <1>0, <1>m, <2>1, <3>2, <3>3 DEF StatesStay, insts
      <3> QED BY <2>1, <3>4, DropKeeps DEF Step, insts
    <2> QED BY <1>f, <1>3, <2>1 DEF mark_entity_reload_failed
  <1>4. CASE set_entity_behaviour(t)
    <2>1. ASSUME manifest[op[t].frag] # None, Step(t, "behaviour", "state"),
                 NEW s, trigger_save(t, s), saved' = [saved EXCEPT ![t] = s],
                 exposed' = IF s = None THEN exposed ELSE exposed \cup {t}, UNCHANGED <<cur, val>>,
                 manifest' = [manifest EXCEPT ![op[t].frag].initialised = TRUE]
          PROVE  KeepInv'
      <3>1. pc[t] = "behaviour" /\ pc'[t] = "state"
        BY <1>0, <2>1 DEF Step, TypeInv, TasksOK
      <3>2. manifest[op[t].frag] \in EntityNode
        BY <1>0, <1>m, <2>1 DEF Maybe
      <3>3. [manifest[op[t].frag] EXCEPT !.initialised = TRUE] # None
        BY <3>2, NodeUpdates, NodeNotNone
      <3>4. [manifest[op[t].frag] EXCEPT !.initialised = TRUE].state = manifest[op[t].frag].state
        BY <3>2 DEF EntityNode
      <3>5. StatesStay
        BY <1>0, <1>m, <2>1, <3>3, <3>4 DEF StatesStay
      <3> QED BY <2>1, <3>1, <3>5, SaveKeeps
    <2> QED BY <1>f, <1>4, <2>1 DEF set_entity_behaviour
  <1>5. CASE LinkNewState(t)
    <2>1. Step(t, "state", "swap") /\ UNCHANGED <<op, cur, saved, val, pending>>
      BY <1>5 DEF LinkNewState, tasks, insts
    <2>2. CASE UNCHANGED <<manifest, exposed>>
      BY <2>1, <2>2, PassKeeps
    <2>3. CASE /\ saved[t] # None /\ manifest[op[t].frag] # None
               /\ manifest' = [manifest EXCEPT ![op[t].frag].state = saved[t]]
               /\ Settle(t, op[t].frag, saved[t])
      <3>1. pc[t] = "state" /\ pc'[t] = "swap"
        BY <1>0, <2>1 DEF Step, TypeInv, TasksOK
      <3>2. manifest[op[t].frag] \in EntityNode /\ saved[t] \in State
        BY <1>0, <1>m, <2>3 DEF Maybe
      <3>3. PICK n \in EntityNode : n = [manifest[op[t].frag] EXCEPT !.state = saved[t]] /\ n.state = saved[t]
        <4>1. [manifest[op[t].frag] EXCEPT !.state = saved[t]] \in EntityNode
          BY <3>2, NodeUpdates
        <4>2. [manifest[op[t].frag] EXCEPT !.state = saved[t]].state = saved[t]
          BY <3>2 DEF EntityNode
        <4> QED BY <4>1, <4>2
      <3>4. t \in exposed
        BY <1>0, <2>3, <3>1 DEF KeepInv, KeepPlace
      <3> QED BY <2>1, <2>3, <3>1, <3>3, <3>4, SettleKeeps
    <2> QED BY <1>5, <2>2, <2>3 DEF LinkNewState
  <1>6. CASE SwapBehaviour(t)
    <2>1. StatesStay /\ Drop(t) /\ pc' = [pc EXCEPT ![t] = "done"] /\ pc[t] = "swap" /\ UNCHANGED pending
      BY <1>6 DEF SwapBehaviour, StatesStay, insts, Step
    <2> QED BY <2>1, DropKeeps
  <1>7. CASE Cut(t)
    <2>1. /\ StatesStay /\ Drop(t) /\ pc' = [pc EXCEPT ![t] = "done"] /\ UNCHANGED pending
          /\ pc[t] = "relink" => cur[t] \in exposed'
      BY <1>7 DEF Cut, StatesStay, insts
    <2> QED BY <2>1, DropKeeps
  <1> QED BY <1>1, <1>2, <1>3, <1>4, <1>5, <1>6, <1>7

(* A reload takes the instance it will replace: if another task does so *)
(* already, its state counts as lost.                                   *)
LEMMA TakeKeeps ==
    ASSUME KeepBefore, NEW t \in Task, Kinds(t), NEW from \in {"resolve", "current"}, NEW to \in {"load", "node"},
           TakeCurrent(t), Step(t, from, IF registry[op[t].frag] = None THEN to ELSE "prepare"),
           UNCHANGED <<val, pending, manifest>>
    PROVE  KeepInv'
  <1>0. TypeInv /\ op[t].frag \in Fragment
    BY DEF KeepBefore, TypeInv, TasksOK
  <1>1. /\ pc[t] = from /\ pc'[t] = IF registry[op[t].frag] = None THEN to ELSE "prepare"
        /\ cur'[t] = registry[op[t].frag]
    BY <1>0 DEF Step, TakeCurrent, TypeInv, TasksOK
  <1>2. StatesStay
    BY DEF StatesStay, TakeCurrent
  <1>3. ExposedStep(t) /\ LinkStep
    BY <1>2, StatesStayLinked DEF KeepBefore
  <1>4. PendingStep(t) /\ RelinkStep(t) /\ pc'[t] \notin Loaded
    BY <1>1 DEF PendingStep, RelinkStep, Loaded
  <1>5. KeepPlace(t)'
    BY <1>1, RestPlace
  <1>6. cur'[t] = None \/ ((\E u \in Task \ {t} : cur[u] = cur'[t]) => cur'[t] \in exposed')
    BY <1>1 DEF TakeCurrent, BeingReplaced
  <1> QED BY <1>2, <1>3, <1>4, <1>5, <1>6, KeepStep DEF KeepBefore, StatesStay

(* The worker that will be replaced is shut down and its state saved. *)
LEMMA PrepareKeeps ==
    ASSUME KeepBefore, NEW t \in Task, Kinds(t), NEW s \in Maybe(State), NEW to \in {"reread", "node"},
           prepare_reload_save(t, s), Step(t, "prepare", IF s = None THEN to ELSE "relink"),
           UNCHANGED <<op, cur, val, manifest, exposed>>
    PROVE  KeepInv'
  <1>0. TypeInv /\ FreshInv /\ KeepInv /\ TypeInv'
    BY DEF KeepBefore
  <1>1. pc[t] = "prepare" /\ pc'[t] = IF s = None THEN to ELSE "relink"
    BY <1>0 DEF Step, TypeInv, TasksOK
  <1>2. PICK c \in Instance : c = cur[t]
    BY <1>0, <1>1 DEF TypeInv, PlaceOK
  <1>3. /\ pending'[c] = FALSE /\ \A d \in Instance \ {c} : pending'[d] = pending[d]
        /\ saved'[t] = s
        /\ s = None => pending[c] = FALSE
        /\ s # None => s = val[c]
    <2>1. val[c] # None
      BY <1>0, StateFacts DEF TypeInv, WorldOK
    <2> QED BY <1>0, <1>2, <2>1 DEF prepare_reload_save, TypeInv, TasksOK, WorldOK
  <1>4. PendingStep(t)
    BY <1>0, <1>1, <1>2, <1>3 DEF PendingStep, TypeInv, WorldOK
  <1>5. ExposedStep(t) /\ LinkStep
    <2>1. StatesStay
      BY DEF StatesStay
    <2> QED BY <1>0, <2>1, StatesStayLinked
  <1>6. RelinkStep(t) /\ pc'[t] \notin Loaded
    BY <1>1 DEF RelinkStep, Loaded
  <1>7. KeepPlace(t)'
    <2>1. ASSUME Current(c)', c \notin exposed, s = None PROVE Linked(op[t].frag, val[c])
      <3>1. Current(c)
        BY <1>0, <1>6, <2>1, CurrentBefore
      <3>2. Linked(FragmentOf(c), val[c]) \/ Relinking(c)
        BY <1>0, <1>3, <2>1, <3>1 DEF KeepInv, KeepInstance
      <3>3. ~Relinking(c)
        <4> SUFFICES ASSUME NEW u \in Task, pc[u] = "relink", cur[u] = c PROVE FALSE
          BY DEF Relinking
        <4>1. u # t
          BY <1>1
        <4>2. c # None
          BY StateFacts
        <4> QED BY <1>0, <1>2, <2>1, <4>1, <4>2 DEF KeepInv, Alone
      <3>4. FragmentOf(c) = op[t].frag
        BY <1>0, <1>2, StateFacts DEF FreshInv, FreshTask
      <3> QED BY <3>2, <3>3, <3>4
    <2>2. Linked(op[t].frag, val[c]) => Linked(op[t].frag, val[c])'
      BY DEF Linked
    <2> QED BY <1>1, <1>2, <1>3, <2>1, <2>2 DEF KeepPlace
  <1> QED BY <1>0, <1>4, <1>5, <1>6, <1>7, KeepStep DEF KeepBefore

(* The state was not saved, or its link failed. *)
LEMMA GiveUpKeeps ==
    ASSUME KeepBefore, NEW t \in Task, Kinds(t), NEW from \in {"prepare", "relink"}, NEW to \in {"mark", "node"},
           Step(t, from, to), exposed' = exposed \cup {cur[t]}, UNCHANGED <<op, cur, val, pending, manifest>>
    PROVE  KeepInv'
  <1>1. pc[t] = from /\ pc'[t] = to /\ cur'[t] = cur[t]
    BY DEF Step, KeepBefore, TypeInv, TasksOK
  <1>2. StatesStay /\ pc'[t] \notin Loaded
    BY <1>1 DEF StatesStay, Loaded
  <1>3. KeepPlace(t)'
    BY <1>1 DEF KeepPlace
  <1> QED BY <1>1, <1>2, <1>3, CalmKeeps

(* The saved state is linked. *)
LEMMA LinkKeeps ==
    ASSUME KeepBefore, NEW t \in Task, Kinds(t), NEW to \in {"reread", "node"},
           manifest[op[t].frag] # None, Step(t, "relink", to),
           WriteNode(cur[t], op[t].frag, [manifest[op[t].frag] EXCEPT !.state = saved[t]]),
           UNCHANGED <<op, cur, val, pending>>
    PROVE  KeepInv'
  <1>1. pc[t] = "relink" /\ pc'[t] = to /\ op[t].frag \in Fragment
    BY DEF Step, KeepBefore, TypeInv, TasksOK
  <1>2. manifest[op[t].frag] \in EntityNode /\ saved[t] \in State
    BY <1>1 DEF KeepBefore, TypeInv, WorldOK, PlaceOK, Maybe
  <1>3. PICK n \in EntityNode : n = [manifest[op[t].frag] EXCEPT !.state = saved[t]] /\ n.state = saved[t]
    <2>1. [manifest[op[t].frag] EXCEPT !.state = saved[t]] \in EntityNode
      BY <1>2, NodeUpdates
    <2>2. [manifest[op[t].frag] EXCEPT !.state = saved[t]].state = saved[t]
      BY <1>2 DEF EntityNode
    <2> QED BY <2>1, <2>2
  <1>4. WriteNode(cur[t], op[t].frag, n)
    BY <1>3
  <1> QED BY <1>1, <1>3, <1>4, WriteKeeps

(* The node is read again, with the state of the worker to be replaced. *)
LEMMA RereadKeeps ==
    ASSUME KeepBefore, NEW t \in Task, Kinds(t), NEW from \in {"reread", "node"}, Step(t, from, "load"),
           seen'[t].state = manifest[op[t].frag].state, UNCHANGED <<op, cur, val, pending, manifest, exposed>>
    PROVE  KeepInv'
  <1>1. pc[t] = from /\ pc'[t] = "load"
    BY DEF Step, KeepBefore, TypeInv, TasksOK
  <1>2. StatesStay /\ pc'[t] \notin Loaded
    BY <1>1 DEF StatesStay, Loaded
  <1>3. KeepPlace(t)'
    <2>1. ASSUME NEW c \in Instance, c = cur[t], Current(c)', c \notin exposed PROVE seen'[t].state = val[c]
      <3>1. Current(c)
        BY <1>2, <2>1, CurrentBefore DEF KeepBefore
      <3>2. Linked(op[t].frag, val[c])
        BY <1>1, <2>1, <3>1, StateFacts DEF KeepBefore, KeepInv, KeepPlace
      <3> QED BY <3>2 DEF Linked
    <2>2. cur[t] \in Maybe(Instance)
      BY DEF KeepBefore, TypeInv, TasksOK
    <2> QED BY <1>1, <2>1, <2>2 DEF KeepPlace, Maybe
  <1> QED BY <1>1, <1>2, <1>3, CalmKeeps

(* Reloads, up to the registration. *)
LEMMA ReloadKeeps ==
    ASSUME KeepBefore, NEW t \in Task, Kinds(t),
           spawn_entity_reload(t) \/ refresh_entity_before_reload(t) \/ LoadReload(t)
    PROVE  KeepInv'
  <1>0. TypeInv /\ op[t].frag \in Fragment /\ seen \in [Task -> Maybe(EntityNode)]
    BY DEF KeepBefore, TypeInv, TasksOK
  <1>1. CASE spawn_entity_reload(t)
    <2>1. CASE Step(t, "resolve", "mark") /\ UNCHANGED <<cur, exposed, manifest, insts>>
      BY <2>1, PassKeeps DEF insts
    <2>2. CASE /\ TakeCurrent(t) /\ UNCHANGED <<manifest, insts>>
               /\ Step(t, "resolve", IF registry[op[t].frag] = None THEN "load" ELSE "prepare")
      BY <2>2, TakeKeeps DEF insts
    <2> QED BY <1>1, <2>1, <2>2 DEF spawn_entity_reload
  <1>2. CASE refresh_entity_before_reload(t)
    <2>1. CASE Step(t, "prepare", "mark") /\ UNCHANGED <<cur, val, pending, manifest, exposed>>
      BY <2>1, PassKeeps
    <2>2. ASSUME NEW s \in Maybe(State), prepare_reload_save(t, s),
                 Step(t, "prepare", IF s = None THEN "reread" ELSE "relink"),
                 UNCHANGED <<op, cur, val, manifest, exposed>>
          PROVE  KeepInv'
      BY <2>2, PrepareKeeps
    <2>3. CASE Step(t, "relink", "mark") /\ exposed' = exposed \cup {cur[t]} /\ UNCHANGED <<tasks, manifest, insts>>
      BY <2>3, GiveUpKeeps DEF tasks, insts
    <2>4. CASE /\ manifest[op[t].frag] # None /\ Step(t, "relink", "reread")
               /\ WriteNode(cur[t], op[t].frag, [manifest[op[t].frag] EXCEPT !.state = saved[t]])
               /\ UNCHANGED <<tasks, insts>>
      BY <2>4, LinkKeeps DEF tasks, insts
    <2>5. CASE Step(t, "reread", "mark") /\ UNCHANGED <<tasks, manifest, insts, exposed>>
      BY <2>5, PassKeeps DEF tasks, insts
    <2>6. CASE /\ Step(t, "reread", "load") /\ seen' = [seen EXCEPT ![t] = RereadNode(t)]
               /\ UNCHANGED <<op, cur, manifest, insts, exposed>>
      <3>1. seen'[t].state = manifest[op[t].frag].state
        BY <1>0, <2>6 DEF RereadNode
      <3> QED BY <2>6, <3>1, RereadKeeps DEF insts
    <2> QED BY <1>2, <2>1, <2>2, <2>3, <2>4, <2>5, <2>6 DEF refresh_entity_before_reload
  <1>3. CASE LoadReload(t)
    BY <1>3, LoadKeeps, LoadFailsKeeps DEF LoadReload
  <1> QED BY <1>1, <1>2, <1>3

(* A change of behaviour, up to the registration. *)
LEMMA BehaviourKeeps ==
    ASSUME KeepBefore, NEW t \in Task, Kinds(t),
           apply_behaviour_request(t) \/ load_entity_node_for_update(t) \/ LoadBehaviour(t)
    PROVE  KeepInv'
  <1>0. TypeInv /\ op[t].frag \in Fragment /\ seen \in [Task -> Maybe(EntityNode)]
    BY DEF KeepBefore, TypeInv, TasksOK
  <1>1. CASE apply_behaviour_request(t)
    <2>1. CASE /\ TakeCurrent(t) /\ UNCHANGED <<manifest, insts>>
               /\ Step(t, "current", IF registry[op[t].frag] = None THEN "node" ELSE "prepare")
      BY <2>1, TakeKeeps DEF insts
    <2>2. CASE /\ Step(t, "prepare", "node") /\ exposed' = exposed \cup {cur[t]}
               /\ UNCHANGED <<op, cur, val, pending, manifest>>
      BY <2>2, GiveUpKeeps
    <2>3. ASSUME NEW s \in Maybe(State), prepare_reload_save(t, s),
                 Step(t, "prepare", IF s = None THEN "node" ELSE "relink"),
                 UNCHANGED <<op, cur, val, manifest, exposed>>
          PROVE  KeepInv'
      BY <2>3, PrepareKeeps
    <2>4. CASE /\ Step(t, "relink", "done") /\ exposed' = exposed \cup {cur[t]} /\ Drop(t)
               /\ UNCHANGED <<manifest, insts>>
      <3>1. StatesStay /\ pc' = [pc EXCEPT ![t] = "done"] /\ UNCHANGED pending /\ cur[t] \in exposed'
        BY <2>4 DEF StatesStay, Step, insts
      <3> QED BY <2>4, <3>1, DropKeeps
    <2>5. CASE /\ manifest[op[t].frag] # None /\ Step(t, "relink", "node")
               /\ WriteNode(cur[t], op[t].frag, [manifest[op[t].frag] EXCEPT !.state = saved[t]])
               /\ UNCHANGED <<tasks, insts>>
      BY <2>5, LinkKeeps DEF tasks, insts
    <2> QED BY <1>1, <2>1, <2>2, <2>3, <2>4, <2>5 DEF apply_behaviour_request
  <1>2. CASE load_entity_node_for_update(t)
    <2>1. CASE Finish(t, "node")
      BY <2>1, FinishKeeps
    <2>2. CASE /\ manifest[op[t].frag] # None /\ Step(t, "node", "load")
               /\ seen' = [seen EXCEPT ![t] = [manifest[op[t].frag] EXCEPT !.initialised = @ \/ cur[t] # None]]
               /\ UNCHANGED <<op, cur, manifest, insts, exposed>>
      <3>1. manifest[op[t].frag] \in EntityNode
        BY <1>0, <2>2 DEF TypeInv, WorldOK, Maybe
      <3>2. seen'[t].state = manifest[op[t].frag].state
        BY <1>0, <2>2, <3>1 DEF EntityNode
      <3> QED BY <2>2, <3>2, RereadKeeps DEF insts
    <2> QED BY <1>2, <2>1, <2>2 DEF load_entity_node_for_update
  <1>3. CASE LoadBehaviour(t)
    BY <1>3, LoadKeeps, LoadFailsKeeps DEF LoadBehaviour
  <1> QED BY <1>1, <1>2, <1>3

(* Messages, persist loops and the ends of workers. *)
LEMMA InstanceKeeps ==
    ASSUME KeepBefore, NEW i \in Instance, Change(i) \/ Persist(i) \/ PersistFails(i) \/ WorkerEnds(i)
    PROVE  KeepInv'
  <1>0. TypeInv /\ FreshInv /\ KeepInv
    BY DEF KeepBefore
  <1>1. UNCHANGED <<tasks, pc, registry>>
    BY DEF Change, Persist, PersistFails, WorkerEnds
  <1>2. \A c : (FragmentOf(c)' = FragmentOf(c)) /\ (Current(c)' <=> Current(c)) /\ (Relinking(c)' <=> Relinking(c))
    BY <1>1 DEF tasks, FragmentOf, Current, Relinking
  <1>3. exposed \subseteq exposed'
    BY DEF Change, Persist, PersistFails, WorkerEnds
  <1>4. val \in [Instance -> State] /\ pending \in [Instance -> BOOLEAN] /\ manifest \in [Fragment -> Maybe(EntityNode)]
    BY <1>0 DEF TypeInv, WorldOK
  \* A current instance whose state is not lost has its state pending, or is
  \* as it was, and a linked state stays linked.
  <1>5. ASSUME NEW c \in Instance, Current(c), c \notin exposed'
        PROVE  /\ pending'[c] \/ (val'[c] = val[c] /\ (pending[c] => Linked(FragmentOf(c), val[c])'))
               /\ Linked(FragmentOf(c), val[c]) => pending'[c] \/ Linked(FragmentOf(c), val[c])'
               /\ BeingReplaced(c) /\ (\A u \in Task : cur[u] = c => pc[u] # "prepare") =>
                     val'[c] = val[c] /\ (~pending[c] => ~pending'[c])
    <2>0. FragmentOf(c) \in Fragment /\ worker[c] = "live"
      BY <1>0, <1>5, CurrentLives
    <2>1. CASE Change(i)
      <3>1. c # i => val'[c] = val[c] /\ pending'[c] = pending[c]
        BY <1>4, <2>1 DEF Change
      <3>2. c = i => pending'[c]
        BY <1>4, <2>1 DEF Change
      <3>3. Replacing(i) => c # i
        BY <1>5, <2>1 DEF Change
      <3>4. UNCHANGED manifest
        BY <2>1 DEF Change
      <3> QED BY <1>2, <1>5, <3>1, <3>2, <3>3, <3>4 DEF Linked, Replacing, BeingReplaced
    <2>2. CASE Persist(i)
      <3> DEFINE f == FragmentOf(i)
      <3>1. UNCHANGED val /\ f \in Fragment /\ manifest[f] \in EntityNode /\ loop[i] \in State
        BY <1>0, <1>4, <2>2, CurrentLives DEF Persist, TypeInv, WorldOK, Maybe
      <3>2. manifest'[f] # None /\ manifest'[f].state = loop[i] /\ \A g \in Fragment \ {f} : manifest'[g] = manifest[g]
        <4>1. [manifest[f] EXCEPT !.state = loop[i]] # None
          BY <3>1, NodeUpdates, NodeNotNone
        <4>2. [manifest[f] EXCEPT !.state = loop[i]].state = loop[i]
          BY <3>1 DEF EntityNode
        <4>3. manifest' = [manifest EXCEPT ![f] = [manifest[f] EXCEPT !.state = loop[i]]]
          BY <2>2 DEF Persist
        <4> QED BY <1>4, <3>1, <4>1, <4>2, <4>3
      <3>3. FragmentOf(c) = f /\ c # i => val[c] = loop[i]
        BY <1>5, <2>0, <2>2 DEF Persist, Others
      <3>4. c = i => val[c] = loop[i] \/ pending[c]
        BY <1>5, <2>2 DEF Persist
      <3>5. c # i => pending'[c] = pending[c]
        BY <1>4, <2>2 DEF Persist
      <3>6. pending'[i] <=> pending[i] /\ val[i] # loop[i]
        BY <1>4, <2>2 DEF Persist
      <3>7. FragmentOf(c) = f => pending'[c] \/ Linked(FragmentOf(c), val[c])'
        BY <1>2, <3>1, <3>2, <3>3, <3>4, <3>6 DEF Linked
      <3>8. FragmentOf(c) # f => (Linked(FragmentOf(c), val[c])' <=> Linked(FragmentOf(c), val[c])) /\ c # i
        BY <1>2, <2>0, <3>1, <3>2 DEF Linked
      <3> QED BY <3>1, <3>5, <3>6, <3>7, <3>8
    <2>3. CASE PersistFails(i) \/ WorkerEnds(i)
      BY <1>2, <1>5, <2>3 DEF PersistFails, WorkerEnds, Linked
    <2> QED BY <2>1, <2>2, <2>3
  <1>6. ASSUME NEW c \in Instance PROVE KeepInstance(c)'
    <2> SUFFICES ASSUME Current(c)', c \notin exposed', ~pending'[c]
                 PROVE  (Linked(FragmentOf(c), val[c]) \/ Relinking(c))'
      BY DEF KeepInstance
    <2>1. Current(c) /\ val'[c] = val[c] /\ (pending[c] => Linked(FragmentOf(c), val[c])')
      BY <1>2, <1>5
    <2>2. CASE ~pending[c]
      <3>1. Linked(FragmentOf(c), val[c]) \/ Relinking(c)
        BY <1>0, <1>3, <2>1, <2>2 DEF KeepInv, KeepInstance
      <3> QED BY <1>2, <1>5, <2>1, <3>1
    <2> QED BY <2>1, <2>2
  <1>7. ASSUME NEW t \in Task PROVE KeepPlace(t)'
    <2>0. UNCHANGED <<pc, seen, cur, saved, op>> /\ KeepPlace(t)
      BY <1>0, <1>1 DEF tasks, KeepInv
    <2>1. ASSUME NEW c \in Instance, c = cur[t], Current(c)', c \notin exposed'
          PROVE  /\ pc[t] = "relink" => saved[t] = val'[c] /\ ~pending'[c]
                 /\ pc[t] \in {"reread", "node"} => Linked(op[t].frag, val[c])' /\ ~pending'[c]
                 /\ pc[t] \in {"load", "finish"} => seen[t].state = val'[c]
      <3>1. Current(c) /\ c \notin exposed /\ c # None /\ FragmentOf(c) = op[t].frag
        BY <1>0, <1>2, <1>3, <2>1, StateFacts DEF FreshInv, FreshTask
      <3>2. pc[t] # "prepare" => BeingReplaced(c) /\ \A u \in Task : cur[u] = c => pc[u] # "prepare"
        BY <1>0, <2>1, <3>1 DEF BeingReplaced, KeepInv, Alone
      <3>3. pc[t] # "prepare" => val'[c] = val[c] /\ (~pending[c] => ~pending'[c])
        BY <1>5, <2>1, <3>1, <3>2
      <3>4. Linked(op[t].frag, val[c]) => pending'[c] \/ Linked(FragmentOf(c), val[c])'
        BY <1>5, <2>1, <3>1
      <3>5. Linked(FragmentOf(c), val[c])' => Linked(op[t].frag, val[c])'
        BY <1>2, <2>0, <3>1
      <3> QED BY <2>0, <2>1, <3>1, <3>3, <3>4, <3>5 DEF KeepPlace
    <2>2. cur[t] \in Maybe(Instance)
      BY <1>0 DEF TypeInv, TasksOK
    <2>3. t \in exposed => t \in exposed'
      BY <1>3
    <2> QED BY <2>0, <2>1, <2>2, <2>3 DEF KeepPlace, Maybe
  <1>8. ASSUME NEW t \in Task PROVE Alone(t)'
    BY <1>0, <1>1, <1>3 DEF tasks, KeepInv, Alone
  <1> QED BY <1>6, <1>7, <1>8 DEF KeepInv

(* The entities of the manifest are loaded with the states it has. *)
LEMMA InitKeep == Init => KeepInv
  <1> SUFFICES ASSUME Init PROVE KeepInv
    OBVIOUS
  <1>1. ASSUME NEW t \in Task PROVE KeepPlace(t) /\ Alone(t) /\ pc[t] = "idle"
    BY DEF Init, KeepPlace, Alone
  <1>2. ASSUME NEW c \in Instance PROVE KeepInstance(c)
    <2> SUFFICES ASSUME Current(c) PROVE Linked(FragmentOf(c), val[c])
      BY DEF KeepInstance
    <2>1. registry[FragmentOf(c)] = c
      BY <1>1 DEF Current, Loaded
    <2>2. FragmentOf(c) \in Fragment /\ c # None
      BY LifecycleAssumption DEF Init, FragmentOf, Instance
    <2>3. registry[FragmentOf(c)] \in {None, FragmentOf(c)}
      BY <2>2 DEF Init, load_entities, load_wasm_entity
    <2>4. manifest[FragmentOf(c)] # None
      BY <2>1, <2>2, <2>3 DEF Init, load_entities, load_wasm_entity
    <2>5. manifest[FragmentOf(c)] \in publish_entities
      BY <2>2, <2>4 DEF Init, Maybe
    <2>6. manifest[FragmentOf(c)].state = 0
      BY <2>5 DEF publish_entities, Node
    <2> QED BY <2>4, <2>6 DEF Linked, Init
  <1> QED BY <1>1, <1>2 DEF KeepInv

(* Every step. *)
LEMMA NextKeep == TypeInv /\ FreshInv /\ KeepInv /\ [Next]_vars /\ TypeInv' /\ FreshInv' => KeepInv'
  <1> SUFFICES ASSUME TypeInv, FreshInv, KeepInv, [Next]_vars, TypeInv', FreshInv' PROVE KeepInv'
    OBVIOUS
  <1>0. KeepBefore
    BY DEF KeepBefore
  <1>1. ASSUME NEW t \in Task, NEW f \in Target, Start(t, f) PROVE KeepInv'
    BY <1>0, <1>1, StartKeeps
  <1>2. ASSUME NEW t \in Task, Progress(t) \/ Cut(t) PROVE KeepInv'
    <2>1. Kinds(t)
      BY <1>2, StepKinds
    <2> QED BY <1>0, <1>2, <2>1, CreateKeeps, ManifestKeeps, OutcomeKeeps, ReloadKeeps, BehaviourKeeps DEF Progress
  <1>3. ASSUME NEW i \in Instance, Change(i) \/ Persist(i) \/ PersistFails(i) \/ WorkerEnds(i) PROVE KeepInv'
    BY <1>0, <1>3, InstanceKeeps
  <1>4. CASE UNCHANGED vars
    BY <1>4 DEF vars, KeepInv, KeepInstance, KeepPlace, Alone, Current, FragmentOf, Linked, Relinking
  <1> QED BY <1>1, <1>2, <1>3, <1>4 DEF Next

(* refresh_entity_before_reload, for every set of fragments, tasks and        *)
(* failures: the instance a reload installs starts from the state of the one  *)
(* it replaces, unless a race or a failure the model names has lost it.       *)
THEOREM ReloadCorrect == Spec => ReloadKeepsState
  <1> DEFINE Kept == \A t \in Task : LET f == op[t].frag IN
                        /\ pc[t] = "finish" /\ pc'[t] # "finish" /\ registry'[f] = t
                        /\ cur[t] # None /\ registry[f] = cur[t] /\ cur[t] \notin exposed
                        => seen[t].state = val[cur[t]]
  <1>1. TypeInv /\ FreshInv /\ KeepInv => Kept
    <2> SUFFICES ASSUME TypeInv, FreshInv, KeepInv, NEW t \in Task, pc[t] = "finish", cur[t] # None,
                        registry[op[t].frag] = cur[t], cur[t] \notin exposed
                 PROVE  seen[t].state = val[cur[t]]
      OBVIOUS
    <2>1. FragmentOf(cur[t]) = op[t].frag
      BY DEF FreshInv, FreshTask
    <2>2. Current(cur[t])
      BY <2>1 DEF Current
    <2> QED BY <2>2 DEF KeepInv, KeepPlace
  <1>2. TypeInv /\ FreshInv /\ KeepInv /\ [Next]_vars => [Kept]_vars
    BY <1>1
  <1> QED BY <1>2, InitTypes, NextTypes, InitFresh, NextFresh, InitKeep, NextKeep, PTL DEF Spec, ReloadKeepsState

=============================================================================
