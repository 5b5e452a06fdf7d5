----------------------- MODULE ManifestWriter_proofs -----------------------
(***************************************************************************)
(* Proofs about ManifestWriter: for any entities, tasks and failures, the  *)
(* invariants of its run and the refinement of AtomicManifest.             *)
(***************************************************************************)
EXTENDS ManifestWriter, TLAPS

-----------------------------------------------------------------------------
(* The inductive invariant: where a task is tells what it holds. *)

\* Before it reads the manifest, a task has the node it will insert.
Prepared(t) ==
    /\ op[t].kind = "insert" => node[t] = NewNode(t)
    /\ op[t].kind = "acl" => node[t] = set_acl(node[t], t)

\* While it edits, its copy is the current manifest.
Editing(t) ==
    /\ op[t].kind \in EditKinds
    /\ work[t] = cid
    /\ cid[op[t].entity] # None

\* When it publishes, its copy is the current manifest with its effect on it.
Ready(t) ==
    IF op[t].kind = "acl"
    THEN \E n \in EntityNode : work[t] = [cid EXCEPT ![op[t].entity] = set_acl(n, t)]
    ELSE /\ Atomic!Applicable(op[t], cid)
         /\ work[t] = Atomic!Effect(op[t], t, cid)

TaskInv(t) ==
    /\ pc[t] \in {"stats", "done"} => t \in applied
    /\ pc[t] \notin {"stats", "done", "cut"} => t \notin applied
    /\ pc[t] = "read" => op[t].kind = "acl"
    /\ pc[t] \in {"putFirst", "lock", "fetch"} => Prepared(t)
    /\ pc[t] \in {"edit", "putNode"} => Editing(t)
    /\ pc[t] = "putNode" => node[t] = Edited(op[t].kind, cid[op[t].entity], t)
    /\ pc[t] \in {"put", "pin", "stats"} => work[t] # None
    /\ pc[t] \in {"put", "pin"} => Ready(t)

\* Only a task on its way to the announcement, or cut off there, keeps the
\* announced root from being the writer's.
Announced == stats = cid \/ \E t \in applied : pc[t] \in {"stats", "cut"}

IInv ==
    /\ TypeOK
    /\ CacheCoherent
    /\ Announced
    /\ RootPinned
    /\ \A t \in Task : TaskInv(t)

-----------------------------------------------------------------------------
(* Facts about the operators. *)

(* Every edit of manifest.rs turns a node into a node.                      *)
LEMMA EditedType ==
    ASSUME NEW n \in EntityNode, NEW t \in Task, NEW k \in EditKinds
    PROVE  Edited(k, n, t) \in EntityNode
BY DEF Edited, EditKinds, EntityNode, Maybe, set_entity_state, set_entity_behaviour,
       set_entity_reload_error, complete_entity_reload

(* The acl handler turns a node into a node, and does nothing twice.        *)
LEMMA SetAclType ==
    ASSUME NEW n \in EntityNode, NEW t \in Task
    PROVE  /\ set_acl(n, t) \in EntityNode
           /\ set_acl(set_acl(n, t), t) = set_acl(n, t)
BY DEF EntityNode, Maybe, set_acl

(* A node written by ma_create_entity is a node.                            *)
LEMMA NewNodeType ==
    ASSUME NEW t \in Task
    PROVE  /\ NewNode(t) \in EntityNode
           /\ set_acl(NewNode(t), t) = NewNode(t)
<1>1. NewNode(t) \in EntityNode
  BY DEF NewNode, EntityNode, Maybe
<1>2. NewNode(t).acl = t
  BY DEF NewNode
<1>3. \A n \in EntityNode : n.acl = t => [n EXCEPT !.acl = t] = n
  BY DEF EntityNode
<1>. QED  BY <1>1, <1>2, <1>3 DEF set_acl

(* None is neither a task, a node, an operation nor a manifest.             *)
LEMMA NoneDistinct ==
    /\ None \notin Task
    /\ None \notin EntityNode
    /\ None \notin Operation
    /\ None \notin RuntimeManifest
BY ManifestAssumption DEF EntityNode, Operation, RuntimeManifest, Maybe

-----------------------------------------------------------------------------
(* The steps of a task leave the others' invariant alone. *)

(* What a task holds depends on its own variables and on the root, which    *)
(* changes under the lock only.                                             *)
LEMMA Frame ==
    ASSUME NEW u \in Task, TaskInv(u),
           op'[u] = op[u], pc'[u] = pc[u], work'[u] = work[u], node'[u] = node[u],
           u \in applied' <=> u \in applied,
           cid' = cid \/ pc[u] \notin Critical
    PROVE  TaskInv(u)'
<1>1. CASE cid' = cid
  BY <1>1 DEF TaskInv, Prepared, Editing, Ready
<1>2. CASE pc[u] \notin Critical
  BY <1>2 DEF TaskInv, Prepared, Critical
<1>. QED  BY <1>1, <1>2

-----------------------------------------------------------------------------
(* One lemma per action. *)

(* The first states satisfy the invariant.                                  *)
LEMMA InitInv == Init => IInv
<1>. SUFFICES ASSUME Init PROVE IInv
  OBVIOUS
<1>1. InitialNode \in EntityNode
  BY DEF InitialNode, EntityNode, Maybe
<1>2. cid \in RuntimeManifest
  BY <1>1 DEF Init, RuntimeManifest, Maybe
<1>3. TypeOK
  BY <1>1, <1>2, NoneDistinct DEF Init, TypeOK, Maybe, PC, Critical
<1>. QED  BY <1>3 DEF Init, IInv, CacheCoherent, Announced, RootPinned, TaskInv

(* The caller's preparations.                                               *)
LEMMA StartInv == ASSUME IInv, NEW t \in Task, Start(t) PROVE IInv'
<1>. PICK o \in Operation :
        /\ op' = [op EXCEPT ![t] = o]
        /\ Step(t, "idle", IF o.kind = "insert" THEN "putFirst"
                           ELSE IF o.kind = "acl" THEN "read" ELSE "lock")
  BY DEF Start
<1>1. TypeOK'
  BY NewNodeType, NoneDistinct DEF IInv, TypeOK, Start, Step, PC, Critical, Maybe
<1>2. ASSUME NEW u \in Task PROVE TaskInv(u)'
  <2>1. CASE u # t
    BY <2>1, Frame DEF Start, Step, IInv, TypeOK
  <2>2. CASE u = t
    BY <2>2, NewNodeType DEF Start, Step, IInv, TypeOK, TaskInv, Prepared
  <2>. QED  BY <2>1, <2>2
<1>3. CacheCoherent' /\ RootPinned'
  BY DEF Start, IInv, CacheCoherent, RootPinned
<1>4. Announced'
  BY DEF Start, Step, IInv, Announced, TaskInv, TypeOK
<1>. QED  BY <1>1, <1>2, <1>3, <1>4 DEF IInv

(* The acl handler's unlocked read.                                         *)
LEMMA ReadInv == ASSUME IInv, NEW t \in Task, fetch_entity_node(t) PROVE IInv'
<1>0. stats[op[t].entity] # None => stats[op[t].entity] \in EntityNode
  BY NoneDistinct DEF IInv, TypeOK, fetch_entity_node, RuntimeManifest, Maybe, Operation
<1>1. TypeOK'
  <2>1. node' \in [Task -> EntityNode]
    <3>1. \/ node' = node
          \/ /\ stats[op[t].entity] # None
             /\ node' = [node EXCEPT ![t] = set_acl(stats[op[t].entity], t)]
      BY DEF fetch_entity_node
    <3>2. node \in [Task -> EntityNode]
      BY DEF IInv, TypeOK
    <3>. QED  BY <1>0, <3>1, <3>2, SetAclType
  <2>2. \E p \in {"putFirst", "failed"} : pc[t] = "read" /\ pc' = [pc EXCEPT ![t] = p]
    BY DEF fetch_entity_node, Step
  <2>. QED  BY <2>1, <2>2 DEF IInv, TypeOK, fetch_entity_node, PC, Critical, Ended
<1>2. ASSUME NEW u \in Task PROVE TaskInv(u)'
  <2>1. CASE u # t
    BY <2>1, Frame DEF fetch_entity_node, Step, IInv, TypeOK
  <2>2. CASE u = t
    BY <1>0, <2>2, SetAclType, NoneDistinct
       DEF fetch_entity_node, Step, IInv, TypeOK, TaskInv, Prepared
  <2>. QED  BY <2>1, <2>2
<1>3. CacheCoherent' /\ RootPinned'
  BY DEF fetch_entity_node, IInv, CacheCoherent, RootPinned
<1>4. Announced'
  BY DEF fetch_entity_node, Step, IInv, Announced, TaskInv, TypeOK
<1>. QED  BY <1>1, <1>2, <1>3, <1>4 DEF IInv

(* The puts before the lock.                                                *)
LEMMA PutFirstInv == ASSUME IInv, NEW t \in Task, PutFirst(t) PROVE IInv'
<1>0. \E p \in {"lock", "failed"} : pc[t] = "putFirst" /\ pc' = [pc EXCEPT ![t] = p]
  BY DEF PutFirst, Step
<1>1. TypeOK'
  BY <1>0 DEF IInv, TypeOK, PutFirst, PC, Critical, Ended, caller
<1>2. ASSUME NEW u \in Task PROVE TaskInv(u)'
  <2>1. CASE u # t
    BY <1>0, <2>1, Frame DEF PutFirst, caller, IInv, TypeOK
  <2>2. CASE u = t
    BY <1>0, <2>2 DEF PutFirst, caller, IInv, TypeOK, TaskInv, Prepared
  <2>. QED  BY <2>1, <2>2
<1>3. CacheCoherent' /\ RootPinned'
  BY DEF PutFirst, IInv, CacheCoherent, RootPinned
<1>4. Announced'
  BY <1>0 DEF PutFirst, IInv, Announced, TaskInv, TypeOK
<1>. QED  BY <1>1, <1>2, <1>3, <1>4 DEF IInv

(* Taking the lock.                                                         *)
LEMMA AcquireInv == ASSUME IInv, NEW t \in Task, Acquire(t) PROVE IInv'
<1>1. TypeOK'
  BY NoneDistinct DEF IInv, TypeOK, Acquire, Step, PC, Critical, Maybe, caller
<1>2. ASSUME NEW u \in Task PROVE TaskInv(u)'
  <2>1. CASE u # t
    BY <2>1, Frame DEF Acquire, Step, caller, IInv, TypeOK
  <2>2. CASE u = t
    BY <2>2 DEF Acquire, Step, caller, IInv, TypeOK, TaskInv, Prepared
  <2>. QED  BY <2>1, <2>2
<1>3. CacheCoherent' /\ RootPinned'
  BY DEF Acquire, IInv, CacheCoherent, RootPinned
<1>4. Announced'
  BY DEF Acquire, Step, IInv, Announced, TaskInv, TypeOK
<1>. QED  BY <1>1, <1>2, <1>3, <1>4 DEF IInv

(* Every error under the lock: the copy and the guard are dropped.          *)
LEMMA FailInv ==
    ASSUME IInv, NEW t \in Task,
           NEW from \in {"fetch", "edit", "putNode", "put"}, Fail(t, from)
    PROVE  IInv'
<1>0. pc[t] = from /\ pc' = [pc EXCEPT ![t] = "failed"]
  BY DEF Fail, Step
<1>1. TypeOK'
  BY <1>0, NoneDistinct DEF IInv, TypeOK, Fail, PC, Critical, Ended, Maybe, caller
<1>2. ASSUME NEW u \in Task PROVE TaskInv(u)'
  <2>1. CASE u # t
    BY <1>0, <2>1, Frame DEF Fail, caller, IInv, TypeOK
  <2>2. CASE u = t
    BY <1>0, <2>2 DEF Fail, caller, IInv, TypeOK, TaskInv
  <2>. QED  BY <2>1, <2>2
<1>3. CacheCoherent' /\ RootPinned'
  BY DEF Fail, IInv, CacheCoherent, RootPinned
<1>4. Announced'
  BY <1>0 DEF Fail, IInv, Announced, TaskInv, TypeOK
<1>. QED  BY <1>1, <1>2, <1>3, <1>4 DEF IInv

(* The holder's base is the current manifest, cached or fetched.            *)
LEMMA FetchInv == ASSUME IInv, NEW t \in Task, Fetch(t) PROVE IInv'
<1>. DEFINE o == op[t]
            e == op[t].entity
<1>0. /\ pc[t] = "fetch"
      /\ o \in Operation
      /\ e \in Entity
      /\ lock = t
      /\ fetch_or_cached = cid
  BY DEF Fetch, IInv, TypeOK, CacheCoherent, fetch_or_cached, Maybe, Operation, Critical
<1>a. CASE Fail(t, "fetch")
  BY <1>a, FailInv
<1>b. ASSUME ~Fail(t, "fetch") PROVE IInv'
  <2>. /\ cache' = None
       /\ UNCHANGED <<caller, cid, stats, pins, applied, pinFault>>
    BY <1>b DEF Fetch
  <2>1. \/ /\ o.kind \in EditKinds /\ cid[e] # None
           /\ pc' = [pc EXCEPT ![t] = "edit"]
           /\ work' = [work EXCEPT ![t] = cid]
           /\ lock' = lock
        \/ /\ pc' = [pc EXCEPT ![t] = "failed"]
           /\ work' = [work EXCEPT ![t] = None]
           /\ lock' = None
        \/ /\ o.kind \in {"insert", "acl", "remove"}
           /\ pc' = [pc EXCEPT ![t] = "put"]
           /\ work' = [work EXCEPT ![t] = [cid EXCEPT ![e] =
                                              IF o.kind = "remove" THEN None ELSE node[t]]]
           /\ lock' = lock
    BY <1>0, <1>b DEF Fetch, Step
  <2>2. [cid EXCEPT ![e] = IF o.kind = "remove" THEN None ELSE node[t]] \in RuntimeManifest
    BY <1>0 DEF IInv, TypeOK, RuntimeManifest, Maybe
  <2>3. TypeOK'
    <3>1. work' \in [Task -> Maybe(RuntimeManifest)]
      BY <2>1, <2>2 DEF IInv, TypeOK, Maybe
    <3>2. \E p \in {"edit", "failed", "put"} :
             /\ pc' = [pc EXCEPT ![t] = p]
             /\ lock' = IF p = "failed" THEN None ELSE lock
      BY <2>1
    <3>. QED  BY <1>0, <3>1, <3>2, NoneDistinct
              DEF IInv, TypeOK, PC, Critical, Ended, Maybe, caller
  <2>4. ASSUME NEW u \in Task PROVE TaskInv(u)'
    <3>1. CASE u # t
      BY <2>1, <3>1, Frame DEF caller, IInv, TypeOK
    <3>2. CASE u = t
      <4>0. t \notin applied /\ Prepared(t)
        BY <1>0 DEF IInv, TaskInv
      <4>1. CASE pc'[t] = "edit"
        BY <1>0, <2>1, <3>2, <4>0, <4>1 DEF caller, IInv, TypeOK, TaskInv, Editing
      <4>2. CASE pc'[t] = "failed"
        BY <3>2, <4>0, <4>2 DEF TaskInv
      <4>3. CASE pc'[t] = "put"
        <5>1. /\ o.kind \in {"insert", "acl", "remove"}
              /\ work'[t] = [cid EXCEPT ![e] = IF o.kind = "remove" THEN None ELSE node[t]]
          BY <2>1, <4>3 DEF IInv, TypeOK
        <5>2. Ready(t)'
          <6>1. CASE o.kind = "acl"
            <7>1. node[t] = set_acl(node[t], t) /\ node[t] \in EntityNode
              BY <4>0, <6>1 DEF Prepared, IInv, TypeOK
            <7>. QED  BY <5>1, <6>1, <7>1 DEF Ready, caller
          <6>2. CASE o.kind = "insert"
            BY <4>0, <5>1, <6>2 DEF Ready, Prepared, caller, Atomic!Applicable, Atomic!Effect,
               Atomic!NewNode, NewNode
          <6>3. CASE o.kind = "remove"
            BY <5>1, <6>3 DEF Ready, caller, Atomic!Applicable, Atomic!Effect
          <6>. QED  BY <5>1, <6>1, <6>2, <6>3
        <5>3. work'[t] # None
          BY <2>2, <5>1, NoneDistinct
        <5>. QED  BY <3>2, <4>0, <4>3, <5>2, <5>3 DEF TaskInv
      <4>. QED  BY <2>1, <4>1, <4>2, <4>3 DEF IInv, TypeOK
    <3>. QED  BY <3>1, <3>2
  <2>5. CacheCoherent' /\ RootPinned'
    BY DEF IInv, CacheCoherent, RootPinned
  <2>6. Announced'
    BY <1>0, <2>1 DEF IInv, Announced, TaskInv, TypeOK
  <2>. QED  BY <2>3, <2>4, <2>5, <2>6 DEF IInv
<1>. QED  BY <1>a, <1>b

(* The abstract effect of an edit is the edit of the entity's node.         *)
LEMMA EffectOfEdit ==
    ASSUME NEW t \in Task, NEW o \in Operation, NEW m, o.kind \in EditKinds
    PROVE  Atomic!Effect(o, t, m) = [m EXCEPT ![o.entity] = Edited(o.kind, m[o.entity], t)]
<1>1. o.kind \notin {"insert", "remove"}
  BY DEF EditKinds
<1>2. Atomic!Edited(o.kind, m[o.entity], t) = Edited(o.kind, m[o.entity], t)
  BY DEF Atomic!Edited, Edited, set_entity_state, set_entity_behaviour, set_entity_reload_error,
         complete_entity_reload, Atomic!set_entity_state, Atomic!set_entity_behaviour,
         Atomic!set_entity_reload_error, Atomic!complete_entity_reload
<1>. QED  BY <1>1, <1>2 DEF Atomic!Effect

(* The edit of the entity's node under the lock.                            *)
LEMMA EditNodeInv == ASSUME IInv, NEW t \in Task, EditNode(t) PROVE IInv'
<1>. DEFINE e == op[t].entity
<1>0. /\ pc[t] = "edit"
      /\ op[t] \in Operation
      /\ e \in Entity
      /\ Editing(t)
      /\ cid[e] \in EntityNode
      /\ lock = t
  <2>1. pc[t] = "edit"
    BY DEF EditNode, Fail, Step
  <2>2. op[t] \in Operation /\ lock = t
    BY <2>1 DEF IInv, TypeOK, Maybe, Critical
  <2>3. e \in Entity
    BY <2>2 DEF Operation
  <2>4. Editing(t)
    BY <2>1 DEF IInv, TaskInv
  <2>. QED  BY <2>1, <2>2, <2>3, <2>4 DEF Editing, IInv, TypeOK, RuntimeManifest, Maybe
<1>a. CASE Fail(t, "edit")
  BY <1>a, FailInv
<1>b. CASE /\ Step(t, "edit", "done")
           /\ cache' = work[t]
           /\ lock' = None
           /\ work' = [work EXCEPT ![t] = None]
           /\ applied' = applied \cup {t}
           /\ UNCHANGED <<caller, cid, stats, pins, pinFault>>
  <2>0. cache' = cid
    BY <1>0, <1>b DEF Editing
  <2>1. TypeOK'
    BY <1>0, <1>b, <2>0, NoneDistinct DEF IInv, TypeOK, Step, PC, Critical, Ended, Maybe, caller
  <2>2. ASSUME NEW u \in Task PROVE TaskInv(u)'
    <3>1. CASE u # t
      BY <1>b, <3>1, Frame DEF Step, caller, IInv, TypeOK
    <3>2. CASE u = t
      BY <1>b, <3>2 DEF Step, IInv, TypeOK, TaskInv
    <3>. QED  BY <3>1, <3>2
  <2>3. CacheCoherent' /\ RootPinned'
    BY <1>b, <2>0 DEF IInv, CacheCoherent, RootPinned
  <2>4. Announced'
    BY <1>0, <1>b DEF IInv, Announced, TaskInv, TypeOK, Step
  <2>. QED  BY <2>1, <2>2, <2>3, <2>4 DEF IInv
<1>c. CASE /\ Step(t, "edit", "putNode")
           /\ node' = [node EXCEPT ![t] = Edited(op[t].kind, work[t][e], t)]
           /\ UNCHANGED <<op, lock, cid, cache, work, stats, pins, applied, pinFault>>
  <2>0. work[t][e] = cid[e] /\ Edited(op[t].kind, cid[e], t) \in EntityNode
    BY <1>0, EditedType DEF Editing
  <2>1. TypeOK'
    BY <1>0, <1>c, <2>0 DEF IInv, TypeOK, Step, PC, Critical, Ended
  <2>2. ASSUME NEW u \in Task PROVE TaskInv(u)'
    <3>1. CASE u # t
      BY <1>c, <3>1, Frame DEF Step, IInv, TypeOK
    <3>2. CASE u = t
      BY <1>0, <1>c, <2>0, <3>2 DEF Step, IInv, TypeOK, TaskInv, Editing
    <3>. QED  BY <3>1, <3>2
  <2>3. CacheCoherent' /\ RootPinned'
    BY <1>c DEF IInv, CacheCoherent, RootPinned
  <2>4. Announced'
    BY <1>0, <1>c DEF IInv, Announced, TaskInv, TypeOK, Step
  <2>. QED  BY <2>1, <2>2, <2>3, <2>4 DEF IInv
<1>. QED  BY <1>a, <1>b, <1>c DEF EditNode

(* The put of the edited node.                                              *)
LEMMA PutNodeInv == ASSUME IInv, NEW t \in Task, PutNode(t) PROVE IInv'
<1>. DEFINE e == op[t].entity
<1>a. CASE Fail(t, "putNode")
  BY <1>a, FailInv
<1>b. CASE /\ Step(t, "putNode", "put")
           /\ work' = [work EXCEPT ![t][e] = node[t]]
           /\ UNCHANGED <<caller, lock, cid, cache, stats, pins, applied, pinFault>>
  <2>0. /\ pc[t] = "putNode"
        /\ op[t] \in Operation
        /\ Editing(t)
        /\ node[t] = Edited(op[t].kind, cid[e], t)
        /\ t \notin applied
    BY <1>b DEF Step, IInv, TypeOK, TaskInv, Maybe
  <2>1. work'[t] = [cid EXCEPT ![e] = node[t]]
    BY <1>b, <2>0 DEF IInv, TypeOK, Editing
  <2>2. work'[t] \in RuntimeManifest
    BY <2>0, <2>1 DEF IInv, TypeOK, RuntimeManifest, Maybe, Operation
  <2>3. TypeOK'
    <3>1. work' \in [Task -> Maybe(RuntimeManifest)]
      BY <1>b, <2>2 DEF IInv, TypeOK, Maybe
    <3>. QED  BY <1>b, <3>1 DEF IInv, TypeOK, Step, PC, Critical, caller
  <2>4. Ready(t)'
    <3>1. op[t].kind \in EditKinds /\ op[t].kind # "acl"
      BY <2>0 DEF Editing, EditKinds
    <3>2. Atomic!Effect(op[t], t, cid) = work'[t]
      BY <2>0, <2>1, <3>1, EffectOfEdit
    <3>3. Atomic!Applicable(op[t], cid)
      BY <2>0, <3>1 DEF Editing, Atomic!Applicable, Atomic!EditKinds, EditKinds
    <3>. QED  BY <1>b, <3>1, <3>2, <3>3 DEF Ready, caller
  <2>5. ASSUME NEW u \in Task PROVE TaskInv(u)'
    <3>1. CASE u # t
      BY <1>b, <3>1, Frame DEF Step, caller, IInv, TypeOK
    <3>2. CASE u = t
      BY <1>b, <2>0, <2>2, <2>4, <3>2, NoneDistinct DEF Step, IInv, TypeOK, TaskInv
    <3>. QED  BY <3>1, <3>2
  <2>6. CacheCoherent' /\ RootPinned'
    BY <1>b DEF IInv, CacheCoherent, RootPinned
  <2>7. Announced'
    BY <1>b DEF IInv, Announced, TaskInv, TypeOK, Step
  <2>. QED  BY <2>3, <2>5, <2>6, <2>7 DEF IInv
<1>. QED  BY <1>a, <1>b DEF PutNode

(* The put of the manifest.                                                 *)
LEMMA PutManifestInv == ASSUME IInv, NEW t \in Task, PutManifest(t) PROVE IInv'
<1>a. CASE Fail(t, "put")
  BY <1>a, FailInv
<1>b. CASE /\ Step(t, "put", "pin")
           /\ UNCHANGED <<caller, lock, cid, cache, work, stats, pins, applied, pinFault>>
  <2>1. TypeOK'
    BY <1>b DEF IInv, TypeOK, Step, PC, Critical, caller
  <2>2. ASSUME NEW u \in Task PROVE TaskInv(u)'
    <3>1. CASE u # t
      BY <1>b, <3>1, Frame DEF Step, caller, IInv, TypeOK
    <3>2. CASE u = t
      BY <1>b, <3>2 DEF Step, caller, IInv, TypeOK, TaskInv, Ready
    <3>. QED  BY <3>1, <3>2
  <2>3. CacheCoherent' /\ RootPinned'
    BY <1>b DEF IInv, CacheCoherent, RootPinned
  <2>4. Announced'
    BY <1>b DEF IInv, Announced, TaskInv, TypeOK, Step
  <2>. QED  BY <2>1, <2>2, <2>3, <2>4 DEF IInv
<1>. QED  BY <1>a, <1>b DEF PutManifest

(* The pin and the replacement of the root: nobody else is under the lock.  *)
LEMMA PinAndSwapInv == ASSUME IInv, NEW t \in Task, PinAndSwap(t) PROVE IInv'
<1>0. /\ pc[t] = "pin"
      /\ pc' = [pc EXCEPT ![t] = "stats"]
      /\ lock = t
      /\ work[t] \in RuntimeManifest
      /\ pins' = pins \/ pins' = pin_update(cid, work[t])
  BY DEF PinAndSwap, Step, IInv, TypeOK, TaskInv, Critical, Maybe
<1>1. TypeOK'
  <2>1. pins' \subseteq RuntimeManifest
    BY <1>0 DEF IInv, TypeOK, pin_update
  <2>. QED  BY <1>0, <2>1 DEF PinAndSwap, IInv, TypeOK, PC, Critical, Maybe, caller
<1>2. ASSUME NEW u \in Task PROVE TaskInv(u)'
  <2>1. CASE u # t
    <3>1. pc[u] \notin Critical
      BY <1>0, <2>1 DEF IInv, TypeOK
    <3>. QED  BY <1>0, <2>1, <3>1, Frame DEF PinAndSwap, caller, IInv, TypeOK
  <2>2. CASE u = t
    BY <1>0, <2>2, NoneDistinct DEF PinAndSwap, IInv, TypeOK, TaskInv
  <2>. QED  BY <2>1, <2>2
<1>3. CacheCoherent' /\ RootPinned'
  BY DEF PinAndSwap, CacheCoherent, RootPinned, pin_update
<1>4. Announced'
  BY <1>0 DEF PinAndSwap, IInv, TypeOK, Announced
<1>. QED  BY <1>1, <1>2, <1>3, <1>4 DEF IInv

(* The announcement of the root.                                            *)
LEMMA PublishStatsInv == ASSUME IInv, NEW t \in Task, PublishStats(t) PROVE IInv'
<1>1. TypeOK'
  BY NoneDistinct DEF PublishStats, IInv, TypeOK, Step, PC, Critical, Ended, Maybe, caller
<1>2. ASSUME NEW u \in Task PROVE TaskInv(u)'
  <2>1. CASE u # t
    BY <2>1, Frame DEF PublishStats, Step, caller, IInv, TypeOK
  <2>2. CASE u = t
    BY <2>2 DEF PublishStats, Step, IInv, TypeOK, TaskInv
  <2>. QED  BY <2>1, <2>2
<1>3. CacheCoherent' /\ RootPinned'
  BY DEF PublishStats, IInv, CacheCoherent, RootPinned
<1>4. Announced'
  BY DEF PublishStats, Announced
<1>. QED  BY <1>1, <1>2, <1>3, <1>4 DEF IInv

(* A task that is cut off leaves the cache and the root as they were.       *)
LEMMA CutInv == ASSUME IInv, NEW t \in Task, Cut(t) PROVE IInv'
<1>0. /\ pc[t] \notin Ended \cup {"idle"}
      /\ pc' = [pc EXCEPT ![t] = "cut"]
      /\ UNCHANGED <<op, node, cid, cache, stats, applied>>
  BY DEF Cut, caller
<1>a. /\ lock' = IF lock = t THEN None ELSE lock
      /\ work' \in {work, [work EXCEPT ![t] = None]}
  BY DEF Cut, Release
<1>b. \/ pins' = pins /\ pinFault' = pinFault
      \/ /\ pc[t] = "pin"
         /\ pins' = pin_update(cid, work[t])
         /\ pinFault' = TRUE
  BY DEF Cut
<1>1. TypeOK'
  <2>1. pins' \subseteq RuntimeManifest /\ pinFault' \in BOOLEAN
    BY <1>b DEF IInv, TypeOK, TaskInv, pin_update, Maybe
  <2>2. work' \in [Task -> Maybe(RuntimeManifest)]
    BY <1>a DEF IInv, TypeOK, Maybe
  <2>. QED  BY <1>0, <1>a, <2>1, <2>2, NoneDistinct
            DEF IInv, TypeOK, PC, Critical, Ended, Maybe
<1>2. ASSUME NEW u \in Task PROVE TaskInv(u)'
  <2>1. CASE u # t
    BY <1>0, <1>a, <2>1, Frame DEF IInv, TypeOK
  <2>2. CASE u = t
    BY <1>0, <2>2 DEF IInv, TypeOK, TaskInv
  <2>. QED  BY <2>1, <2>2
<1>3. CacheCoherent' /\ RootPinned'
  BY <1>0, <1>b DEF IInv, CacheCoherent, RootPinned
<1>4. Announced'
  BY <1>0 DEF IInv, Announced, TypeOK
<1>. QED  BY <1>1, <1>2, <1>3, <1>4 DEF IInv

(* Every step of the writer preserves the invariant.                        *)
LEMMA NextInv == IInv /\ [Next]_vars => IInv'
<1>1. ASSUME IInv, Next PROVE IInv'
  <2>. PICK t \in Task : Start(t) \/ Progress(t) \/ Cut(t)
    BY <1>1 DEF Next
  <2>1. CASE Start(t)              BY <1>1, <2>1, StartInv
  <2>2. CASE fetch_entity_node(t)  BY <1>1, <2>2, ReadInv
  <2>3. CASE PutFirst(t)           BY <1>1, <2>3, PutFirstInv
  <2>4. CASE Acquire(t)            BY <1>1, <2>4, AcquireInv
  <2>5. CASE Fetch(t)              BY <1>1, <2>5, FetchInv
  <2>6. CASE EditNode(t)           BY <1>1, <2>6, EditNodeInv
  <2>7. CASE PutNode(t)            BY <1>1, <2>7, PutNodeInv
  <2>8. CASE PutManifest(t)        BY <1>1, <2>8, PutManifestInv
  <2>9. CASE PinAndSwap(t)         BY <1>1, <2>9, PinAndSwapInv
  <2>10. CASE PublishStats(t)      BY <1>1, <2>10, PublishStatsInv
  <2>11. CASE Cut(t)               BY <1>1, <2>11, CutInv
  <2>. QED  BY <2>1, <2>2, <2>3, <2>4, <2>5, <2>6, <2>7, <2>8, <2>9, <2>10, <2>11 DEF Progress
<1>2. ASSUME IInv, UNCHANGED vars PROVE IInv'
  BY <1>2 DEF vars, IInv, TypeOK, CacheCoherent, Announced, RootPinned, TaskInv, Prepared,
              Editing, Ready
<1>. QED  BY <1>1, <1>2

(* The inductive invariant holds in every reachable state.                  *)
THEOREM WriterInvariant == Spec => []IInv
BY InitInv, NextInv, PTL DEF Spec

(* manifest.rs: types, and the mutex held by exactly the task inside the    *)
(* read-modify-write, whatever fails or is cut off.                         *)
THEOREM WriterTypeCorrect == Spec => []TypeOK
<1>1. IInv => TypeOK
  BY DEF IInv
<1>. QED  BY WriterInvariant, <1>1, PTL

(* manifest.rs: the cached manifest is the one the root CID names.          *)
THEOREM CacheCorrect == Spec => []CacheCoherent
<1>1. IInv => CacheCoherent
  BY DEF IInv
<1>. QED  BY WriterInvariant, <1>1, PTL

(* manifest.rs: Ok means done and Err means not done.                       *)
THEOREM OutcomeCorrect == Spec => []OutcomeTruthful
<1>1. IInv => OutcomeTruthful
  BY DEF IInv, TaskInv, OutcomeTruthful
<1>. QED  BY WriterInvariant, <1>1, PTL

(* publish_manifest_update: the announced root is behind only after a task  *)
(* was cut off between the swap and the announcement.                       *)
THEOREM StatsCorrect == Spec => []StatsCurrent
<1>1. IInv => StatsCurrent
  BY NoneDistinct DEF IInv, TypeOK, Announced, StatsCurrent, Critical
<1>. QED  BY WriterInvariant, <1>1, PTL

(* publish_manifest_update: the root is pinned unless the last pin failed.  *)
THEOREM PinCorrect == Spec => []RootPinned
<1>1. IInv => RootPinned
  BY DEF IInv
<1>. QED  BY WriterInvariant, <1>1, PTL

-----------------------------------------------------------------------------
(* Refinement. *)

(* A step of the writer is a step of AtomicManifest or leaves it alone.     *)
LEMMA StepRefines ==
    ASSUME IInv, IInv', NEW t \in Task, Start(t) \/ Progress(t) \/ Cut(t)
    PROVE  \/ Atomic!Request(t) \/ Atomic!Apply(t) \/ Atomic!Overwrite(t)
           \/ UNCHANGED <<cid, op, applied>>
<1>1. CASE Start(t)
  <2>1. op[t] = None
    BY <1>1 DEF Start, Step, IInv, TypeOK
  <2>. QED  BY <1>1, <2>1 DEF Start, Atomic!Request, Atomic!Operation, Operation
<1>2. CASE PinAndSwap(t)
  <2>1. /\ op[t] # None
        /\ t \notin applied
        /\ Ready(t)
        /\ cid' = work[t]
        /\ applied' = applied \cup {t}
        /\ op' = op
    BY <1>2 DEF PinAndSwap, Step, caller, IInv, TypeOK, TaskInv
  <2>2. CASE op[t].kind = "acl"
    BY <2>1, <2>2 DEF Ready, Atomic!Overwrite, Atomic!EntityNode, EntityNode, Atomic!set_acl,
       set_acl, Atomic!Maybe, Maybe
  <2>3. CASE op[t].kind # "acl"
    BY <2>1, <2>3 DEF Ready, Atomic!Apply
  <2>. QED  BY <2>2, <2>3
<1>3. CASE EditNode(t) /\ pc'[t] = "done"
  <2>1. /\ Editing(t)
        /\ op[t] \in Operation
        /\ op[t] # None
        /\ t \notin applied
        /\ NoChange(op[t].kind, work[t][op[t].entity])
        /\ cid' = cid
        /\ applied' = applied \cup {t}
        /\ op' = op
    BY <1>3, NoneDistinct
       DEF EditNode, Fail, Step, caller, IInv, TypeOK, TaskInv, Maybe
  <2>2. Edited(op[t].kind, cid[op[t].entity], t) = cid[op[t].entity]
    BY <2>1 DEF NoChange, Edited, Editing
  <2>3. [cid EXCEPT ![op[t].entity] = Edited(op[t].kind, cid[op[t].entity], t)] = cid
    BY <2>2 DEF IInv, TypeOK, RuntimeManifest
  <2>4. Atomic!Effect(op[t], t, cid) = cid
    BY <2>1, <2>3, EffectOfEdit DEF Editing
  <2>5. Atomic!Applicable(op[t], cid)
    BY <2>1 DEF Editing, Atomic!Applicable, Atomic!EditKinds, EditKinds
  <2>. QED  BY <2>1, <2>4, <2>5 DEF Atomic!Apply
<1>4. CASE EditNode(t) /\ pc'[t] # "done"
  BY <1>4 DEF EditNode, Fail, Step, caller, IInv, TypeOK
<1>5. CASE fetch_entity_node(t) \/ PutFirst(t) \/ Acquire(t) \/ Fetch(t)
  BY <1>5 DEF fetch_entity_node, PutFirst, Acquire, Fetch, Fail, caller
<1>6. CASE PutNode(t) \/ PutManifest(t) \/ PublishStats(t) \/ Cut(t)
  BY <1>6 DEF PutNode, PutManifest, PublishStats, Cut, Fail, caller
<1>. QED  BY <1>1, <1>2, <1>3, <1>4, <1>5, <1>6 DEF Progress

(* manifest.rs, "each observes the result of the previous one": the writer  *)
(* implements the atomic manifest, through failures and cut-offs.           *)
THEOREM AtomicityCorrect == Spec => Atomicity
<1>1. Init => Atomic!Init
  BY DEF Init, Atomic!Init, InitialNode, Atomic!InitialNode
<1>2. IInv /\ IInv' /\ [Next]_vars => [Atomic!Next]_(Atomic!vars)
  <2>1. ASSUME IInv, IInv', Next PROVE [Atomic!Next]_(Atomic!vars)
    <3>1. PICK t \in Task : Start(t) \/ Progress(t) \/ Cut(t)
      BY <2>1 DEF Next
    <3>. QED  BY <2>1, <3>1, StepRefines DEF Atomic!Next, Atomic!vars
  <2>2. ASSUME UNCHANGED vars PROVE UNCHANGED Atomic!vars
    BY <2>2 DEF vars, Atomic!vars
  <2>. QED  BY <2>1, <2>2
<1>. QED  BY WriterInvariant, <1>1, <1>2, PTL DEF Spec, Atomicity, Atomic!Spec
=============================================================================
