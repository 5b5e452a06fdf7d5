--------------------------- MODULE ManifestWriter ---------------------------
(***************************************************************************)
(* The serialised manifest writer (manifest.rs): every mutation of the     *)
(* runtime manifest is a read-modify-write under an async mutex, on a      *)
(* cached copy of the manifest, through several Kubo requests.  A request  *)
(* may fail, and the handlers that call the writer run under a timeout: a  *)
(* task may be cut off at any await, which drops the lock with it.         *)
(*                                                                         *)
(* The acl field of the CRUD interface (crud/entities.rs) reads the node   *)
(* through Stats.root_cid before it takes the lock.                        *)
(***************************************************************************)
EXTENDS ManifestOps

CONSTANTS
    Failures,   \* the Kubo requests that may fail
    Cutoffs     \* may a handler's timeout cut a task off?

ASSUME WriterAssumption ==
    /\ Failures \subseteq {"get", "put", "pin"}
    /\ Cutoffs \in BOOLEAN

VARIABLES
    op,        \* the operation of each task
    pc,        \* control point of each task: the await it is at
    lock,      \* the task that holds Inner.state, or None
    cid,       \* CachedState.cid
    cache,     \* CachedState.manifest
    work,      \* each task's copy of the manifest
    node,      \* the entity node each task is about to publish
    stats,     \* Stats.root_cid
    pins,      \* root CIDs Kubo has pinned
    (* History. *)
    applied,   \* the tasks whose operation is in the root, or was
    pinFault   \* did the last attempt to pin a root fail or go astray?

caller == <<op, node>>
vars == <<op, pc, lock, cid, cache, work, node, stats, pins, applied, pinFault>>

Critical == {"fetch", "edit", "putNode", "put", "pin", "stats"}
Ended    == {"done", "failed", "cut"}
PC       == {"idle", "read", "putFirst", "lock"} \cup Critical \cup Ended

Step(t, from, to) == pc[t] = from /\ pc' = [pc EXCEPT ![t] = to]

(***************************************************************************)
(* Before the lock.                                                        *)
(***************************************************************************)
Start(t) ==
    /\ \E o \in Operation :
          /\ op' = [op EXCEPT ![t] = o]
          /\ Step(t, "idle", IF o.kind = "insert" THEN "putFirst"
                             ELSE IF o.kind = "acl" THEN "read" ELSE "lock")
    /\ node' = [node EXCEPT ![t] = NewNode(t)]
    /\ UNCHANGED <<lock, cid, cache, work, stats, pins, applied, pinFault>>

\* fetch_entity_node of crud/entities.rs, through Stats.root_cid.
fetch_entity_node(t) ==
    /\ pc[t] = "read"
    /\ LET n == stats[op[t].entity] IN
       \/ /\ n # None
          /\ Step(t, "read", "putFirst")
          /\ node' = [node EXCEPT ![t] = set_acl(n, t)]
       \/ /\ n = None \/ "get" \in Failures
          /\ Step(t, "read", "failed")
          /\ UNCHANGED node
    /\ UNCHANGED <<op, lock, cid, cache, work, stats, pins, applied, pinFault>>

PutFirst(t) ==
    /\ \/ Step(t, "putFirst", "lock")
       \/ "put" \in Failures /\ Step(t, "putFirst", "failed")
    /\ UNCHANGED <<caller, lock, cid, cache, work, stats, pins, applied, pinFault>>

\* Mutant: the mutex does not exclude.
Acquire_NoWait(t) ==
    /\ Step(t, "lock", "fetch")
    /\ lock' = t
    /\ UNCHANGED <<caller, cid, cache, work, stats, pins, applied, pinFault>>

Acquire(t) ==
    /\ lock = None
    /\ Step(t, "lock", "fetch")
    /\ lock' = t
    /\ UNCHANGED <<caller, cid, cache, work, stats, pins, applied, pinFault>>

(***************************************************************************)
(* Under the lock.  An early return drops the guard and the copy.          *)
(***************************************************************************)
\* Mutant: the copy is put back, changed or not.
Fail_PutsBack(t, from) ==
    /\ Step(t, from, "failed")
    /\ lock' = None
    /\ work' = [work EXCEPT ![t] = None]
    /\ cache' = work[t]
    /\ UNCHANGED <<caller, cid, stats, pins, applied, pinFault>>

Fail(t, from) ==
    /\ Step(t, from, "failed")
    /\ lock' = None
    /\ work' = [work EXCEPT ![t] = None]
    /\ UNCHANGED <<caller, cid, cache, stats, pins, applied, pinFault>>

\* The cached manifest is taken; without one it is fetched by its CID.
fetch_or_cached == IF cache # None THEN cache ELSE cid

\* The fetch, and the closure of mutate that runs without an await.
Fetch(t) ==
    /\ pc[t] = "fetch"
    /\ \/ cache = None /\ "get" \in Failures /\ Fail(t, "fetch")
       \/ LET o == op[t]
              m == fetch_or_cached
          IN  /\ cache' = None
              /\ \/ /\ o.kind \in EditKinds /\ m[o.entity] # None
                    /\ Step(t, "fetch", "edit")
                    /\ work' = [work EXCEPT ![t] = m]
                    /\ UNCHANGED lock
                 \/ /\ o.kind = "reject" \/ (o.kind \in EditKinds /\ m[o.entity] = None)
                    /\ Step(t, "fetch", "failed")
                    /\ lock' = None
                    /\ work' = [work EXCEPT ![t] = None]
                 \/ /\ o.kind \in {"insert", "acl", "remove"}
                    /\ Step(t, "fetch", "put")
                    /\ work' = [work EXCEPT ![t] = [m EXCEPT ![o.entity] =
                                   IF o.kind = "remove" THEN None ELSE node[t]]]
                    /\ UNCHANGED lock
              /\ UNCHANGED <<caller, cid, stats, pins, applied, pinFault>>

\* set_entity_reload_error skips the publication when the error is known.
NoChange(k, n) == k = "error" /\ n = set_entity_reload_error(n)

\* update_entity_node: without a change the manifest is put back.
EditNode(t) ==
    \/ "get" \in Failures /\ Fail(t, "edit")
    \/ /\ Step(t, "edit", "done")
       /\ NoChange(op[t].kind, work[t][op[t].entity])
       /\ cache' = work[t]
       /\ lock' = None
       /\ work' = [work EXCEPT ![t] = None]
       /\ applied' = applied \cup {t}
       /\ UNCHANGED <<caller, cid, stats, pins, pinFault>>
    \/ /\ Step(t, "edit", "putNode")
       /\ ~NoChange(op[t].kind, work[t][op[t].entity])
       /\ node' = [node EXCEPT ![t] = Edited(op[t].kind, work[t][op[t].entity], t)]
       /\ UNCHANGED <<op, lock, cid, cache, work, stats, pins, applied, pinFault>>

PutNode(t) ==
    \/ "put" \in Failures /\ Fail(t, "putNode")
    \/ /\ Step(t, "putNode", "put")
       /\ work' = [work EXCEPT ![t][op[t].entity] = node[t]]
       /\ UNCHANGED <<caller, lock, cid, cache, stats, pins, applied, pinFault>>

PutManifest(t) ==
    \/ "put" \in Failures /\ Fail(t, "put")
    \/ /\ Step(t, "put", "pin")
       /\ UNCHANGED <<caller, lock, cid, cache, work, stats, pins, applied, pinFault>>

\* Mutant: no fallback when the old root was not pinned.
pin_update_NoFallback(old, new) ==
    IF old \in pins THEN (pins \ {old}) \cup {new} ELSE pins

\* pin/update, or pin/add when the old root was not pinned.
pin_update(old, new) == (pins \ {old}) \cup {new}

\* Mutant: a failed pin is reported after the root was replaced.
PinAndSwap_FailsLate(t) ==
    /\ pc[t] = "pin"
    /\ cid' = work[t]
    /\ cache' = work[t]
    /\ applied' = applied \cup {t}
    /\ \/ Step(t, "pin", "stats") /\ pins' = pin_update(cid, work[t]) /\ pinFault' = FALSE /\ UNCHANGED lock
       \/ /\ "pin" \in Failures /\ Step(t, "pin", "failed") /\ lock' = None
          /\ pinFault' = TRUE /\ UNCHANGED pins
    /\ UNCHANGED <<caller, work, stats>>

\* A root that cannot be pinned is published all the same.
PinAndSwap(t) ==
    /\ Step(t, "pin", "stats")
    /\ \/ pins' = pin_update(cid, work[t]) /\ pinFault' = FALSE
       \/ "pin" \in Failures /\ pinFault' = TRUE /\ UNCHANGED pins
    /\ cid' = work[t]
    /\ cache' = work[t]
    /\ applied' = applied \cup {t}
    /\ UNCHANGED <<caller, lock, work, stats>>

\* Mutant: the new root is not announced.
PublishStats_Not(t) ==
    /\ Step(t, "stats", "done")
    /\ lock' = None
    /\ work' = [work EXCEPT ![t] = None]
    /\ UNCHANGED <<caller, cid, cache, stats, pins, applied, pinFault>>

PublishStats(t) ==
    /\ Step(t, "stats", "done")
    /\ stats' = cid
    /\ lock' = None
    /\ work' = [work EXCEPT ![t] = None]
    /\ UNCHANGED <<caller, cid, cache, pins, applied, pinFault>>

(***************************************************************************)
(* A handler's timeout drops the task's future, and the guard with it.     *)
(***************************************************************************)
\* Mutant: the lock outlives the task.
Release_Not(t) == UNCHANGED <<lock, work>>

Release(t) ==
    IF lock = t THEN lock' = None /\ work' = [work EXCEPT ![t] = None]
                ELSE UNCHANGED <<lock, work>>

\* Kubo may still carry out the pin request it was sent.
Cut(t) ==
    /\ Cutoffs
    /\ pc[t] \notin Ended \cup {"idle"}
    /\ pc' = [pc EXCEPT ![t] = "cut"]
    /\ Release(t)
    /\ \/ UNCHANGED <<pins, pinFault>>
       \/ pc[t] = "pin" /\ pins' = pin_update(cid, work[t]) /\ pinFault' = TRUE
    /\ UNCHANGED <<caller, cid, cache, stats, applied>>

-----------------------------------------------------------------------------
Init ==
    /\ cid \in [Entity -> {None, InitialNode}]
    /\ cache = None
    /\ stats = cid
    /\ pins \in {{}, {cid}}
    /\ pinFault = (cid \notin pins)
    /\ op = [t \in Task |-> None]
    /\ pc = [t \in Task |-> "idle"]
    /\ node = [t \in Task |-> InitialNode]
    /\ lock = None
    /\ work = [t \in Task |-> None]
    /\ applied = {}

Progress(t) ==
    \/ fetch_entity_node(t)
    \/ PutFirst(t)
    \/ Acquire(t)
    \/ Fetch(t)
    \/ EditNode(t)
    \/ PutNode(t)
    \/ PutManifest(t)
    \/ PinAndSwap(t)
    \/ PublishStats(t)

Next == \E t \in Task : Start(t) \/ Progress(t) \/ Cut(t)

Spec == Init /\ [][Next]_vars

\* A Kubo request ends, by its own timeout if need be; a mutex that becomes
\* free is handed on.
Fairness == \A t \in Task : WF_vars(Progress(t))

FairSpec == Spec /\ Fairness

-----------------------------------------------------------------------------
(* Every variable has its type, and the guard is held exactly by the one    *)
(* task between lock and return: no exit, by error, early return or         *)
(* cut-off, leaves the mutex taken or two tasks inside.                     *)
TypeOK ==
    /\ op \in [Task -> Maybe(Operation)]
    /\ pc \in [Task -> PC]
    /\ lock \in Maybe(Task)
    /\ cid \in RuntimeManifest /\ stats \in RuntimeManifest
    /\ cache \in Maybe(RuntimeManifest)
    /\ work \in [Task -> Maybe(RuntimeManifest)]
    /\ node \in [Task -> EntityNode]
    /\ pins \subseteq RuntimeManifest
    /\ applied \subseteq Task
    /\ pinFault \in BOOLEAN
    /\ \A t \in Task : /\ lock = t <=> pc[t] \in Critical
                       /\ op[t] = None <=> pc[t] = "idle"

(* manifest.rs: "Both fields must move together so the CID and the          *)
(* in-memory manifest are always consistent": a cached manifest is the one  *)
(* the CID names, also after a mutation that failed half way.               *)
CacheCoherent == cache # None => cache = cid

(* A task that returned Ok has changed the manifest, one that returned Err  *)
(* has not; only one that was cut off may have or not.                      *)
OutcomeTruthful ==
    \A t \in Task : /\ pc[t] = "done" => t \in applied
                    /\ pc[t] = "failed" => t \notin applied

(* Stats.root_cid, which the republisher, the shutdown and every CRUD read  *)
(* use, is the writer's root whenever nobody writes, unless a task was cut  *)
(* off between replacing the root and announcing it.                        *)
StatsCurrent ==
    lock = None => stats = cid \/ \E t \in applied : pc[t] = "cut"

(* Kubo's garbage collector cannot take the current root: it is pinned      *)
(* unless the very last pin request failed, and a later publication heals   *)
(* that.                                                                    *)
RootPinned == cid \in pins \/ pinFault

\* The writer's root, as the manifest of the abstract specification.
Atomic == INSTANCE AtomicManifest WITH manifest <- cid

(* The writer implements AtomicManifest: every insert, edit or removal      *)
(* takes effect at once on the result of the ones before it, and no         *)
(* operation touches an entity that is not its own.                         *)
Atomicity == Atomic!Spec

(* Every task comes to an end: no failure, early return or cut-off of       *)
(* another one blocks the mutex.                                            *)
EveryTaskEnds == \A t \in Task : pc[t] # "idle" ~> pc[t] \in Ended

StateWriters == {"state", "reloadState", "insert", "remove"}

(* crud/helpers.rs: "All manifest mutations are serialised through the      *)
(* writer [...] no read-modify-write race on a stale base".  The state a    *)
(* task linked stays linked until another one writes that entity's state.   *)
StateSurvives ==
    \A t \in applied :
       /\ op[t].kind = "state"
       /\ \A u \in applied \ {t} :
             op[u].entity # op[t].entity \/ op[u].kind \notin StateWriters
       => cid[op[t].entity].state = t
=============================================================================
