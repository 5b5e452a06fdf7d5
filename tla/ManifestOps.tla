---------------------------- MODULE ManifestOps ----------------------------
(***************************************************************************)
(* What the operations of the manifest writer (manifest.rs) and of the     *)
(* CRUD entity handlers do to the runtime manifest.                        *)
(*                                                                         *)
(* A manifest is its table of entities.  Every CID is the content it       *)
(* names: a root CID is a manifest, an entity link is an entity node.  A   *)
(* field of a node holds the task that wrote it, None before any did.      *)
(***************************************************************************)
CONSTANTS
    Entity,  \* fragments
    Task,    \* operations in progress, one per caller
    None,    \* Rust's Option::None
    Kinds    \* the kinds of operations in use, a subset of AllKinds

\* The callers of update_entity_node.
EditKinds == {"state", "reload", "reloadState", "behaviour", "error"}

\* insert_entity; a mutate that removes an entity; a mutate whose closure
\* fails; the acl field of the CRUD interface.
AllKinds == EditKinds \cup {"insert", "remove", "reject", "acl"}

ASSUME ManifestAssumption ==
    /\ None \notin Task
    /\ None \notin [state : Task \cup {None}, behaviour : Task \cup {None},
                    acl : Task \cup {None}, initialised : BOOLEAN, reload_error : BOOLEAN]
    /\ None \notin [kind : AllKinds, entity : Entity]
    /\ None \notin [Entity -> [state : Task \cup {None}, behaviour : Task \cup {None},
                               acl : Task \cup {None}, initialised : BOOLEAN,
                               reload_error : BOOLEAN] \cup {None}]
    /\ Kinds \subseteq AllKinds

Maybe(S) == S \cup {None}

EntityNode == [state : Maybe(Task), behaviour : Maybe(Task), acl : Maybe(Task),
               initialised : BOOLEAN, reload_error : BOOLEAN]

RuntimeManifest == [Entity -> Maybe(EntityNode)]

Operation == [kind : Kinds, entity : Entity]

\* The node of an entity that has not run yet, and the one a creating task
\* inserts.
InitialNode == [state |-> None, behaviour |-> None, acl |-> None,
                initialised |-> FALSE, reload_error |-> FALSE]
NewNode(t)  == [state |-> t, behaviour |-> t, acl |-> t,
                initialised |-> TRUE, reload_error |-> FALSE]

set_entity_state(n, t) == [n EXCEPT !.state = t]
set_entity_behaviour(n, t) == [n EXCEPT !.behaviour = t, !.initialised = TRUE]
set_entity_reload_error(n) == [n EXCEPT !.reload_error = TRUE]
set_acl(n, t) == [n EXCEPT !.acl = t]

\* With the state the old worker saved, if it had any.
complete_entity_reload(n, s) ==
    [n EXCEPT !.state = s, !.initialised = TRUE, !.reload_error = FALSE]

\* A node after task t did its kind of edit.
Edited(k, n, t) ==
    CASE k = "state"       -> set_entity_state(n, t)
      [] k = "reload"      -> complete_entity_reload(n, n.state)
      [] k = "reloadState" -> complete_entity_reload(n, t)
      [] k = "behaviour"   -> set_entity_behaviour(n, t)
      [] k = "error"       -> set_entity_reload_error(n)
=============================================================================
