--------------------------- MODULE AtomicManifest ---------------------------
(***************************************************************************)
(* What the manifest writer promises: a mutation takes effect on the       *)
(* manifest all at once, on the result of the mutations before it, at most *)
(* once, or not at all.  The acl field of the CRUD interface promises less:*)
(* it replaces the entity's node as a whole, by one that may be out of     *)
(* date, and leaves the other entities alone.                              *)
(***************************************************************************)
EXTENDS ManifestOps

VARIABLES
    manifest,  \* the runtime manifest
    op,        \* the operation each task asked for, None before
    applied    \* the tasks whose operation has taken effect

vars == <<manifest, op, applied>>

\* The effect of an operation of task t, where it has one.
Effect(o, t, m) ==
    [m EXCEPT ![o.entity] = CASE o.kind = "insert" -> NewNode(t)
                              [] o.kind = "remove" -> None
                              [] OTHER -> Edited(o.kind, m[o.entity], t)]

Applicable(o, m) ==
    \/ o.kind \in {"insert", "remove"}
    \/ o.kind \in EditKinds /\ m[o.entity] # None

Request(t) ==
    /\ op[t] = None
    /\ \E o \in Operation : op' = [op EXCEPT ![t] = o]
    /\ UNCHANGED <<manifest, applied>>

Apply(t) ==
    /\ op[t] # None
    /\ t \notin applied
    /\ Applicable(op[t], manifest)
    /\ manifest' = Effect(op[t], t, manifest)
    /\ applied' = applied \cup {t}
    /\ UNCHANGED op

Overwrite(t) ==
    /\ op[t] # None
    /\ t \notin applied
    /\ op[t].kind = "acl"
    /\ \E n \in EntityNode :
          manifest' = [manifest EXCEPT ![op[t].entity] = set_acl(n, t)]
    /\ applied' = applied \cup {t}
    /\ UNCHANGED op

Init ==
    /\ manifest \in [Entity -> {None, InitialNode}]
    /\ op = [t \in Task |-> None]
    /\ applied = {}

Next == \E t \in Task : Request(t) \/ Apply(t) \/ Overwrite(t)

Spec == Init /\ [][Next]_vars
=============================================================================
