------------------------------- MODULE Kinds -------------------------------
(***************************************************************************)
(* The kind definitions of a manifest and what the runtime derives from    *)
(* them (src/src/entity.rs, src/src/crud/helpers.rs).  A kind may extend a *)
(* base kind by protocol id; its resolved definition merges the chain of   *)
(* bases.  When a kind changes, the kinds that reach it through `extends'  *)
(* have to be resolved again.  Only operators, no state: the definitions   *)
(* are part of the manifest of ControlPlane.                               *)
(*                                                                         *)
(* A KindNode is abstracted to its behaviour and its extends.  A kind's    *)
(* wasm module, host functions and attributes are merged along the same    *)
(* chain and in the same order as the behaviours.                          *)
(***************************************************************************)
EXTENDS Integers, Sequences, FiniteSets

CONSTANTS
    Protocol,       \* protocol ids of kinds
    Behaviour,      \* behaviour documents
    None,           \* absent
    MAX_DEPTH       \* hops of `extends' that are followed (8 in the code)

ASSUME MaxDepthAssumption == MAX_DEPTH \in Nat \ {0}
ASSUME ProtocolAssumption == None \notin Protocol

KindNode == [behaviour : Behaviour, extends : Protocol \cup {None}]

(* KindTree: a partial map from protocol ids to links.  The code keeps it  *)
(* as a tree of path segments; the ids of one instance are not prefixes of *)
(* one another.                                                            *)
KindTree == [Protocol -> KindNode \cup {None}]

(* The behaviours of a resolved kind, deepest base first; Unresolved when  *)
(* the chain is broken or too long.                                        *)
Unresolved == << >>
Resolved == UNION {[1 .. n -> Behaviour] : n \in 0 .. MAX_DEPTH + 1}

(* merge_kind_over_base: the base's behaviours come before the derived     *)
(* kind's; the result goes on extending what the base extends.             *)
merge_kind_over_base(base, derived) ==
    [layers |-> <<base.behaviour>> \o derived.layers, extends |-> base.extends]

(* One turn of the while loop of resolve_kind_extends.  The loop ends when *)
(* nothing is extended, and in an error when the base is not there.        *)
follow_extends(kinds, kind) ==
    IF kind.extends = None \/ kinds[kind.extends] = None THEN kind
    ELSE merge_kind_over_base(kinds[kind.extends], kind)

(* The kind after each hop.                                                *)
Hops(kinds, node) ==
    LET hop[i \in 0 .. MAX_DEPTH] ==
            IF i = 0 THEN [layers |-> <<node.behaviour>>, extends |-> node.extends]
            ELSE follow_extends(kinds, hop[i - 1])
    IN  hop

resolve_kind_extends(kinds, node) ==
    LET kind == Hops(kinds, node)[MAX_DEPTH]
    IN  IF kind.extends = None THEN kind.layers ELSE Unresolved

(* The base of a kind that is there.                                       *)
base_protocol(kinds, p) == IF p = None \/ kinds[p] = None THEN None ELSE kinds[p].extends

(* The protocols `protocol' reaches, with the number of hops: Bases[i] is  *)
(* what the i-th step of kind_depends_on's loop looks at.                  *)
Bases(protocol, kinds) ==
    LET reached[i \in 1 .. MAX_DEPTH] ==
            base_protocol(kinds, IF i = 1 THEN protocol ELSE reached[i - 1])
    IN  reached

(* kind_depends_on.  A base that was seen before ends the code's loop with *)
(* FALSE; it would only come round to the same protocols again.            *)
kind_depends_on(protocol, updated, kinds) ==
    \/ protocol = updated
    \/ \E i \in 1 .. MAX_DEPTH : Bases(protocol, kinds)[i] = updated

(* affected_kind_protocols_for as a slip would have it: the updated kinds  *)
(* and their direct dependents only.                                       *)
affected_kind_protocols_for_Direct(updated, kinds) ==
    updated \cup {p \in Protocol : kinds[p] # None /\ kinds[p].extends \in updated}

affected_kind_protocols_for(updated, kinds) ==
    updated \cup {p \in Protocol : /\ kinds[p] # None
                                   /\ \E u \in updated : kind_depends_on(p, u, kinds)}

(* apply_kinds_tree_overlay: every kind of the overlay must resolve in the *)
(* tree that results; the kinds the overlay does not name are kept.        *)
overlaid(kinds, overlay) ==
    [p \in Protocol |-> IF overlay[p] = None THEN kinds[p] ELSE overlay[p]]

overlay_valid(kinds, overlay) ==
    \A p \in Protocol : overlay[p] # None =>
        resolve_kind_extends(overlaid(kinds, overlay), overlay[p]) # Unresolved

changed_protocols(kinds, overlay) ==
    {p \in Protocol : overlay[p] # None /\ kinds[p] # overlay[p]}

=============================================================================
