---------------------------- MODULE Boot_proofs ----------------------------
(***************************************************************************)
(* Proofs about Boot, and with it ControlPlane, Kinds and AccessControl,   *)
(* for every set of principals, groups, kinds, requests, command lines and *)
(* failures, and any number of claims.                                     *)
(***************************************************************************)
EXTENDS Boot, SetInduction, SequenceTheorems

(***************************************************************************)
(* Kinds: the loop that follows `extends'.                                 *)
(***************************************************************************)
Merged == [layers : Seq(Behaviour), extends : Protocol \cup {None}]

(* One turn of the loop. *)
LEMMA FollowTypes ==
    ASSUME NEW kinds \in KindTree, NEW kind \in Merged
    PROVE  /\ follow_extends(kinds, kind) \in Merged
           /\ Len(follow_extends(kinds, kind).layers) <= Len(kind.layers) + 1
  <1>0. kind.layers \in Seq(Behaviour) /\ kind.extends \in Protocol \cup {None} /\ Len(kind.layers) \in Nat
    <2>1. kind.layers \in Seq(Behaviour) /\ kind.extends \in Protocol \cup {None}
      BY DEF Merged
    <2> QED BY <2>1, LenProperties
  <1>1. CASE kind.extends = None \/ kinds[kind.extends] = None
    <2>1. follow_extends(kinds, kind) = kind
      BY <1>1 DEF follow_extends
    <2> QED BY <1>0, <2>1
  <1>2. CASE ~(kind.extends = None \/ kinds[kind.extends] = None)
    <2>1. PICK base \in KindNode : base = kinds[kind.extends]
      BY <1>0, <1>2 DEF KindTree
    <2>2. base.behaviour \in Behaviour /\ base.extends \in Protocol \cup {None}
      BY DEF KindNode
    <2>3. <<base.behaviour>> \in Seq(Behaviour) /\ Len(<<base.behaviour>>) = 1
      BY <2>2
    <2>4. /\ <<base.behaviour>> \o kind.layers \in Seq(Behaviour)
          /\ Len(<<base.behaviour>> \o kind.layers) = 1 + Len(kind.layers)
      BY <1>0, <2>3, ConcatProperties
    <2>5. follow_extends(kinds, kind) = [layers |-> <<base.behaviour>> \o kind.layers, extends |-> base.extends]
      BY <1>2, <2>1 DEF follow_extends, merge_kind_over_base
    <2> QED BY <1>0, <2>2, <2>4, <2>5 DEF Merged
  <1> QED BY <1>1, <1>2

(* The kinds after each hop are what the loop computes. *)
LEMMA HopsEquation ==
    ASSUME NEW kinds \in KindTree, NEW node \in KindNode
    PROVE  /\ Hops(kinds, node) \in [0 .. MAX_DEPTH -> Merged]
           /\ Hops(kinds, node)[0] = [layers |-> <<node.behaviour>>, extends |-> node.extends]
           /\ \A i \in 1 .. MAX_DEPTH : Hops(kinds, node)[i] = follow_extends(kinds, Hops(kinds, node)[i - 1])
  <1> DEFINE first == [layers |-> <<node.behaviour>>, extends |-> node.extends]
             F == [kind \in Merged |-> follow_extends(kinds, kind)]
             H == Hops(kinds, node)
  <1>0. MAX_DEPTH \in Nat
    BY MaxDepthAssumption
  <1>1. first \in Merged
    BY DEF Merged, KindNode
  <1>2. F \in [Merged -> Merged]
    BY FollowTypes
  <1>3. PICK h : IsIteration(h, Merged, F, first, MAX_DEPTH)
    <2> HIDE DEF first, F
    <2> QED BY <1>0, <1>1, <1>2, Iterates
  <1>h. h \in [0 .. MAX_DEPTH -> Merged] /\ h[0] = first /\ \A i \in 1 .. MAX_DEPTH : h[i] = F[h[i - 1]]
    <2> HIDE DEF first, F
    <2> QED BY <1>3 DEF IsIteration
  <1>4. \A i \in 1 .. MAX_DEPTH : i - 1 \in 0 .. MAX_DEPTH /\ h[i] = follow_extends(kinds, h[i - 1])
    <2>1. \A i \in 1 .. MAX_DEPTH : i - 1 \in 0 .. MAX_DEPTH
      BY <1>0
    <2>2. \A i \in 1 .. MAX_DEPTH : h[i - 1] \in Merged
      BY <1>h, <2>1
    <2> QED BY <1>h, <2>1, <2>2
  <1>5. h = [i \in 0 .. MAX_DEPTH |-> IF i = 0 THEN first ELSE follow_extends(kinds, h[i - 1])]
    BY <1>0, <1>h, <1>4
  <1>6. H = [i \in 0 .. MAX_DEPTH |-> IF i = 0 THEN first ELSE follow_extends(kinds, H[i - 1])]
    BY <1>5 DEF Hops
  <1>7. H[0] = first /\ \A i \in 1 .. MAX_DEPTH : H[i] = follow_extends(kinds, H[i - 1])
    <2> HIDE DEF H, first
    <2> QED BY <1>0, <1>6
  <1> DEFINE T == {n \in Nat : n <= MAX_DEPTH => H[n] \in Merged}
  <1>8. \A n \in Nat : n \in T
    <2> HIDE DEF H, first
    <2>1. 0 \in T
      BY <1>1, <1>7
    <2>2. ASSUME NEW n \in T PROVE n + 1 \in T
      <3> SUFFICES ASSUME n + 1 <= MAX_DEPTH PROVE H[n + 1] \in Merged
        OBVIOUS
      <3>1. n + 1 \in 1 .. MAX_DEPTH /\ (n + 1) - 1 = n /\ H[n] \in Merged
        BY <1>0
      <3>2. H[n + 1] = follow_extends(kinds, H[n])
        BY <1>7, <3>1
      <3> QED BY <3>1, <3>2, FollowTypes
    <2>3. T \subseteq Nat
      OBVIOUS
    <2> HIDE DEF T
    <2> QED BY <2>1, <2>2, <2>3, AllNumbers
  <1>9. H \in [0 .. MAX_DEPTH -> Merged]
    <2>1. \A n \in 0 .. MAX_DEPTH : H[n] \in Merged
      <3> HIDE DEF H
      <3> QED BY <1>0, <1>8
    <2> HIDE DEF H, first
    <2> QED BY <1>6, <2>1
  <1> QED BY <1>7, <1>9

(* A kind resolves to at most MAX_DEPTH + 1 behaviours. *)
LEMMA ResolvedTypes ==
    ASSUME NEW kinds \in KindTree, NEW node \in KindNode
    PROVE  resolve_kind_extends(kinds, node) \in Resolved
  <1> DEFINE H == Hops(kinds, node)
             T == {n \in Nat : n <= MAX_DEPTH => Len(H[n].layers) <= n + 1}
  <1>0. MAX_DEPTH \in Nat
    BY MaxDepthAssumption
  <1>1. /\ H \in [0 .. MAX_DEPTH -> Merged]
        /\ H[0].layers = <<node.behaviour>>
        /\ \A i \in 1 .. MAX_DEPTH : H[i] = follow_extends(kinds, H[i - 1])
    <2>1. H[0] = [layers |-> <<node.behaviour>>, extends |-> node.extends]
      BY HopsEquation
    <2>2. H[0].layers = <<node.behaviour>>
      <3> HIDE DEF H
      <3> QED BY <2>1
    <2> QED BY <2>2, HopsEquation
  <1> HIDE DEF H
  <1>2. \A n \in 0 .. MAX_DEPTH : Len(H[n].layers) \in Nat
    BY <1>1 DEF Merged
  <1>3. \A n \in Nat : n \in T
    <2>1. 0 \in T
      <3>1. Len(H[0].layers) = 1
        BY <1>1
      <3>2. Len(H[0].layers) <= 0 + 1
        BY <3>1
      <3> QED BY <3>2
    <2>2. ASSUME NEW n \in T PROVE n + 1 \in T
      <3> SUFFICES ASSUME n + 1 <= MAX_DEPTH PROVE Len(H[n + 1].layers) <= (n + 1) + 1
        OBVIOUS
      <3>1. n + 1 \in 1 .. MAX_DEPTH /\ (n + 1) - 1 = n /\ n \in 0 .. MAX_DEPTH /\ Len(H[n].layers) <= n + 1
        BY <1>0
      <3>2. H[n + 1] = follow_extends(kinds, H[n])
        BY <1>1, <3>1
      <3>3. Len(H[n + 1].layers) <= Len(H[n].layers) + 1
        BY <1>1, <3>1, <3>2, FollowTypes
      <3> QED BY <1>2, <3>1, <3>3
    <2>3. T \subseteq Nat
      OBVIOUS
    <2> HIDE DEF T
    <2> QED BY <2>1, <2>2, <2>3, AllNumbers
  <1>4. H[MAX_DEPTH].layers \in Seq(Behaviour) /\ Len(H[MAX_DEPTH].layers) \in 0 .. MAX_DEPTH + 1
    BY <1>0, <1>1, <1>2, <1>3 DEF Merged
  <1>5. H[MAX_DEPTH].layers \in Resolved
    BY <1>4 DEF Resolved
  <1>6. Unresolved \in Resolved
    BY <1>0 DEF Resolved, Unresolved
  <1> QED BY <1>5, <1>6 DEF resolve_kind_extends, H

(* The protocols that kind_depends_on looks at. *)
LEMMA BasesEquation ==
    ASSUME NEW kinds \in KindTree, NEW protocol \in Protocol
    PROVE  /\ Bases(protocol, kinds)[1] = base_protocol(kinds, protocol)
           /\ \A i \in 2 .. MAX_DEPTH : Bases(protocol, kinds)[i] = base_protocol(kinds, Bases(protocol, kinds)[i - 1])
  <1> DEFINE S == Protocol \cup {None}
             F == [q \in S |-> base_protocol(kinds, q)]
             B == Bases(protocol, kinds)
  <1>0. MAX_DEPTH \in Nat /\ 1 \in 1 .. MAX_DEPTH
    BY MaxDepthAssumption
  <1>1. F \in [S -> S] /\ protocol \in S
    <2>1. ASSUME NEW q \in S PROVE base_protocol(kinds, q) \in S
      <3>1. CASE q = None \/ kinds[q] = None
        BY <3>1 DEF base_protocol
      <3>2. CASE ~(q = None \/ kinds[q] = None)
        <4>1. kinds[q] \in KindNode
          BY <3>2 DEF KindTree
        <4> QED BY <3>2, <4>1 DEF base_protocol, KindNode
      <3> QED BY <3>1, <3>2
    <2> QED BY <2>1
  <1>2. PICK h : IsIteration(h, S, F, protocol, MAX_DEPTH)
    <2> HIDE DEF S, F
    <2> QED BY <1>0, <1>1, Iterates
  <1>3. h \in [0 .. MAX_DEPTH -> S] /\ h[0] = protocol /\ \A i \in 1 .. MAX_DEPTH : h[i] = F[h[i - 1]]
    <2> HIDE DEF S, F
    <2> QED BY <1>2 DEF IsIteration
  <1>4. \A i \in 1 .. MAX_DEPTH : h[i] = base_protocol(kinds, h[i - 1])
    <2>1. \A i \in 1 .. MAX_DEPTH : i - 1 \in 0 .. MAX_DEPTH
      BY <1>0
    <2>2. \A i \in 1 .. MAX_DEPTH : h[i - 1] \in S
      <3> HIDE DEF S
      <3> QED BY <1>3, <2>1
    <2> QED BY <1>3, <2>2
  <1> DEFINE g == [i \in 1 .. MAX_DEPTH |-> h[i]]
  <1>5. g = [i \in 1 .. MAX_DEPTH |-> base_protocol(kinds, IF i = 1 THEN protocol ELSE g[i - 1])]
    <2> SUFFICES ASSUME NEW i \in 1 .. MAX_DEPTH
                 PROVE  h[i] = base_protocol(kinds, IF i = 1 THEN protocol ELSE g[i - 1])
      OBVIOUS
    <2>1. CASE i = 1
      BY <1>3, <1>4, <2>1
    <2>2. CASE i # 1
      <3>1. i - 1 \in 1 .. MAX_DEPTH
        BY <1>0, <2>2
      <3> QED BY <1>4, <2>2, <3>1
    <2> QED BY <2>1, <2>2
  <1>6. B = [i \in 1 .. MAX_DEPTH |-> base_protocol(kinds, IF i = 1 THEN protocol ELSE B[i - 1])]
    <2> HIDE DEF g
    <2> QED BY <1>5 DEF Bases
  <1> HIDE DEF B
  <1>7. \A i \in 2 .. MAX_DEPTH : i \in 1 .. MAX_DEPTH /\ i # 1
    BY <1>0
  <1>8. B[1] = base_protocol(kinds, protocol) /\ \A i \in 2 .. MAX_DEPTH : B[i] = base_protocol(kinds, B[i - 1])
    BY <1>0, <1>6, <1>7
  <1> QED BY <1>8 DEF B

\* The loop has met a base that is not there.
Stuck(kinds, kind) == kind.extends # None /\ kinds[kind.extends] = None

(* Up to a base that is not there, resolve_kind_extends follows the        *)
(* protocols that kind_depends_on looks at.                                *)
LEMMA HopsFollowBases ==
    ASSUME NEW kinds \in KindTree, NEW p \in Protocol, kinds[p] # None
    PROVE  \A n \in 0 .. MAX_DEPTH - 1 :
              \/ Hops(kinds, kinds[p])[n].extends = Bases(p, kinds)[n + 1]
              \/ /\ Stuck(kinds, Hops(kinds, kinds[p])[n])
                 /\ \E j \in 1 .. n : Bases(p, kinds)[j] = Hops(kinds, kinds[p])[n].extends
  <1> DEFINE H == Hops(kinds, kinds[p])
             B == Bases(p, kinds)
             T == {n \in Nat : n < MAX_DEPTH =>
                      \/ H[n].extends = B[n + 1]
                      \/ Stuck(kinds, H[n]) /\ \E j \in 1 .. n : B[j] = H[n].extends}
  <1>0. MAX_DEPTH \in Nat \ {0} /\ kinds[p] \in KindNode
    BY MaxDepthAssumption DEF KindTree
  <1>1. /\ H \in [0 .. MAX_DEPTH -> Merged]
        /\ H[0] = [layers |-> <<kinds[p].behaviour>>, extends |-> kinds[p].extends]
        /\ \A i \in 1 .. MAX_DEPTH : H[i] = follow_extends(kinds, H[i - 1])
    BY <1>0, HopsEquation
  <1>2. B[1] = base_protocol(kinds, p) /\ \A i \in 2 .. MAX_DEPTH : B[i] = base_protocol(kinds, B[i - 1])
    BY BasesEquation
  <1> HIDE DEF H, B
  <1>3. \A n \in Nat : n \in T
    <2>1. 0 \in T
      <3>1. H[0].extends = kinds[p].extends
        BY <1>1
      <3>2. B[1] = kinds[p].extends
        BY <1>2, ProtocolAssumption DEF base_protocol
      <3>3. H[0].extends = B[0 + 1]
        BY <3>1, <3>2
      <3> QED BY <3>3
    <2>2. ASSUME NEW n \in T PROVE n + 1 \in T
      <3> SUFFICES ASSUME n + 1 < MAX_DEPTH
                   PROVE  \/ H[n + 1].extends = B[(n + 1) + 1]
                          \/ Stuck(kinds, H[n + 1]) /\ \E j \in 1 .. n + 1 : B[j] = H[n + 1].extends
        OBVIOUS
      <3>1. /\ n \in Nat /\ n < MAX_DEPTH /\ n + 1 \in 1 .. MAX_DEPTH /\ (n + 1) - 1 = n
            /\ (n + 1) + 1 \in 2 .. MAX_DEPTH /\ ((n + 1) + 1) - 1 = n + 1 /\ n \in 0 .. MAX_DEPTH
            /\ n + 1 \in 1 .. n + 1 /\ 1 .. n \subseteq 1 .. n + 1
        BY <1>0
      <3>2. H[n + 1] = follow_extends(kinds, H[n]) /\ B[(n + 1) + 1] = base_protocol(kinds, B[n + 1])
        BY <1>1, <1>2, <3>1
      <3>3. CASE Stuck(kinds, H[n])
        <4>1. H[n + 1] = H[n]
          BY <3>2, <3>3 DEF follow_extends, Stuck
        <4>2. \E j \in 1 .. n + 1 : B[j] = H[n].extends
          BY <3>1
        <4> QED BY <3>3, <4>1, <4>2
      <3>4. CASE ~Stuck(kinds, H[n]) /\ H[n].extends = None
        <4>1. H[n + 1] = H[n] /\ B[n + 1] = None
          BY <3>1, <3>2, <3>4 DEF follow_extends
        <4> QED BY <3>2, <3>4, <4>1 DEF base_protocol
      <3>5. CASE ~Stuck(kinds, H[n]) /\ H[n].extends # None
        <4>1. H[n].extends = B[n + 1] /\ kinds[H[n].extends] # None
          BY <3>1, <3>5 DEF Stuck
        <4>2. H[n + 1].extends = kinds[H[n].extends].extends
          BY <3>2, <3>5, <4>1 DEF follow_extends, merge_kind_over_base
        <4> QED BY <3>2, <3>5, <4>1, <4>2 DEF base_protocol
      <3> QED BY <3>3, <3>4, <3>5
    <2>3. T \subseteq Nat
      OBVIOUS
    <2> HIDE DEF T
    <2> QED BY <2>1, <2>2, <2>3, AllNumbers
  <1>4. ASSUME NEW n \in 0 .. MAX_DEPTH - 1
        PROVE  \/ H[n].extends = B[n + 1]
               \/ Stuck(kinds, H[n]) /\ \E j \in 1 .. n : B[j] = H[n].extends
    <2>1. n \in Nat /\ n < MAX_DEPTH
      BY <1>0
    <2> QED BY <1>3, <2>1
  <1> QED BY <1>4 DEF H, B

(* affected_kind_protocols_for: what it leaves out resolves as before. *)
LEMMA UnaffectedResolves ==
    ASSUME NEW old \in KindTree, NEW kinds \in KindTree, NEW U \in SUBSET Protocol,
           \A q \in Protocol \ U : kinds[q] = old[q],
           NEW p \in Protocol, p \notin affected_kind_protocols_for(U, kinds), kinds[p] # None
    PROVE  kinds[p] = old[p] /\ resolve_kind_extends(kinds, kinds[p]) = resolve_kind_extends(old, old[p])
  <1> DEFINE H == Hops(kinds, kinds[p])
             G == Hops(old, kinds[p])
             B == Bases(p, kinds)
             T == {n \in Nat : n <= MAX_DEPTH => H[n] = G[n]}
  <1>0. MAX_DEPTH \in Nat \ {0} /\ kinds[p] \in KindNode
    BY MaxDepthAssumption DEF KindTree
  <1>1. p \notin U /\ kinds[p] = old[p] /\ \A i \in 1 .. MAX_DEPTH : B[i] \notin U
    BY DEF affected_kind_protocols_for, kind_depends_on
  <1>2. /\ H \in [0 .. MAX_DEPTH -> Merged]
        /\ \A i \in 1 .. MAX_DEPTH : H[i] = follow_extends(kinds, H[i - 1])
        /\ \A i \in 1 .. MAX_DEPTH : G[i] = follow_extends(old, G[i - 1])
        /\ H[0] = G[0]
    <2>1. /\ H \in [0 .. MAX_DEPTH -> Merged]
          /\ H[0] = [layers |-> <<kinds[p].behaviour>>, extends |-> kinds[p].extends]
          /\ \A i \in 1 .. MAX_DEPTH : H[i] = follow_extends(kinds, H[i - 1])
      BY <1>0, HopsEquation
    <2>2. /\ G[0] = [layers |-> <<kinds[p].behaviour>>, extends |-> kinds[p].extends]
          /\ \A i \in 1 .. MAX_DEPTH : G[i] = follow_extends(old, G[i - 1])
      BY <1>0, HopsEquation
    <2> HIDE DEF H, G
    <2> QED BY <2>1, <2>2
  <1>3. \A n \in 0 .. MAX_DEPTH - 1 : H[n].extends \notin U
    <2> SUFFICES ASSUME NEW n \in 0 .. MAX_DEPTH - 1 PROVE H[n].extends \notin U
      OBVIOUS
    <2>1. n + 1 \in 1 .. MAX_DEPTH /\ 1 .. n \subseteq 1 .. MAX_DEPTH
      BY <1>0
    <2>2. \/ H[n].extends = B[n + 1]
          \/ \E j \in 1 .. n : B[j] = H[n].extends
      BY HopsFollowBases
    <2> HIDE DEF H, B
    <2> QED BY <1>1, <2>1, <2>2
  <1> HIDE DEF H, G, B
  <1>4. \A n \in Nat : n \in T
    <2>1. 0 \in T
      BY <1>2
    <2>2. ASSUME NEW n \in T PROVE n + 1 \in T
      <3> SUFFICES ASSUME n + 1 <= MAX_DEPTH PROVE H[n + 1] = G[n + 1]
        OBVIOUS
      <3>1. /\ n + 1 \in 1 .. MAX_DEPTH /\ (n + 1) - 1 = n /\ n \in 0 .. MAX_DEPTH - 1 /\ n \in 0 .. MAX_DEPTH
            /\ H[n] = G[n]
        BY <1>0
      <3>2. H[n + 1] = follow_extends(kinds, H[n]) /\ G[n + 1] = follow_extends(old, H[n])
        BY <1>2, <3>1
      <3>3. H[n].extends \in Protocol \cup {None} /\ H[n].extends \notin U
        BY <1>2, <1>3, <3>1 DEF Merged
      <3>4. H[n].extends # None => kinds[H[n].extends] = old[H[n].extends]
        BY <3>3
      <3> QED BY <3>2, <3>4 DEF follow_extends
    <2>3. T \subseteq Nat
      OBVIOUS
    <2> HIDE DEF T
    <2> QED BY <2>1, <2>2, <2>3, AllNumbers
  <1>5. H[MAX_DEPTH] = G[MAX_DEPTH]
    BY <1>0, <1>4
  <1> QED BY <1>1, <1>5 DEF resolve_kind_extends, H, G

(* What depends on a kind that is not there does not resolve. *)
LEMMA DeletedBreaks ==
    ASSUME NEW kinds \in KindTree, NEW u \in Protocol, kinds[u] = None,
           NEW p \in affected_kind_protocols_for({u}, kinds), kinds[p] # None
    PROVE  resolve_kind_extends(kinds, kinds[p]) = Unresolved
  <1> DEFINE H == Hops(kinds, kinds[p])
             B == Bases(p, kinds)
  <1>0. MAX_DEPTH \in Nat \ {0} /\ p \in Protocol /\ kinds[p] \in KindNode /\ u # None
    BY MaxDepthAssumption, ProtocolAssumption DEF KindTree, affected_kind_protocols_for
  <1>1. PICK i \in 1 .. MAX_DEPTH : B[i] = u
    BY DEF affected_kind_protocols_for, kind_depends_on
  <1>2. \A j \in 1 .. MAX_DEPTH : H[j] = follow_extends(kinds, H[j - 1])
    BY <1>0, HopsEquation
  <1>3. Stuck(kinds, H[i - 1])
    <2>1. i - 1 \in 0 .. MAX_DEPTH - 1 /\ (i - 1) + 1 = i
      BY <1>0
    <2>2. H[i - 1].extends = B[i] \/ Stuck(kinds, H[i - 1])
      BY <1>0, <2>1, HopsFollowBases
    <2> HIDE DEF H, B
    <2> QED BY <1>0, <1>1, <2>2 DEF Stuck
  <1> HIDE DEF H, B
  <1> DEFINE T == {n \in Nat : i - 1 <= n /\ n <= MAX_DEPTH => Stuck(kinds, H[n])}
  <1>4. \A n \in Nat : n \in T
    <2>1. 0 \in T
      <3>1. 0 <= i - 1
        OBVIOUS
      <3>2. i - 1 <= 0 => i - 1 = 0
        BY <3>1
      <3> QED BY <1>3, <3>2
    <2>2. ASSUME NEW n \in T PROVE n + 1 \in T
      <3> SUFFICES ASSUME i - 1 <= n + 1, n + 1 <= MAX_DEPTH PROVE Stuck(kinds, H[n + 1])
        OBVIOUS
      <3>1. CASE i - 1 = n + 1
        BY <1>3, <3>1
      <3>2. CASE i - 1 # n + 1
        <4>1. i - 1 <= n /\ n <= MAX_DEPTH /\ n + 1 \in 1 .. MAX_DEPTH /\ (n + 1) - 1 = n
          BY <1>0, <3>2
        <4>2. Stuck(kinds, H[n]) /\ H[n + 1] = follow_extends(kinds, H[n])
          BY <1>2, <4>1
        <4>3. H[n + 1] = H[n]
          BY <4>2 DEF Stuck, follow_extends
        <4> QED BY <4>2, <4>3
      <3> QED BY <3>1, <3>2
    <2>3. T \subseteq Nat
      OBVIOUS
    <2> HIDE DEF T
    <2> QED BY <2>1, <2>2, <2>3, AllNumbers
  <1>5. Stuck(kinds, H[MAX_DEPTH])
    BY <1>0, <1>4
  <1> QED BY <1>5 DEF resolve_kind_extends, H, Stuck

-----------------------------------------------------------------------------
(***************************************************************************)
(* Types, with what a phase, a request, a claim or a publication needs.    *)
(***************************************************************************)
Groups == [Group -> (SUBSET Did) \cup {None}]
Library == [AclName -> AclMap \cup {None}]
ManifestOps == {"acl", "acls", "grp", "kind", "kinds", "capacity"}

StoredOK ==
    /\ file \in Config /\ config \in Config
    /\ ipns \in Manifest \cup {None} /\ head \in Manifest \cup {None}
    /\ key \in {"absent", "listed"}

CachesOK ==
    /\ owners \subseteq Did /\ granted \subseteq Did
    /\ acl \in AclMap /\ aclCache \in Library /\ groupCache \in Groups
    /\ kindRegistry \in [Protocol -> Resolved]
    /\ attempts \in Attempts
    /\ lag \subseteq {"acl", "acls", "grp", "kinds", "owners"}

Starting == {"identity", "root", "overlay", "settings", "entities", "acl", "owners", "finalize"}

BootOK ==
    /\ phase \in Starting \cup {"down", "run", "closing"}
    /\ boot \in [cli : CommandLine \cup {None}, root : Manifest \cup {None}, owners : SUBSET Did]
    /\ phase \in Starting => boot.cli \in CommandLine

\* A request is a record, and names what it changes in the manifest there is.
ReqOK ==
    req # None =>
        /\ phase = "run" /\ head \in Manifest
        /\ req = InHand(req, req.pc, req.loaded, req.changed)
        /\ \E r \in Request : r.op = req.op /\ r.key = req.key /\ r.val = req.val
        /\ req.op \in ManifestOps /\ Setting(req)
        /\ req.op = "acl" => req.val # None
        /\ req.pc \in {"mutate", "cache", "grant", "owners"}
        /\ req.loaded \in Resolved /\ req.changed \subseteq Protocol
        /\ req.pc \in {"grant", "owners"} => req.op = "grp" /\ req.key = "owners"
        /\ req.pc = "cache" => req.op # "capacity"

ClaimsOK ==
    /\ claim \in [Claim -> [pc : {"idle", "set", "grant", "read", "write", "done"}, did : Did \cup {None},
                            file : Config \cup {None}]]
    /\ \A c \in Claim : /\ claim[c].pc \in {"set", "grant", "read", "write"} => claim[c].did \in Did
                        /\ claim[c].pc = "write" => claim[c].file \in Config

PublishOK ==
    /\ rep \in [pc : {"idle", "publish", "persist"}, root : Manifest \cup {None}]
    /\ rep.pc # "idle" => rep.root \in Manifest
    /\ pub \in Manifest \cup {None}

TypeInv == StoredOK /\ CachesOK /\ BootOK /\ ReqOK /\ ClaimsOK /\ PublishOK

(* The parts of TypeInv give TypeOK. *)
LEMMA TypeInvImplies == TypeInv => TypeOK
  BY DEF TypeInv, StoredOK, CachesOK, TypeOK, Library, Groups

(* The operators on ACLs, groups and kinds. *)
LEMMA GrantTypes ==
    ASSUME NEW a \in AclMap, NEW o PROVE grant_owners_in_acl(a, o) \in AclMap
  BY DEF grant_owners_in_acl, AclMap

(* The members of a group. *)
LEMMA MembersTypes ==
    ASSUME NEW groups \in Groups PROVE members(groups)["owners"] \in SUBSET Did
  BY OwnersAssumption DEF members, Groups

(* An overlay. *)
LEMMA OverlaidTypes ==
    ASSUME NEW kinds \in KindTree, NEW overlay \in KindTree PROVE overlaid(kinds, overlay) \in KindTree
  BY DEF overlaid, KindTree

(* The registry of kinds after it was hydrated. *)
LEMMA HydrateTypes ==
    ASSUME NEW registry \in [Protocol -> Resolved], NEW kinds \in KindTree, NEW affected
    PROVE  hydrate_affected_kind_registry(registry, kinds, affected) \in [Protocol -> Resolved]
  <1>1. ASSUME NEW p \in Protocol, kinds[p] # None PROVE resolve_kind_extends(kinds, kinds[p]) \in Resolved
    <2>1. kinds[p] \in KindNode
      BY <1>1 DEF KindTree
    <2> QED BY <2>1, ResolvedTypes
  <1> QED BY <1>1 DEF hydrate_affected_kind_registry

(* No kind resolves to nothing before the registry is hydrated. *)
LEMMA UnresolvedTypes == Unresolved \in Resolved
  <1>1. 0 \in 0 .. MAX_DEPTH + 1
    BY MaxDepthAssumption
  <1>2. Unresolved \in [1 .. 0 -> Behaviour]
    BY DEF Unresolved
  <1> QED BY <1>1, <1>2 DEF Resolved

(* A mutation of the manifest. *)
LEMMA MutatedTypes ==
    ASSUME NEW m \in Manifest, NEW r, r.op \in ManifestOps, Setting(r), r.op = "acl" => r.val # None
    PROVE  /\ Mutated(m, r) \in Manifest
           /\ Mutated(m, r).acl = IF r.op = "acl" THEN r.val ELSE m.acl
           /\ Mutated(m, r).acls = IF r.op = "acls" THEN [m.acls EXCEPT ![r.key] = r.val] ELSE m.acls
           /\ Mutated(m, r).grp = IF r.op = "grp" THEN [m.grp EXCEPT ![r.key] = r.val] ELSE m.grp
           /\ Mutated(m, r).kinds = IF r.op = "kind" THEN [m.kinds EXCEPT ![r.key] = r.val]
                                    ELSE IF r.op = "kinds" THEN overlaid(m.kinds, r.val) ELSE m.kinds
           /\ Mutated(m, r).capacity = IF r.op = "capacity" THEN r.val ELSE m.capacity
  <1>1. CASE r.op = "acl"
    BY <1>1 DEF Mutated, Manifest, Setting
  <1>2. CASE r.op = "acls"
    BY <1>2 DEF Mutated, Manifest, Setting
  <1>3. CASE r.op = "grp"
    BY <1>3 DEF Mutated, Manifest, Setting
  <1>4. CASE r.op = "kind"
    BY <1>4 DEF Mutated, Manifest, Setting, KindTree
  <1>5. CASE r.op = "kinds"
    <2>1. overlaid(m.kinds, r.val) \in KindTree
      BY <1>5, OverlaidTypes DEF Manifest, Setting
    <2> QED BY <1>5, <2>1 DEF Mutated, Manifest
  <1>6. CASE r.op = "capacity"
    BY <1>6 DEF Mutated, Manifest, Setting
  <1> QED BY <1>1, <1>2, <1>3, <1>4, <1>5, <1>6 DEF ManifestOps

(* The manifests a start makes. *)
LEMMA StartManifests ==
    /\ MinimalManifest \in Manifest /\ MinimalManifest.capacity = None
    /\ \A d \in Description : build_manifest(d) \in Manifest /\ build_manifest(d).capacity = Default
  <1>1. MinimalManifest \in Manifest
    BY DEF MinimalManifest, Manifest, EmptyAcl, AclMap, Principal, NoKinds, KindTree
  <1>2. MinimalManifest.capacity = None
    BY DEF MinimalManifest
  <1>3. ASSUME NEW d \in Description
        PROVE  build_manifest(d) \in Manifest /\ build_manifest(d).capacity = Default
    <2>1. publish_root_acl(d) \in AclMap
      BY GrantTypes DEF publish_root_acl, Description
    <2>2. Default \in Capacity
      BY DEF Default, Capacity
    <2> QED BY <2>1, <2>2 DEF build_manifest, runtime_manifest_config, Description, Manifest
  <1> QED BY <1>1, <1>2, <1>3

(* What was saved is a configuration. *)
LEMMA SaveTypes ==
    ASSUME StoredOK, NEW c \in Config, save(c) PROVE file' \in Config
  BY DEF StoredOK, save

(* POST /claim. *)
LEMMA ClaimTypes == TypeInv /\ ClaimNext => TypeInv'
  <1> SUFFICES ASSUME TypeInv, ClaimNext PROVE TypeInv'
    OBVIOUS
  <1> USE DEF TypeInv
  <1>1. ASSUME NEW c \in Claim, NEW d \in Did, ClaimCheck(c, d) PROVE TypeInv'
    <2>1. ClaimsOK'
      BY <1>1 DEF ClaimCheck, ClaimsOK
    <2> QED BY <1>1, <2>1 DEF ClaimCheck, disk, caches, StoredOK, CachesOK, BootOK, ReqOK, PublishOK
  <1>2. ASSUME NEW c \in Claim, ClaimSet(c) PROVE TypeInv'
    <2>1. ClaimsOK' /\ owners' \subseteq Did
      BY <1>2 DEF ClaimSet, ClaimsOK
    <2> QED BY <1>2, <2>1 DEF ClaimSet, disk, caches, StoredOK, CachesOK, BootOK, ReqOK, PublishOK
  <1>3. ASSUME NEW c \in Claim, ClaimGrant(c) PROVE TypeInv'
    <2>1. ClaimsOK' /\ granted' \subseteq Did
      BY <1>3 DEF ClaimGrant, ClaimsOK, CachesOK
    <2>2. acl' \in AclMap
      BY <1>3, GrantTypes DEF ClaimGrant, CachesOK
    <2> QED BY <1>3, <2>1, <2>2 DEF ClaimGrant, disk, StoredOK, CachesOK, BootOK, ReqOK, PublishOK
  <1>4. ASSUME NEW c \in Claim, persist_owners_read(c) PROVE TypeInv'
    <2>1. ClaimsOK'
      BY <1>4 DEF persist_owners_read, ClaimsOK, StoredOK
    <2> QED BY <1>4, <2>1 DEF persist_owners_read, disk, caches, StoredOK, CachesOK, BootOK, ReqOK, PublishOK
  <1>5. ASSUME NEW c \in Claim, persist_owners_to_config(c) PROVE TypeInv'
    <2>1. ClaimsOK'
      BY <1>5 DEF persist_owners_to_config, ClaimsOK
    <2>2. [claim[c].file EXCEPT !.owners = {claim[c].did}] \in Config
      BY <1>5 DEF persist_owners_to_config, ClaimsOK, Config
    <2>3. file' \in Config
      BY <1>5, <2>2, SaveTypes DEF persist_owners_to_config
    <2> QED BY <1>5, <2>1, <2>3 DEF persist_owners_to_config, caches, StoredOK, CachesOK, BootOK, ReqOK, PublishOK
  <1> QED BY <1>1, <1>2, <1>3, <1>4, <1>5 DEF ClaimNext

(* The root is saved. *)
LEMMA PersistTypes ==
    ASSUME StoredOK, NEW root \in Manifest, persist_root_cid(root)
    PROVE  file' \in Config /\ config' \in Config
  <1>1. [config EXCEPT !.root = root] \in Config
    BY DEF StoredOK, Config
  <1> QED BY <1>1, SaveTypes DEF persist_root_cid, StoredOK

(* Publications. *)
LEMMA PublishTypes == TypeInv /\ (RepublishNext \/ RootNext) => TypeInv'
  <1> SUFFICES ASSUME TypeInv, RepublishNext \/ RootNext PROVE TypeInv'
    OBVIOUS
  <1> USE DEF TypeInv
  <1>1. CASE RepublishTick
    BY <1>1 DEF RepublishTick, disk, caches, StoredOK, CachesOK, BootOK, ReqOK, ClaimsOK, PublishOK
  <1>2. CASE publish_current_root
    BY <1>2 DEF publish_current_root, Published, caches, StoredOK, CachesOK, BootOK, ReqOK, ClaimsOK, PublishOK
  <1>3. CASE PublishFails
    BY <1>3 DEF PublishFails, Published, NotPublished, Idle, caches, StoredOK, CachesOK, BootOK, ReqOK, ClaimsOK, PublishOK
  <1>4. CASE RepublishPersists
    <2>1. file' \in Config /\ config' \in Config
      BY <1>4, PersistTypes DEF RepublishPersists, PublishOK
    <2> QED BY <1>4, <2>1 DEF RepublishPersists, Idle, caches, StoredOK, CachesOK, BootOK, ReqOK, ClaimsOK, PublishOK
  <1>5. CASE handle_root_publish
    BY <1>5 DEF handle_root_publish, disk, caches, StoredOK, CachesOK, BootOK, ReqOK, ClaimsOK, PublishOK
  <1>6. CASE PublishRequestedRoot
    BY <1>6 DEF PublishRequestedRoot, Published, NotPublished, caches, StoredOK, CachesOK, BootOK, ReqOK, ClaimsOK, PublishOK
  <1> QED BY <1>1, <1>2, <1>3, <1>4, <1>5, <1>6 DEF RepublishNext, RootNext

(* A CRUD request arrives. *)
LEMMA RequestTypes ==
    ASSUME TypeInv, NEW r \in Request,
           \/ handle_root_acl(r) \/ handle_root_acls(r) \/ handle_root_grp(r) \/ handle_kinds_ns(r)
           \/ apply_kinds_tree(r) \/ handle_manifest_config_key(r) \/ set_daemon_config_key(r)
    PROVE  TypeInv'
  <1> USE DEF TypeInv
  <1>0. Setting(r)
    BY RequestAssumption
  <1>1. ASSUME r.op \in ManifestOps, r.op = "acl" => r.val # None, handle_crud_message(r),
               NEW loaded \in Resolved, NEW changed \in SUBSET Protocol,
               req' = InHand(r, "mutate", loaded, changed),
               UNCHANGED <<disk, caches, config, head, owners, attempts, phase, boot,
                           claim, rep, pub, lag, granted, known, boots, faults>>
        PROVE  TypeInv'
    <2>1. phase = "run" /\ head \in Manifest
      BY <1>1 DEF handle_crud_message, Running, ManifestOps, StoredOK
    <2>2. (Setting(req))'
      BY <1>0, <1>1 DEF Setting, InHand
    <2>3. ReqOK'
      BY <1>1, <2>1, <2>2 DEF ReqOK, InHand
    <2> QED BY <1>1, <2>3 DEF disk, caches, StoredOK, CachesOK, BootOK, ClaimsOK, PublishOK
  <1>2. ASSUME r.op \in ManifestOps, r.op = "acl" => r.val # None, handle_crud_message(r), Mutating(r) PROVE TypeInv'
    BY <1>1, <1>2, UnresolvedTypes DEF Mutating, decode_crud_payload
  <1>3. CASE handle_root_acl(r) \/ handle_root_acls(r) \/ handle_root_grp(r) \/ apply_kinds_tree(r)
                \/ handle_manifest_config_key(r)
    BY <1>2, <1>3 DEF handle_root_acl, handle_root_acls, handle_root_grp, apply_kinds_tree, handle_manifest_config_key,
                      ManifestOps
  <1>4. CASE handle_kinds_ns(r)
    <2> DEFINE loaded == IF r.val = None THEN Unresolved ELSE resolve_kind_extends(head.kinds, r.val)
    <2>1. r.op = "kind" /\ r.key \in Protocol /\ r.val \in KindNode \cup {None} /\ handle_crud_message(r)
      BY <1>0, <1>4 DEF handle_kinds_ns, Setting
    <2>2. head \in Manifest /\ head.kinds \in KindTree
      BY <2>1 DEF handle_crud_message, StoredOK, Manifest
    <2>3. loaded \in Resolved
      BY <2>1, <2>2, UnresolvedTypes, ResolvedTypes
    <2>4. req' = InHand(r, "mutate", loaded, {r.key})
      BY <1>4 DEF handle_kinds_ns, decode_crud_payload, InHand
    <2>5. r.op \in ManifestOps /\ r.op # "acl" /\ {r.key} \in SUBSET Protocol
      BY <2>1 DEF ManifestOps
    <2>6. UNCHANGED <<disk, caches, config, head, owners, attempts, phase, boot,
                      claim, rep, pub, lag, granted, known, boots, faults>>
      BY <1>4 DEF handle_kinds_ns
    <2> HIDE DEF loaded, TypeInv
    <2> QED BY <1>1, <2>1, <2>3, <2>4, <2>5, <2>6
  <1>5. CASE set_daemon_config_key(r)
    <2>1. config' \in Config /\ attempts' \in Attempts
      BY <1>0, <1>5 DEF set_daemon_config_key, Setting, StoredOK, CachesOK, Config
    <2>2. file' \in Config
      BY <1>5, <2>1, SaveTypes DEF set_daemon_config_key
    <2> QED BY <1>5, <2>1, <2>2 DEF set_daemon_config_key, caches, StoredOK, CachesOK, BootOK, ReqOK, ClaimsOK, PublishOK
  <1> QED BY <1>3, <1>4, <1>5

(* The request in its place: only its place or what it changed differs. *)
LEMMA RequestGoesOn ==
    ASSUME ReqOK, req # None, head' \in Manifest, phase' = phase,
           NEW pc \in {"cache", "grant", "owners"}, NEW changed \in SUBSET Protocol,
           req' = [req EXCEPT !.pc = pc, !.changed = changed],
           pc \in {"grant", "owners"} => req.op = "grp" /\ req.key = "owners",
           pc = "cache" => req.op # "capacity"
    PROVE  ReqOK' /\ req' # None
  <1>1. req' = InHand(req, pc, req.loaded, changed)
    BY DEF ReqOK, InHand
  <1>2. (Setting(req))'
    BY <1>1 DEF ReqOK, Setting, InHand
  <1>3. ReqOK'
    BY <1>1, <1>2 DEF ReqOK, InHand
  <1>4. req' # None
    <2>1. PICK r \in Request : r.op = req.op /\ r.key = req.key /\ r.val = req.val
      BY DEF ReqOK
    <2>2. req' = InHand(r, pc, req.loaded, changed)
      BY <1>1, <2>1 DEF InHand
    <2>3. req.loaded \in Resolved
      BY DEF ReqOK
    <2> QED BY <2>2, <2>3, RequestAssumption
  <1> QED BY <1>3, <1>4

(* The steps of a CRUD handler. *)
LEMMA CrudTypes == TypeInv /\ CrudStep => TypeInv'
  <1> SUFFICES ASSUME TypeInv, CrudStep PROVE TypeInv'
    OBVIOUS
  <1>0. StoredOK /\ CachesOK /\ BootOK /\ ReqOK /\ ClaimsOK /\ PublishOK
    BY DEF TypeInv
  <1>1. CASE with_manifest_crud
    <2>1. req # None /\ req.pc = "mutate" /\ head \in Manifest /\ req.op \in ManifestOps /\ Setting(req)
             /\ (req.op = "acl" => req.val # None) /\ phase' = phase
      BY <1>0, <1>1 DEF with_manifest_crud, ReqOK
    <2>2. head' \in Manifest
      BY <1>1, <2>1, MutatedTypes DEF with_manifest_crud
    <2>3. ReqOK'
      <3>1. CASE req.op = "capacity"
        BY <1>1, <3>1 DEF with_manifest_crud, ReqOK
      <3>2. CASE req.op # "capacity"
        <4> DEFINE changed == IF req.op = "kinds" THEN changed_protocols(head.kinds, req.val) ELSE req.changed
        <4>1. changed \in SUBSET Protocol
          BY <1>0, <2>1 DEF changed_protocols, ReqOK
        <4>2. req' = [req EXCEPT !.pc = "cache", !.changed = changed]
          BY <1>1, <3>2 DEF with_manifest_crud
        <4> HIDE DEF changed
        <4> QED BY <1>0, <2>1, <2>2, <3>2, <4>1, <4>2, RequestGoesOn
      <3> QED BY <3>1, <3>2
    <2> QED BY <1>0, <1>1, <2>2, <2>3
            DEF TypeInv, with_manifest_crud, disk, caches, StoredOK, CachesOK, BootOK, ClaimsOK, PublishOK
  <1>2. CASE MutationFails
    BY <1>0, <1>2 DEF TypeInv, MutationFails, disk, caches, StoredOK, CachesOK, BootOK, ReqOK, ClaimsOK, PublishOK
  <1>3. CASE ReplaceRootAcl
    <2>1. acl' \in AclMap /\ granted' = {} /\ req' = None
      BY <1>0, <1>3 DEF ReplaceRootAcl, ReqOK, Setting
    <2> QED BY <1>0, <1>3, <2>1
            DEF TypeInv, ReplaceRootAcl, disk, StoredOK, CachesOK, BootOK, ReqOK, ClaimsOK, PublishOK
  <1>4. CASE UpdateAclCache
    <2>1. aclCache' \in Library /\ req' = None
      BY <1>0, <1>4 DEF UpdateAclCache, ReqOK, Setting, CachesOK, Library
    <2> QED BY <1>0, <1>4, <2>1
            DEF TypeInv, UpdateAclCache, disk, StoredOK, CachesOK, BootOK, ReqOK, ClaimsOK, PublishOK
  <1>5. CASE group_cache_update
    <2>1. groupCache' \in Groups
      BY <1>0, <1>5 DEF group_cache_update, ReqOK, Setting, CachesOK, Groups
    <2>2. lag' \subseteq {"acl", "acls", "grp", "kinds", "owners"}
      BY <1>0, <1>5 DEF group_cache_update, CachesOK
    <2>3. ReqOK'
      <3>1. CASE req.key # "owners"
        BY <1>5, <3>1 DEF group_cache_update, ReqOK
      <3>2. CASE req.key = "owners"
        <4>1. req # None /\ head' \in Manifest /\ phase' = phase /\ req.op = "grp" /\ req.changed \in SUBSET Protocol
          BY <1>0, <1>5 DEF group_cache_update, ReqOK
        <4>2. req' = [req EXCEPT !.pc = "grant", !.changed = req.changed]
          BY <1>0, <1>5, <3>2 DEF group_cache_update, ReqOK
        <4> QED BY <1>0, <3>2, <4>1, <4>2, RequestGoesOn
      <3> QED BY <3>1, <3>2
    <2> QED BY <1>0, <1>5, <2>1, <2>2, <2>3
            DEF TypeInv, group_cache_update, disk, StoredOK, CachesOK, BootOK, ClaimsOK, PublishOK
  <1>6. CASE GrantNewOwners
    <2>1. members(groupCache)["owners"] \in SUBSET Did
      BY <1>0, MembersTypes DEF CachesOK
    <2>2. acl' \in AclMap /\ granted' \subseteq Did
      BY <1>0, <1>6, <2>1, GrantTypes DEF GrantNewOwners, CachesOK
    <2>3. ReqOK'
      <3>1. req # None /\ head' \in Manifest /\ phase' = phase /\ req.op = "grp" /\ req.key = "owners"
               /\ req.changed \in SUBSET Protocol
        BY <1>0, <1>6 DEF GrantNewOwners, ReqOK
      <3>2. req' = [req EXCEPT !.pc = "owners", !.changed = req.changed]
        BY <1>0, <1>6 DEF GrantNewOwners, ReqOK
      <3> QED BY <1>0, <3>1, <3>2, RequestGoesOn
    <2> QED BY <1>0, <1>6, <2>2, <2>3
            DEF TypeInv, GrantNewOwners, disk, StoredOK, CachesOK, BootOK, ClaimsOK, PublishOK
  <1>7. CASE SetNewOwners
    <2>1. owners' \in SUBSET Did
      BY <1>0, <1>7, MembersTypes DEF SetNewOwners, CachesOK
    <2> QED BY <1>0, <1>7, <2>1
            DEF TypeInv, SetNewOwners, disk, caches, StoredOK, CachesOK, BootOK, ReqOK, ClaimsOK, PublishOK
  <1>8. CASE UpdateKindRegistry
    <2> DEFINE entered == IF req.op = "kind" THEN [kindRegistry EXCEPT ![req.key] = req.loaded] ELSE kindRegistry
    <2>1. entered \in [Protocol -> Resolved] /\ head.kinds \in KindTree
      BY <1>0, <1>8 DEF UpdateKindRegistry, ReqOK, CachesOK, Manifest
    <2>2. \/ kindRegistry' = entered
          \/ kindRegistry' = hydrate_affected_kind_registry(entered, head.kinds,
                                affected_kind_protocols_for(req.changed, head.kinds))
      BY <1>8 DEF UpdateKindRegistry
    <2>3. kindRegistry' \in [Protocol -> Resolved]
      <3> HIDE DEF entered
      <3> QED BY <2>1, <2>2, HydrateTypes
    <2>4. lag' \subseteq {"acl", "acls", "grp", "kinds", "owners"} /\ req' = None
      BY <1>0, <1>8 DEF UpdateKindRegistry, CachesOK
    <2> QED BY <1>0, <1>8, <2>3, <2>4
            DEF TypeInv, UpdateKindRegistry, disk, StoredOK, CachesOK, BootOK, ReqOK, ClaimsOK, PublishOK
  <1>9. CASE CutOff
    <2>1. req.op \in ManifestOps /\ (req.pc # "mutate" => req.op # "capacity")
      BY <1>0, <1>9 DEF CutOff, ReqOK
    <2>2. lag' \subseteq {"acl", "acls", "grp", "kinds", "owners"} /\ req' = None
      BY <1>0, <1>9, <2>1 DEF CutOff, CachesOK, ManifestOps
    <2> QED BY <1>0, <1>9, <2>2
            DEF TypeInv, CutOff, disk, caches, StoredOK, CachesOK, BootOK, ReqOK, ClaimsOK, PublishOK
  <1> QED BY <1>1, <1>2, <1>3, <1>4, <1>5, <1>6, <1>7, <1>8, <1>9 DEF CrudStep

(* Nothing is left of a process that has ended. *)
LEMMA GoneTypes ==
    ASSUME TypeInv, Gone, file' \in Config, ipns' \in Manifest \cup {None}, key' \in {"absent", "listed"}
    PROVE  TypeInv'
  <1>0. ClaimsOK
    BY DEF TypeInv
  <1>1. boot' \in [cli : CommandLine \cup {None}, root : Manifest \cup {None}, owners : SUBSET Did]
    BY DEF Gone, NoBoot
  <1>2. config' \in Config
    BY DEF Gone, Config, Default, Attempts
  <1>3. kindRegistry' \in [Protocol -> Resolved]
    BY UnresolvedTypes DEF Gone
  <1>4. CachesOK'
    BY <1>3 DEF Gone, CachesOK, EmptyAcl, AclMap, Library, Groups, Default, Attempts
  <1>5. ClaimsOK'
    <2> DEFINE Left(c) == IF claim[c].pc = "idle" THEN NoClaim ELSE [NoClaim EXCEPT !.pc = "done"]
    <2>1. claim' = [c \in Claim |-> Left(c)]
      BY DEF Gone
    <2>2. \A c \in Claim : Left(c) = NoClaim \/ Left(c) = [pc |-> "done", did |-> None, file |-> None]
      BY DEF NoClaim
    <2> HIDE DEF Left
    <2> QED BY <2>1, <2>2 DEF ClaimsOK, NoClaim
  <1> QED BY <1>1, <1>2, <1>4, <1>5 DEF Gone, TypeInv, StoredOK, BootOK, ReqOK, PublishOK, Idle, Starting

(* The phases that find the root. *)
LEMMA RootTypes ==
    ASSUME TypeInv,
           \/ \E cli \in Cli : BootNew(cli)
           \/ select_root_cid \/ resolve_startup_root_cid \/ apply_kinds_overlay
           \/ materialise_plugin_envelope_queue_capacity
    PROVE  TypeInv'
  <1>0. StoredOK /\ CachesOK /\ BootOK /\ ReqOK /\ ClaimsOK /\ PublishOK
    BY DEF TypeInv
  <1>1. ASSUME NEW cli \in Cli, BootNew(cli) PROVE TypeInv'
    <2>1. cli \in CommandLine
      BY StartAssumption
    <2> DEFINE root == IF cli.bootstrap = None THEN None ELSE build_manifest(cli.bootstrap)
    <2>2. root \in Manifest \cup {None}
      BY <2>1, StartManifests DEF CommandLine
    <2>3. boot' = [cli |-> cli, owners |-> {}, root |-> root]
      BY <1>1 DEF BootNew
    <2> HIDE DEF root
    <2>4. BootOK'
      BY <1>1, <2>1, <2>2, <2>3 DEF BootOK, BootNew, Starting
    <2>5. ReqOK'
      BY <1>0, <1>1 DEF BootNew, ReqOK
    <2> QED BY <1>0, <1>1, <2>4, <2>5 DEF TypeInv, BootNew, disk, caches, StoredOK, CachesOK, ClaimsOK, PublishOK
  <1>2. CASE select_root_cid
    <2> DEFINE root == IF boot.cli.root # None THEN boot.cli.root ELSE IF boot.root # None THEN boot.root ELSE config.root
    <2>1. root \in Manifest \cup {None}
      BY <1>0, <1>2 DEF select_root_cid, BootOK, StoredOK, Config, CommandLine, Starting
    <2>2. config' = [config EXCEPT !.root = root] /\ file' \in {file, config'} /\ boot' = [boot EXCEPT !.root = root]
      BY <1>2 DEF select_root_cid
    <2> HIDE DEF root
    <2>3. config' \in Config /\ file' \in Config
      BY <1>0, <2>1, <2>2 DEF StoredOK, Config
    <2>4. BootOK'
      BY <1>0, <1>2, <2>1, <2>2 DEF BootOK, select_root_cid, Starting
    <2> QED BY <1>0, <1>2, <2>3, <2>4 DEF TypeInv, select_root_cid, caches, StoredOK, CachesOK, ReqOK, ClaimsOK, PublishOK
  <1>3. CASE resolve_startup_root_cid
    <2>1. PICK root \in Manifest \cup {None} : boot' = [boot EXCEPT !.root = root]
      <3>1. CASE UNCHANGED boot
        <4>1. boot' = [boot EXCEPT !.root = boot.root] /\ boot.root \in Manifest \cup {None}
          BY <1>0, <3>1 DEF BootOK
        <4> QED BY <4>1
      <3>2. CASE ~UNCHANGED boot
        <4>1. \E root \in {boot.root, ipns, MinimalManifest} : boot' = [boot EXCEPT !.root = root]
          BY <1>3, <3>2 DEF resolve_startup_root_cid, resolve_runtime_root_cid_by_ipns_id
        <4> QED BY <1>0, <4>1, StartManifests DEF BootOK, StoredOK
      <3> QED BY <3>1, <3>2
    <2>2. BootOK'
      BY <1>0, <1>3, <2>1 DEF BootOK, resolve_startup_root_cid, Starting
    <2> QED BY <1>0, <1>3, <2>2
            DEF TypeInv, resolve_startup_root_cid, disk, caches, StoredOK, CachesOK, ReqOK, ClaimsOK, PublishOK
  <1>4. CASE apply_kinds_overlay
    <2>1. BootOK'
      <3>1. CASE UNCHANGED boot
        BY <1>0, <1>4, <3>1 DEF BootOK, apply_kinds_overlay, Starting
      <3>2. CASE ~UNCHANGED boot
        <4>1. boot.cli.kinds # None /\ boot.root # None
                 /\ boot' = [boot EXCEPT !.root.kinds = overlaid(boot.root.kinds, boot.cli.kinds)]
          BY <1>4, <3>2 DEF apply_kinds_overlay
        <4>2. boot.cli.kinds \in KindTree /\ boot.root \in Manifest /\ boot.root.kinds \in KindTree
          BY <1>0, <1>4, <4>1 DEF apply_kinds_overlay, BootOK, CommandLine, Starting, Manifest
        <4>3. PICK kinds \in KindTree : kinds = overlaid(boot.root.kinds, boot.cli.kinds)
          BY <4>2, OverlaidTypes
        <4>4. [boot.root EXCEPT !.kinds = kinds] \in Manifest
          BY <4>2 DEF Manifest
        <4>5. boot' = [boot EXCEPT !.root = [boot.root EXCEPT !.kinds = kinds]]
          BY <1>0, <4>1, <4>3 DEF BootOK
        <4> QED BY <1>0, <1>4, <4>4, <4>5 DEF BootOK, apply_kinds_overlay, Starting
      <3> QED BY <3>1, <3>2
    <2> QED BY <1>0, <1>4, <2>1 DEF TypeInv, apply_kinds_overlay, disk, caches, StoredOK, CachesOK, ReqOK, ClaimsOK, PublishOK
  <1>5. CASE materialise_plugin_envelope_queue_capacity
    <2>1. BootOK'
      <3>1. CASE ~(boot.root # None /\ boot.root.capacity = None)
        BY <1>0, <1>5, <3>1 DEF BootOK, materialise_plugin_envelope_queue_capacity, Starting
      <3>2. CASE boot.root # None /\ boot.root.capacity = None
        <4>1. [boot.root EXCEPT !.capacity = Default] \in Manifest
          BY <1>0, <3>2 DEF BootOK, Manifest, Capacity, Default
        <4>2. boot' = [boot EXCEPT !.root = [boot.root EXCEPT !.capacity = Default]]
          BY <1>0, <1>5, <3>2 DEF BootOK, materialise_plugin_envelope_queue_capacity
        <4> QED BY <1>0, <1>5, <4>1, <4>2 DEF BootOK, materialise_plugin_envelope_queue_capacity, Starting
      <3> QED BY <3>1, <3>2
    <2>2. attempts' \in Attempts
      BY <1>0, <1>5 DEF materialise_plugin_envelope_queue_capacity, StoredOK, Config
    <2> QED BY <1>0, <1>5, <2>1, <2>2
            DEF TypeInv, materialise_plugin_envelope_queue_capacity, disk, caches, StoredOK, CachesOK, ReqOK, ClaimsOK, PublishOK
  <1> QED BY <1>1, <1>2, <1>3, <1>4, <1>5

(* The phases that fill the caches, and the orderly stop. *)
LEMMA CachePhaseTypes ==
    ASSUME TypeInv,
           \/ hydrate_kind_registry \/ populate_acl_and_group_caches \/ resolve_and_seed_owners
           \/ finalize_startup \/ ShutdownPersist
    PROVE  TypeInv'
  <1>0. StoredOK /\ CachesOK /\ BootOK /\ ReqOK /\ ClaimsOK /\ PublishOK
    BY DEF TypeInv
  <1>1. CASE hydrate_kind_registry
    <2>1. kindRegistry' \in [Protocol -> Resolved]
      <3>1. boot.root # None => boot.root.kinds \in KindTree
        BY <1>0 DEF BootOK, Manifest
      <3>2. kindRegistry \in [Protocol -> Resolved]
        BY <1>0 DEF CachesOK
      <3>3. \/ kindRegistry' = kindRegistry
            \/ /\ boot.root # None
               /\ \E affected : kindRegistry' = hydrate_affected_kind_registry(kindRegistry, boot.root.kinds, affected)
        BY <1>1 DEF hydrate_kind_registry
      <3> QED BY <3>1, <3>2, <3>3, HydrateTypes
    <2>2. lag' \subseteq {"acl", "acls", "grp", "kinds", "owners"}
      BY <1>0, <1>1 DEF hydrate_kind_registry, CachesOK
    <2>3. BootOK' /\ ReqOK'
      BY <1>0, <1>1 DEF hydrate_kind_registry, BootOK, ReqOK, Starting
    <2> QED BY <1>0, <1>1, <2>1, <2>2, <2>3
            DEF TypeInv, hydrate_kind_registry, disk, StoredOK, CachesOK, ClaimsOK, PublishOK
  <1>2. CASE populate_acl_and_group_caches
    <2>1. PICK missing \in SUBSET {"acl", "acls", "grp"} :
            /\ acl' = IF boot.root # None /\ "acl" \notin missing THEN boot.root.acl ELSE acl
            /\ aclCache' = IF boot.root # None /\ "acls" \notin missing THEN boot.root.acls ELSE aclCache
            /\ groupCache' = IF boot.root # None /\ "grp" \notin missing THEN boot.root.grp ELSE groupCache
            /\ lag' = lag \cup missing
      BY <1>2 DEF populate_acl_and_group_caches
    <2>2. boot.root # None => boot.root.acl \in AclMap /\ boot.root.acls \in Library /\ boot.root.grp \in Groups
      BY <1>0 DEF BootOK, Manifest, Library, Groups
    <2>3. acl' \in AclMap /\ aclCache' \in Library /\ groupCache' \in Groups
      BY <1>0, <2>1, <2>2 DEF CachesOK
    <2>4. lag' \subseteq {"acl", "acls", "grp", "kinds", "owners"}
      BY <1>0, <2>1 DEF CachesOK
    <2>5. PICK o \in SUBSET Did : o = members(groupCache')["owners"]
      BY <2>3, MembersTypes
    <2>6. boot' = [boot EXCEPT !.owners = o] /\ phase' = "owners" /\ phase = "acl"
      BY <1>2, <2>5 DEF populate_acl_and_group_caches
    <2>7. BootOK' /\ ReqOK'
      BY <1>0, <1>2, <2>6 DEF populate_acl_and_group_caches, BootOK, ReqOK, Starting
    <2> QED BY <1>0, <1>2, <2>3, <2>4, <2>7
            DEF TypeInv, populate_acl_and_group_caches, disk, StoredOK, CachesOK, ClaimsOK, PublishOK
  <1>3. CASE resolve_and_seed_owners
    <2> DEFINE resolved == config.owners \cup boot.cli.owner \cup boot.owners
    <2>1. resolved \in SUBSET Did
      BY <1>0, <1>3 DEF resolve_and_seed_owners, StoredOK, Config, BootOK, CommandLine, Starting
    <2>2. /\ owners' = resolved /\ granted' = resolved /\ acl' = grant_owners_in_acl(acl, resolved)
          /\ file' = file \/ save([file EXCEPT !.owners = resolved])
      BY <1>3 DEF resolve_and_seed_owners
    <2> HIDE DEF resolved
    <2>3. acl' \in AclMap
      BY <1>0, <2>2, GrantTypes DEF CachesOK
    <2>4. file' \in Config
      <3>1. [file EXCEPT !.owners = resolved] \in Config
        BY <1>0, <2>1 DEF StoredOK, Config
      <3> QED BY <1>0, <2>2, <3>1, SaveTypes DEF StoredOK
    <2>5. BootOK' /\ ReqOK'
      BY <1>0, <1>3 DEF resolve_and_seed_owners, BootOK, ReqOK, Starting
    <2> QED BY <1>0, <1>3, <2>1, <2>2, <2>3, <2>4, <2>5
            DEF TypeInv, resolve_and_seed_owners, StoredOK, CachesOK, ClaimsOK, PublishOK
  <1>4. CASE finalize_startup
    <2>1. [boot.root EXCEPT !.grp["owners"] = owners] \in Manifest \/ boot.root = None
      BY <1>0, OwnersAssumption DEF BootOK, Manifest, CachesOK
    <2>2. head' \in Manifest \cup {None}
      BY <1>0, <1>4, <2>1 DEF finalize_startup, BootOK
    <2>3. groupCache' \in Groups
      BY <1>0, <1>4, OwnersAssumption DEF finalize_startup, CachesOK, Groups
    <2>4. lag' \subseteq {"acl", "acls", "grp", "kinds", "owners"}
      BY <1>0, <1>4 DEF finalize_startup, CachesOK
    <2>5. BootOK'
      BY <1>4 DEF finalize_startup, BootOK, NoBoot, Starting
    <2>6. ReqOK'
      BY <1>0, <1>4 DEF finalize_startup, ReqOK
    <2> QED BY <1>0, <1>4, <2>2, <2>3, <2>4, <2>5, <2>6
            DEF TypeInv, finalize_startup, disk, StoredOK, CachesOK, ClaimsOK, PublishOK
  <1>5. CASE ShutdownPersist
    <2>1. file' \in Config /\ config' \in Config
      <3>1. CASE head = None
        BY <1>0, <1>5, <3>1 DEF ShutdownPersist, StoredOK
      <3>2. CASE head # None
        <4>1. head \in Manifest /\ persist_root_cid(head)
          BY <1>0, <1>5, <3>2 DEF ShutdownPersist, StoredOK
        <4> QED BY <1>0, <4>1, PersistTypes
      <3> QED BY <3>1, <3>2
    <2>2. BootOK' /\ ReqOK'
      BY <1>0, <1>5 DEF ShutdownPersist, BootOK, ReqOK, Starting
    <2> QED BY <1>0, <1>5, <2>1, <2>2 DEF TypeInv, ShutdownPersist, caches, StoredOK, CachesOK, ClaimsOK, PublishOK
  <1> QED BY <1>1, <1>2, <1>3, <1>4, <1>5

(* The first start begins with nothing but a file. *)
LEMMA InitTypes == Init => TypeInv
  <1> SUFFICES ASSUME Init PROVE TypeInv
    OBVIOUS
  <1>1. StoredOK
    BY StartAssumption DEF Init, StoredOK, Config, Default, Attempts
  <1>2. kindRegistry \in [Protocol -> Resolved]
    BY UnresolvedTypes DEF Init
  <1>3. CachesOK
    BY <1>2 DEF Init, CachesOK, EmptyAcl, AclMap, Library, Groups, Default, Attempts
  <1>4. BootOK
    BY DEF Init, BootOK, NoBoot, Starting
  <1> QED BY <1>1, <1>3, <1>4 DEF Init, TypeInv, ReqOK, ClaimsOK, NoClaim, PublishOK, Idle

(* Every step keeps the types. *)
LEMMA NextTypes == TypeInv /\ [Next]_vars => TypeInv'
  <1> SUFFICES ASSUME TypeInv, [Next]_vars PROVE TypeInv'
    OBVIOUS
  <1>1. CASE BootNext
    <2>1. CASE ShutdownExit \/ Crash
      <3>1. Gone /\ file' \in Config
        BY <2>1 DEF ShutdownExit, Crash, disk, TypeInv, StoredOK
      <3>2. ipns' \in Manifest \cup {None} /\ key' \in {"absent", "listed"}
        BY <2>1 DEF ShutdownExit, Crash, Published, NotPublished, disk, TypeInv, StoredOK
      <3> QED BY <3>1, <3>2, GoneTypes
    <2>2. CASE ~(ShutdownExit \/ Crash)
      <3>1. CASE \/ \E cli \in Cli : BootNew(cli)
                 \/ select_root_cid \/ resolve_startup_root_cid \/ apply_kinds_overlay
                 \/ materialise_plugin_envelope_queue_capacity
        BY <3>1, RootTypes
      <3>2. CASE \/ hydrate_kind_registry \/ populate_acl_and_group_caches \/ resolve_and_seed_owners
                 \/ finalize_startup \/ ShutdownPersist
        BY <3>2, CachePhaseTypes
      <3>3. CASE KeyLost
        BY <3>3 DEF KeyLost, caches, TypeInv, StoredOK, CachesOK, BootOK, ReqOK, ClaimsOK, PublishOK
      <3> QED BY <1>1, <2>2, <3>1, <3>2, <3>3 DEF BootNext
    <2> QED BY <2>1, <2>2
  <1>2. CASE CrudNext
    <2>1. CASE CrudStep
      BY <2>1, CrudTypes
    <2>2. CASE ~CrudStep
      <3>1. PICK r \in Request :
              \/ handle_root_acl(r) \/ handle_root_acls(r) \/ handle_root_grp(r) \/ handle_kinds_ns(r)
              \/ apply_kinds_tree(r) \/ handle_manifest_config_key(r) \/ set_daemon_config_key(r)
        BY <1>2, <2>2, Zenon DEF CrudNext
      <3> QED BY <3>1, RequestTypes
    <2> QED BY <2>1, <2>2
  <1>3. CASE ClaimNext
    BY <1>3, ClaimTypes
  <1>4. CASE RepublishNext \/ RootNext
    BY <1>4, PublishTypes
  <1>5. CASE UNCHANGED vars
    BY <1>5 DEF vars, TypeInv, StoredOK, CachesOK, BootOK, ReqOK, ClaimsOK, PublishOK
  <1> QED BY <1>1, <1>2, <1>3, <1>4, <1>5 DEF Next

(* Types hold in every state of every behaviour. *)
THEOREM BootTypeCorrect == Spec => []TypeOK
  BY InitTypes, NextTypes, TypeInvImplies, PTL DEF Spec

-----------------------------------------------------------------------------
(***************************************************************************)
(* The settings a start validates.                                         *)
(***************************************************************************)

\* Every root and every configuration that is, or may come to be, stored or
\* published.
SettingsInv ==
    /\ SoundConfig(file) /\ SoundConfig(config)
    /\ SoundRoot(ipns) /\ SoundRoot(head) /\ SoundRoot(boot.root) /\ SoundRoot(rep.root) /\ SoundRoot(pub)
    /\ phase \in Starting => SoundRoot(boot.cli.root)
    /\ \A c \in Claim : claim[c].pc = "write" => SoundConfig(claim[c].file)
    /\ req # None /\ req.op = "capacity" => req.val # 0

(* A manifest is sound when its capacity is. *)
LEMMA SoundManifest ==
    ASSUME NEW m \in Manifest PROVE SoundRoot(m) <=> m.capacity # 0
  BY NoneAssumption DEF SoundRoot

(* No root at all is sound. *)
LEMMA SoundNone == SoundRoot(None)
  BY DEF SoundRoot

(* A sound configuration is saved. *)
LEMMA SaveSound ==
    ASSUME SoundConfig(file), NEW c, SoundConfig(c), save(c) PROVE SoundConfig(file')
  BY DEF save

(* The root a sound configuration is given. *)
LEMMA SetRootSound ==
    ASSUME NEW c \in Config, SoundConfig(c), NEW m, SoundRoot(m)
    PROVE  SoundConfig([c EXCEPT !.root = m])
  BY DEF SoundConfig, Config

(* The owners a sound configuration is given. *)
LEMMA SetOwnersSound ==
    ASSUME NEW c \in Config, SoundConfig(c), NEW o
    PROVE  SoundConfig([c EXCEPT !.owners = o])
  BY DEF SoundConfig, Config

(* persist_root_cid saves a sound root. *)
LEMMA PersistSound ==
    ASSUME StoredOK, SoundConfig(file), SoundConfig(config), NEW m, SoundRoot(m), persist_root_cid(m)
    PROVE  SoundConfig(file') /\ SoundConfig(config')
  <1>1. SoundConfig([config EXCEPT !.root = m])
    BY SetRootSound DEF StoredOK
  <1> QED BY <1>1, SaveSound DEF persist_root_cid

(* What a step that stores, publishes and starts nothing keeps. *)
LEMMA SettingsFrame ==
    ASSUME SettingsInv, UNCHANGED <<file, config, ipns, head, boot, rep, pub, phase, claim>>,
           req' # None /\ req'.op = "capacity" => req'.val # 0
    PROVE  SettingsInv'
  BY DEF SettingsInv, SoundConfig, SoundRoot

(* Claims. *)
LEMMA ClaimSettings == TypeInv /\ SettingsInv /\ ClaimNext => SettingsInv'
  <1> SUFFICES ASSUME TypeInv, SettingsInv, ClaimNext PROVE SettingsInv'
    OBVIOUS
  <1>0. ClaimsOK /\ StoredOK
    BY DEF TypeInv
  <1>1. ASSUME SoundConfig(file'), UNCHANGED <<config, ipns, head, boot, rep, pub, phase, req>>,
               \A c \in Claim : claim'[c].pc = "write" => SoundConfig(claim'[c].file)
        PROVE  SettingsInv'
    BY <1>1 DEF SettingsInv
  <1>2. ASSUME NEW c \in Claim, NEW d \in Did, ClaimCheck(c, d) PROVE SettingsInv'
    BY <1>0, <1>1, <1>2 DEF ClaimCheck, disk, ClaimsOK, SettingsInv
  <1>3. ASSUME NEW c \in Claim, ClaimSet(c) PROVE SettingsInv'
    BY <1>0, <1>1, <1>3 DEF ClaimSet, disk, ClaimsOK, SettingsInv
  <1>4. ASSUME NEW c \in Claim, ClaimGrant(c) PROVE SettingsInv'
    BY <1>0, <1>1, <1>4 DEF ClaimGrant, disk, ClaimsOK, SettingsInv
  <1>5. ASSUME NEW c \in Claim, persist_owners_read(c) PROVE SettingsInv'
    BY <1>0, <1>1, <1>5 DEF persist_owners_read, disk, ClaimsOK, SettingsInv
  <1>6. ASSUME NEW c \in Claim, persist_owners_to_config(c) PROVE SettingsInv'
    <2>1. claim[c].file \in Config /\ SoundConfig(claim[c].file)
      BY <1>0, <1>6 DEF persist_owners_to_config, ClaimsOK, SettingsInv
    <2>2. SoundConfig([claim[c].file EXCEPT !.owners = {claim[c].did}])
      BY <2>1, SetOwnersSound
    <2>3. SoundConfig(file')
      BY <1>6, <2>2, SaveSound DEF persist_owners_to_config, SettingsInv
    <2>4. \A k \in Claim : claim'[k].pc = "write" => claim'[k] = claim[k]
      BY <1>0, <1>6 DEF persist_owners_to_config, ClaimsOK
    <2> QED BY <1>1, <1>6, <2>3, <2>4 DEF persist_owners_to_config, SettingsInv
  <1> QED BY <1>2, <1>3, <1>4, <1>5, <1>6 DEF ClaimNext

(* Publications. *)
LEMMA PublishSettings == TypeInv /\ SettingsInv /\ (RepublishNext \/ RootNext) => SettingsInv'
  <1> SUFFICES ASSUME TypeInv, SettingsInv, RepublishNext \/ RootNext PROVE SettingsInv'
    OBVIOUS
  <1>0. StoredOK /\ PublishOK
    BY DEF TypeInv
  <1>1. ASSUME SoundConfig(file'), SoundConfig(config'), SoundRoot(ipns'), SoundRoot(rep'.root), SoundRoot(pub'),
               UNCHANGED <<head, boot, phase, claim, req>>
        PROVE  SettingsInv'
    BY <1>1 DEF SettingsInv
  <1>2. CASE RepublishTick
    BY <1>1, <1>2 DEF RepublishTick, disk, SettingsInv
  <1>3. CASE publish_current_root
    BY <1>0, <1>1, <1>3 DEF publish_current_root, Published, PublishOK, SettingsInv
  <1>4. CASE PublishFails
    BY <1>1, <1>4, SoundNone DEF PublishFails, Published, NotPublished, Idle, SettingsInv
  <1>5. CASE RepublishPersists
    <2>1. SoundConfig(file') /\ SoundConfig(config')
      BY <1>0, <1>5, PersistSound DEF RepublishPersists, SettingsInv
    <2> QED BY <1>1, <1>5, <2>1, SoundNone DEF RepublishPersists, Idle, SettingsInv
  <1>6. CASE handle_root_publish
    BY <1>1, <1>6 DEF handle_root_publish, disk, SettingsInv
  <1>7. CASE PublishRequestedRoot
    BY <1>1, <1>7, SoundNone DEF PublishRequestedRoot, Published, NotPublished, SettingsInv
  <1> QED BY <1>2, <1>3, <1>4, <1>5, <1>6, <1>7 DEF RepublishNext, RootNext

(* CRUD requests: a capacity and a number of attempts are validated.       *)
LEMMA CrudSettings == SoundInputs /\ TypeInv /\ SettingsInv /\ CrudNext => SettingsInv'
  <1> SUFFICES ASSUME SoundInputs, TypeInv, SettingsInv, CrudNext PROVE SettingsInv'
    OBVIOUS
  <1>0. StoredOK /\ ReqOK
    BY DEF TypeInv
  <1>1. ASSUME NEW r \in Request, Mutating(r), r.op = "capacity" => r.val # 0 PROVE SettingsInv'
    BY <1>1, SettingsFrame DEF Mutating, decode_crud_payload, InHand, disk
  <1>2. ASSUME NEW r \in Request,
               handle_root_acl(r) \/ handle_root_acls(r) \/ handle_root_grp(r) \/ apply_kinds_tree(r)
        PROVE  SettingsInv'
    BY <1>1, <1>2 DEF handle_root_acl, handle_root_acls, handle_root_grp, apply_kinds_tree
  <1>3. ASSUME NEW r \in Request, handle_kinds_ns(r) PROVE SettingsInv'
    BY <1>3, SettingsFrame DEF handle_kinds_ns, decode_crud_payload, InHand, disk
  <1>4. ASSUME NEW r \in Request, handle_manifest_config_key(r) PROVE SettingsInv'
    BY <1>1, <1>4, NoneAssumption DEF handle_manifest_config_key, valid_setting
  <1>5. ASSUME NEW r \in Request, set_daemon_config_key(r) PROVE SettingsInv'
    <2>1. config \in Config /\ SoundConfig(config)
      BY <1>0 DEF StoredOK, SettingsInv
    <2>2. SoundConfig(config')
      <3>1. CASE r.op = "attempts"
        BY <1>5, <2>1, <3>1 DEF set_daemon_config_key, SoundConfig, Config
      <3>2. CASE r.op = "root_cid"
        <4>1. SoundRoot(r.val) /\ config' = [config EXCEPT !.root = r.val]
          BY <1>5, <3>2 DEF set_daemon_config_key, SoundInputs
        <4> QED BY <2>1, <4>1, SetRootSound
      <3> QED BY <1>5, <3>1, <3>2 DEF set_daemon_config_key
    <2>3. SoundConfig(file')
      BY <1>5, <2>2, SaveSound DEF set_daemon_config_key, SettingsInv
    <2> QED BY <1>5, <2>2, <2>3 DEF set_daemon_config_key, SettingsInv
  <1>6. CASE with_manifest_crud
    <2>1. req # None /\ head \in Manifest /\ req.op \in ManifestOps /\ Setting(req) /\ (req.op = "acl" => req.val # None)
      BY <1>0, <1>6 DEF with_manifest_crud, ReqOK
    <2>2. head' \in Manifest /\ head'.capacity = IF req.op = "capacity" THEN req.val ELSE head.capacity
      BY <1>6, <2>1, MutatedTypes DEF with_manifest_crud
    <2>3. SoundRoot(head')
      BY <2>1, <2>2, SoundManifest DEF SettingsInv
    <2>4. req' # None => req'.op # "capacity"
      BY <1>0, <1>6 DEF with_manifest_crud, ReqOK
    <2> QED BY <1>6, <2>3, <2>4 DEF with_manifest_crud, disk, SettingsInv
  <1>7. CASE GrantNewOwners \/ group_cache_update
    <2>1. req' # None => req'.op # "capacity"
      BY <1>0, <1>7 DEF GrantNewOwners, group_cache_update, ReqOK, InHand
    <2> QED BY <1>7, <2>1, SettingsFrame DEF GrantNewOwners, group_cache_update, disk
  <1>8. CASE \/ MutationFails \/ ReplaceRootAcl \/ UpdateAclCache \/ SetNewOwners \/ UpdateKindRegistry \/ CutOff
    BY <1>8, SettingsFrame DEF MutationFails, ReplaceRootAcl, UpdateAclCache, SetNewOwners, UpdateKindRegistry, CutOff, disk
  <1> QED BY <1>2, <1>3, <1>4, <1>5, <1>6, <1>7, <1>8 DEF CrudNext, CrudStep

(* Starts and stops: a new manifest has the default capacity. *)
LEMMA BootSettings == SoundInputs /\ TypeInv /\ SettingsInv /\ BootNext => SettingsInv'
  <1> SUFFICES ASSUME SoundInputs, TypeInv, SettingsInv, BootNext PROVE SettingsInv'
    OBVIOUS
  <1>0. StoredOK /\ BootOK /\ ReqOK
    BY DEF TypeInv
  <1>1. ASSUME NEW cli \in Cli, BootNew(cli) PROVE SettingsInv'
    <2> DEFINE root == IF cli.bootstrap = None THEN None ELSE build_manifest(cli.bootstrap)
    <2>1. cli \in CommandLine /\ SoundRoot(cli.root)
      BY StartAssumption DEF SoundInputs
    <2>2. SoundRoot(root)
      <3>1. CASE cli.bootstrap = None
        BY <3>1, SoundNone
      <3>2. CASE cli.bootstrap # None
        <4>1. root \in Manifest /\ root.capacity = Default
          BY <2>1, <3>2, StartManifests DEF CommandLine
        <4> HIDE DEF root
        <4> QED BY <4>1, SoundManifest DEF Default
      <3> QED BY <3>1, <3>2
    <2>3. boot'.root = root /\ boot'.cli = cli
      BY <1>1 DEF BootNew
    <2> HIDE DEF root
    <2> QED BY <1>1, <2>1, <2>2, <2>3 DEF BootNew, disk, SettingsInv
  <1>2. CASE select_root_cid
    <2> DEFINE root == IF boot.cli.root # None THEN boot.cli.root ELSE IF boot.root # None THEN boot.root ELSE config.root
    <2>1. SoundRoot(root) /\ SoundConfig(config)
      BY <1>2 DEF select_root_cid, Starting, SettingsInv, SoundConfig
    <2>2. config' = [config EXCEPT !.root = root] /\ file' \in {file, config'} /\ boot' = [boot EXCEPT !.root = root]
      BY <1>2 DEF select_root_cid
    <2> HIDE DEF root
    <2>3. SoundConfig(config') /\ SoundConfig(file')
      BY <1>0, <2>1, <2>2, SetRootSound DEF StoredOK, SettingsInv
    <2>4. boot'.root = root /\ boot'.cli = boot.cli
      BY <1>0, <2>2 DEF BootOK
    <2> QED BY <1>2, <2>1, <2>3, <2>4 DEF select_root_cid, Starting, SettingsInv
  <1>3. ASSUME SoundRoot(boot'.root), boot'.cli = boot.cli, phase \in Starting,
               UNCHANGED <<disk, config, head, rep, pub, claim, req>>
        PROVE  SettingsInv'
    BY <1>3 DEF SettingsInv, disk
  <1>4. CASE resolve_startup_root_cid
    <2>1. MinimalManifest \in Manifest /\ MinimalManifest.capacity # 0
      BY StartManifests, NoneAssumption
    <2>2. SoundRoot(MinimalManifest)
      BY <2>1, SoundManifest
    <2>3. boot'.cli = boot.cli /\ boot'.root \in {boot.root, ipns, MinimalManifest}
      BY <1>0, <1>4 DEF resolve_startup_root_cid, resolve_runtime_root_cid_by_ipns_id, BootOK
    <2>4. SoundRoot(boot'.root)
      BY <2>2, <2>3 DEF SettingsInv
    <2> QED BY <1>3, <1>4, <2>3, <2>4 DEF resolve_startup_root_cid, Starting
  <1>5. CASE apply_kinds_overlay
    <2>1. boot'.cli = boot.cli /\ SoundRoot(boot'.root)
      <3>1. CASE UNCHANGED boot
        BY <3>1 DEF SettingsInv
      <3>2. CASE ~UNCHANGED boot
        <4>1. boot.root \in Manifest /\ boot' = [boot EXCEPT !.root.kinds = overlaid(boot.root.kinds, boot.cli.kinds)]
                 /\ boot.cli.kinds \in KindTree
          BY <1>0, <1>5, <3>2 DEF apply_kinds_overlay, BootOK, Starting, CommandLine
        <4>2. PICK kinds \in KindTree : kinds = overlaid(boot.root.kinds, boot.cli.kinds)
          BY <4>1, OverlaidTypes DEF Manifest
        <4>3. boot'.cli = boot.cli /\ boot'.root \in Manifest /\ boot'.root.capacity = boot.root.capacity
          BY <1>0, <4>1, <4>2 DEF BootOK, Manifest
        <4> QED BY <4>1, <4>3, SoundManifest DEF SettingsInv
      <3> QED BY <3>1, <3>2
    <2> QED BY <1>3, <1>5, <2>1 DEF apply_kinds_overlay, Starting
  <1>6. CASE materialise_plugin_envelope_queue_capacity
    <2>1. boot'.cli = boot.cli /\ SoundRoot(boot'.root)
      <3>1. CASE UNCHANGED boot
        BY <3>1 DEF SettingsInv
      <3>2. CASE ~UNCHANGED boot
        <4>1. boot.root \in Manifest /\ boot' = [boot EXCEPT !.root.capacity = Default]
          BY <1>0, <1>6, <3>2 DEF materialise_plugin_envelope_queue_capacity, BootOK
        <4>2. boot'.cli = boot.cli /\ boot'.root \in Manifest /\ boot'.root.capacity = 1
          BY <1>0, <4>1 DEF BootOK, Manifest, Default, Capacity
        <4> QED BY <4>2, SoundManifest
      <3> QED BY <3>1, <3>2
    <2> QED BY <1>3, <1>6, <2>1 DEF materialise_plugin_envelope_queue_capacity, Starting
  <1>7. CASE hydrate_kind_registry
    BY <1>3, <1>7 DEF hydrate_kind_registry, Starting, SettingsInv
  <1>8. CASE populate_acl_and_group_caches
    <2>1. PICK o : boot' = [boot EXCEPT !.owners = o]
      BY <1>8 DEF populate_acl_and_group_caches
    <2>2. boot'.cli = boot.cli /\ boot'.root = boot.root
      BY <1>0, <2>1 DEF BootOK
    <2> QED BY <1>3, <1>8, <2>2 DEF populate_acl_and_group_caches, Starting, SettingsInv
  <1>9. CASE resolve_and_seed_owners
    <2>1. PICK o : file' = file \/ save([file EXCEPT !.owners = o])
      BY <1>9 DEF resolve_and_seed_owners
    <2>2. SoundConfig(file')
      BY <1>0, <2>1, SetOwnersSound, SaveSound DEF StoredOK, SettingsInv
    <2> QED BY <1>9, <2>2 DEF resolve_and_seed_owners, Starting, SettingsInv
  <1>10. CASE finalize_startup
    <2>1. SoundRoot(head')
      <3>1. CASE head' = boot.root
        BY <3>1 DEF SettingsInv
      <3>2. CASE head' # boot.root
        <4>1. boot.root \in Manifest /\ head' = [boot.root EXCEPT !.grp["owners"] = owners]
          BY <1>0, <1>10, <3>2 DEF finalize_startup, BootOK
        <4>2. head' \in Manifest /\ head'.capacity = boot.root.capacity
          BY <4>1, OwnersAssumption DEF Manifest, TypeInv, CachesOK
        <4> QED BY <4>1, <4>2, SoundManifest DEF SettingsInv
      <3> QED BY <3>1, <3>2
    <2> QED BY <1>10, <2>1, SoundNone DEF finalize_startup, NoBoot, disk, Starting, SettingsInv
  <1>11. CASE ShutdownPersist
    <2>1. SoundConfig(file') /\ SoundConfig(config')
      BY <1>0, <1>11, PersistSound DEF ShutdownPersist, SettingsInv
    <2> QED BY <1>11, <2>1 DEF ShutdownPersist, Starting, SettingsInv
  <1>12. CASE ShutdownExit \/ Crash
    <2>1. Gone /\ file' = file /\ SoundRoot(ipns')
      BY <1>12 DEF ShutdownExit, Crash, Published, NotPublished, disk, SettingsInv
    <2>2. SoundConfig(config')
      BY <2>1, SoundNone DEF Gone, SoundConfig, valid_setting, Default
    <2>3. \A c \in Claim : claim'[c].pc # "write"
      BY <2>1 DEF Gone, NoClaim
    <2> QED BY <2>1, <2>2, <2>3, SoundNone DEF Gone, NoBoot, Idle, Starting, SettingsInv
  <1>13. CASE KeyLost
    BY <1>13 DEF KeyLost, SettingsInv
  <1> QED BY <1>1, <1>2, <1>4, <1>5, <1>6, <1>7, <1>8, <1>9, <1>10, <1>11, <1>12, <1>13 DEF BootNext

(* No sequence of CRUD requests, claims, stops, crashes and starts stores  *)
(* or publishes a setting with which the daemon would refuse to start,     *)
(* when what is given to it from outside and stored unseen has none.       *)
THEOREM BootableCorrect == ASSUME SoundInputs PROVE Spec => []Bootable
  <1>1. Init => SettingsInv
    BY SoundNone DEF Init, SettingsInv, SoundInputs, SoundConfig, valid_setting, Default, NoBoot, NoClaim, Idle, Starting
  <1>2. TypeInv /\ SettingsInv /\ [Next]_vars => SettingsInv'
    <2>1. ASSUME SettingsInv, UNCHANGED vars PROVE SettingsInv'
      BY <2>1 DEF vars, SettingsInv
    <2> QED BY <2>1, BootSettings, CrudSettings, ClaimSettings, PublishSettings DEF Next
  <1>3. SettingsInv => Bootable
    BY DEF SettingsInv, Bootable, SoundConfig, SoundRoot
  <1> QED BY <1>1, <1>2, <1>3, InitTypes, NextTypes, PTL DEF Spec

-----------------------------------------------------------------------------
(***************************************************************************)
(* The caches of the ACLs and groups.                                      *)
(***************************************************************************)

\* A request whose mutation is done is about to update a cache.
AtCache(ops) == req # None /\ req.pc = "cache" /\ req.op \in ops

\* The root ACL m describes, with the grants made since.
Granted(m) == \A p \in Principal : acl[p] = m.acl[p] \/ (p \in granted /\ acl[p] = "allow")

\* Claims are made, and owners granted the ACL, only once the daemon serves.
QuietStart ==
    /\ phase \notin {"run", "closing"} => \A c \in Claim : claim[c].pc \in {"idle", "done"}
    /\ phase \notin {"run", "closing", "finalize"} => granted = {}

\* What the start has loaded is what the root it found says.
StartCaches ==
    phase \in {"owners", "finalize"} /\ boot.root # None =>
        /\ "acls" \notin lag => aclCache = boot.root.acls
        /\ "grp" \notin lag => groupCache = boot.root.grp
        /\ "acl" \notin lag => Granted(boot.root)

\* The manifest is ahead of a cache by the request that is about to update it.
RunAcls ==
    phase = "run" /\ head # None /\ "acls" \notin lag =>
        head.acls = IF AtCache({"acls"}) THEN [aclCache EXCEPT ![req.key] = req.val] ELSE aclCache

RunGroups ==
    phase = "run" /\ head # None /\ "grp" \notin lag =>
        head.grp = IF AtCache({"grp"}) THEN [groupCache EXCEPT ![req.key] = req.val] ELSE groupCache

RunAcl ==
    phase = "run" /\ head # None =>
        IF AtCache({"acl"}) THEN head.acl = req.val ELSE "acl" \notin lag => Granted(head)

CacheInv == QuietStart /\ StartCaches /\ RunAcls /\ RunGroups /\ RunAcl

\* Neither a cache nor the manifest changes, nor the place of a request.
CachesStay == UNCHANGED <<phase, boot, head, lag, acl, aclCache, groupCache, granted>>

(* The request differs, but is not about to update one of these caches. *)
LEMMA CacheFrame ==
    ASSUME CacheInv, CachesStay,
           req' = req \/ (~AtCache({"acl", "acls", "grp"}) /\ ~AtCache({"acl", "acls", "grp"})'),
           phase \notin {"run", "closing"} => \A c \in Claim : claim'[c].pc \in {"idle", "done"}
    PROVE  CacheInv'
  <1>1. QuietStart' /\ StartCaches'
    BY DEF CacheInv, CachesStay, QuietStart, StartCaches, Granted
  <1>2. RunAcls' /\ RunGroups'
    BY DEF CacheInv, CachesStay, RunAcls, RunGroups, AtCache
  <1>3. RunAcl'
    BY DEF CacheInv, CachesStay, RunAcl, AtCache, Granted
  <1> QED BY <1>1, <1>2, <1>3 DEF CacheInv

(* More grants. *)
LEMMA GrantsKeep ==
    ASSUME NEW m, Granted(m), NEW o, acl' = grant_owners_in_acl(acl, o), granted' = granted \cup o
    PROVE  \A p \in Principal : acl'[p] = m.acl[p] \/ (p \in granted' /\ acl'[p] = "allow")
  BY DEF Granted, grant_owners_in_acl

(* Claims. *)
LEMMA ClaimCaches == TypeInv /\ CacheInv /\ ClaimNext => CacheInv'
  <1> SUFFICES ASSUME TypeInv, CacheInv, ClaimNext PROVE CacheInv'
    OBVIOUS
  <1>0. ClaimsOK /\ QuietStart
    BY DEF TypeInv, CacheInv
  <1>1. ASSUME NEW c \in Claim, NEW d \in Did, ClaimCheck(c, d) PROVE CacheInv'
    BY <1>1, CacheFrame DEF ClaimCheck, Serving, caches, CachesStay
  <1>2. ASSUME NEW c \in Claim, ClaimSet(c) PROVE CacheInv'
    <2>1. phase \in {"run", "closing"}
      BY <1>0, <1>2 DEF ClaimSet, QuietStart
    <2> QED BY <1>2, <2>1, CacheFrame DEF ClaimSet, caches, CachesStay
  <1>3. ASSUME NEW c \in Claim, ClaimGrant(c) PROVE CacheInv'
    <2>1. phase \in {"run", "closing"} /\ UNCHANGED <<phase, head, lag, aclCache, groupCache, req>>
      BY <1>0, <1>3 DEF ClaimGrant, QuietStart
    <2>2. acl' = grant_owners_in_acl(acl, {claim[c].did}) /\ granted' = granted \cup {claim[c].did}
      BY <1>3 DEF ClaimGrant
    <2>3. RunAcl'
      <3>1. CASE AtCache({"acl"})
        BY <2>1, <3>1 DEF CacheInv, RunAcl, AtCache
      <3>2. CASE ~AtCache({"acl"})
        <4>1. Granted(head) => (Granted(head))'
          BY <2>1, <2>2, GrantsKeep DEF Granted
        <4> QED BY <2>1, <3>2, <4>1 DEF CacheInv, RunAcl, AtCache
      <3> QED BY <3>1, <3>2
    <2> QED BY <2>1, <2>3 DEF CacheInv, QuietStart, StartCaches, RunAcls, RunGroups, AtCache
  <1>4. ASSUME NEW c \in Claim, persist_owners_read(c) PROVE CacheInv'
    <2>1. phase \in {"run", "closing"}
      BY <1>0, <1>4 DEF persist_owners_read, QuietStart
    <2> QED BY <1>4, <2>1, CacheFrame DEF persist_owners_read, caches, CachesStay
  <1>5. ASSUME NEW c \in Claim, persist_owners_to_config(c) PROVE CacheInv'
    <2>1. phase \in {"run", "closing"}
      BY <1>0, <1>5 DEF persist_owners_to_config, QuietStart
    <2> QED BY <1>5, <2>1, CacheFrame DEF persist_owners_to_config, caches, CachesStay
  <1> QED BY <1>1, <1>2, <1>3, <1>4, <1>5 DEF ClaimNext

(* Publications touch no cache. *)
LEMMA PublishCaches == CacheInv /\ (RepublishNext \/ RootNext) => CacheInv'
  <1> SUFFICES ASSUME CacheInv, RepublishNext \/ RootNext PROVE CacheInv'
    OBVIOUS
  <1>1. CachesStay /\ UNCHANGED <<req, claim>>
    BY DEF RepublishNext, RootNext, RepublishTick, publish_current_root, PublishFails, RepublishPersists,
           handle_root_publish, PublishRequestedRoot, caches, CachesStay
  <1> QED BY <1>1, CacheFrame DEF CacheInv, QuietStart

(* A request waits for its turn, and then for its mutation. *)
LEMMA RequestStarts ==
    ASSUME NEW r \in Request,
           \/ handle_root_acl(r) \/ handle_root_acls(r) \/ handle_root_grp(r) \/ handle_kinds_ns(r)
           \/ apply_kinds_tree(r) \/ handle_manifest_config_key(r)
    PROVE  /\ req = None /\ req'.pc = "mutate" /\ req'.op = r.op /\ req'.key = r.key /\ req'.val = r.val
           /\ UNCHANGED <<caches, head, owners, phase, boot, claim, lag, granted>>
  <1>1. CASE handle_kinds_ns(r)
    BY <1>1 DEF handle_kinds_ns, handle_crud_message, decode_crud_payload, InHand
  <1>2. CASE ~handle_kinds_ns(r)
    <2>1. Mutating(r) /\ handle_crud_message(r)
      BY <1>2 DEF handle_root_acl, handle_root_acls, handle_root_grp, apply_kinds_tree, handle_manifest_config_key
    <2> QED BY <2>1 DEF Mutating, handle_crud_message, decode_crud_payload, InHand
  <1> QED BY <1>1, <1>2

(* The mutation a request was waiting for. *)
LEMMA MutationDone ==
    ASSUME TypeInv, with_manifest_crud
    PROVE  /\ head \in Manifest /\ head' \in Manifest /\ req # None /\ req.pc = "mutate"
           /\ head' = Mutated(head, req) /\ req.op \in ManifestOps /\ Setting(req)
           /\ req.op = "acl" => req.val # None
           /\ req.op = "capacity" => req' = None
           /\ req.op # "capacity" =>
                /\ req'.pc = "cache" /\ req'.op = req.op /\ req'.key = req.key /\ req'.val = req.val
                /\ req'.changed = IF req.op = "kinds" THEN changed_protocols(head.kinds, req.val) ELSE req.changed
                /\ req'.loaded = req.loaded
                /\ req' # None
           /\ UNCHANGED <<caches, owners, phase, boot, claim, lag, granted>>
  <1>1. ReqOK /\ req # None
    BY DEF TypeInv, with_manifest_crud
  <1>2. /\ head \in Manifest /\ req.pc = "mutate" /\ req.op \in ManifestOps /\ Setting(req)
        /\ req.op = "acl" => req.val # None
    BY <1>1 DEF ReqOK, with_manifest_crud
  <1>3. head' \in Manifest
    BY <1>2, MutatedTypes DEF with_manifest_crud
  <1>4. req.op # "capacity" =>
                /\ req'.pc = "cache" /\ req'.op = req.op /\ req'.key = req.key /\ req'.val = req.val
                /\ req'.changed = IF req.op = "kinds" THEN changed_protocols(head.kinds, req.val) ELSE req.changed
                /\ req'.loaded = req.loaded
    BY <1>1 DEF ReqOK, with_manifest_crud
  <1>5. ASSUME req.op # "capacity" PROVE req' # None
    <2> DEFINE changed == IF req.op = "kinds" THEN changed_protocols(head.kinds, req.val) ELSE req.changed
    <2>1. changed \in SUBSET Protocol
      BY <1>1 DEF changed_protocols, ReqOK
    <2>2. req' = [req EXCEPT !.pc = "cache", !.changed = changed] /\ phase' = phase
      BY <1>5 DEF with_manifest_crud
    <2> HIDE DEF changed
    <2> QED BY <1>1, <1>3, <1>5, <2>1, <2>2, RequestGoesOn
  <1> QED BY <1>1, <1>2, <1>3, <1>4, <1>5 DEF with_manifest_crud

(* CRUD requests: the manifest first, then the cache. *)
LEMMA CrudCaches == TypeInv /\ CacheInv /\ CrudNext => CacheInv'
  <1> SUFFICES ASSUME TypeInv, CacheInv, CrudNext PROVE CacheInv'
    OBVIOUS
  <1>0. /\ ReqOK /\ QuietStart /\ StartCaches /\ RunAcls /\ RunGroups /\ RunAcl
        /\ head \in Manifest \cup {None} /\ aclCache \in Library /\ groupCache \in Groups
    BY DEF TypeInv, StoredOK, CachesOK, CacheInv
  <1>1. ASSUME NEW r \in Request,
               \/ handle_root_acl(r) \/ handle_root_acls(r) \/ handle_root_grp(r) \/ handle_kinds_ns(r)
               \/ apply_kinds_tree(r) \/ handle_manifest_config_key(r)
        PROVE  CacheInv'
    <2>1. req = None /\ req'.pc = "mutate" /\ UNCHANGED <<caches, head, phase, boot, claim, lag, granted>>
      BY <1>1, RequestStarts
    <2>2. CachesStay /\ ~AtCache({"acl", "acls", "grp"}) /\ ~AtCache({"acl", "acls", "grp"})'
      BY <2>1 DEF CachesStay, caches, AtCache
    <2> QED BY <1>0, <2>1, <2>2, CacheFrame DEF QuietStart
  <1>2. ASSUME NEW r \in Request, set_daemon_config_key(r) PROVE CacheInv'
    BY <1>0, <1>2, CacheFrame DEF set_daemon_config_key, CachesStay, caches, QuietStart
  <1>3. CASE with_manifest_crud
    <2>1. /\ head \in Manifest /\ head' \in Manifest /\ req # None /\ req.pc = "mutate"
          /\ head' = Mutated(head, req) /\ req.op \in ManifestOps /\ Setting(req)
          /\ req.op = "acl" => req.val # None
          /\ req.op = "capacity" => req' = None
          /\ req.op # "capacity" =>
                req' # None /\ req'.pc = "cache" /\ req'.op = req.op /\ req'.key = req.key /\ req'.val = req.val
          /\ UNCHANGED <<acl, aclCache, groupCache, phase, boot, claim, lag, granted>>
      BY <1>3, MutationDone DEF caches
    <2>2. /\ head'.acl = IF req.op = "acl" THEN req.val ELSE head.acl
          /\ head'.acls = IF req.op = "acls" THEN [head.acls EXCEPT ![req.key] = req.val] ELSE head.acls
          /\ head'.grp = IF req.op = "grp" THEN [head.grp EXCEPT ![req.key] = req.val] ELSE head.grp
      BY <2>1, MutatedTypes
    <2>3. ~AtCache({"acl"}) /\ ~AtCache({"acls"}) /\ ~AtCache({"grp"}) /\ head # None
      BY <2>1, NoneAssumption DEF AtCache
    <2>4. /\ AtCache({"acl"})' <=> req.op = "acl"
          /\ AtCache({"acls"})' <=> req.op = "acls"
          /\ AtCache({"grp"})' <=> req.op = "grp"
      BY <2>1 DEF AtCache
    <2>5. QuietStart' /\ StartCaches'
      BY <1>0, <2>1 DEF QuietStart, StartCaches, Granted
    <2>6. RunAcls'
      BY <1>0, <2>1, <2>2, <2>3, <2>4 DEF RunAcls
    <2>7. RunGroups'
      BY <1>0, <2>1, <2>2, <2>3, <2>4 DEF RunGroups
    <2>8. RunAcl'
      <3>1. CASE req.op = "acl"
        BY <2>1, <2>2, <2>4, <3>1 DEF RunAcl
      <3>2. CASE req.op # "acl"
        BY <1>0, <2>1, <2>2, <2>3, <2>4, <3>2 DEF RunAcl, Granted
      <3> QED BY <3>1, <3>2
    <2> QED BY <2>5, <2>6, <2>7, <2>8 DEF CacheInv
  <1>4. CASE MutationFails \/ SetNewOwners
    <2>1. CachesStay /\ ~AtCache({"acl", "acls", "grp"}) /\ ~AtCache({"acl", "acls", "grp"})' /\ claim' = claim
      BY <1>4 DEF MutationFails, SetNewOwners, CachesStay, caches, AtCache
    <2> QED BY <1>0, <2>1, CacheFrame DEF QuietStart
  <1>5. CASE ReplaceRootAcl
    <2>1. AtCache({"acl"}) /\ req' = None /\ acl' = req.val /\ granted' = {}
             /\ UNCHANGED <<phase, boot, head, lag, aclCache, groupCache, claim>> /\ phase = "run" /\ head \in Manifest
      BY <1>0, <1>5 DEF ReplaceRootAcl, AtCache, ReqOK
    <2>2. ~AtCache({"acl"})' /\ ~AtCache({"acls"})' /\ ~AtCache({"grp"})' /\ ~AtCache({"acls"}) /\ ~AtCache({"grp"})
      BY <2>1 DEF AtCache
    <2>3. RunAcl'
      BY <1>0, <2>1, <2>2 DEF RunAcl, Granted
    <2>4. RunAcls' /\ RunGroups'
      BY <1>0, <2>1, <2>2 DEF RunAcls, RunGroups
    <2> QED BY <1>0, <2>1, <2>3, <2>4 DEF CacheInv, QuietStart, StartCaches
  <1>6. CASE UpdateAclCache
    <2>1. AtCache({"acls"}) /\ req' = None /\ aclCache' = [aclCache EXCEPT ![req.key] = req.val]
             /\ UNCHANGED <<phase, boot, head, lag, acl, groupCache, claim, granted>> /\ phase = "run"
      BY <1>0, <1>6 DEF UpdateAclCache, AtCache, ReqOK
    <2>2. ~AtCache({"acl"})' /\ ~AtCache({"acls"})' /\ ~AtCache({"grp"})' /\ ~AtCache({"acl"}) /\ ~AtCache({"grp"})
      BY <2>1 DEF AtCache
    <2>3. RunAcl'
      BY <1>0, <2>1, <2>2 DEF RunAcl, Granted
    <2>4. RunAcls' /\ RunGroups'
      BY <1>0, <2>1, <2>2 DEF RunAcls, RunGroups
    <2> QED BY <1>0, <2>1, <2>3, <2>4 DEF CacheInv, QuietStart, StartCaches
  <1>7. CASE group_cache_update
    <2>1. /\ AtCache({"grp"}) /\ phase = "run" /\ (req' = None \/ req'.pc # "cache")
          /\ \/ groupCache' = [groupCache EXCEPT ![req.key] = req.val] /\ lag' = lag
             \/ lag' = lag \cup {"grp"}
          /\ UNCHANGED <<phase, boot, head, acl, aclCache, claim, granted>>
      BY <1>0, <1>7 DEF group_cache_update, AtCache, ReqOK, InHand
    <2>2. ~AtCache({"acl"})' /\ ~AtCache({"acls"})' /\ ~AtCache({"grp"})' /\ ~AtCache({"acl"}) /\ ~AtCache({"acls"})
      BY <2>1 DEF AtCache
    <2>3. RunAcl'
      BY <1>0, <2>1, <2>2 DEF RunAcl, Granted
    <2>4. RunAcls' /\ RunGroups'
      BY <1>0, <2>1, <2>2 DEF RunAcls, RunGroups
    <2> QED BY <1>0, <2>1, <2>3, <2>4 DEF CacheInv, QuietStart, StartCaches
  <1>8. CASE GrantNewOwners
    <2> DEFINE o == members(groupCache)["owners"]
    <2>1. /\ ~AtCache({"acl"}) /\ ~AtCache({"acls"}) /\ ~AtCache({"grp"}) /\ phase = "run"
          /\ acl' = grant_owners_in_acl(acl, o) /\ granted' = granted \cup o
          /\ UNCHANGED <<phase, boot, head, lag, aclCache, groupCache, claim>>
      BY <1>0, <1>8 DEF GrantNewOwners, AtCache, ReqOK
    <2>2. ~AtCache({"acl"})' /\ ~AtCache({"acls"})' /\ ~AtCache({"grp"})'
      BY <1>0, <1>8 DEF GrantNewOwners, AtCache, ReqOK, InHand
    <2> HIDE DEF o
    <2>3. Granted(head) => (Granted(head))'
      BY <2>1, GrantsKeep DEF Granted
    <2>4. RunAcl'
      BY <1>0, <2>1, <2>2, <2>3 DEF RunAcl
    <2>5. RunAcls' /\ RunGroups'
      BY <1>0, <2>1, <2>2 DEF RunAcls, RunGroups
    <2> QED BY <1>0, <2>1, <2>4, <2>5 DEF CacheInv, QuietStart, StartCaches
  <1>9. CASE UpdateKindRegistry
    <2>1. /\ ~AtCache({"acl"}) /\ ~AtCache({"acls"}) /\ ~AtCache({"grp"}) /\ req' = None /\ phase = "run"
          /\ lag \subseteq lag' /\ lag' \subseteq lag \cup {"kinds"}
          /\ UNCHANGED <<phase, boot, head, acl, aclCache, groupCache, claim, granted>>
      BY <1>0, <1>9 DEF UpdateKindRegistry, AtCache, ReqOK
    <2>2. ~AtCache({"acl"})' /\ ~AtCache({"acls"})' /\ ~AtCache({"grp"})'
      BY <2>1 DEF AtCache
    <2>3. RunAcl'
      BY <1>0, <2>1, <2>2 DEF RunAcl, Granted
    <2>4. RunAcls' /\ RunGroups'
      BY <1>0, <2>1, <2>2 DEF RunAcls, RunGroups
    <2> QED BY <1>0, <2>1, <2>3, <2>4 DEF CacheInv, QuietStart, StartCaches
  <1>10. CASE CutOff
    <2>1. /\ req' = None /\ phase = "run" /\ lag \subseteq lag'
          /\ UNCHANGED <<phase, boot, head, acl, aclCache, groupCache, claim, granted>>
      BY <1>0, <1>10 DEF CutOff, caches, ReqOK
    <2>2. ~AtCache({"acl"})' /\ ~AtCache({"acls"})' /\ ~AtCache({"grp"})'
      BY <2>1 DEF AtCache
    <2>3. /\ AtCache({"acl"}) => "acl" \in lag'
          /\ AtCache({"acls"}) => "acls" \in lag'
          /\ AtCache({"grp"}) => "grp" \in lag'
      BY <1>10 DEF CutOff, AtCache
    <2>4. RunAcl'
      BY <1>0, <2>1, <2>2, <2>3 DEF RunAcl, Granted
    <2>5. RunAcls' /\ RunGroups'
      BY <1>0, <2>1, <2>2, <2>3 DEF RunAcls, RunGroups
    <2> QED BY <1>0, <2>1, <2>4, <2>5 DEF CacheInv, QuietStart, StartCaches
  <1> QED BY <1>1, <1>2, <1>3, <1>4, <1>5, <1>6, <1>7, <1>8, <1>9, <1>10 DEF CrudNext, CrudStep

(* Starts and stops: the caches are filled from the root the start found.  *)
LEMMA BootCaches == TypeInv /\ CacheInv /\ BootNext => CacheInv'
  <1> SUFFICES ASSUME TypeInv, CacheInv, BootNext PROVE CacheInv'
    OBVIOUS
  <1>0. /\ BootOK /\ ReqOK /\ QuietStart /\ StartCaches /\ RunAcls /\ RunGroups /\ RunAcl
        /\ acl \in AclMap /\ groupCache \in Groups /\ owners \subseteq Did
    BY DEF TypeInv, CachesOK, CacheInv
  \* Before the caches are filled nothing is claimed of them.
  <1>1. ASSUME phase \notin {"run", "closing", "finalize"}, UNCHANGED <<claim, granted>>,
               phase' \notin {"run", "closing", "owners", "finalize"}
        PROVE  CacheInv'
    BY <1>0, <1>1 DEF CacheInv, QuietStart, StartCaches, RunAcls, RunGroups, RunAcl
  <1>2. CASE \/ \E cli \in Cli : BootNew(cli)
             \/ select_root_cid \/ resolve_startup_root_cid \/ apply_kinds_overlay
             \/ materialise_plugin_envelope_queue_capacity \/ hydrate_kind_registry \/ KeyLost
    BY <1>1, <1>2 DEF KeyLost, BootNew, select_root_cid, resolve_startup_root_cid, apply_kinds_overlay,
                      materialise_plugin_envelope_queue_capacity, hydrate_kind_registry
  <1>3. CASE populate_acl_and_group_caches
    <2>1. PICK missing \in SUBSET {"acl", "acls", "grp"} :
            /\ acl' = IF boot.root # None /\ "acl" \notin missing THEN boot.root.acl ELSE acl
            /\ aclCache' = IF boot.root # None /\ "acls" \notin missing THEN boot.root.acls ELSE aclCache
            /\ groupCache' = IF boot.root # None /\ "grp" \notin missing THEN boot.root.grp ELSE groupCache
            /\ lag' = lag \cup missing
      BY <1>3 DEF populate_acl_and_group_caches
    <2>2. PICK o : boot' = [boot EXCEPT !.owners = o]
      BY <1>3 DEF populate_acl_and_group_caches
    <2>3. boot'.root = boot.root /\ phase = "acl" /\ phase' = "owners" /\ UNCHANGED <<claim, granted>>
      BY <1>0, <1>3, <2>2 DEF populate_acl_and_group_caches, BootOK
    <2>4. StartCaches'
      BY <2>1, <2>3 DEF StartCaches, Granted
    <2> QED BY <1>0, <2>3, <2>4 DEF CacheInv, QuietStart, RunAcls, RunGroups, RunAcl
  <1>4. CASE resolve_and_seed_owners
    <2>1. PICK o : acl' = grant_owners_in_acl(acl, o) /\ granted' = o
      BY <1>4 DEF resolve_and_seed_owners
    <2>2. /\ phase = "owners" /\ phase' = "finalize" /\ granted = {}
          /\ UNCHANGED <<boot, lag, aclCache, groupCache, claim>>
      BY <1>0, <1>4 DEF resolve_and_seed_owners, QuietStart
    <2>3. Granted(boot.root) => (Granted(boot.root))'
      BY <2>1, <2>2, GrantsKeep DEF Granted
    <2>4. StartCaches'
      BY <1>0, <2>2, <2>3 DEF StartCaches
    <2> QED BY <1>0, <2>2, <2>4 DEF CacheInv, QuietStart, RunAcls, RunGroups, RunAcl
  <1>5. CASE finalize_startup
    <2>1. /\ phase = "finalize" /\ phase' = "run" /\ boot' = NoBoot /\ req = None
          /\ UNCHANGED <<acl, aclCache, claim, granted, req>>
      BY <1>0, <1>5 DEF finalize_startup, ReqOK
    <2>2. ~AtCache({"acl"})' /\ ~AtCache({"acls"})' /\ ~AtCache({"grp"})'
      BY <2>1 DEF AtCache
    <2>3. CASE boot.root = None
      <3>1. head' = None
        BY <1>5, <2>3 DEF finalize_startup
      <3> QED BY <2>1, <3>1 DEF CacheInv, QuietStart, StartCaches, RunAcls, RunGroups, RunAcl
    <2>4. CASE boot.root # None
      <3>1. boot.root \in Manifest /\ lag \subseteq lag'
        BY <1>0, <1>5, <2>4 DEF BootOK, finalize_startup
      <3>2. head' \in Manifest /\ head'.acl = boot.root.acl /\ head'.acls = boot.root.acls
               /\ (boot.root.grp = groupCache => head'.grp = groupCache')
        <4>1. \/ /\ head' = [boot.root EXCEPT !.grp["owners"] = owners]
                 /\ groupCache' = [groupCache EXCEPT !["owners"] = owners]
              \/ head' = boot.root /\ groupCache' = groupCache
          BY <1>5 DEF finalize_startup
        <4> QED BY <1>0, <3>1, <4>1, OwnersAssumption DEF Manifest
      <3>3. RunAcls' /\ RunGroups'
        BY <1>0, <2>1, <2>2, <2>4, <3>1, <3>2 DEF StartCaches, RunAcls, RunGroups
      <3>4. RunAcl'
        BY <1>0, <2>1, <2>2, <2>4, <3>1, <3>2 DEF StartCaches, RunAcl, Granted
      <3> QED BY <2>1, <3>3, <3>4 DEF CacheInv, QuietStart, StartCaches
    <2> QED BY <2>3, <2>4
  <1>6. CASE ShutdownPersist
    BY <1>6 DEF ShutdownPersist, CacheInv, QuietStart, StartCaches, RunAcls, RunGroups, RunAcl
  <1>7. CASE ShutdownExit \/ Crash
    <2>1. Gone
      BY <1>7 DEF ShutdownExit, Crash
    <2>2. phase' = "down" /\ granted' = {} /\ \A c \in Claim : claim'[c].pc \in {"idle", "done"}
      BY <2>1 DEF Gone, NoClaim
    <2> QED BY <2>2 DEF CacheInv, QuietStart, StartCaches, RunAcls, RunGroups, RunAcl
  <1> QED BY <1>2, <1>3, <1>4, <1>5, <1>6, <1>7 DEF BootNext

(* The caches say what the manifest says. *)
LEMMA CacheInvariance == Spec => [](TypeInv /\ CacheInv)
  <1>1. Init => CacheInv
    BY DEF Init, NoClaim, CacheInv, QuietStart, StartCaches, RunAcls, RunGroups, RunAcl
  <1>2. TypeInv /\ CacheInv /\ [Next]_vars => CacheInv'
    <2>1. ASSUME CacheInv, UNCHANGED vars PROVE CacheInv'
      BY <2>1, CacheFrame DEF vars, CachesStay, CacheInv, QuietStart
    <2> QED BY <2>1, BootCaches, CrudCaches, ClaimCaches, PublishCaches DEF Next
  <1> QED BY <1>1, <1>2, InitTypes, NextTypes, PTL DEF Spec

(* Between requests every cache says what the manifest says, unless one of *)
(* its documents could not be loaded or its update was cut off.            *)
THEOREM CachesCorrect == Spec => []CachesCurrent
  <1>1. CacheInv => CachesCurrent
    <2>1. ASSUME CacheInv, AtRest, head # None PROVE CachesCurrent
      <3>1. phase = "run" /\ ~AtCache({"acl"}) /\ ~AtCache({"acls"}) /\ ~AtCache({"grp"})
        BY <2>1 DEF AtRest, Running, AtCache
      <3> QED BY <2>1, <3>1 DEF CacheInv, RunAcls, RunGroups, RunAcl, Granted, CachesCurrent
    <2> QED BY <2>1 DEF CachesCurrent
  <1> QED BY <1>1, CacheInvariance, PTL

-----------------------------------------------------------------------------
(***************************************************************************)
(* The owners.                                                             *)
(***************************************************************************)

\* The handler of a mutation of "+owners" has not got to the owners yet.
ReplacingOwners == req # None /\ req.op = "grp" /\ req.key = "owners" /\ req.pc # "mutate"

\* The start adds to the owners of the group it loaded.
StartOwners ==
    /\ phase \in {"owners", "finalize"} => boot.owners = members(groupCache)["owners"]
    /\ phase = "finalize" => boot.owners \subseteq owners

RunOwners ==
    (/\ phase = "run" /\ head # None /\ {"grp", "owners"} \cap lag = {}
     /\ \A c \in Claim : claim[c].pc = "idle"
     /\ ~ReplacingOwners) => owners = members(groupCache)["owners"]

OwnersInv == StartOwners /\ RunOwners

(* The owners are in the group that was given them. *)
LEMMA MembersSet ==
    ASSUME NEW groups \in Groups, NEW o \in SUBSET Did
    PROVE  members([groups EXCEPT !["owners"] = o])["owners"] = o
  BY OwnersAssumption, NoneAssumption DEF members, Groups

(* Another group is changed. *)
LEMMA MembersOther ==
    ASSUME NEW groups \in Groups, NEW g, g # "owners", NEW v
    PROVE  members([groups EXCEPT ![g] = v])["owners"] = members(groups)["owners"]
  BY OwnersAssumption DEF members, Groups

(* A step that touches neither the owners nor their group, and ends no     *)
(* replacement of theirs.                                                  *)
LEMMA OwnersFrame ==
    ASSUME OwnersInv, UNCHANGED <<phase, boot, head, owners>>, lag \subseteq lag',
           members(groupCache')["owners"] = members(groupCache)["owners"],
           ReplacingOwners => ReplacingOwners' \/ "grp" \in lag',
           \A c \in Claim : claim'[c].pc = "idle" => claim[c].pc = "idle"
    PROVE  OwnersInv'
  <1>1. StartOwners'
    BY DEF OwnersInv, StartOwners
  <1>2. RunOwners'
    BY DEF OwnersInv, RunOwners
  <1> QED BY <1>1, <1>2 DEF OwnersInv

(* A claim that came in. *)
LEMMA ClaimOwners == TypeInv /\ CacheInv /\ OwnersInv /\ ClaimNext => OwnersInv'
  <1> SUFFICES ASSUME TypeInv, CacheInv, OwnersInv, ClaimNext PROVE OwnersInv'
    OBVIOUS
  <1>1. PICK c \in Claim :
          \/ \E d \in Did : ClaimCheck(c, d)
          \/ ClaimSet(c) \/ ClaimGrant(c) \/ persist_owners_read(c) \/ persist_owners_to_config(c)
    BY DEF ClaimNext
  <1>2. ClaimsOK /\ QuietStart
    BY DEF TypeInv, CacheInv
  <1>3. claim'[c].pc # "idle"
    BY <1>1, <1>2 DEF ClaimsOK, ClaimCheck, ClaimSet, ClaimGrant, persist_owners_read, persist_owners_to_config
  <1>4. phase' = phase /\ phase \in {"run", "closing"}
    BY <1>1, <1>2 DEF QuietStart, ClaimCheck, Serving, ClaimSet, ClaimGrant, persist_owners_read, persist_owners_to_config
  <1> QED BY <1>3, <1>4 DEF OwnersInv, StartOwners, RunOwners

(* Publications. *)
LEMMA PublishOwners == OwnersInv /\ (RepublishNext \/ RootNext) => OwnersInv'
  <1> SUFFICES ASSUME OwnersInv, RepublishNext \/ RootNext PROVE OwnersInv'
    OBVIOUS
  <1>1. UNCHANGED <<phase, boot, head, owners, lag, groupCache, req, claim>>
    BY DEF RepublishNext, RootNext, RepublishTick, publish_current_root, PublishFails, RepublishPersists,
           handle_root_publish, PublishRequestedRoot, caches
  <1> QED BY <1>1, OwnersFrame DEF ReplacingOwners

(* CRUD requests: the group, then its grants, then the owners. *)
LEMMA CrudOwners == TypeInv /\ OwnersInv /\ CrudNext => OwnersInv'
  <1> SUFFICES ASSUME TypeInv, OwnersInv, CrudNext PROVE OwnersInv'
    OBVIOUS
  <1>0. ReqOK /\ groupCache \in Groups /\ StartOwners /\ RunOwners
    BY DEF TypeInv, CachesOK, OwnersInv
  <1>1. ASSUME NEW r \in Request,
               \/ handle_root_acl(r) \/ handle_root_acls(r) \/ handle_root_grp(r) \/ handle_kinds_ns(r)
               \/ apply_kinds_tree(r) \/ handle_manifest_config_key(r)
        PROVE  OwnersInv'
    <2>1. req = None /\ UNCHANGED <<groupCache, head, owners, phase, boot, claim, lag>>
      BY <1>1, RequestStarts DEF caches
    <2> QED BY <2>1, OwnersFrame DEF ReplacingOwners
  <1>2. ASSUME NEW r \in Request, set_daemon_config_key(r) PROVE OwnersInv'
    BY <1>2, OwnersFrame DEF set_daemon_config_key, caches, ReplacingOwners
  <1>3. CASE with_manifest_crud
    <2>1. /\ req # None /\ req.pc = "mutate" /\ head \in Manifest
          /\ req.op = "grp" => req' # None /\ req'.pc = "cache" /\ req'.op = req.op /\ req'.key = req.key
          /\ req.op # "grp" => req' = None \/ req'.op = req.op
          /\ UNCHANGED <<groupCache, owners, phase, boot, claim, lag>>
      BY <1>3, MutationDone DEF caches
    <2>2. ~ReplacingOwners /\ head # None
      BY <2>1, NoneAssumption DEF ReplacingOwners
    <2> QED BY <1>0, <2>1, <2>2 DEF OwnersInv, StartOwners, RunOwners
  <1>4. CASE MutationFails
    BY <1>4, OwnersFrame DEF MutationFails, caches, ReplacingOwners
  <1>5. CASE ReplaceRootAcl \/ UpdateAclCache
    BY <1>5, OwnersFrame DEF ReplaceRootAcl, UpdateAclCache, ReplacingOwners
  <1>6. CASE UpdateKindRegistry
    BY <1>6, OwnersFrame DEF UpdateKindRegistry, ReplacingOwners
  <1>7. CASE group_cache_update
    <2>1. req # None /\ req.op = "grp" /\ UNCHANGED <<phase, boot, head, owners, claim>> /\ lag \subseteq lag'
             /\ (groupCache' = groupCache \/ groupCache' = [groupCache EXCEPT ![req.key] = req.val])
      BY <1>7 DEF group_cache_update
    <2>2. CASE req.key # "owners"
      <3>1. members(groupCache')["owners"] = members(groupCache)["owners"]
        BY <1>0, <2>1, <2>2, MembersOther
      <3> QED BY <2>1, <2>2, <3>1, OwnersFrame DEF ReplacingOwners
    <2>3. CASE req.key = "owners"
      <3>1. phase = "run" /\ head' \in Manifest /\ req.changed \in SUBSET Protocol
        BY <1>0, <2>1 DEF ReqOK
      <3>2. req' = [req EXCEPT !.pc = "grant", !.changed = req.changed]
        BY <1>0, <1>7, <2>1, <2>3 DEF group_cache_update, ReqOK
      <3>3. req' # None
        BY <1>0, <2>1, <2>3, <3>1, <3>2, RequestGoesOn
      <3>4. req'.op = "grp" /\ req'.key = "owners" /\ req'.pc = "grant"
        BY <1>0, <2>1, <2>3, <3>2 DEF ReqOK, InHand
      <3>5. ReplacingOwners'
        BY <3>3, <3>4 DEF ReplacingOwners
      <3> QED BY <2>1, <3>1, <3>5 DEF OwnersInv, StartOwners, RunOwners
    <2> QED BY <2>2, <2>3
  <1>8. CASE GrantNewOwners
    <2>1. req # None /\ req.op = "grp" /\ req.key = "owners" /\ UNCHANGED <<phase, boot, head, owners, claim, lag, groupCache>>
             /\ phase = "run" /\ head' \in Manifest /\ req.changed \in SUBSET Protocol
      BY <1>0, <1>8 DEF GrantNewOwners, ReqOK
    <2>2. req' = [req EXCEPT !.pc = "owners", !.changed = req.changed]
      BY <1>0, <1>8, <2>1 DEF GrantNewOwners, ReqOK
    <2>3. req' # None
      BY <1>0, <2>1, <2>2, RequestGoesOn
    <2>4. req'.op = "grp" /\ req'.key = "owners" /\ req'.pc = "owners"
      BY <1>0, <2>1, <2>2 DEF ReqOK, InHand
    <2> QED BY <2>1, <2>3, <2>4, OwnersFrame DEF ReplacingOwners
  <1>9. CASE SetNewOwners
    <2>1. phase = "run" /\ UNCHANGED <<phase, groupCache>> /\ owners' = members(groupCache)["owners"]
      BY <1>0, <1>9 DEF SetNewOwners, caches, ReqOK
    <2> QED BY <2>1 DEF OwnersInv, StartOwners, RunOwners
  <1>10. CASE CutOff
    <2>1. UNCHANGED <<phase, boot, head, owners, claim, groupCache>> /\ lag \subseteq lag'
      BY <1>10 DEF CutOff, caches
    <2>2. ReplacingOwners => "grp" \in lag'
      BY <1>10 DEF CutOff, ReplacingOwners
    <2> QED BY <2>1, <2>2, OwnersFrame
  <1> QED BY <1>1, <1>2, <1>3, <1>4, <1>5, <1>6, <1>7, <1>8, <1>9, <1>10 DEF CrudNext, CrudStep

(* Starts and stops: the owners of the configuration, the command line and *)
(* the group are reconciled into the group.                                *)
LEMMA BootOwners == TypeInv /\ OwnersInv /\ BootNext => OwnersInv'
  <1> SUFFICES ASSUME TypeInv, OwnersInv, BootNext PROVE OwnersInv'
    OBVIOUS
  <1>0. BootOK /\ groupCache \in Groups /\ owners \in SUBSET Did /\ StartOwners /\ RunOwners
    BY DEF TypeInv, CachesOK, OwnersInv
  <1>1. ASSUME phase' \notin {"owners", "finalize", "run"} PROVE OwnersInv'
    BY <1>1 DEF OwnersInv, StartOwners, RunOwners
  <1>2. CASE \/ \E cli \in Cli : BootNew(cli)
             \/ select_root_cid \/ resolve_startup_root_cid \/ apply_kinds_overlay
             \/ materialise_plugin_envelope_queue_capacity \/ hydrate_kind_registry
             \/ ShutdownPersist \/ ShutdownExit \/ Crash \/ KeyLost
    BY <1>1, <1>2 DEF KeyLost, BootNew, select_root_cid, resolve_startup_root_cid, apply_kinds_overlay,
                      materialise_plugin_envelope_queue_capacity, hydrate_kind_registry, ShutdownPersist,
                      ShutdownExit, Crash, Gone
  <1>3. CASE populate_acl_and_group_caches
    <2>1. phase' = "owners" /\ boot' = [boot EXCEPT !.owners = members(groupCache')["owners"]]
      BY <1>3 DEF populate_acl_and_group_caches
    <2>2. boot'.owners = members(groupCache')["owners"]
      BY <1>0, <2>1 DEF BootOK
    <2> QED BY <2>1, <2>2 DEF OwnersInv, StartOwners, RunOwners
  <1>4. CASE resolve_and_seed_owners
    BY <1>0, <1>4 DEF resolve_and_seed_owners, OwnersInv, StartOwners, RunOwners
  <1>5. CASE finalize_startup
    <2>1. phase = "finalize" /\ phase' = "run" /\ owners' = owners
      BY <1>5 DEF finalize_startup
    <2>2. CASE owners \subseteq boot.owners
      <3>1. owners = members(groupCache)["owners"]
        BY <1>0, <2>1, <2>2 DEF StartOwners
      <3>2. groupCache' = groupCache
        BY <1>5, <2>2 DEF finalize_startup
      <3> QED BY <2>1, <3>1, <3>2 DEF OwnersInv, StartOwners, RunOwners
    <2>3. CASE ~(owners \subseteq boot.owners)
      <3>1. CASE groupCache' = [groupCache EXCEPT !["owners"] = owners]
        <4>1. members(groupCache')["owners"] = owners
          BY <1>0, <3>1, MembersSet
        <4> QED BY <2>1, <4>1 DEF OwnersInv, StartOwners, RunOwners
      <3>2. CASE groupCache' # [groupCache EXCEPT !["owners"] = owners]
        <4>1. "owners" \in lag'
          BY <1>5, <2>3, <3>2 DEF finalize_startup
        <4> QED BY <2>1, <4>1 DEF OwnersInv, StartOwners, RunOwners
      <3> QED BY <3>1, <3>2
    <2> QED BY <2>2, <2>3
  <1> QED BY <1>2, <1>3, <1>4, <1>5 DEF BootNext

(* Between requests the owners the bypass knows, the members of "+owners"  *)
(* and the manifest's owners are the same, unless a claim came in or a     *)
(* load, the reconciliation or a cut-off left the group behind.            *)
THEOREM OwnersCorrect == Spec => []OwnersAgree
  <1>1. Init => OwnersInv
    BY DEF Init, OwnersInv, StartOwners, RunOwners
  <1>2. TypeInv /\ CacheInv /\ OwnersInv /\ [Next]_vars => OwnersInv'
    <2>1. ASSUME OwnersInv, UNCHANGED vars PROVE OwnersInv'
      BY <2>1, OwnersFrame DEF vars, ReplacingOwners
    <2> QED BY <2>1, BootOwners, CrudOwners, ClaimOwners, PublishOwners DEF Next
  <1>3. CacheInv /\ OwnersInv => OwnersAgree
    <2> SUFFICES ASSUME CacheInv, OwnersInv, AtRest, head # None, {"grp", "owners"} \cap lag = {},
                        \A c \in Claim : claim[c].pc = "idle"
                 PROVE  owners = members(groupCache)["owners"] /\ owners = members(head.grp)["owners"]
      BY DEF OwnersAgree
    <2>1. phase = "run" /\ ~AtCache({"grp"}) /\ ~ReplacingOwners /\ "grp" \notin lag
      BY DEF AtRest, Running, AtCache, ReplacingOwners
    <2>2. head.grp = groupCache
      BY <2>1 DEF CacheInv, RunGroups
    <2>3. owners = members(groupCache)["owners"]
      BY <2>1 DEF OwnersInv, RunOwners
    <2> QED BY <2>2, <2>3
  <1> QED BY <1>1, <1>2, <1>3, CacheInvariance, PTL DEF Spec

-----------------------------------------------------------------------------
(***************************************************************************)
(* The registry of kinds.                                                  *)
(***************************************************************************)

\* Every kind but those in `stale' is registered as it resolves.
Registered(kinds, stale) ==
    \A p \in Protocol \ stale : kinds[p] # None =>
        resolve_kind_extends(kinds, kinds[p]) \in {Unresolved, kindRegistry[p]}

StartKinds ==
    phase \in {"acl", "owners", "finalize"} /\ boot.root # None /\ "kinds" \notin lag =>
        Registered(boot.root.kinds, {})

\* Between the mutation and the update of the registry only the kinds that
\* depend on what changed are stale.
RunKinds ==
    phase = "run" /\ head # None /\ "kinds" \notin lag =>
        Registered(head.kinds, IF AtCache({"kind", "kinds"}) THEN affected_kind_protocols_for(req.changed, head.kinds)
                               ELSE {})

\* The handler of one kind changes that one; after its deletion it is gone.
KindInHand ==
    req # None /\ req.op = "kind" =>
        req.changed = {req.key} /\ (req.pc = "cache" /\ req.val = None => head.kinds[req.key] = None)

KindsInv == StartKinds /\ RunKinds /\ KindInHand

(* A step that touches neither the kinds nor their registry. *)
LEMMA KindsFrame ==
    ASSUME KindsInv, UNCHANGED <<phase, head, kindRegistry>>, boot'.root = boot.root, lag \subseteq lag',
           \/ req' = req
           \/ (~AtCache({"kind", "kinds"}) \/ "kinds" \in lag') /\ ~AtCache({"kind", "kinds"})' /\ KindInHand'
    PROVE  KindsInv'
  <1>1. StartKinds'
    BY DEF KindsInv, StartKinds, Registered
  <1>2. RunKinds' /\ KindInHand'
    <2>1. CASE req' = req
      BY <2>1 DEF KindsInv, RunKinds, KindInHand, Registered, AtCache
    <2>2. CASE req' # req
      <3>1. (~AtCache({"kind", "kinds"}) \/ "kinds" \in lag') /\ ~AtCache({"kind", "kinds"})' /\ KindInHand'
        BY <2>2
      <3>2. RunKinds'
        BY <3>1 DEF KindsInv, RunKinds, Registered
      <3> QED BY <3>1, <3>2
    <2> QED BY <2>1, <2>2
  <1> QED BY <1>1, <1>2 DEF KindsInv

(* Claims and publications. *)
LEMMA OthersKinds == KindsInv /\ (ClaimNext \/ RepublishNext \/ RootNext) => KindsInv'
  <1> SUFFICES ASSUME KindsInv, ClaimNext \/ RepublishNext \/ RootNext PROVE KindsInv'
    OBVIOUS
  <1>1. UNCHANGED <<phase, boot, head, lag, kindRegistry, req>>
    BY DEF RepublishNext, RootNext, RepublishTick, publish_current_root, PublishFails, RepublishPersists,
           handle_root_publish, PublishRequestedRoot, caches,
           ClaimNext, ClaimCheck, ClaimSet, ClaimGrant, persist_owners_read, persist_owners_to_config
  <1> QED BY <1>1, KindsFrame

(* The mutation of the manifest: what it leaves registered as before is    *)
(* what does not depend on the kinds it changes.                           *)
LEMMA MutationKinds ==
    ASSUME TypeInv, KindsInv, with_manifest_crud PROVE KindsInv'
  <1>1. /\ head \in Manifest /\ head' \in Manifest /\ req # None /\ req.pc = "mutate"
        /\ head' = Mutated(head, req) /\ req.op \in ManifestOps /\ Setting(req)
        /\ req.op = "acl" => req.val # None
        /\ req.op = "capacity" => req' = None
        /\ req.op # "capacity" =>
              /\ req' # None /\ req'.pc = "cache" /\ req'.op = req.op /\ req'.key = req.key /\ req'.val = req.val
              /\ req'.changed = IF req.op = "kinds" THEN changed_protocols(head.kinds, req.val) ELSE req.changed
        /\ UNCHANGED <<kindRegistry, phase, boot, lag>>
    BY MutationDone DEF caches
  <1>2. head'.kinds = IF req.op = "kind" THEN [head.kinds EXCEPT ![req.key] = req.val]
                      ELSE IF req.op = "kinds" THEN overlaid(head.kinds, req.val) ELSE head.kinds
    BY <1>1, MutatedTypes
  <1>3. head.kinds \in KindTree /\ head'.kinds \in KindTree /\ head # None /\ ~AtCache({"kind", "kinds"})
    BY <1>1, NoneAssumption DEF Manifest, AtCache
  <1>4. phase = "run"
    BY <1>1 DEF TypeInv, ReqOK
  <1>5. StartKinds'
    BY <1>1, <1>4 DEF StartKinds
  <1>6. "kinds" \notin lag => Registered(head.kinds, {})
    BY <1>3, <1>4 DEF KindsInv, RunKinds
  <1>7. KindInHand'
    <2>1. CASE req.op = "kind"
      <3>1. req.changed = {req.key} /\ req.key \in Protocol
        BY <1>1, <2>1 DEF KindsInv, KindInHand, Setting
      <3>2. head'.kinds[req.key] = req.val
        BY <1>2, <1>3, <2>1, <3>1 DEF KindTree
      <3> QED BY <1>1, <2>1, <3>1, <3>2 DEF KindInHand
    <2>2. CASE req.op # "kind"
      BY <1>1, <2>2 DEF KindInHand
    <2> QED BY <2>1, <2>2
  <1>8. RunKinds'
    <2>1. CASE req.op \notin {"kind", "kinds"}
      <3>1. ~AtCache({"kind", "kinds"})' /\ head'.kinds = head.kinds
        BY <1>1, <1>2, <2>1 DEF AtCache
      <3> QED BY <1>1, <1>6, <3>1 DEF RunKinds, Registered
    <2>2. CASE req.op \in {"kind", "kinds"}
      <3>1. AtCache({"kind", "kinds"})'
        BY <1>1, <2>2 DEF AtCache
      <3>2. PICK U \in SUBSET Protocol : U = req'.changed
        <4>1. CASE req.op = "kind"
          BY <1>1, <4>1 DEF KindsInv, KindInHand, Setting
        <4>2. CASE req.op = "kinds"
          BY <1>1, <4>2 DEF changed_protocols
        <4> QED BY <2>2, <4>1, <4>2
      <3>3. \A q \in Protocol \ U : head'.kinds[q] = head.kinds[q]
        <4>1. CASE req.op = "kind"
          <5>1. U = {req.key}
            BY <1>1, <3>2, <4>1 DEF KindsInv, KindInHand
          <5> QED BY <1>2, <1>3, <4>1, <5>1 DEF KindTree
        <4>2. CASE req.op = "kinds"
          <5>1. U = changed_protocols(head.kinds, req.val)
            BY <1>1, <3>2, <4>2
          <5> QED BY <1>2, <4>2, <5>1 DEF overlaid, changed_protocols
        <4> QED BY <2>2, <4>1, <4>2
      <3>4. ASSUME "kinds" \notin lag, NEW p \in Protocol, p \notin affected_kind_protocols_for(U, head'.kinds),
                   head'.kinds[p] # None
            PROVE  resolve_kind_extends(head'.kinds, head'.kinds[p]) \in {Unresolved, kindRegistry'[p]}
        <4>1. /\ head'.kinds[p] = head.kinds[p]
              /\ resolve_kind_extends(head'.kinds, head'.kinds[p]) = resolve_kind_extends(head.kinds, head.kinds[p])
          BY <1>3, <3>3, <3>4, UnaffectedResolves
        <4> QED BY <1>1, <1>6, <3>4, <4>1 DEF Registered
      <3> QED BY <1>1, <3>1, <3>2, <3>4 DEF RunKinds, Registered
    <2> QED BY <2>1, <2>2
  <1> QED BY <1>5, <1>7, <1>8 DEF KindsInv

(* The registry is brought up to date: what still resolves is resolved     *)
(* again, and nothing that depends on a deleted kind does.                 *)
LEMMA UpdateKinds ==
    ASSUME TypeInv, KindsInv, UpdateKindRegistry PROVE KindsInv'
  <1> DEFINE kinds == head.kinds
             affected == affected_kind_protocols_for(req.changed, kinds)
             entered == IF req.op = "kind" THEN [kindRegistry EXCEPT ![req.key] = req.loaded] ELSE kindRegistry
             deleted == req.op = "kind" /\ req.val = None
  <1>1. /\ req # None /\ req.pc = "cache" /\ req.op \in {"kind", "kinds"} /\ phase = "run" /\ head \in Manifest
        /\ req.changed \subseteq Protocol /\ Setting(req) /\ kindRegistry \in [Protocol -> Resolved]
    BY DEF UpdateKindRegistry, TypeInv, ReqOK, CachesOK
  <1>2. kinds \in KindTree /\ head # None /\ AtCache({"kind", "kinds"})
    BY <1>1, NoneAssumption DEF Manifest, AtCache
  <1>3. req' = None /\ UNCHANGED <<phase, head, boot>>
    BY DEF UpdateKindRegistry
  <1>4. /\ req.op = "kind" => req.key \in Protocol /\ req.changed = {req.key}
        /\ deleted => kinds[req.key] = None
    BY <1>1 DEF KindsInv, KindInHand, Setting
  <1>5. CASE "kinds" \in lag'
    BY <1>1, <1>3, <1>5 DEF KindsInv, StartKinds, RunKinds, KindInHand
  <1>6. CASE "kinds" \notin lag'
    <2>1. /\ kindRegistry' = IF deleted \/ req.changed = {} THEN entered
                             ELSE hydrate_affected_kind_registry(entered, kinds, affected)
          /\ lag' = lag
      BY <1>6 DEF UpdateKindRegistry
    <2>2. Registered(kinds, affected)
      BY <1>1, <1>2, <1>6, <2>1 DEF KindsInv, RunKinds
    <2>3. ASSUME NEW p \in Protocol, kinds[p] # None
          PROVE  resolve_kind_extends(kinds, kinds[p]) \in {Unresolved, kindRegistry'[p]}
      <3>1. CASE p \notin affected
        <4>1. p \notin req.changed
          BY <3>1 DEF affected_kind_protocols_for
        <4>2. entered[p] = kindRegistry[p]
          BY <1>1, <1>4, <4>1
        <4>3. kindRegistry'[p] = kindRegistry[p]
          <5> HIDE DEF entered, affected, deleted
          <5> QED BY <2>1, <3>1, <4>2 DEF hydrate_affected_kind_registry
        <4> HIDE DEF affected, kinds
        <4> QED BY <2>2, <2>3, <3>1, <4>3 DEF Registered
      <3>2. CASE p \in affected /\ deleted
        <4>1. p \in affected_kind_protocols_for({req.key}, kinds) /\ kinds[req.key] = None /\ req.key \in Protocol
          BY <1>4, <3>2
        <4>2. resolve_kind_extends(kinds, kinds[p]) = Unresolved
          <5> HIDE DEF kinds
          <5> QED BY <1>2, <2>3, <4>1, DeletedBreaks
        <4> QED BY <4>2
      <3>3. CASE p \in affected /\ ~deleted /\ req.changed = {}
        BY <3>3 DEF affected_kind_protocols_for
      <3>4. CASE p \in affected /\ ~deleted /\ req.changed # {}
        <4>1. kindRegistry' = hydrate_affected_kind_registry(entered, kinds, affected) /\ p \in affected
          BY <2>1, <3>4
        <4> HIDE DEF entered, affected, deleted, kinds
        <4> QED BY <2>3, <4>1 DEF hydrate_affected_kind_registry
      <3> QED BY <3>1, <3>2, <3>3, <3>4
    <2>4. ~AtCache({"kind", "kinds"})' /\ KindInHand'
      BY <1>3 DEF AtCache, KindInHand
    <2>5. RunKinds'
      BY <1>3, <2>3, <2>4 DEF RunKinds, Registered
    <2>6. StartKinds'
      BY <1>1, <1>3 DEF StartKinds
    <2> QED BY <2>4, <2>5, <2>6 DEF KindsInv
  <1> QED BY <1>5, <1>6

(* CRUD requests. *)
LEMMA CrudKinds == TypeInv /\ KindsInv /\ CrudNext => KindsInv'
  <1> SUFFICES ASSUME TypeInv, KindsInv, CrudNext PROVE KindsInv'
    OBVIOUS
  <1>0. ReqOK
    BY DEF TypeInv
  <1>1. ASSUME NEW r \in Request,
               \/ handle_root_acl(r) \/ handle_root_acls(r) \/ handle_root_grp(r) \/ handle_kinds_ns(r)
               \/ apply_kinds_tree(r) \/ handle_manifest_config_key(r)
        PROVE  KindsInv'
    <2>1. /\ req = None /\ req'.pc = "mutate" /\ req'.op = r.op /\ req'.key = r.key
          /\ UNCHANGED <<kindRegistry, head, phase, boot, lag>>
      BY <1>1, RequestStarts DEF caches
    <2>2. KindInHand'
      <3>1. CASE handle_kinds_ns(r)
        <4>1. req'.changed = {r.key}
          BY <3>1 DEF handle_kinds_ns, decode_crud_payload, InHand
        <4> QED BY <2>1, <4>1 DEF KindInHand
      <3>2. CASE ~handle_kinds_ns(r)
        <4>1. r.op # "kind"
          BY <1>1, <3>2 DEF handle_root_acl, handle_root_acls, handle_root_grp, apply_kinds_tree, handle_manifest_config_key
        <4> QED BY <2>1, <4>1 DEF KindInHand
      <3> QED BY <3>1, <3>2
    <2>3. ~AtCache({"kind", "kinds"}) /\ ~AtCache({"kind", "kinds"})'
      BY <2>1 DEF AtCache
    <2> QED BY <2>1, <2>2, <2>3, KindsFrame
  <1>2. ASSUME NEW r \in Request, set_daemon_config_key(r) PROVE KindsInv'
    BY <1>2, KindsFrame DEF set_daemon_config_key, caches
  <1>3. CASE MutationFails \/ ReplaceRootAcl \/ UpdateAclCache \/ SetNewOwners
    <2>1. /\ req' = None /\ UNCHANGED <<kindRegistry, head, phase, boot, lag>>
          /\ ~AtCache({"kind", "kinds"})
      BY <1>0, <1>3 DEF MutationFails, ReplaceRootAcl, UpdateAclCache, SetNewOwners, caches, AtCache
    <2>2. ~AtCache({"kind", "kinds"})' /\ KindInHand'
      BY <2>1 DEF AtCache, KindInHand
    <2> QED BY <2>1, <2>2, KindsFrame
  <1>4. CASE group_cache_update \/ GrantNewOwners
    <2>1. /\ req.op = "grp" /\ UNCHANGED <<kindRegistry, head, phase, boot>> /\ lag \subseteq lag'
      BY <1>0, <1>4 DEF group_cache_update, GrantNewOwners, ReqOK
    <2>2. req' = None \/ req'.op = "grp"
      BY <1>0, <1>4, <2>1 DEF group_cache_update, GrantNewOwners, ReqOK, InHand
    <2>3. ~AtCache({"kind", "kinds"}) /\ ~AtCache({"kind", "kinds"})' /\ KindInHand'
      BY <2>1, <2>2 DEF AtCache, KindInHand
    <2> QED BY <2>1, <2>3, KindsFrame
  <1>5. CASE CutOff
    <2>1. req' = None /\ UNCHANGED <<kindRegistry, head, phase, boot>> /\ lag \subseteq lag'
      BY <1>5 DEF CutOff, caches
    <2>2. ~AtCache({"kind", "kinds"}) \/ "kinds" \in lag'
      BY <1>5 DEF CutOff, AtCache
    <2>3. ~AtCache({"kind", "kinds"})' /\ KindInHand'
      BY <2>1 DEF AtCache, KindInHand
    <2> QED BY <2>1, <2>2, <2>3, KindsFrame
  <1> QED BY <1>1, <1>2, <1>3, <1>4, <1>5, MutationKinds, UpdateKinds DEF CrudNext, CrudStep

(* Starts and stops: the registry is hydrated from the root the start found. *)
LEMMA BootKinds == TypeInv /\ KindsInv /\ BootNext => KindsInv'
  <1> SUFFICES ASSUME TypeInv, KindsInv, BootNext PROVE KindsInv'
    OBVIOUS
  <1>0. BootOK /\ ReqOK /\ StartKinds
    BY DEF TypeInv, KindsInv
  <1>1. ASSUME phase' \notin {"acl", "owners", "finalize", "run"}, req' = None PROVE KindsInv'
    BY <1>1 DEF KindsInv, StartKinds, RunKinds, KindInHand
  <1>2. CASE \/ \E cli \in Cli : BootNew(cli)
             \/ select_root_cid \/ resolve_startup_root_cid \/ apply_kinds_overlay
             \/ materialise_plugin_envelope_queue_capacity
             \/ ShutdownPersist \/ ShutdownExit \/ Crash \/ KeyLost
    <2>1. phase' \notin {"acl", "owners", "finalize", "run"}
      BY <1>2 DEF KeyLost, BootNew, select_root_cid, resolve_startup_root_cid, apply_kinds_overlay,
                  materialise_plugin_envelope_queue_capacity, ShutdownPersist, ShutdownExit, Crash, Gone
    <2>2. req' = None
      BY <1>0, <1>2 DEF ReqOK, KeyLost, BootNew, select_root_cid, resolve_startup_root_cid, apply_kinds_overlay,
                  materialise_plugin_envelope_queue_capacity, ShutdownPersist, ShutdownExit, Crash, Gone
    <2> QED BY <1>1, <2>1, <2>2
  <1>3. CASE hydrate_kind_registry
    <2>1. phase' = "acl" /\ UNCHANGED boot /\ req' = None
      BY <1>0, <1>3 DEF hydrate_kind_registry, ReqOK
    <2>2. StartKinds'
      <3> SUFFICES ASSUME boot.root # None, "kinds" \notin lag'
                   PROVE  \A p \in Protocol : boot.root.kinds[p] # None =>
                            resolve_kind_extends(boot.root.kinds, boot.root.kinds[p]) \in {Unresolved, kindRegistry'[p]}
        BY <2>1 DEF StartKinds, Registered
      <3>1. kindRegistry' = hydrate_affected_kind_registry(kindRegistry, boot.root.kinds, Protocol)
        BY <1>3 DEF hydrate_kind_registry
      <3> QED BY <3>1 DEF hydrate_affected_kind_registry
    <2> QED BY <2>1, <2>2 DEF KindsInv, RunKinds, KindInHand
  <1>4. CASE populate_acl_and_group_caches \/ resolve_and_seed_owners
    <2>1. /\ phase \in {"acl", "owners"} /\ phase' \in {"owners", "finalize"} /\ lag \subseteq lag'
          /\ req' = None /\ kindRegistry' = kindRegistry
      BY <1>0, <1>4 DEF populate_acl_and_group_caches, resolve_and_seed_owners, ReqOK
    <2>2. \/ boot' = boot
          \/ \E o : boot' = [boot EXCEPT !.owners = o]
      BY <1>4 DEF populate_acl_and_group_caches, resolve_and_seed_owners
    <2>3. boot'.root = boot.root
      BY <1>0, <2>2 DEF BootOK
    <2>4. StartKinds'
      BY <1>0, <2>1, <2>3 DEF StartKinds, Registered
    <2> QED BY <2>1, <2>4 DEF KindsInv, RunKinds, KindInHand
  <1>5. CASE finalize_startup
    <2>1. phase = "finalize" /\ phase' = "run" /\ lag \subseteq lag' /\ req' = None /\ kindRegistry' = kindRegistry
      BY <1>0, <1>5 DEF finalize_startup, ReqOK
    <2>2. CASE boot.root = None
      <3>1. head' = None
        BY <1>5, <2>2 DEF finalize_startup
      <3> QED BY <2>1, <3>1 DEF KindsInv, StartKinds, RunKinds, KindInHand
    <2>3. CASE boot.root # None
      <3>1. boot.root \in Manifest
        BY <1>0, <2>3 DEF BootOK
      <3>2. head' = boot.root \/ head' = [boot.root EXCEPT !.grp["owners"] = owners]
        BY <1>5 DEF finalize_startup
      <3>3. head'.kinds = boot.root.kinds
        BY <3>1, <3>2 DEF Manifest
      <3>4. ~AtCache({"kind", "kinds"})'
        BY <2>1 DEF AtCache
      <3>5. RunKinds'
        BY <1>0, <2>1, <2>3, <3>3, <3>4 DEF StartKinds, RunKinds, Registered
      <3> QED BY <2>1, <3>5 DEF KindsInv, StartKinds, KindInHand
    <2> QED BY <2>2, <2>3
  <1> QED BY <1>2, <1>3, <1>4, <1>5 DEF BootNext

(* Between requests every kind that resolves in the manifest is registered *)
(* as it resolves there, however long the chains of `extends', through     *)
(* updates of its bases, overlays, deletions and cycles.                   *)
THEOREM KindsCorrect == Spec => []KindsCurrent
  <1>1. Init => KindsInv
    BY DEF Init, KindsInv, StartKinds, RunKinds, KindInHand
  <1>2. TypeInv /\ KindsInv /\ [Next]_vars => KindsInv'
    <2>1. ASSUME KindsInv, UNCHANGED vars PROVE KindsInv'
      BY <2>1, KindsFrame DEF vars
    <2> QED BY <2>1, BootKinds, CrudKinds, OthersKinds DEF Next
  <1>3. KindsInv => KindsCurrent
    <2>1. ASSUME KindsInv, AtRest, head # None, "kinds" \notin lag PROVE KindsCurrent
      <3>1. phase = "run" /\ ~AtCache({"kind", "kinds"})
        BY <2>1 DEF AtRest, Running, AtCache
      <3> QED BY <2>1, <3>1 DEF KindsInv, RunKinds, Registered, KindsCurrent
    <2> QED BY <2>1 DEF KindsCurrent
  <1> QED BY <1>1, <1>2, <1>3, InitTypes, NextTypes, PTL DEF Spec

=============================================================================
