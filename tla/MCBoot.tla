------------------------------- MODULE MCBoot -------------------------------
(***************************************************************************)
(* Boot with two principals, two groups and three kinds.                   *)
(***************************************************************************)
EXTENDS Boot

CONSTANTS alice, bob, base, mid, leaf, b1, b2

(* ACL documents: the owners group only; bob restricted; bob excluded.     *)
OwnersOnly == [EmptyAcl EXCEPT !["owners"] = "allow"]
LessForBob == [EmptyAcl EXCEPT ![Wildcard] = "allow", ![bob] = "other"]
NotBob == [EmptyAcl EXCEPT ![Wildcard] = "allow", ![bob] = "deny"]

Kind(behaviour, extends) == [behaviour |-> behaviour, extends |-> extends]
R(op, from, k, val) == [op |-> op, from |-> from, key |-> k, val |-> val]

(* Requests about access and settings, and requests about kinds.           *)
AccessRequest ==
    {R("acl", alice, None, LessForBob), R("acl", alice, None, None),
     R("acls", alice, "open", None), R("acls", bob, "open", NotBob),
     R("grp", alice, "owners", {bob}), R("grp", alice, "crew", None),
     R("capacity", alice, None, 0), R("capacity", alice, None, None),
     R("attempts", alice, None, 0), R("attempts", alice, None, 2),
     R("root_cid", alice, None, BadCid)}

KindRequest ==
    {R("kind", alice, base, Kind(b2, None)), R("kind", alice, base, Kind(b1, leaf)),
     R("kind", alice, mid, None),
     R("kinds", alice, None, [NoKinds EXCEPT ![base] = Kind(b2, None),
                                             ![leaf] = Kind(b1, base)])}

AllRequest == AccessRequest \cup KindRequest
SettingRequest == {R("attempts", alice, None, 2)}

Chain == [NoKinds EXCEPT ![base] = Kind(b1, None), ![mid] = Kind(b1, base),
                         ![leaf] = Kind(b1, mid)]

(* Command lines: nothing; a root; a description to bootstrap from; an     *)
(* owner and an overlay of kinds.                                          *)
Plain == [owner |-> {}, root |-> None, bootstrap |-> None, kinds |-> None]
Described == [acl |-> OwnersOnly, acls |-> [n \in AclName |-> NotBob],
              grp |-> [g \in Group |-> {alice}], kinds |-> Chain]
AllCli == {Plain, [Plain EXCEPT !.root = MinimalManifest],
           [Plain EXCEPT !.bootstrap = Described],
           [Plain EXCEPT !.owner = {bob},
                         !.kinds = [NoKinds EXCEPT ![base] = Kind(b2, None)]]}
PlainCli == {Plain}

Empty == [owners |-> {}, root |-> None, attempts |-> Default]
FirstDisk == {Empty}

(* What is given from outside is sound in these instances.                 *)
ASSUME SoundInstance == SoundInputs

=============================================================================
