---------------------------- MODULE ControlPlane ----------------------------
(***************************************************************************)
(* The running daemon's control plane: who may administer it, and with     *)
(* which settings.  The same facts live in several places:                 *)
(*                                                                         *)
(*   config.yaml        file        on disk, read at the next start        *)
(*   shared_config      config      its copy in memory, saved as a whole   *)
(*   runtime manifest   head        in IPFS, behind the ManifestWriter     *)
(*   runtime IPNS       ipns        the manifest others are pointed to     *)
(*   caches             acl, aclCache, groupCache, kindRegistry            *)
(*   Stats              owners      the fast path of the owner bypass      *)
(*                                                                         *)
(* They are changed by CRUD requests (src/src/crud), which the event loop  *)
(* handles one at a time and cuts off after 30 s; by POST /claim           *)
(* (src/src/status.rs), every request a task of its own; and by the        *)
(* periodic republication (src/src/republish.rs), or one an owner asks for *)
(* (src/src/dispatch.rs).  Starting and stopping the daemon is module      *)
(* Boot, which extends this one.                                           *)
(*                                                                         *)
(* A manifest mutation is one step here: ManifestWriter refines            *)
(* AtomicManifest.  A CID stands for its content, so that a root CID is    *)
(* the manifest itself.                                                    *)
(***************************************************************************)
EXTENDS Kinds, AccessControl

CONSTANTS
    AclName,        \* names in the library of verb ACLs
    BadCid,         \* a string that is no CID
    Request,        \* the CRUD requests that may arrive
    Claim,          \* POST /claim requests
    Failures,       \* what may go wrong: subset of {"mutate", "load", "save",
                    \*   "publish", "resolve", "timeout", "crash", "key"}
    MaxChanges,     \* bound on the CRUD requests and claims of a behaviour
    MaxFaults       \* bound on what goes wrong in a behaviour, publications
                    \*   and crashes apart

Capacity == 0 .. 2      \* plugin_envelope_queue_capacity; 0 is invalid
Attempts == 0 .. 2      \* outbox_backoff_attempts; 0 is invalid

(* Default settings: 1 stands for the documented default of both.          *)
Default == 1

Manifest == [acl : AclMap, acls : [AclName -> AclMap \cup {None}],
             grp : [Group -> (SUBSET Did) \cup {None}], kinds : KindTree,
             capacity : Capacity \cup {None}]

Config == [owners : SUBSET Did, root : Manifest \cup {None, BadCid},
           attempts : Attempts]

ASSUME NoneAssumption ==
    /\ None \notin Manifest \cup Nat /\ BadCid \notin Manifest
    /\ \A dids \in SUBSET Did : dids # None

(* The values a request may carry, by what it sets: a CID stands for the   *)
(* document it names (cidv1_ref admits nothing else), None for a deletion. *)
(* A root_cid is any string.                                               *)
Setting(r) ==
    CASE r.op = "acl" -> r.val \in AclMap \cup {None}
      [] r.op = "acls" -> r.key \in AclName /\ r.val \in AclMap \cup {None}
      [] r.op = "grp" -> r.key \in Group /\ r.val \in (SUBSET Did) \cup {None}
      [] r.op = "kind" -> r.key \in Protocol /\ r.val \in KindNode \cup {None}
      [] r.op = "kinds" -> r.val \in KindTree
      [] r.op = "capacity" -> r.val \in Capacity \cup {None}
      [] r.op = "attempts" -> r.val \in Attempts
      [] r.op = "root_cid" -> r.val \in Manifest \cup {BadCid}

(* A request in the hands of its handler: how far that has come, and, for  *)
(* kinds, what it has resolved and which of them change.                   *)
InHand(r, pc, loaded, changed) ==
    [op |-> r.op, key |-> r.key, val |-> r.val, pc |-> pc, loaded |-> loaded,
     changed |-> changed]

ASSUME RequestAssumption ==
    \A r \in Request :
        /\ r.op \in {"acl", "acls", "grp", "kind", "kinds", "capacity", "attempts", "root_cid"}
        /\ Setting(r)
        /\ \A pc \in {"mutate", "cache", "grant", "owners"}, loaded \in Resolved,
              changed \in SUBSET Protocol : InHand(r, pc, loaded, changed) # None

VARIABLES
    file,           \* config.yaml
    config,         \* shared_config
    ipns,           \* what the runtime's IPNS name resolves to
    key,            \* is the name's key in Kubo's key list?
    head,           \* root of the ManifestWriter, and Stats.root_cid
    owners,         \* Stats.owners
    acl,            \* the root ACL in memory
    aclCache,       \* the named ACLs
    groupCache,     \* the named groups
    kindRegistry,   \* the resolved kinds
    attempts,       \* max_attempts of the OutboxCache
    phase,          \* of the daemon: see Boot
    boot,           \* what the start has found out so far: see Boot
    req,            \* the CRUD request being handled, with its place
    claim,          \* [Claim -> its DID, place and what it has read]
    rep,            \* the root the republication is working on
    pub,            \* the root a :publish request to #root is publishing
    lag,            \* caches a failure or a cut-off has left behind
    granted,        \* who was granted the root ACL since it was last set
    known,          \* owners a claim or an orderly stop has saved
    changes,        \* CRUD requests and claims so far
    boots,          \* starts so far
    faults          \* what went wrong so far

disk == <<file, ipns, key>>
caches == <<acl, aclCache, groupCache, kindRegistry>>
vars == <<file, config, ipns, key, head, owners, acl, aclCache, groupCache,
          kindRegistry, attempts, phase, boot, req, claim, rep, pub, lag,
          granted, known, changes, boots, faults>>

NoClaim == [pc |-> "idle", did |-> None, file |-> None]

Running == phase = "run"

May(failure) == failure \in Failures

Fault(failure) ==
    /\ May(failure)
    /\ faults < MaxFaults
    /\ faults' = faults + 1

members(groups) == [g \in Group |-> IF groups[g] = None THEN {} ELSE groups[g]]

-----------------------------------------------------------------------------
(* The CRUD service.                                                       *)

(* handle_crud_message: owners pass unconditionally, everyone else needs   *)
(* the capability.  dispatch_management decodes the payload and selects    *)
(* the handler by the path's first segment: the handlers below select      *)
(* theirs by r.op.  A request that only reads, is refused or is malformed  *)
(* changes nothing but its reply.                                          *)
handle_crud_message(r) ==
    /\ Running
    /\ req = None
    /\ changes < MaxChanges
    /\ head # None \/ r.op \in {"attempts", "root_cid"}
    /\ \/ is_owner(owners, r.from)
       \/ check_full(acl, r.from, members(groupCache))
    /\ changes' = changes + 1

(* parse_path and decode_crud_payload: a malformed request is answered with*)
(* an error, any other names what it sets or deletes.                      *)
decode_crud_payload(r) == InHand(r, "mutate", Unresolved, {})

(* The handler goes on with a manifest mutation.                           *)
Mutating(r) ==
    /\ req' = decode_crud_payload(r)
    /\ UNCHANGED <<disk, caches, config, head, owners, attempts, phase, boot,
                   claim, rep, pub, lag, granted, known, boots, faults>>

(* handle_root_acl, SET: the document is loaded before anything changes.   *)
(* A deletion is refused.                                                  *)
handle_root_acl_Deletes(r) ==
    /\ r.op = "acl"
    /\ handle_crud_message(r)
    /\ Mutating(r)

handle_root_acl(r) ==
    /\ r.op = "acl"
    /\ r.val # None
    /\ handle_crud_message(r)
    /\ Mutating(r)

(* handle_root_acls, SET and DELETE; the latter only of a known name.      *)
handle_root_acls(r) ==
    /\ r.op = "acls"
    /\ handle_crud_message(r)
    /\ r.val = None => head.acls[r.key] # None
    /\ Mutating(r)

(* handle_root_grp, SET and DELETE; "owners" is never deleted.             *)
handle_root_grp(r) ==
    /\ r.op = "grp"
    /\ handle_crud_message(r)
    /\ r.val = None => r.key # "owners" /\ head.grp[r.key] # None
    /\ Mutating(r)

(* handle_kinds_ns, SET and DELETE of one kind: it is resolved against the *)
(* manifest as it is, without the new definition.                          *)
handle_kinds_ns(r) ==
    /\ r.op = "kind"
    /\ handle_crud_message(r)
    /\ r.val = None => head.kinds[r.key] # None
    /\ r.val # None => resolve_kind_extends(head.kinds, r.val) # Unresolved
    /\ req' = [decode_crud_payload(r) EXCEPT
                   !.loaded = IF r.val = None THEN Unresolved
                              ELSE resolve_kind_extends(head.kinds, r.val),
                   !.changed = {r.key}]
    /\ UNCHANGED <<disk, caches, config, head, owners, attempts, phase, boot,
                   claim, rep, pub, lag, granted, known, boots, faults>>

(* apply_kinds_tree: SET of the whole tree, an overlay.                    *)
apply_kinds_tree(r) ==
    /\ r.op = "kinds"
    /\ handle_crud_message(r)
    /\ overlay_valid(head.kinds, r.val)
    /\ Mutating(r)

(* plugin_envelope_queue_capacity and outbox_backoff_attempts: what SET    *)
(* and the start accept.                                                   *)
valid_setting_Unchecked(value) == TRUE

valid_setting(value) == value # 0

(* handle_config_key_set and handle_config_key_delete for a manifest key.  *)
handle_manifest_config_key(r) ==
    /\ r.op = "capacity"
    /\ handle_crud_message(r)
    /\ IF r.val = None THEN head.capacity # None ELSE valid_setting(r.val)
    /\ Mutating(r)

(* Config::save (ma_core) writes all of the configuration in memory.  The  *)
(* callers only log a failure.                                             *)
save(saved) ==
    \/ file' = saved /\ UNCHANGED faults
    \/ Fault("save") /\ UNCHANGED file

(* handle_config_key_set for a daemon key: validated, applied to the       *)
(* outbox, stored in memory, saved.  root_cid is stored as it comes.       *)
(* The lock is taken for the change and again for the save; a republication*)
(* that gets in between saves the change with its own, or the other way    *)
(* round, and leaves the same file as one that comes before or after.      *)
set_daemon_config_key(r) ==
    /\ r.op \in {"attempts", "root_cid"}
    /\ r.op = "attempts" => valid_setting(r.val)
    /\ handle_crud_message(r)
    /\ config' = IF r.op = "attempts" THEN [config EXCEPT !.attempts = r.val]
                 ELSE [config EXCEPT !.root = r.val]
    /\ save(config')
    /\ attempts' = IF r.op = "attempts" THEN r.val ELSE attempts
    /\ UNCHANGED <<caches, ipns, key, head, owners, phase, boot, req, claim,
                   rep, pub, lag, granted, known, boots>>

(* What the closure of a mutation does to the manifest.                    *)
Mutated(m, r) ==
    CASE r.op = "acl" -> [m EXCEPT !.acl = r.val]
      [] r.op = "acls" -> [m EXCEPT !.acls[r.key] = r.val]
      [] r.op = "grp" -> [m EXCEPT !.grp[r.key] = r.val]
      [] r.op = "kind" -> [m EXCEPT !.kinds[r.key] = r.val]
      [] r.op = "kinds" -> [m EXCEPT !.kinds = overlaid(m.kinds, r.val)]
      [] r.op = "capacity" -> [m EXCEPT !.capacity = r.val]

(* with_manifest_crud: the mutation takes effect, or the handler ends with *)
(* its error.                                                              *)
with_manifest_crud ==
    /\ req # None /\ req.pc = "mutate"
    /\ head' = Mutated(head, req)
    /\ req' = IF req.op = "capacity" THEN None
              ELSE [req EXCEPT !.pc = "cache",
                               !.changed = IF req.op = "kinds"
                                           THEN changed_protocols(head.kinds, req.val)
                                           ELSE @]
    /\ UNCHANGED <<disk, caches, config, owners, attempts, phase, boot,
                   claim, rep, pub, lag, granted, known, changes, boots,
                   faults>>

MutationFails ==
    /\ Fault("mutate")
    /\ req # None /\ req.pc = "mutate"
    /\ req' = None
    /\ UNCHANGED <<disk, caches, config, head, owners, attempts, phase, boot,
                   claim, rep, pub, lag, granted, known, changes, boots>>

(* The rest of handle_root_acl: the loaded document replaces the root ACL, *)
(* the grants of the owners included.                                      *)
ReplaceRootAcl ==
    /\ req # None /\ req.pc = "cache" /\ req.op = "acl"
    /\ acl' = req.val
    /\ granted' = {}
    /\ req' = None
    /\ UNCHANGED <<disk, config, head, owners, aclCache, groupCache,
                   kindRegistry, attempts, phase, boot, claim, rep, pub, lag,
                   known, changes, boots, faults>>

(* The rest of handle_root_acls.                                           *)
UpdateAclCache_KeepsDeleted ==
    /\ req # None /\ req.pc = "cache" /\ req.op = "acls"
    /\ aclCache' = IF req.val = None THEN aclCache
                   ELSE [aclCache EXCEPT ![req.key] = req.val]
    /\ req' = None
    /\ UNCHANGED <<disk, config, head, owners, acl, groupCache, kindRegistry,
                   attempts, phase, boot, claim, rep, pub, lag, granted,
                   known, changes, boots, faults>>

UpdateAclCache ==
    /\ req # None /\ req.pc = "cache" /\ req.op = "acls"
    /\ aclCache' = [aclCache EXCEPT ![req.key] = req.val]
    /\ req' = None
    /\ UNCHANGED <<disk, config, head, owners, acl, groupCache, kindRegistry,
                   attempts, phase, boot, claim, rep, pub, lag, granted,
                   known, changes, boots, faults>>

(* group_cache_update: a group that cannot be loaded keeps its members in  *)
(* the cache.  For "owners" the handler goes on.                           *)
group_cache_update ==
    /\ req # None /\ req.pc = "cache" /\ req.op = "grp"
    /\ \/ /\ groupCache' = [groupCache EXCEPT ![req.key] = req.val]
          /\ UNCHANGED <<lag, faults>>
       \/ /\ Fault("load") /\ req.val # None
          /\ lag' = lag \cup {"grp"}
          /\ UNCHANGED groupCache
    /\ req' = IF req.key = "owners" THEN [req EXCEPT !.pc = "grant"] ELSE None
    /\ UNCHANGED <<disk, config, head, owners, acl, aclCache, kindRegistry,
                   attempts, phase, boot, claim, rep, pub, granted, known,
                   changes, boots>>

(* The rest of handle_root_grp for "owners": the members in the cache are  *)
(* granted the root ACL, and then are the owners.  Two locks in turn.      *)
GrantNewOwners ==
    /\ req # None /\ req.pc = "grant"
    /\ acl' = grant_owners_in_acl(acl, members(groupCache)["owners"])
    /\ granted' = granted \cup members(groupCache)["owners"]
    /\ req' = [req EXCEPT !.pc = "owners"]
    /\ UNCHANGED <<disk, config, head, owners, aclCache, groupCache,
                   kindRegistry, attempts, phase, boot, claim, rep, pub, lag,
                   known, changes, boots, faults>>

SetNewOwners ==
    /\ req # None /\ req.pc = "owners"
    /\ owners' = members(groupCache)["owners"]
    /\ known' = known \cap owners'
    /\ req' = None
    /\ UNCHANGED <<disk, caches, config, head, attempts, phase, boot, claim,
                   rep, pub, lag, granted, changes, boots, faults>>

(* hydrate_affected_kind_registry: what still resolves is resolved again.  *)
hydrate_affected_kind_registry(registry, kinds, affected) ==
    [p \in Protocol |->
        IF /\ p \in affected /\ kinds[p] # None
           /\ resolve_kind_extends(kinds, kinds[p]) # Unresolved
        THEN resolve_kind_extends(kinds, kinds[p])
        ELSE registry[p]]

(* The rest of handle_kinds_ns and apply_kinds_tree: the kind itself is    *)
(* entered or removed, then spawn_kind_dependency_reloads_for loads the    *)
(* manifest again and hydrates the kinds that depend on what changed; it   *)
(* ends early, with a log line, when it cannot load what it needs.  The    *)
(* entity reloads it spawns are in EntityLifecycle.                        *)
UpdateKindRegistry ==
    LET updated == req.changed
        entered == IF req.op = "kind" THEN [kindRegistry EXCEPT ![req.key] = req.loaded]
                   ELSE kindRegistry
        deleted == req.op = "kind" /\ req.val = None
    IN  /\ req # None /\ req.pc = "cache" /\ req.op \in {"kind", "kinds"}
        /\ \/ /\ kindRegistry' =
                    IF deleted \/ updated = {} THEN entered
                    ELSE hydrate_affected_kind_registry(entered, head.kinds,
                            affected_kind_protocols_for(updated, head.kinds))
              /\ UNCHANGED <<lag, faults>>
           \/ /\ Fault("load") /\ ~deleted /\ updated # {}
              /\ kindRegistry' = entered
              /\ lag' = lag \cup {"kinds"}
        /\ req' = None
        /\ UNCHANGED <<disk, config, head, owners, acl, aclCache, groupCache,
                       attempts, phase, boot, claim, rep, pub, granted,
                       known, changes, boots>>

(* drain_crud_messages gives a request 30 s; the handler is dropped at the *)
(* await it has reached, and nothing repairs the cache it was about to     *)
(* update.                                                                 *)
CutOff ==
    /\ Fault("timeout")
    /\ req # None
    /\ req' = None
    /\ lag' = IF req.pc = "mutate" THEN lag
              ELSE lag \cup {CASE req.op = "kinds" -> "kinds"
                               [] req.op = "kind" -> "kinds"
                               [] OTHER -> req.op}
    /\ UNCHANGED <<disk, caches, config, head, owners, attempts, phase, boot,
                   claim, rep, pub, granted, known, changes, boots>>

CrudStep ==
    \/ with_manifest_crud
    \/ MutationFails
    \/ ReplaceRootAcl
    \/ UpdateAclCache
    \/ group_cache_update
    \/ GrantNewOwners
    \/ SetNewOwners
    \/ UpdateKindRegistry
    \/ CutOff

CrudNext ==
    \/ \E r \in Request : handle_root_acl(r)
    \/ \E r \in Request : handle_root_acls(r)
    \/ \E r \in Request : handle_root_grp(r)
    \/ \E r \in Request : handle_kinds_ns(r)
    \/ \E r \in Request : apply_kinds_tree(r)
    \/ \E r \in Request : handle_manifest_config_key(r)
    \/ \E r \in Request : set_daemon_config_key(r)
    \/ CrudStep

-----------------------------------------------------------------------------
(* POST /claim (handle_claim).  Every request is a task; the lock on Stats *)
(* is released between the check and the assignment.                       *)

Serving == phase \in {"run", "closing"}

(* An answer of "already-claimed" or a conflict changes nothing.           *)
ClaimCheck(c, d) ==
    /\ Serving
    /\ claim[c].pc = "idle"
    /\ owners = {}
    /\ changes < MaxChanges
    /\ changes' = changes + 1
    /\ claim' = [claim EXCEPT ![c] = [pc |-> "set", did |-> d, file |-> None]]
    /\ UNCHANGED <<disk, caches, config, head, owners, attempts, phase, boot,
                   req, rep, pub, lag, granted, known, boots, faults>>

ClaimSet(c) ==
    /\ claim[c].pc = "set"
    /\ owners' = {claim[c].did}
    /\ claim' = [claim EXCEPT ![c].pc = "grant"]
    /\ UNCHANGED <<disk, caches, config, head, attempts, phase, boot, req,
                   rep, pub, lag, granted, known, changes, boots, faults>>

ClaimGrant(c) ==
    /\ claim[c].pc = "grant"
    /\ acl' = grant_owners_in_acl(acl, {claim[c].did})
    /\ granted' = granted \cup {claim[c].did}
    /\ claim' = [claim EXCEPT ![c].pc = "read"]
    /\ UNCHANGED <<disk, config, head, owners, aclCache, groupCache,
                   kindRegistry, attempts, phase, boot, req, rep, pub, lag,
                   known, changes, boots, faults>>

(* persist_owners_to_config: the file, not the configuration in memory, is *)
(* read, changed and written back.  The answer is "claimed" in any case.   *)
persist_owners_read(c) ==
    /\ claim[c].pc = "read"
    /\ claim' = [claim EXCEPT ![c].pc = "write", ![c].file = file]
    /\ UNCHANGED <<disk, caches, config, head, owners, attempts, phase, boot,
                   req, rep, pub, lag, granted, known, changes, boots,
                   faults>>

persist_owners_to_config(c) ==
    /\ claim[c].pc = "write"
    /\ save([claim[c].file EXCEPT !.owners = {claim[c].did}])
    /\ claim' = [claim EXCEPT ![c] = [pc |-> "done", did |-> None, file |-> None]]
    /\ known' = IF file' = file THEN known ELSE {claim[c].did}
    /\ UNCHANGED <<caches, config, ipns, key, head, owners, attempts, phase,
                   boot, req, rep, pub, lag, granted, changes, boots>>

ClaimNext ==
    \/ \E c \in Claim, d \in Did : ClaimCheck(c, d)
    \/ \E c \in Claim : ClaimSet(c)
    \/ \E c \in Claim : ClaimGrant(c)
    \/ \E c \in Claim : persist_owners_read(c)
    \/ \E c \in Claim : persist_owners_to_config(c)

-----------------------------------------------------------------------------
(* spawn_periodic_did_publish.  At a tick it works on the root of Stats    *)
(* when that has changed or the last publication is cache_warm old; both   *)
(* timers go on, so that a tick may always find work.                      *)

Idle == [pc |-> "idle", root |-> None]

RepublishTick ==
    /\ Serving
    /\ rep.pc = "idle"
    /\ head # None
    /\ rep' = [pc |-> "publish", root |-> head]
    /\ UNCHANGED <<disk, caches, config, head, owners, attempts, phase, boot,
                   req, claim, pub, lag, granted, known, changes, boots, faults>>

(* publish_runtime_root_cid: ensure_kubo_ipns_key imports the key into     *)
(* Kubo if it is not there, then name_publish stores the record.  One that *)
(* fails may have imported the key.                                        *)
Published(root) == ipns' = root /\ key' = "listed"

NotPublished == ipns' = ipns /\ key' \in {key, "listed"}

(* publish_current_root: the DID document, then the IPNS record.           *)
publish_current_root ==
    /\ rep.pc = "publish"
    /\ Published(rep.root)
    /\ rep' = [rep EXCEPT !.pc = "persist"]
    /\ UNCHANGED <<file, caches, config, head, owners, attempts, phase, boot,
                   req, claim, pub, lag, granted, known, changes, boots, faults>>

(* One of the two fails or takes too long: the next tick tries again.  The *)
(* IPNS record is attempted even when the document was not published.      *)
PublishFails ==
    /\ May("publish")
    /\ rep.pc = "publish"
    /\ Published(rep.root) \/ NotPublished
    /\ rep' = Idle
    /\ UNCHANGED <<file, caches, config, head, owners, attempts, phase, boot,
                   req, claim, pub, lag, granted, known, changes, boots, faults>>

(* persist_root_cid: saved only when the configuration in memory names     *)
(* another root, which it does not after a save that failed.               *)
persist_root_cid(root) ==
    IF config.root = root THEN UNCHANGED <<config, file, faults>>
    ELSE /\ config' = [config EXCEPT !.root = root]
         /\ save(config')

RepublishPersists ==
    /\ rep.pc = "persist"
    /\ persist_root_cid(rep.root)
    /\ rep' = Idle
    /\ UNCHANGED <<caches, ipns, key, head, owners, attempts, phase, boot,
                   req, claim, pub, lag, granted, known, changes, boots>>

RepublishNext ==
    \/ RepublishTick
    \/ publish_current_root
    \/ PublishFails
    \/ RepublishPersists

-----------------------------------------------------------------------------
(* :publish to #root (handle_root_publish): an owner has the root          *)
(* published at once.  The root is read before the publication, which may  *)
(* fail or time out, and either way is answered.                           *)
handle_root_publish ==
    /\ Serving
    /\ changes < MaxChanges
    /\ changes' = changes + 1
    /\ pub = None
    /\ \E caller \in Did : is_owner(owners, caller)
    /\ head # None
    /\ pub' = head
    /\ UNCHANGED <<disk, caches, config, head, owners, attempts, phase, boot,
                   req, claim, rep, lag, granted, known, boots, faults>>

PublishRequestedRoot ==
    /\ pub # None
    /\ Published(pub) \/ (May("publish") /\ NotPublished)
    /\ pub' = None
    /\ UNCHANGED <<file, caches, config, head, owners, attempts, phase, boot,
                   req, claim, rep, lag, granted, known, changes, boots, faults>>

RootNext == handle_root_publish \/ PublishRequestedRoot

=============================================================================
