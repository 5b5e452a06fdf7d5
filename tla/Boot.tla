-------------------------------- MODULE Boot --------------------------------
(***************************************************************************)
(* Starting and stopping the daemon of ControlPlane (src/src/boot.rs,      *)
(* src/src/startup.rs, src/src/bootstrap.rs): the fixed sequence of        *)
(* phases main() drives, each of which reads what earlier ones found, the  *)
(* orderly stop of the event loop, and crashes.  A phase that returns an   *)
(* error ends the process.                                                 *)
(***************************************************************************)
EXTENDS ControlPlane

CONSTANTS
    Cli,            \* command lines: [owner, root, bootstrap, kinds]
    Disk,           \* configurations the first start may find
    MaxBoots        \* bound on the starts of a behaviour

(* A description of a runtime, and a command line.                         *)
Description == [acl : AclMap, acls : [AclName -> AclMap \cup {None}],
                grp : [Group -> (SUBSET Did) \cup {None}], kinds : KindTree]

CommandLine == [owner : SUBSET Did, root : Manifest \cup {None, BadCid},
                bootstrap : Description \cup {None}, kinds : KindTree \cup {None}]

ASSUME StartAssumption == Cli \subseteq CommandLine /\ Disk \subseteq Config

NoBoot == [cli |-> None, root |-> None, owners |-> {}]

NoKinds == [p \in Protocol |-> None]

(* bootstrap_minimal_manifest without owners: everyone is allowed.         *)
MinimalManifest ==
    [acl |-> [EmptyAcl EXCEPT ![Wildcard] = "allow"],
     acls |-> [n \in AclName |-> None],
     grp |-> [g \in Group |-> IF g = "owners" THEN {} ELSE None],
     kinds |-> NoKinds, capacity |-> None]

(* publish_root_acl: the described ACL, with a grant for every owner.      *)
publish_root_acl(described) ==
    grant_owners_in_acl(described.acl, members(described.grp)["owners"])

(* runtime_manifest_config: the settings of a new manifest, of which one   *)
(* is modelled.                                                            *)
runtime_manifest_config == Default

(* build_manifest: what --bootstrap publishes for a description.           *)
build_manifest(described) ==
    [acl |-> publish_root_acl(described), acls |-> described.acls,
     grp |-> described.grp, kinds |-> described.kinds,
     capacity |-> runtime_manifest_config]

(* Nothing of a process is left but what is on disk.                       *)
Gone ==
    /\ phase' = "down"
    /\ boot' = NoBoot
    /\ config' = [owners |-> {}, root |-> None, attempts |-> Default]
    /\ head' = None
    /\ owners' = {}
    /\ acl' = EmptyAcl
    /\ aclCache' = [n \in AclName |-> None]
    /\ groupCache' = [g \in Group |-> None]
    /\ kindRegistry' = [p \in Protocol |-> Unresolved]
    /\ attempts' = Default
    /\ req' = None
    /\ claim' = [c \in Claim |-> IF claim[c].pc = "idle" THEN NoClaim
                                 ELSE [NoClaim EXCEPT !.pc = "done"]]
    /\ rep' = Idle
    /\ pub' = None
    /\ lag' = {}
    /\ granted' = {}

Init ==
    /\ file \in Disk
    /\ ipns = None
    /\ key = "absent"
    /\ phase = "down"
    /\ boot = NoBoot
    /\ config = [owners |-> {}, root |-> None, attempts |-> Default]
    /\ head = None
    /\ owners = {}
    /\ acl = EmptyAcl
    /\ aclCache = [n \in AclName |-> None]
    /\ groupCache = [g \in Group |-> None]
    /\ kindRegistry = [p \in Protocol |-> Unresolved]
    /\ attempts = Default
    /\ req = None
    /\ claim = [c \in Claim |-> NoClaim]
    /\ rep = Idle
    /\ pub = None
    /\ lag = {}
    /\ granted = {}
    /\ known = {}
    /\ changes = 0
    /\ boots = 0
    /\ faults = 0

-----------------------------------------------------------------------------
(* Phases of the start.                                                    *)

(* Boot::new and run_cli_subcommands: the configuration is loaded (a first *)
(* start has generated one), and --bootstrap publishes its manifest.       *)
BootNew(cli) ==
    /\ phase = "down"
    /\ boots < MaxBoots
    /\ boots' = boots + 1
    /\ config' = file
    /\ boot' = [cli |-> cli, owners |-> {},
                root |-> IF cli.bootstrap = None THEN None
                         ELSE build_manifest(cli.bootstrap)]
    /\ phase' = "identity"
    /\ known' = IF cli.bootstrap = None /\ cli.root = None THEN known ELSE {}
    /\ UNCHANGED <<disk, caches, head, owners, attempts, req, claim, rep,
                   pub, lag, granted, changes, faults>>

(* build_identity_and_resolve_root, up to the document's publication.      *)
(* select_root_cid: --root-cid, then a bootstrapped manifest, then the one *)
(* config.yaml names, which must be a CID.  The selected root is saved, or *)
(* the start fails.                                                        *)
select_root_cid ==
    LET root == IF boot.cli.root # None THEN boot.cli.root
                ELSE IF boot.root # None THEN boot.root ELSE config.root
    IN  /\ phase = "identity"
        /\ root # BadCid
        /\ config' = [config EXCEPT !.root = root]
        /\ file' = IF root = config.root THEN file ELSE config'
        /\ boot' = [boot EXCEPT !.root = root]
        /\ phase' = "root"
        /\ UNCHANGED <<caches, ipns, key, head, owners, attempts, req, claim,
                       rep, pub, lag, granted, known, changes, boots, faults>>

(* resolve_runtime_root_cid_by_ipns_id: nothing unless Kubo lists the key, *)
(* whether or not a record exists.  A key without a record is an error of  *)
(* name/resolve.                                                           *)
resolve_runtime_root_cid_by_ipns_id == IF key = "listed" THEN ipns ELSE None

resolve_ipns_path_Fails == key = "listed" /\ ipns = None

(* resolve_startup_root_cid: with no root so far, the one found under the  *)
(* runtime's IPNS name; if there is none, a minimal manifest, which an     *)
(* overlay of kinds refuses to build upon.  An error ends the start.       *)
resolve_startup_root_cid ==
    LET found == IF boot.root # None THEN boot.root
                 ELSE resolve_runtime_root_cid_by_ipns_id
    IN  /\ phase = "root"
        /\ boot.root = None => ~resolve_ipns_path_Fails
        /\ found = None => boot.cli.kinds = None
        /\ \/ /\ boot' = [boot EXCEPT !.root = IF found # None THEN found
                                              ELSE MinimalManifest]
              /\ UNCHANGED faults
           \/ /\ Fault("resolve") /\ found = None
              /\ UNCHANGED boot
        /\ phase' = "overlay"
        /\ UNCHANGED <<disk, caches, config, head, owners, attempts, req,
                       claim, rep, pub, lag, granted, known, changes, boots>>

(* apply_kinds_overlay: --kinds-cid, validated like a CRUD overlay.        *)
apply_kinds_overlay ==
    /\ phase = "overlay"
    /\ IF boot.cli.kinds = None \/ boot.root = None THEN UNCHANGED boot
       ELSE /\ overlay_valid(boot.root.kinds, boot.cli.kinds)
            /\ boot' = [boot EXCEPT !.root.kinds = overlaid(@, boot.cli.kinds)]
    /\ phase' = "settings"
    /\ UNCHANGED <<disk, caches, config, head, owners, attempts, req, claim,
                   rep, pub, lag, granted, known, changes, boots, faults>>

(* materialise_plugin_envelope_queue_capacity writes the default into a    *)
(* manifest without the key; an invalid setting fails the start.           *)
materialise_plugin_envelope_queue_capacity ==
    /\ phase = "settings"
    /\ valid_setting(config.attempts)
    /\ attempts' = config.attempts
    /\ boot.root # None => valid_setting(boot.root.capacity)
    /\ boot' = IF boot.root # None /\ boot.root.capacity = None
               THEN [boot EXCEPT !.root.capacity = Default] ELSE boot
    /\ phase' = "entities"
    /\ UNCHANGED <<disk, caches, config, head, owners, req, claim, rep, pub,
                   lag, granted, known, changes, boots, faults>>

(* load_entities: hydrate_kind_registry enters the kinds that can be       *)
(* fetched and resolved.  The entities themselves are in EntityState and   *)
(* EntityLifecycle.                                                        *)
hydrate_kind_registry ==
    /\ phase = "entities"
    /\ \/ /\ kindRegistry' =
                IF boot.root = None THEN kindRegistry
                ELSE hydrate_affected_kind_registry(kindRegistry, boot.root.kinds,
                                                    Protocol)
          /\ UNCHANGED <<lag, faults>>
       \/ /\ Fault("load") /\ boot.root # None
          /\ \E bad \in SUBSET Protocol :
                kindRegistry' = hydrate_affected_kind_registry(kindRegistry,
                                    boot.root.kinds, Protocol \ bad)
          /\ lag' = lag \cup {"kinds"}
    /\ phase' = "acl"
    /\ UNCHANGED <<disk, config, head, owners, acl, aclCache, groupCache,
                   attempts, boot, req, claim, rep, pub, granted, known,
                   changes, boots>>

(* populate_acl_and_group_caches: each document is loaded or left out.     *)
populate_acl_and_group_caches ==
    /\ phase = "acl"
    /\ \E missing \in SUBSET {"acl", "acls", "grp"} :
          LET m == boot.root
              loaded(what) == m # None /\ what \notin missing
          IN  /\ acl' = IF loaded("acl") THEN m.acl ELSE acl
              /\ aclCache' = IF loaded("acls") THEN m.acls ELSE aclCache
              /\ groupCache' = IF loaded("grp") THEN m.grp ELSE groupCache
              /\ lag' = lag \cup missing
              /\ IF missing = {} THEN UNCHANGED faults ELSE Fault("load")
    /\ boot' = [boot EXCEPT !.owners = members(groupCache')["owners"]]
    /\ phase' = "owners"
    /\ UNCHANGED <<disk, config, head, owners, kindRegistry, attempts, req,
                   claim, rep, pub, granted, known, changes, boots>>

(* resolve_and_seed_owners: the union of config.yaml, --owner and the      *)
(* manifest's group, saved to the file on a best-effort basis (the copy in *)
(* memory keeps what it had) and granted the root ACL.                     *)
resolve_and_seed_owners_Forgets ==
    LET resolved == config.owners \cup boot.cli.owner
    IN  /\ phase = "owners"
        /\ owners' = resolved
        /\ IF resolved = config.owners THEN UNCHANGED <<file, faults>>
           ELSE save([file EXCEPT !.owners = resolved])
        /\ acl' = grant_owners_in_acl(acl, resolved)
        /\ granted' = resolved
        /\ phase' = "finalize"
        /\ UNCHANGED <<ipns, key, config, head, aclCache, groupCache,
                       kindRegistry, attempts, boot, req, claim, rep, pub,
                       lag, known, changes, boots>>

resolve_and_seed_owners ==
    LET resolved == config.owners \cup boot.cli.owner \cup boot.owners
    IN  /\ phase = "owners"
        /\ owners' = resolved
        /\ IF resolved = config.owners THEN UNCHANGED <<file, faults>>
           ELSE save([file EXCEPT !.owners = resolved])
        /\ acl' = grant_owners_in_acl(acl, resolved)
        /\ granted' = resolved
        /\ phase' = "finalize"
        /\ UNCHANGED <<ipns, key, config, head, aclCache, groupCache,
                       kindRegistry, attempts, boot, req, claim, rep, pub,
                       lag, known, changes, boots>>

(* finalize_startup: the manifest writer starts from the root found, and   *)
(* reconcile_owners_into_manifest links the owners when the cached group   *)
(* lacks one of them.  Its failure is only logged.                         *)
finalize_startup ==
    LET needs_manifest_sync == ~(owners \subseteq boot.owners)
    IN  /\ phase = "finalize"
        /\ \/ /\ needs_manifest_sync /\ boot.root # None
              /\ head' = [boot.root EXCEPT !.grp["owners"] = owners]
              /\ groupCache' = [groupCache EXCEPT !["owners"] = owners]
              /\ UNCHANGED <<lag, faults>>
           \/ /\ IF needs_manifest_sync /\ boot.root # None THEN Fault("mutate")
                 ELSE UNCHANGED faults
              /\ head' = boot.root
              /\ UNCHANGED groupCache
              /\ lag' = IF needs_manifest_sync THEN lag \cup {"owners"} ELSE lag
        /\ boot' = NoBoot
        /\ phase' = "run"
        /\ UNCHANGED <<disk, config, owners, acl, aclCache, kindRegistry,
                       attempts, req, claim, rep, pub, granted, known,
                       changes, boots>>

-----------------------------------------------------------------------------
(* The end of a process.                                                   *)

(* handle_shutdown, once the entities are saved: the loop is between two   *)
(* requests.  A failed save is logged.                                     *)
ShutdownPersist ==
    /\ Running
    /\ req = None
    /\ IF head = None THEN UNCHANGED <<config, file, faults>> ELSE persist_root_cid(head)
    /\ phase' = "closing"
    /\ known' = IF head = None \/ file'.root # head THEN known
                ELSE known \cup members(head.grp)["owners"]
    /\ UNCHANGED <<caches, ipns, key, head, owners, attempts, boot, req,
                   claim, rep, pub, lag, granted, changes, boots>>

(* The root is published under the runtime's IPNS name; then the process   *)
(* exits, its background tasks with it.                                    *)
ShutdownExit ==
    /\ phase = "closing"
    /\ \/ head = None /\ UNCHANGED <<ipns, key>>
       \/ head # None /\ Published(head)
       \/ head # None /\ May("publish") /\ NotPublished
    /\ Gone
    /\ UNCHANGED <<file, known, changes, boots, faults>>

(* A crash, or an error that ends the start.                               *)
Crash ==
    /\ May("crash")
    /\ phase # "down"
    /\ Gone
    /\ UNCHANGED <<disk, known, changes, boots, faults>>

(* Between two starts the daemon is pointed to another Kubo, or the one it *)
(* has loses its keystore: the record is still there to be resolved.       *)
KeyLost ==
    /\ Fault("key")
    /\ phase = "down"
    /\ key = "listed"
    /\ key' = "absent"
    /\ UNCHANGED <<file, ipns, caches, config, head, owners, attempts, phase,
                   boot, req, claim, rep, pub, lag, granted, known, changes,
                   boots>>

BootNext ==
    \/ \E cli \in Cli : BootNew(cli)
    \/ select_root_cid
    \/ resolve_startup_root_cid
    \/ apply_kinds_overlay
    \/ materialise_plugin_envelope_queue_capacity
    \/ hydrate_kind_registry
    \/ populate_acl_and_group_caches
    \/ resolve_and_seed_owners
    \/ finalize_startup
    \/ ShutdownPersist
    \/ ShutdownExit
    \/ Crash
    \/ KeyLost

Next == BootNext \/ CrudNext \/ ClaimNext \/ RepublishNext \/ RootNext

Spec == Init /\ [][Next]_vars

-----------------------------------------------------------------------------
(* Properties.                                                             *)

(* Types.                                                                  *)
TypeOK ==
    /\ file \in Config
    /\ config \in Config
    /\ ipns \in Manifest \cup {None}
    /\ key \in {"absent", "listed"}
    /\ head \in Manifest \cup {None}
    /\ owners \subseteq Did
    /\ acl \in AclMap
    /\ aclCache \in [AclName -> AclMap \cup {None}]
    /\ groupCache \in [Group -> (SUBSET Did) \cup {None}]
    /\ kindRegistry \in [Protocol -> Resolved]
    /\ attempts \in Attempts
    /\ lag \subseteq {"acl", "acls", "grp", "kinds", "owners"}

AtRest == Running /\ req = None

(* Between requests every cache says what the manifest says, after any     *)
(* sequence of CRUD requests, failed mutations and restarts, unless one of *)
(* its documents could not be loaded or the handler was cut off.  The root *)
(* ACL may grant more, to those it was seeded with as owners.              *)
CachesCurrent ==
    AtRest /\ head # None =>
        /\ "acls" \notin lag => aclCache = head.acls
        /\ "grp" \notin lag => groupCache = head.grp
        /\ "acl" \notin lag => \A p \in Principal :
                acl[p] = head.acl[p] \/ (p \in granted /\ acl[p] = "allow")

(* Between requests every kind that resolves in the manifest is registered *)
(* as it resolves there, through updates of its bases, overlays, deletions *)
(* and cycles of `extends', unless the kinds could not be loaded.          *)
KindsCurrent ==
    AtRest /\ head # None /\ "kinds" \notin lag =>
        \A p \in Protocol : head.kinds[p] # None =>
            resolve_kind_extends(head.kinds, head.kinds[p])
                \in {Unresolved, kindRegistry[p]}

(* Between requests the owners the bypass knows, the members of "+owners"  *)
(* and the manifest's owners are the same, unless a claim came in or a     *)
(* load or the reconciliation failed.                                      *)
OwnersAgree ==
    (/\ AtRest /\ head # None
     /\ {"grp", "owners"} \cap lag = {}
     /\ \A c \in Claim : claim[c].pc = "idle") =>
        owners = members(groupCache)["owners"] /\ owners = members(head.grp)["owners"]

(* A root, and a configuration, that a start would accept.                 *)
SoundRoot(m) == m \notin {None, BadCid} => m.capacity # 0
SoundConfig(c) == valid_setting(c.attempts) /\ SoundRoot(c.root)

(* What is given from outside and stored as it comes is sound: config.yaml *)
(* at the first start, --root-cid, and a root_cid set by a request.        *)
SoundInputs ==
    /\ \A c \in Disk : SoundConfig(c)
    /\ \A cli \in Cli : SoundRoot(cli.root)
    /\ \A r \in Request : r.op = "root_cid" => SoundRoot(r.val)

(* No sequence of CRUD requests, stops and starts stores a value of the    *)
(* two validated settings with which the daemon would refuse to start.     *)
(* (root_cid is not validated when it is set: see the README.)             *)
Bootable ==
    /\ valid_setting(file.attempts)
    /\ \A m \in {file.root, ipns, head} \ {None, BadCid} : m.capacity # 0

(* status.rs: "so the claim survives a restart".  Owners that were claimed *)
(* and saved, or were in the manifest of an orderly stop, are owners after *)
(* the next start.                                                         *)
OwnersRestored == Running => known \subseteq owners

(* REFERENCE.md: "the daemon restores runtime head from config.yaml, with  *)
(* IPNS as a fallback"; boot.rs: "then to bootstrapping a minimal manifest *)
(* if none exists yet".  A start without a root of its own can go on: from *)
(* the root published under the runtime's IPNS name, from a new one if     *)
(* none is, whatever was cut short before.                                 *)
HeadRestored ==
    phase = "root" /\ boot.root = None /\ boot.cli.kinds = None =>
        ENABLED (/\ resolve_startup_root_cid
                 /\ boot'.root = IF ipns # None THEN ipns ELSE MinimalManifest)

(* A restart restores the runtime: its owners and its head.  (Violated: a  *)
(* later save undoes a claim; without the key in Kubo's key list the       *)
(* record is not looked for; a key without a record ends the start.)       *)
RestartRestores == OwnersRestored /\ HeadRestored

=============================================================================
