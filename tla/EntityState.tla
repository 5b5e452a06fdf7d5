---------------------------- MODULE EntityState ----------------------------
(***************************************************************************)
(* How the state of one entity reaches IPFS.                               *)
(*                                                                         *)
(* An entity's worker thread owns a StateCtx (plugin/backend.rs).  Calls   *)
(* on the entity run on the worker through a bounded mailbox; a call that  *)
(* changed the state hands the new bytes to a background persist task      *)
(* (plugin/mod.rs), which adds them to Kubo and links them in the runtime  *)
(* manifest (manifest.rs).  The graceful shutdown (eventloop.rs,           *)
(* bootstrap.rs) saves whatever is still pending, and the periodic         *)
(* republisher (republish.rs) records the manifest root in config.yaml,    *)
(* where the next boot finds it.                                           *)
(*                                                                         *)
(* The model has one entity.  Every CID is the content it names, so a      *)
(* manifest root is identified with the entity state it links.             *)
(***************************************************************************)
EXTENDS Naturals, Sequences

CONSTANTS
    State,            \* the byte strings the entity uses as its state
    EmptyState,       \* the empty byte string
    Call,             \* calls on the entity: rpc, local envelope, schedule
    None,             \* Rust's Option::None
    Daemon,           \* the event loop, as the addressee of a reply
    MailboxCapacity,  \* ENTITY_MAILBOX_CAPACITY
    Failures,         \* the requests that may fail, a subset of Requests
    Faults,           \* a subset of {"timeout", "trap", "crash"}
    Revert,           \* may the actor set a state it has been in before?
    PromptCallers,    \* does a caller run before the worker's next message?
    Republishing,     \* is the periodic republisher running?
    MaxSignals        \* bound on the number of Ctrl-C signals

\* Kubo requests (add, dag put, dag get, cat, publish) and writing config.yaml.
Requests == {"add", "put", "get", "cat", "publish", "config"}

ASSUME ConstantsAssumption ==
    /\ EmptyState \in State
    /\ None \notin State /\ None \notin Call
    /\ Daemon \notin Call /\ Daemon # None
    /\ MailboxCapacity \in Nat \ {0}
    /\ Failures \subseteq Requests
    /\ Faults \subseteq {"timeout", "trap", "crash"}
    /\ Revert \in BOOLEAN
    /\ PromptCallers \in BOOLEAN
    /\ Republishing \in BOOLEAN
    /\ MaxSignals \in Nat

VARIABLES
    ctx,         \* StateCtx of the worker: pending, persisted, dirty
    mailbox,     \* EntityMsg queue of the worker
    pc,          \* control point of each call and of its persist task
    bytes,       \* the bytes a call or its persist task carries
    inFlight,    \* state_persist_in_flight
    root,        \* the entity state linked by the writer's manifest
    statsRoot,   \* the same of Stats.root_cid
    configRoot,  \* the same of root_cid in config.yaml
    shut,        \* control point of handle_shutdown
    shutBytes,   \* the state the shutdown links, or None
    shutRoot,    \* the root save_all_entity_states returned
    publishing,  \* the root the republisher is publishing, or None
    signals,     \* Ctrl-C signals received so far
    (* History of the actor, read by no action of the code. *)
    latest,      \* the last state the actor set (or was loaded with)
    used,        \* every state it has had
    orphaned,    \* a change of state whose report was lost by a fault
    due          \* what a shutdown may save: the state it saw, or a later one

worker == <<ctx, latest, used>>
task   == <<pc, bytes, inFlight>>
roots  == <<root, statsRoot, configRoot>>
daemon == <<shut, shutBytes, shutRoot, signals, due>>
vars   == <<worker, mailbox, task, roots, daemon, publishing, orphaned>>

Maybe(S) == S \cup {None}

\* Control points between the swap of state_persist_in_flight and its reset.
Body == {"add", "link", "mark", "snap", "snapWait", "store"}

\* Control points of a call, and of the persist task it may become.
CallPC == {"idle", "queued", "replied", "tail", "tailWait", "done"} \cup Body

ShutPC == {"run", "locked", "wait", "add", "put", "publish", "stats",
           "config", "closing", "exited", "crashed"}

StateCtx == [pending : Maybe(State), persisted : State, dirty : BOOLEAN]

EntityMsg == [type  : {"Dispatch", "TakePending", "MarkSaved", "Shutdown"},
              reply : Call \cup {Daemon, None},
              bytes : Maybe(State)]

(***************************************************************************)
(* StateCtx.                                                               *)
(***************************************************************************)
StateCtx_new(b) == [pending |-> None, persisted |-> b, dirty |-> FALSE]

\* Mutant: dirty is not recomputed.
mark_saved_KeepsDirty(x, b) ==
    IF x.pending = b
    THEN [x EXCEPT !.persisted = b, !.pending = None]
    ELSE [x EXCEPT !.persisted = b]

\* Mutant: whatever was saved, nothing is pending any more.
mark_saved_ClearsAll(x, b) == StateCtx_new(b)

\* Mutant: the saved bytes stay pending.
mark_saved_KeepsPending(x, b) == [x EXCEPT !.persisted = b]

\* Only the bytes that were saved are no longer pending.
mark_saved(x, b) ==
    IF x.pending = b
    THEN [pending |-> None, persisted |-> b, dirty |-> FALSE]
    ELSE [x EXCEPT !.persisted = b, !.dirty = (x.pending \notin {None, b})]

\* The new state is ignored when it equals the saved or the queued one.
queue_state(x, s) ==
    IF s # x.persisted /\ s # x.pending
    THEN [x EXCEPT !.pending = s, !.dirty = TRUE]
    ELSE x

Settable == IF Revert THEN State ELSE State \ used

\* What the actor's handler does with its state: nothing, or one ma_set_state.
RunHandler(s) ==
    /\ s \in Maybe(Settable)
    /\ ctx' = IF s = None THEN ctx ELSE queue_state(ctx, s)
    /\ latest' = IF s = None THEN latest ELSE s
    /\ used' = used \cup {latest'}

(***************************************************************************)
(* The mailbox of the worker thread.                                       *)
(***************************************************************************)
Alive == shut \notin {"exited", "crashed"}

\* Mutant: off by one.
HasRoomForOneMore == Len(mailbox) <= MailboxCapacity

HasRoom == Len(mailbox) < MailboxCapacity

Message(type, reply, b) == [type |-> type, reply |-> reply, bytes |-> b]

Post(type, reply, b) == mailbox' = Append(mailbox, Message(type, reply, b))

\* The sender of a request gave up: its oneshot receiver is dropped.
Abandon(who) ==
    mailbox' = [i \in DOMAIN mailbox |->
                  IF mailbox[i].reply = who
                  THEN [mailbox[i] EXCEPT !.reply = None]
                  ELSE mailbox[i]]

\* EntityPlugin::mark_saved: a full mailbox silently drops the message.
PostMarkSaved(b) ==
    IF HasRoom THEN Post("MarkSaved", None, b) ELSE UNCHANGED mailbox

(***************************************************************************)
(* EntityPlugin::dispatch and what its callers do with the reply.          *)
(***************************************************************************)
Dispatch(c) ==
    /\ Alive
    /\ pc[c] = "idle"
    /\ \/ /\ HasRoom
          /\ Post("Dispatch", c, None)
          /\ pc' = [pc EXCEPT ![c] = "queued"]
       \/ /\ ~HasRoom                        \* an error for the caller
          /\ pc' = [pc EXCEPT ![c] = "done"]
          /\ UNCHANGED mailbox
    /\ UNCHANGED <<worker, bytes, inFlight, roots, daemon, publishing, orphaned>>

\* The backstop of dispatch, or the timeout of the task that awaits it.
DispatchTimeout(c) ==
    /\ Alive
    /\ "timeout" \in Faults
    /\ pc[c] = "queued"
    /\ pc' = [pc EXCEPT ![c] = "done"]
    /\ Abandon(c)
    /\ UNCHANGED <<worker, bytes, inFlight, roots, daemon, publishing, orphaned>>

\* Mutant: the flag is not looked at.
spawn_state_persist_Always(c) ==
    /\ Alive
    /\ pc[c] = "replied"
    /\ pc' = [pc EXCEPT ![c] = "add"]
    /\ inFlight' = TRUE
    /\ orphaned' = FALSE
    /\ UNCHANGED <<worker, mailbox, bytes, roots, daemon, publishing>>

\* spawn_state_persist: one task at a time, told by an atomic swap.
spawn_state_persist(c) ==
    /\ Alive
    /\ pc[c] = "replied"
    /\ pc' = [pc EXCEPT ![c] = IF inFlight THEN "done" ELSE "add"]
    /\ inFlight' = TRUE
    /\ orphaned' = (inFlight /\ orphaned)
    /\ UNCHANGED <<worker, mailbox, bytes, roots, daemon, publishing>>

(***************************************************************************)
(* The worker thread takes its next message.                               *)
(***************************************************************************)
WorkerReady(type) ==
    /\ Alive
    /\ mailbox # << >>
    /\ Head(mailbox).type = type
    /\ PromptCallers => \A c \in Call : pc[c] # "replied"

\* execute_dispatch reports the pending state only when the call queued a new
\* one and returned; a handler that traps afterwards reports nothing.
WorkerDispatch(s, trap) ==
    LET c == Head(mailbox).reply
        reported == ctx' # ctx /\ ~trap
    IN  /\ WorkerReady("Dispatch")
        /\ trap => "trap" \in Faults
        /\ RunHandler(s)
        /\ mailbox' = Tail(mailbox)
        /\ IF c = None
           THEN UNCHANGED <<pc, bytes>>
           ELSE /\ pc' = [pc EXCEPT ![c] = IF reported THEN "replied" ELSE "done"]
                /\ bytes' = [bytes EXCEPT ![c] = IF reported THEN ctx'.pending ELSE None]
        /\ orphaned' = (orphaned \/ (ctx' # ctx /\ (trap \/ c = None)))
        /\ due' = due \cup {latest'}
        /\ UNCHANGED <<inFlight, roots, shut, shutBytes, shutRoot, signals, publishing>>

\* TakePending returns a copy; the pending state stays queued.  A task that
\* finds none leaves its loop, or ends when this was its last look.
WorkerTakePending ==
    LET c == Head(mailbox).reply IN
    /\ WorkerReady("TakePending")
    /\ mailbox' = Tail(mailbox)
    /\ IF c = None
       THEN UNCHANGED <<pc, bytes, orphaned>>
       ELSE /\ orphaned' = FALSE
            /\ bytes' = [bytes EXCEPT ![c] = ctx.pending]
            /\ pc' = [pc EXCEPT ![c] =
                        IF pc[c] = "snapWait"
                        THEN IF ctx.pending = None THEN "store" ELSE "add"
                        ELSE IF ctx.pending = None THEN "done" ELSE "replied"]
    /\ UNCHANGED <<worker, inFlight, roots, daemon, publishing>>

WorkerMarkSaved ==
    /\ WorkerReady("MarkSaved")
    /\ ctx' = mark_saved(ctx, Head(mailbox).bytes)
    /\ mailbox' = Tail(mailbox)
    /\ UNCHANGED <<latest, used, task, roots, daemon, publishing, orphaned>>

\* Mutant: the worker runs :shutdown and sends no reply.
WorkerShutdown_NoReply(s) ==
    /\ WorkerReady("Shutdown")
    /\ RunHandler(s)
    /\ mailbox' = Tail(mailbox)
    /\ orphaned' = (orphaned \/ ctx' # ctx)
    /\ due' = due \cup {latest'}
    /\ UNCHANGED <<task, roots, shut, shutBytes, shutRoot, signals, publishing>>

\* :shutdown may set the state once more; the reply is whatever is pending,
\* also when the signal traps (graceful shutdown does not require success).
WorkerShutdown(s) ==
    LET d == Head(mailbox).reply IN
    /\ WorkerReady("Shutdown")
    /\ RunHandler(s)
    /\ mailbox' = Tail(mailbox)
    /\ orphaned' = (orphaned \/ ctx' # ctx)
    /\ IF d = None
       THEN UNCHANGED <<shut, shutBytes>>
       ELSE /\ shutBytes' = ctx'.pending
            /\ shut' = IF ctx'.pending = None THEN "put" ELSE "add"
    /\ due' = IF d = None THEN due \cup {latest'} ELSE {latest'}
    /\ UNCHANGED <<task, roots, shutRoot, signals, publishing>>

(***************************************************************************)
(* run_state_persist_loop.  The retry delay is not modelled.               *)
(***************************************************************************)
TaskStep(c, from, to) ==
    /\ Alive
    /\ pc[c] = from
    /\ pc' = [pc EXCEPT ![c] = to]

\* save_all_entity_states holds the manifest writer's lock.
WriterLocked == shut \in {"locked", "wait", "add", "put", "publish"}

AddBytes(c) ==
    /\ \/ TaskStep(c, "add", "link")
       \/ "add" \in Failures /\ TaskStep(c, "add", "snap")
    /\ UNCHANGED <<worker, mailbox, bytes, inFlight, roots, daemon, publishing, orphaned>>

\* Mutant: a failed update of the manifest is confirmed like a successful one.
set_entity_state_FailureMarks(c) ==
    /\ ~WriterLocked
    /\ TaskStep(c, "link", "mark")
    /\ \/ /\ root' = bytes[c]
          /\ statsRoot' = bytes[c]
       \/ /\ Failures \cap {"get", "put"} # {}
          /\ UNCHANGED <<root, statsRoot>>
    /\ UNCHANGED <<worker, mailbox, bytes, inFlight, configRoot, daemon, publishing, orphaned>>

\* ManifestWriter::set_entity_state, atomic under the writer's lock.
set_entity_state(c) ==
    /\ ~WriterLocked
    /\ \/ /\ TaskStep(c, "link", "mark")
          /\ root' = bytes[c]
          /\ statsRoot' = bytes[c]
       \/ /\ Failures \cap {"get", "put"} # {}
          /\ TaskStep(c, "link", "snap")
          /\ UNCHANGED <<root, statsRoot>>
    /\ UNCHANGED <<worker, mailbox, bytes, inFlight, configRoot, daemon, publishing, orphaned>>

MarkSaved(c) ==
    /\ TaskStep(c, "mark", "snap")
    /\ PostMarkSaved(bytes[c])
    /\ UNCHANGED <<worker, bytes, inFlight, roots, daemon, publishing, orphaned>>

\* pending_state_snapshot inside the loop: an error ends the loop.
TakeSnapshot(c) ==
    /\ \/ /\ HasRoom
          /\ TaskStep(c, "snap", "snapWait")
          /\ Post("TakePending", c, None)
       \/ /\ ~HasRoom
          /\ TaskStep(c, "snap", "store")
          /\ UNCHANGED mailbox
       \/ /\ "timeout" \in Faults
          /\ TaskStep(c, "snapWait", "store")
          /\ Abandon(c)
    /\ UNCHANGED <<worker, bytes, inFlight, roots, daemon, publishing, orphaned>>

\* Mutant: the task does not look again after it released the flag.
StoreInFlight_NoTail(c) ==
    /\ TaskStep(c, "store", "done")
    /\ inFlight' = FALSE
    /\ UNCHANGED <<worker, mailbox, bytes, roots, daemon, publishing, orphaned>>

\* Mutant: the flag stays set.
StoreInFlight_Forgotten(c) ==
    /\ TaskStep(c, "store", "done")
    /\ UNCHANGED <<worker, mailbox, bytes, inFlight, roots, daemon, publishing, orphaned>>

StoreInFlight(c) ==
    /\ TaskStep(c, "store", "tail")
    /\ inFlight' = FALSE
    /\ UNCHANGED <<worker, mailbox, bytes, roots, daemon, publishing, orphaned>>

\* Mutant: the result of try_send is ignored and the reply awaited.
TakeTail_IgnoresFull(c) ==
    /\ \/ /\ TaskStep(c, "tail", "tailWait")
          /\ IF HasRoom THEN Post("TakePending", c, None) ELSE UNCHANGED mailbox
          /\ UNCHANGED orphaned
       \/ /\ "timeout" \in Faults
          /\ TaskStep(c, "tailWait", "done")
          /\ orphaned' = TRUE
          /\ Abandon(c)
    /\ UNCHANGED <<worker, bytes, inFlight, roots, daemon, publishing>>

\* The look after the reset of the flag: on an error the task just ends.
TakeTail(c) ==
    /\ \/ /\ HasRoom
          /\ TaskStep(c, "tail", "tailWait")
          /\ Post("TakePending", c, None)
          /\ UNCHANGED orphaned
       \/ /\ ~HasRoom
          /\ TaskStep(c, "tail", "done")
          /\ orphaned' = TRUE
          /\ UNCHANGED mailbox
       \/ /\ "timeout" \in Faults
          /\ TaskStep(c, "tailWait", "done")
          /\ orphaned' = TRUE
          /\ Abandon(c)
    /\ UNCHANGED <<worker, bytes, inFlight, roots, daemon, publishing>>

PersistTask(c) ==
    \/ AddBytes(c)
    \/ set_entity_state(c)
    \/ MarkSaved(c)
    \/ TakeSnapshot(c)
    \/ StoreInFlight(c)
    \/ TakeTail(c)

(***************************************************************************)
(* handle_shutdown and save_all_entity_states.                             *)
(***************************************************************************)
ShutStep(from, to) == shut = from /\ shut' = to

\* Any error inside the mutation leaves the manifest unpublished and the
\* daemon running.
AbortShutdown(from) ==
    /\ ShutStep(from, "run")
    /\ shutBytes' = None

CtrlC ==
    /\ signals < MaxSignals
    /\ signals' = signals + 1
    /\ ShutStep("run", "locked")
    /\ UNCHANGED <<worker, mailbox, task, roots, shutBytes, shutRoot, due, publishing, orphaned>>

\* An entity node that cannot be fetched is skipped with a warning; without
\* the manifest itself nothing is saved.
ShutdownEntity ==
    /\ \/ /\ "get" \in Failures
          /\ ShutStep("locked", "publish")
          /\ due' = {latest}
          /\ UNCHANGED <<mailbox, shutBytes>>
       \/ /\ "get" \in Failures
          /\ AbortShutdown("locked")
          /\ UNCHANGED <<mailbox, due>>
       \/ /\ HasRoom
          /\ ShutStep("locked", "wait")
          /\ Post("Shutdown", Daemon, None)
          /\ UNCHANGED <<shutBytes, due>>
       \/ /\ ~HasRoom
          /\ AbortShutdown("locked")
          /\ UNCHANGED <<mailbox, due>>
       \/ /\ "timeout" \in Faults
          /\ AbortShutdown("wait")
          /\ Abandon(Daemon)
          /\ UNCHANGED due
    /\ UNCHANGED <<worker, task, roots, shutRoot, signals, publishing, orphaned>>

\* shutdown_signal_save marks the bytes saved as soon as Kubo has them.
ShutdownAdd ==
    /\ \/ /\ ShutStep("add", "put")
          /\ PostMarkSaved(shutBytes)
          /\ UNCHANGED shutBytes
       \/ /\ "add" \in Failures
          /\ AbortShutdown("add")
          /\ UNCHANGED mailbox
    /\ UNCHANGED <<worker, task, roots, shutRoot, signals, due, publishing, orphaned>>

ShutdownPutNode ==
    /\ \/ /\ ShutStep("put", "publish")
          /\ UNCHANGED shutBytes
       \/ /\ "put" \in Failures
          /\ AbortShutdown("put")
    /\ UNCHANGED <<worker, mailbox, task, roots, shutRoot, signals, due, publishing, orphaned>>

\* publish_manifest_update, then the writer's lock is released.
ShutdownPublish ==
    /\ \/ LET new == IF shutBytes = None THEN root ELSE shutBytes
          IN  /\ ShutStep("publish", "stats")
              /\ root' = new
              /\ statsRoot' = new
              /\ shutRoot' = new
              /\ shutBytes' = None
       \/ /\ "put" \in Failures
          /\ AbortShutdown("publish")
          /\ UNCHANGED <<root, statsRoot, shutRoot>>
    /\ UNCHANGED <<worker, mailbox, task, configRoot, signals, due, publishing, orphaned>>

\* handle_shutdown stores the returned root, whatever Stats holds by now.
ShutdownStats ==
    /\ ShutStep("stats", "config")
    /\ statsRoot' = shutRoot
    /\ UNCHANGED <<worker, mailbox, task, root, configRoot, shutBytes, shutRoot,
                   signals, due, publishing, orphaned>>

ShutdownConfig ==
    /\ ShutStep("config", "closing")
    /\ \/ configRoot' = statsRoot
       \/ "config" \in Failures /\ UNCHANGED configRoot
    /\ UNCHANGED <<worker, mailbox, task, root, statsRoot, shutBytes, shutRoot,
                   signals, due, publishing, orphaned>>

\* close_endpoint returns and the process ends; other tasks ran until now.
Exit ==
    /\ ShutStep("closing", "exited")
    /\ UNCHANGED <<worker, mailbox, task, roots, shutBytes, shutRoot, signals,
                   due, publishing, orphaned>>

Shutdown ==
    \/ ShutdownEntity
    \/ ShutdownAdd
    \/ ShutdownPutNode
    \/ ShutdownPublish
    \/ ShutdownStats
    \/ ShutdownConfig
    \/ Exit

(***************************************************************************)
(* The periodic republisher, crash and boot.                               *)
(***************************************************************************)
RepublishStart ==
    /\ Alive
    /\ Republishing
    /\ publishing = None
    /\ publishing' = statsRoot
    /\ UNCHANGED <<worker, mailbox, task, roots, daemon, orphaned>>

\* The root that was read before the publish is the one written to config.yaml.
RepublishFinish ==
    /\ Alive
    /\ publishing # None
    /\ \/ configRoot' = publishing
       \/ Failures \cap {"publish", "config"} # {} /\ UNCHANGED configRoot
    /\ publishing' = None
    /\ UNCHANGED <<worker, mailbox, task, root, statsRoot, daemon, orphaned>>

Crash ==
    /\ Alive
    /\ "crash" \in Faults
    /\ shut' = "crashed"
    /\ UNCHANGED <<worker, mailbox, task, roots, shutBytes, shutRoot, signals,
                   due, publishing, orphaned>>

\* EntityPlugin::load: a state that cannot be fetched becomes the empty one.
init_state(linked) == {linked} \cup (IF "cat" \in Failures THEN {EmptyState} ELSE {})

\* Boot takes the root from config.yaml and loads the entity with the state it
\* links.
Boot ==
    /\ ~Alive
    /\ \E s \in init_state(configRoot) :
          /\ ctx' = StateCtx_new(s)
          /\ latest' = s
          /\ used' = used \cup {s}
    /\ mailbox' = << >>
    /\ pc' = [c \in Call |-> IF pc[c] = "idle" THEN "idle" ELSE "done"]
    /\ bytes' = [c \in Call |-> None]
    /\ inFlight' = FALSE
    /\ root' = configRoot
    /\ statsRoot' = configRoot
    /\ shut' = "run"
    /\ shutBytes' = None
    /\ publishing' = None
    /\ orphaned' = FALSE
    /\ UNCHANGED <<configRoot, shutRoot, signals, due>>

-----------------------------------------------------------------------------
Init ==
    /\ configRoot = EmptyState
    /\ root = configRoot /\ statsRoot = configRoot /\ shutRoot = configRoot
    /\ ctx = StateCtx_new(configRoot)
    /\ latest = configRoot /\ used = {configRoot} /\ due = {configRoot}
    /\ mailbox = << >>
    /\ pc = [c \in Call |-> "idle"]
    /\ bytes = [c \in Call |-> None]
    /\ inFlight = FALSE
    /\ shut = "run" /\ shutBytes = None /\ signals = 0
    /\ publishing = None
    /\ orphaned = FALSE

Worker ==
    \/ \E s \in Maybe(State), trap \in BOOLEAN : WorkerDispatch(s, trap)
    \/ WorkerTakePending
    \/ WorkerMarkSaved
    \/ \E s \in Maybe(State) : WorkerShutdown(s)

Next ==
    \/ \E c \in Call : Dispatch(c) \/ DispatchTimeout(c) \/ spawn_state_persist(c)
    \/ Worker
    \/ \E c \in Call : PersistTask(c)
    \/ CtrlC
    \/ Shutdown
    \/ RepublishStart
    \/ RepublishFinish
    \/ Crash
    \/ Boot

Spec == Init /\ [][Next]_vars

\* The worker is an OS thread and the tasks run on a fair scheduler; a request
\* the loop keeps retrying eventually finds Kubo up.  Nothing obliges the
\* republisher, an operator or a boot.
Fairness ==
    /\ WF_vars(Worker)
    /\ WF_vars(Shutdown)
    /\ \A c \in Call :
          /\ WF_vars(spawn_state_persist(c))
          /\ WF_vars(PersistTask(c))
          /\ SF_vars(AddBytes(c) /\ pc'[c] = "link")
          /\ SF_vars(set_entity_state(c) /\ pc'[c] = "mark")

FairSpec == Spec /\ Fairness

-----------------------------------------------------------------------------
\* Whoever is about to add, link or record bytes has some.
PayloadsPresent ==
    /\ \A c \in Call : pc[c] \in {"replied", "add", "link", "mark"} => bytes[c] # None
    /\ \A i \in DOMAIN mailbox : mailbox[i].type = "MarkSaved" => mailbox[i].bytes # None
    /\ shut = "add" => shutBytes # None

(* Every variable has its type; the mailbox never exceeds its capacity,     *)
(* whoever of callers, persist tasks and shutdown posts to it.              *)
TypeOK ==
    /\ ctx \in StateCtx
    /\ mailbox \in Seq(EntityMsg) /\ Len(mailbox) <= MailboxCapacity
    /\ pc \in [Call -> CallPC]
    /\ bytes \in [Call -> Maybe(State)]
    /\ inFlight \in BOOLEAN
    /\ root \in State /\ statsRoot \in State /\ configRoot \in State
    /\ shut \in ShutPC /\ shutBytes \in Maybe(State) /\ shutRoot \in State
    /\ publishing \in Maybe(State)
    /\ signals \in 0..MaxSignals
    /\ latest \in State /\ used \subseteq State /\ due \subseteq State
    /\ orphaned \in BOOLEAN
    /\ PayloadsPresent

(* What StateCtx's field comments say of it, whichever of queue_state and a *)
(* late mark_saved came last: dirty exactly when bytes are pending, and     *)
(* pending bytes are never the ones already persisted.                      *)
CtxConsistent ==
    /\ ctx.dirty <=> ctx.pending # None
    /\ ctx.pending # ctx.persisted

Waiting == {"queued", "snapWait", "tailWait"}

\* A reply handle in the mailbox belongs to whoever waits for that reply.
Owned(m) ==
    \/ m.reply = None
    \/ m.type = "Dispatch" /\ m.reply \in Call /\ pc[m.reply] = "queued"
    \/ m.type = "TakePending" /\ m.reply \in Call /\ pc[m.reply] \in {"snapWait", "tailWait"}
    \/ m.type = "Shutdown" /\ m.reply = Daemon /\ shut \in {"wait", "crashed"}

RepliesOwned == \A i \in DOMAIN mailbox : Owned(mailbox[i])

RepliesUnique ==
    \A i, j \in DOMAIN mailbox :
        mailbox[i].reply = mailbox[j].reply /\ i # j => mailbox[i].reply = None

RepliesDue ==
    /\ \A c \in Call : pc[c] \in Waiting => \E i \in DOMAIN mailbox : mailbox[i].reply = c
    /\ shut = "wait" => \E i \in DOMAIN mailbox : mailbox[i].reply = Daemon

(* Whoever awaits a oneshot reply of the worker has exactly one request in  *)
(* the mailbox, and every reply handle there belongs to its waiter: nobody  *)
(* waits for an answer that cannot come, nobody is answered twice.          *)
RequestsMatch == RepliesOwned /\ RepliesUnique /\ RepliesDue

(* At most one task is between the swap and the reset of                    *)
(* state_persist_in_flight, and the flag is set exactly then: no storm of   *)
(* concurrent persists, no flag left behind that blocks all later ones.     *)
OneLoop ==
    /\ \A c, d \in Call : pc[c] \in Body /\ pc[d] \in Body => c = d
    /\ inFlight <=> \E c \in Call : pc[c] \in Body

\* A task in one of these control points still has to look at the worker.
Carriers == Body \cup {"replied", "tail", "tailWait"}

(* No lost wake-up: as long as state is pending, some task is going to look *)
(* at it, unless a fault swallowed the report of the change.  A call that   *)
(* finds the flag set leaves its bytes to a loop that may already have had  *)
(* its last snapshot; the look after the reset makes up for it.             *)
NoStranded ==
    Alive /\ ctx.pending # None /\ ~orphaned => \E c \in Call : pc[c] \in Carriers

(* If callers are prompt, states never recur and no shutdown interferes, a  *)
(* worker with nothing pending has its last state linked in the manifest,   *)
(* through retries, timeouts, traps, full mailboxes, crashes and reboots.   *)
NothingPendingMeansDurable ==
    Alive /\ ctx.pending = None => root = latest

\* The bytes on their way, wherever they are, were once the actor's state.
BytesKnown ==
    /\ {root, statsRoot, configRoot, latest, ctx.persisted} \subseteq used
    /\ publishing \in Maybe(used)
    /\ \A c \in Call : bytes[c] \in Maybe(used)
    /\ \A i \in DOMAIN mailbox : mailbox[i].bytes \in Maybe(used)

\* A confirmation of the last state is on its way only after it was linked.
ConfirmedIsLinked ==
    /\ \A i \in DOMAIN mailbox :
          mailbox[i].type = "MarkSaved" /\ mailbox[i].bytes = latest => root = latest
    /\ \A c \in Call : pc[c] = "mark" /\ bytes[c] = latest => root = latest

\* A new task starts from the last state, and once that is linked no task can
\* link an older one over it.
NoStaleCarrier ==
    /\ \A c \in Call : pc[c] = "replied" => bytes[c] = latest
    /\ root = latest => \A c \in Call : pc[c] \in {"add", "link", "mark"} => bytes[c] = latest

(* Why nothing pending means durable: only the last state is ever pending,  *)
(* only a linked state is confirmed, and no task carries an older state     *)
(* once the last one is linked.  The inductive invariant of its proof.      *)
DurableInv ==
    /\ shut \in {"run", "crashed"}
    /\ BytesKnown
    /\ ctx.pending \in {None, latest}
    /\ ctx.pending = None => root = latest
    /\ ConfirmedIsLinked
    /\ NoStaleCarrier

(* REFERENCE.md: "State is persisted back to IPFS on graceful shutdown".    *)
(* After a clean exit config.yaml leads to the state the shutdown found, or *)
(* to one set later.                                                        *)
ShutdownKeepsState == shut = "exited" => configRoot \in due

(* A state change is persisted eventually, through any number of failed     *)
(* requests, as long as the daemon runs.  A state the actor sets in         *)
(* :shutdown is excepted: when the shutdown is then aborted no task has it. *)
Drained == ctx.pending # None /\ ~orphaned ~> (ctx.pending = None \/ orphaned \/ ~Alive)

(* The flag is always released again, so that later changes get a task.     *)
FlagReleased == inFlight ~> (~inFlight \/ ~Alive)

(* A shutdown holds the manifest writer's lock while it waits for a worker, *)
(* and persist tasks wait for that lock: it still comes to an end.          *)
ShutdownEnds == shut = "locked" ~> shut \in {"run", "exited", "crashed"}
=============================================================================
