----------------------------- MODULE EventLoop -----------------------------
(***************************************************************************)
(* The daemon's main loop (src/src/eventloop.rs), the tasks it starts and  *)
(* the services it calls.  A tick of the loop drains the three inboxes in  *)
(* turn and then a part of the plugin outbox:                              *)
(*                                                                         *)
(*   ipfs     handled in the loop, 10 minutes each                         *)
(*   crud     handled in the loop, 30 s each, the reply's delivery included*)
(*   inbox    a task each (dispatch_actor_message), 30 s                   *)
(*   outbox   to an entity of this runtime: a task each, under the local   *)
(*            gate, for which the loop waits; to a peer: a delivery, under *)
(*            the remote gate, without which the envelope is dropped       *)
(*                                                                         *)
(* Entities run on threads of their own and may send at any time: messages,*)
(* timers and other entities wake them.  A call into an entity may never   *)
(* return.  What entities do to the registry is in EntityLifecycle, what   *)
(* CRUD does to the manifest in ControlPlane.                              *)
(***************************************************************************)
EXTENDS PeerDelivery, Sequences

CONSTANTS
    Message,        \* messages a peer may send: [inbox, kind, val, ok]
    Envelope,       \* what entities send: [to, service, reply]
    Workload,       \* start and bounds of a behaviour: [messages, envelopes,
                    \*   record, limit, interval, moves, signals]
    Inline,         \* the delivery of a CRUD reply, in the loop itself
    BUDGET,         \* PLUGIN_OUTBOX_DRAIN_BUDGET
    Capacity,       \* plugin_envelope_queue_capacity
    LocalLimit,     \* LOCAL_PLUGIN_DISPATCH_LIMIT
    RemoteLimit     \* REMOTE_PLUGIN_DELIVERY_LIMIT

ASSUME LoopAssumption ==
    /\ Inline \in Delivery
    /\ BUDGET \in Nat \ {0}
    /\ Capacity \in Nat \ {0}
    /\ LocalLimit \in Nat \ {0}
    /\ RemoteLimit \in Nat \ {0}
    /\ \A m \in Message : /\ m.inbox = "ipfs" => m.kind \in {"publish", "store"}
                          /\ m.kind = "publish" => m.val \in Version
                          /\ m.kind = "limit" => m.val \in Limit
    /\ \A e \in Envelope : e.service \in Service
    /\ \A w \in Workload : w.record \in Version \cup {None} /\ w.limit \in Limit

VARIABLES
    pending,        \* messages in the three inboxes
    arrived,        \* messages that have arrived so far
    outbox,         \* the plugin outbox, a sequence of envelopes
    loop,           \* place of the loop, the message and the count it holds
    local,          \* permits of the local gate in use
    actors,         \* inbox messages whose task runs
    interval,       \* is did_refresh_interval_secs positive
    signal,         \* Ctrl-C: "none", "pending", "handled"
    load            \* the workload of the behaviour

loopVars == <<pending, arrived, outbox, loop, local, actors, interval, signal, load>>
vars == <<peerVars, loopVars>>

At(pc) == [pc |-> pc, msg |-> None, drained |-> 0]

Up == loop.pc # "stopped"

Init ==
    /\ load \in Workload
    /\ PeerInit(load.record, load.limit)
    /\ pending = {}
    /\ arrived = {}
    /\ outbox = << >>
    /\ loop = At("select")
    /\ local = 0
    /\ actors = {}
    /\ signal = "none"
    /\ interval = load.interval

-----------------------------------------------------------------------------
(* The outside.                                                            *)

(* A message of the peer comes in, perhaps late or out of order; it cannot *)
(* hold a document the peer has not written yet.                           *)
Arrives(m) ==
    /\ Up
    /\ m \in load.messages \ arrived
    /\ m.kind = "publish" => m.val <= current
    /\ arrived' = arrived \cup {m}
    /\ pending' = pending \cup {m}
    /\ UNCHANGED <<peerVars, outbox, loop, local, actors, interval, signal, load>>

CtrlC ==
    /\ Up
    /\ load.signals /\ signal = "none"
    /\ signal' = "pending"
    /\ UNCHANGED <<peerVars, pending, arrived, outbox, loop, local, actors, interval, load>>

(* ma_send and ma_reply of an entity's thread (enqueue_envelope): a full   *)
(* outbox drops the envelope, and the entity is told it was sent.          *)
ma_send_Unbounded(e) ==
    /\ Up
    /\ e \in load.envelopes
    /\ outbox' = Append(outbox, e)
    /\ UNCHANGED <<peerVars, pending, arrived, loop, local, actors, interval, signal, load>>

ma_send(e) ==
    /\ Up
    /\ e \in load.envelopes
    /\ outbox' = IF Len(outbox) < Capacity THEN Append(outbox, e) ELSE outbox
    /\ UNCHANGED <<peerVars, pending, arrived, loop, local, actors, interval, signal, load>>

-----------------------------------------------------------------------------
(* run and drain_tick.                                                     *)

(* select!: the ticker.                                                    *)
Tick ==
    /\ loop.pc = "select"
    /\ loop' = At("ipfs")
    /\ UNCHANGED <<peerVars, pending, arrived, outbox, local, actors, interval, signal, load>>

Waiting(inbox) == {m \in pending : m.inbox = inbox}

(* An inbox is empty: on to the next.                                      *)
Drained(inbox, next) ==
    /\ loop.pc = inbox
    /\ Waiting(inbox) = {}
    /\ loop' = At(next)
    /\ UNCHANGED <<peerVars, pending, arrived, outbox, local, actors, interval, signal, load>>

(* The loop takes a message of an inbox; record_inbound_contact.           *)
Pop(m) ==
    /\ loop.pc = m.inbox
    /\ m \in pending
    /\ pending' = pending \ {m}
    /\ clear_unreachable

(* handle_ipfs_message: access, replay and validity.                       *)
handle_ipfs_message(m) == m.ok

drain_ipfs_messages(m) ==
    /\ m.inbox = "ipfs"
    /\ Pop(m)
    /\ loop' = IF handle_ipfs_message(m) THEN [At(m.kind) EXCEPT !.msg = m] ELSE At("ipfs")
    /\ UNCHANGED <<peer, limits, task, refresher, arrived, outbox, local,
                   actors, interval, signal, load>>

(* handle_did_document_publish.  An error of Kubo or the timeout ends it   *)
(* after its first part.                                                   *)
handle_did_document_publish ==
    /\ loop.pc = "publish"
    /\ PublishCaches(loop.msg.val)
    /\ loop' = [loop EXCEPT !.pc = "key"]
    /\ UNCHANGED <<pending, arrived, outbox, local, actors, interval, signal, load>>

(* ensure_kubo_ipns_key: Kubo has the document's key, or imports it; a key *)
(* with another id under its name is an error.                             *)
ensure_kubo_ipns_key ==
    /\ loop.pc = "key"
    /\ loop' \in {[loop EXCEPT !.pc = "name"], At("ipfs")}
    /\ UNCHANGED <<peerVars, pending, arrived, outbox, local, actors, interval, signal, load>>

NamePublishes ==
    /\ loop.pc = "name"
    /\ PublishNames(loop.msg.val) \/ UNCHANGED peerVars
    /\ loop' = At("ipfs")
    /\ UNCHANGED <<pending, arrived, outbox, local, actors, interval, signal, load>>

(* send_reply_typed, and the same in handle_ipfs_store: a task delivers the*)
(* reply.                                                                  *)
send_reply_typed == \E d \in Delivery \ {Inline} : StartDelivery(d, "inbox", FALSE)

(* handle_ipfs_store: stored and answered, or an error.                    *)
handle_ipfs_store ==
    /\ loop.pc = "store"
    /\ send_reply_typed \/ UNCHANGED task
    /\ loop' = At("ipfs")
    /\ UNCHANGED <<peer, outboxes, refresher, pending, arrived, outbox, local,
                   actors, interval, signal, load>>

(* drain_crud_messages: without access (`ok') there is no answer.  Of the  *)
(* requests, those that set what is modelled here; the reply is delivered  *)
(* before the loop goes on.                                                *)
drain_crud_messages(m) ==
    /\ m.inbox = "crud"
    /\ Pop(m)
    /\ \/ /\ ~m.ok
          /\ loop' = At("crud")
          /\ UNCHANGED <<limits, interval, task>>
       \/ /\ m.ok
          /\ IF m.kind = "limit" THEN set_backoff_attempts(m.val)
             ELSE UNCHANGED limits
          /\ interval' = IF m.kind = "interval" THEN m.val ELSE interval
          /\ StartDelivery(Inline, "crud", FALSE)
          /\ loop' = At("reply")
    /\ UNCHANGED <<peer, refresher, arrived, outbox, local, actors, signal, load>>

(* send_crud_reply_raw has come to its end ...                             *)
CrudReplied ==
    /\ loop.pc = "reply"
    /\ ~Running(Inline)
    /\ loop' = At("crud")
    /\ UNCHANGED <<peerVars, pending, arrived, outbox, local, actors, interval, signal, load>>

(* ... or 30 s are over, and the handler is dropped where it is.           *)
CrudTimesOut ==
    /\ loop.pc = "reply"
    /\ Running(Inline)
    /\ task' = End(Inline)
    /\ loop' = At("crud")
    /\ UNCHANGED <<peer, outboxes, refresher, pending, arrived, outbox, local,
                   actors, interval, signal, load>>

(* drain_inbox_messages.                                                   *)
drain_inbox_messages(m) ==
    /\ m.inbox = "inbox"
    /\ Pop(m)
    /\ actors' = actors \cup {m}
    /\ UNCHANGED <<peer, limits, task, refresher, arrived, outbox, loop,
                   local, interval, signal, load>>

(* drain_plugin_envelopes: the outbox is empty, or the tick's budget used. *)
BudgetUsed_Never == FALSE

BudgetUsed == loop.drained = BUDGET

drain_plugin_envelopes_Ends ==
    /\ loop.pc = "outbox"
    /\ outbox = << >> \/ BudgetUsed
    /\ loop' = At("select")
    /\ UNCHANGED <<peerVars, pending, arrived, outbox, local, actors, interval, signal, load>>

(* The next envelope of the outbox.                                        *)
Takes(e) ==
    /\ loop.pc = "outbox"
    /\ outbox # << >> /\ ~BudgetUsed
    /\ e = Head(outbox)
    /\ outbox' = Tail(outbox)
    /\ UNCHANGED <<pending, arrived, actors, interval, signal, load>>

(* classify_target: an entity of this runtime, a peer, or neither.         *)
classify_target(e) == e.to

Counted(pc) == [loop EXCEPT !.pc = pc, !.drained = Min({@ + 1, BUDGET})]

(* dispatch_envelope_locally: a reply is dropped, as nobody in this        *)
(* runtime waits for it; any other envelope needs a permit.                *)
dispatch_envelope_locally(e) ==
    /\ classify_target(e) = "entity"
    /\ Takes(e)
    /\ \/ /\ e.reply
          /\ loop' = Counted("outbox")
          /\ UNCHANGED local
       \/ /\ ~e.reply /\ local < LocalLimit
          /\ local' = local + 1
          /\ loop' = Counted("outbox")
       \/ /\ ~e.reply /\ local = LocalLimit
          /\ loop' = Counted("gate")
          /\ UNCHANGED local
    /\ UNCHANGED peerVars

(* acquire_owned().await returns.                                          *)
GateOpens ==
    /\ loop.pc = "gate"
    /\ local < LocalLimit
    /\ local' = local + 1
    /\ loop' = [loop EXCEPT !.pc = "outbox"]
    /\ UNCHANGED <<peerVars, pending, arrived, outbox, actors, interval, signal, load>>

(* dispatch_envelope_remotely: dropped without a permit or for a recipient *)
(* that is none.  The code has a task for every permit and reply; here the *)
(* set Delivery bounds them, and an envelope for which no task is left is  *)
(* one whose delivery ended at once.                                       *)
dispatch_envelope_remotely(e) ==
    /\ classify_target(e) # "entity"
    /\ Takes(e)
    /\ \/ /\ classify_target(e) = "peer"
          /\ Cardinality({d \in Delivery : task[d].gated}) < RemoteLimit
          /\ \E d \in Delivery \ {Inline} : StartDelivery(d, e.service, TRUE)
       \/ /\ \/ classify_target(e) = "invalid"
             \/ Cardinality({d \in Delivery : task[d].gated}) >= RemoteLimit
             \/ \A d \in Delivery \ {Inline} : Running(d)
          /\ UNCHANGED task
    /\ loop' = Counted("outbox")
    /\ UNCHANGED <<peer, outboxes, refresher, local>>

-----------------------------------------------------------------------------
(* The tasks.                                                              *)

(* dispatch_local_plugin_envelope: the target is looked up for a second,   *)
(* then called; an unknown target and a failed call end the task as well.  *)
dispatch_local_plugin_envelope ==
    /\ Up
    /\ local > 0
    /\ local' = local - 1
    /\ UNCHANGED <<peerVars, pending, arrived, outbox, loop, actors, interval, signal, load>>

(* 30 s are over, whatever the entity does.                                *)
LocalTimesOut_Not ==
    /\ FALSE
    /\ UNCHANGED vars

LocalTimesOut ==
    /\ Up
    /\ local > 0
    /\ local' = local - 1
    /\ UNCHANGED <<peerVars, pending, arrived, outbox, loop, actors, interval, signal, load>>

(* enforce_entity_acl: the caller may use the verb.                        *)
enforce_entity_acl(m) == m.ok

(* dispatch_entity_message and its siblings: whether there is a reply.  A  *)
(* message to nobody in particular is answered when it is a ping; one to   *)
(* an unknown entity gets an error; a native entity answers, a plugin sends*)
(* by itself; a malformed or refused message, a failed call and a timeout  *)
(* get nothing.  An owner's :publish to #root is answered when it is done. *)
Answered(m) == enforce_entity_acl(m) /\ m.kind \in {"ping", "unknown", "native", "root"}

dispatch_actor_message(m) ==
    /\ Up
    /\ m \in actors
    /\ actors' = actors \ {m}
    /\ \/ /\ Answered(m)
          /\ send_reply_typed
       \/ UNCHANGED task
    /\ UNCHANGED <<peer, outboxes, refresher, pending, arrived, outbox, loop,
                   local, interval, signal, load>>

PeerStep ==
    /\ Up
    /\ \/ load.moves /\ PeerMoves
       \/ load.moves /\ PublishedElsewhere
       \/ \E s \in Service : CooldownEnds(s)
       \/ RefreshStarts(interval)
       \/ RefreshReads
       \/ RefreshMerges
    /\ UNCHANGED loopVars

DeliveryStep(d) ==
    /\ Up
    /\ Deliver(d)
    /\ UNCHANGED loopVars

(* The first resolution of a document (RuntimeDidResolver::resolve) and    *)
(* outbox.send are awaited without a deadline of the daemon's own.         *)
NoDeadline(d) == task[d].pc \in {"lookup", "send"}

TimedStep(d) == ~NoDeadline(d) /\ DeliveryStep(d)

-----------------------------------------------------------------------------
(* The end.                                                                *)

(* select!: Ctrl-C.  handle_shutdown saves and publishes (EntityState,     *)
(* Boot), which takes bounded time; without a complete save the loop goes  *)
(* on.                                                                     *)
handle_shutdown ==
    /\ loop.pc = "select"
    /\ signal = "pending"
    /\ \/ loop' = At("closing") /\ signal' = "handled"
       \/ UNCHANGED loop /\ signal' = "none"
    /\ UNCHANGED <<peerVars, pending, arrived, outbox, local, actors, interval, load>>

(* close_endpoint: all deliveries have ended, or 10 s are over.            *)
close_endpoint ==
    /\ loop.pc = "closing"
    /\ loop' = At("stopped")
    /\ UNCHANGED <<peerVars, pending, arrived, outbox, local, actors, interval, signal, load>>

LoopStep ==
    \/ Tick
    \/ Drained("ipfs", "crud")
    \/ Drained("crud", "inbox")
    \/ Drained("inbox", "outbox")
    \/ \E m \in Message : drain_ipfs_messages(m)
    \/ handle_did_document_publish
    \/ ensure_kubo_ipns_key
    \/ NamePublishes
    \/ handle_ipfs_store
    \/ \E m \in Message : drain_crud_messages(m)
    \/ CrudReplied
    \/ CrudTimesOut
    \/ \E m \in Message : drain_inbox_messages(m)
    \/ drain_plugin_envelopes_Ends
    \/ \E e \in Envelope : dispatch_envelope_locally(e)
    \/ GateOpens
    \/ \E e \in Envelope : dispatch_envelope_remotely(e)
    \/ handle_shutdown
    \/ close_endpoint

Next ==
    \/ \E m \in Message : Arrives(m)
    \/ CtrlC
    \/ \E e \in Envelope : ma_send(e)
    \/ LoopStep
    \/ dispatch_local_plugin_envelope
    \/ LocalTimesOut
    \/ \E m \in Message : dispatch_actor_message(m)
    \/ PeerStep
    \/ \E d \in Delivery : DeliveryStep(d)

Spec == Init /\ [][Next]_vars

(* The loop's task is scheduled and timers fire: every step of a delivery  *)
(* that has a deadline is taken.  select! chooses at random among what is  *)
(* ready.  No fairness for the two waits without a deadline, for calls     *)
(* into entities, nor for what comes from outside.                         *)
FairSpec ==
    /\ Spec
    /\ WF_vars(LoopStep)
    /\ SF_vars(Tick)
    /\ SF_vars(handle_shutdown)
    /\ WF_vars(LocalTimesOut)
    /\ \A d \in Delivery : WF_vars(TimedStep(d))

-----------------------------------------------------------------------------
(* Properties.                                                             *)

(* Types, the bound on the plugin outbox, and the permits of the gates.    *)
TypeOK ==
    /\ current \in Version
    /\ {record, cached, published} \subseteq Version \cup {None}
    /\ cooling \subseteq {s \in Service : backoff[s] # None}
    /\ pending \subseteq arrived /\ arrived \subseteq Message
    /\ outbox \in Seq(Envelope) /\ Len(outbox) <= Capacity
    /\ loop.drained \in 0 .. BUDGET
    /\ local \in 0 .. LocalLimit
    /\ Cardinality({d \in Delivery : task[d].gated}) <= RemoteLimit
    /\ actors \subseteq arrived
    /\ signal \in {"none", "pending", "handled"}

(* merge_resolved: the document the peer handed in last is never replaced  *)
(* by an older one that a resolution found, however late the resolutions   *)
(* finish that were under way at the time: in deliveries, first lookups    *)
(* and the refresh worker.  (Another publication does replace it, older or *)
(* not: insert_published compares nothing.)                                *)
NoResolutionUndoesPublication == published # None => cached # None /\ cached >= published

(* mark_unreachable: a peer waits for the Fibonacci number of the connects *)
(* that failed since it was last reached, was heard from or published, as  *)
(* far as the limits there were allow and no further; none is lost when    *)
(* deliveries fail at once, and it waits for nothing before one failed.    *)
BackoffCounts ==
    \A s \in Service :
        IF backoff[s] = None THEN failures[s] = 0
        ELSE /\ backoff[s].attempts >= Min({failures[s], lowest})
             /\ backoff[s].attempts <= Min({failures[s], highest})
             /\ backoff[s].delay = Fib[backoff[s].attempts]

(* A CRUD request is taken, whatever entities send and however long their  *)
(* calls and the deliveries take.                                          *)
CrudServed == Waiting("crud") # {} /\ Up ~> Waiting("crud") = {} \/ ~Up

(* Ctrl-C is handled, whatever holds the loop.                             *)
SignalHandled == signal = "pending" ~> signal # "pending"

(* Every delivery ends, and gives back the permit it holds, unless it      *)
(* hangs in one of the two waits without a deadline; that of a CRUD reply  *)
(* ends even then.                                                         *)
DeliveryEnds ==
    \A d \in Delivery :
        Running(d) ~> (~Running(d) \/ ~Up \/ (d # Inline /\ []NoDeadline(d)))

=============================================================================
