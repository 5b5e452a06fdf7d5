---------------------------- MODULE PeerDelivery ----------------------------
(***************************************************************************)
(* How the daemon reaches a remote peer (src/src/ipfs.rs,                  *)
(* src/src/doccache.rs): the cache of DID documents, the tasks that open   *)
(* an outbox and send one message each, the Fibonacci backoff of peers     *)
(* that could not be reached, the worker that refreshes the cache, and the *)
(* publication of a peer's own document.  The event loop that starts all   *)
(* this is module EventLoop, which extends this one.                       *)
(*                                                                         *)
(* Caches and backoffs are kept per peer; one peer is modelled.  It moves: *)
(* its document has a version (updated_at), and only the endpoint named by *)
(* the current version answers.                                            *)
(***************************************************************************)
EXTENDS Integers, FiniteSets, FiniteSetsExt

CONSTANTS
    Service,            \* protocols of the peer, each with a backoff of its own
    Delivery,           \* tasks that deliver a message
    None,               \* no document, no backoff
    Limit,              \* values of outbox_backoff_attempts
    ATTEMPTS,           \* did_resolve.attempts
    MaxVersion          \* bound on the versions of the peer's document

ASSUME PeerAssumption ==
    /\ ATTEMPTS \in Nat \ {0}
    /\ MaxVersion \in Nat \ {0}
    /\ Limit \subseteq Nat \ {0}
    /\ \E largest \in Limit : \A n \in Limit : n <= largest
    /\ {"inbox", "crud"} \subseteq Service    \* where replies go
    /\ IsFiniteSet(Delivery)
    /\ None \notin Nat
    /\ None \notin [previous : Nat, delay : Nat, attempts : Nat]

Version == 1 .. MaxVersion
Largest == Max(Limit)

VARIABLES
    current,            \* version of the peer's document
    record,             \* version its IPNS name resolves to, or None
    cached,             \* version in the DocumentCache, or None
    published,          \* version the peer handed to this daemon last
    backoff,            \* [Service -> delay and number of failures, or None]
    cooling,            \* services whose retry_at is in the future
    failures,           \* [Service -> connects failed since contact, capped]
    limit,              \* OutboxCache.backoff_attempts
    lowest, highest,    \* the lowest and the highest limit so far
    task,               \* [Delivery -> its place in open_outbox_for_did]
    refresher           \* what refresh_all is doing for the peer's document

peer == <<current, record, cached, published>>
limits == <<limit, lowest, highest>>
outboxes == <<backoff, cooling, failures, limits>>
peerVars == <<current, record, cached, published, backoff, cooling, failures,
              limit, lowest, highest, task, refresher>>

Resting == [pc |-> "idle", doc |-> None]
NoAttempt == [i \in {} |-> None]
Free == [pc |-> "free", service |-> CHOOSE s \in Service : TRUE, gated |-> FALSE,
         doc |-> None, started |-> 0, reading |-> NoAttempt]

(* Delays: the first is one OUTBOX_BACKOFF_INITIAL.                        *)
Fib == LET f[n \in 0 .. Largest + 1] == IF n < 2 THEN n ELSE f[n - 1] + f[n - 2]
       IN  f

(* The peer's document may be known to IPNS or not.                        *)
PeerInit(known, attempts) ==
    /\ current = 1
    /\ record = known
    /\ cached = None
    /\ published = None
    /\ backoff = [s \in Service |-> None]
    /\ cooling = {}
    /\ failures = [s \in Service |-> 0]
    /\ limit = attempts
    /\ lowest = attempts
    /\ highest = attempts
    /\ task = [d \in Delivery |-> Free]
    /\ refresher = Resting

-----------------------------------------------------------------------------
(* OutboxCache.                                                            *)

set_backoff_attempts(n) ==
    /\ limit' = n
    /\ lowest' = Min({lowest, n})
    /\ highest' = Max({highest, n})

unreachable_for(s) == s \in cooling

(* mark_unreachable: the delays follow the Fibonacci numbers; from the     *)
(* limit on the last one is repeated.                                      *)
next_backoff_Constant(b) ==
    IF b = None THEN [previous |-> 0, delay |-> 1, attempts |-> 1] ELSE b

next_backoff(b) ==
    IF b = None THEN [previous |-> 0, delay |-> 1, attempts |-> 1]
    ELSE IF b.attempts >= limit THEN b
    ELSE [previous |-> b.delay, delay |-> b.previous + b.delay,
          attempts |-> b.attempts + 1]

mark_unreachable(s) ==
    /\ backoff' = [backoff EXCEPT ![s] = next_backoff(@)]
    /\ cooling' = cooling \cup {s}
    /\ failures' = [failures EXCEPT ![s] = Min({@ + 1, Largest})]
    /\ UNCHANGED limits

(* clear_unreachable: every service of the peer.  record_inbound_contact   *)
(* does no more.                                                           *)
clear_unreachable ==
    /\ backoff' = [s \in Service |-> None]
    /\ cooling' = {}
    /\ failures' = [s \in Service |-> 0]

(* retry_at passes; the entry stays.                                       *)
CooldownEnds(s) ==
    /\ s \in cooling
    /\ cooling' = cooling \ {s}
    /\ UNCHANGED <<peer, backoff, failures, limits, task, refresher>>

-----------------------------------------------------------------------------
(* DocumentCache.                                                          *)

insert_published(v) == v

(* merge_resolved: what was cached meanwhile and is at least as new wins.  *)
merge_resolved_Replaces(v) == v

merge_resolved(v) == IF cached # None /\ cached >= v THEN cached ELSE v

(* What a resolution may find: the published record, or an older one that  *)
(* some gateway still serves.                                              *)
Resolvable == IF record = None THEN {} ELSE 1 .. record

(* The peer moves, and its document reaches IPNS by other ways.            *)
PeerMoves ==
    /\ current < MaxVersion
    /\ current' = current + 1
    /\ UNCHANGED <<record, cached, published, outboxes, task, refresher>>

PublishedElsewhere ==
    /\ record' = current
    /\ record # current
    /\ UNCHANGED <<current, cached, published, outboxes, task, refresher>>

-----------------------------------------------------------------------------
(* One delivery (open_outbox_for_did, then the send).                      *)

Running(d) == task[d].pc # "free"

(* Whoever starts a delivery: a task for an envelope holds a permit of the *)
(* remote gate (`gated'), one for a reply does not.                        *)
StartDelivery(d, s, gated) ==
    /\ ~Running(d)
    /\ task' = [task EXCEPT ![d] = [Free EXCEPT !.pc = "check", !.service = s,
                                                !.gated = gated]]

Goto(d, pc) == [task EXCEPT ![d].pc = pc]
End(d) == [task EXCEPT ![d] = Free]

(* The cooldown of the peer's service ends the delivery at once.           *)
CheckCooldown(d) ==
    /\ task[d].pc = "check"
    /\ task' = IF unreachable_for(task[d].service) THEN End(d)
               ELSE IF cached # None
               THEN [task EXCEPT ![d].pc = "fast", ![d].doc = cached]
               ELSE Goto(d, "lookup")
    /\ UNCHANGED <<peer, outboxes, refresher>>

(* RuntimeDidResolver::resolve on a miss: fetched, then merged under the   *)
(* lock of the cache.  On an error the slow way is taken.                  *)
LookupReads(d) ==
    /\ task[d].pc = "lookup"
    /\ \/ \E v \in Resolvable : task' = [task EXCEPT ![d].pc = "merge", ![d].doc = v]
       \/ task' = Goto(d, "resolve")
    /\ UNCHANGED <<peer, outboxes, refresher>>

LookupMerges(d) ==
    /\ task[d].pc = "merge"
    /\ cached' = merge_resolved(task[d].doc)
    /\ task' = [task EXCEPT ![d].pc = "fast", ![d].doc = cached']
    /\ UNCHANGED <<current, record, published, outboxes, refresher>>

(* connect_outbox with the document at hand: 5 s for the cached one, 10 s  *)
(* for a resolved one.                                                     *)
Connects(d) ==
    /\ task[d].pc \in {"fast", "connect"}
    /\ task[d].doc = current
    /\ clear_unreachable
    /\ task' = Goto(d, "send")
    /\ UNCHANGED <<peer, limits, refresher>>

FastFails(d) ==
    /\ task[d].pc = "fast"
    /\ task' = Goto(d, "resolve")
    /\ UNCHANGED <<peer, outboxes, refresher>>

ConnectFails(d) ==
    /\ task[d].pc = "connect"
    /\ mark_unreachable(task[d].service)
    /\ task' = End(d)
    /\ UNCHANGED <<peer, refresher>>

(* resolve_did_for_outbox: up to ATTEMPTS staggered attempts, each a task  *)
(* of its own; `reading' holds what each of those that run has read.       *)
spawn_did_resolve_attempt(d) ==
    /\ task[d].pc = "resolve"
    /\ task[d].started < ATTEMPTS
    /\ LET n == task[d].started + 1
       IN  task' = [task EXCEPT ![d].started = n,
                        ![d].reading = [i \in DOMAIN @ \cup {n} |->
                                            IF i = n THEN None ELSE @[i]]]
    /\ UNCHANGED <<peer, outboxes, refresher>>

AttemptReads(d) ==
    /\ task[d].pc = "resolve"
    /\ \E i \in DOMAIN task[d].reading, v \in Resolvable :
          /\ task[d].reading[i] = None
          /\ task' = [task EXCEPT ![d].reading[i] = v]
    /\ UNCHANGED <<peer, outboxes, refresher>>

(* The first attempt to merge what it read gives the document; the others  *)
(* are aborted with their JoinSet.                                         *)
AttemptMerges(d) ==
    /\ task[d].pc = "resolve"
    /\ \E i \in DOMAIN task[d].reading :
          /\ task[d].reading[i] # None
          /\ cached' = merge_resolved(task[d].reading[i])
    /\ task' = [task EXCEPT ![d].pc = "connect", ![d].doc = cached',
                            ![d].started = 0, ![d].reading = NoAttempt]
    /\ UNCHANGED <<current, record, published, outboxes, refresher>>

(* An attempt fails or takes longer than attempt_timeout_secs.             *)
AttemptFails(d) ==
    /\ task[d].pc = "resolve"
    /\ \E i \in DOMAIN task[d].reading :
          task' = [task EXCEPT ![d].reading = [j \in DOMAIN @ \ {i} |-> @[j]]]
    /\ UNCHANGED <<peer, outboxes, refresher>>

(* All attempts have failed: the delivery ends, and no backoff begins.     *)
ResolveFails_Waits(d) ==
    /\ task[d].pc = "resolve"
    /\ task[d].started = ATTEMPTS /\ DOMAIN task[d].reading = {}
    /\ UNCHANGED peerVars

ResolveFails(d) ==
    /\ task[d].pc = "resolve"
    /\ task[d].started = ATTEMPTS /\ DOMAIN task[d].reading = {}
    /\ task' = End(d)
    /\ UNCHANGED <<peer, outboxes, refresher>>

(* outbox.send, with or without success.                                   *)
Sends(d) ==
    /\ task[d].pc = "send"
    /\ task' = End(d)
    /\ UNCHANGED <<peer, outboxes, refresher>>

(* A document may lack the service: the cached one sends the delivery to   *)
(* the resolver, a resolved one ends it, without a backoff.                *)
NoService(d) ==
    /\ task[d].pc = "connect"
    /\ task' = End(d)
    /\ UNCHANGED <<peer, outboxes, refresher>>

Deliver(d) ==
    \/ CheckCooldown(d)
    \/ LookupReads(d)
    \/ LookupMerges(d)
    \/ Connects(d)
    \/ FastFails(d)
    \/ ConnectFails(d)
    \/ spawn_did_resolve_attempt(d)
    \/ AttemptReads(d)
    \/ AttemptMerges(d)
    \/ AttemptFails(d)
    \/ ResolveFails(d)
    \/ Sends(d)
    \/ NoService(d)

-----------------------------------------------------------------------------
(* refresh_all: while did_refresh_interval_secs is not 0 (`on'), the       *)
(* cached document is resolved and merged every interval.                  *)
RefreshStarts(on) ==
    /\ on
    /\ refresher.pc = "idle"
    /\ cached # None
    /\ refresher' = [refresher EXCEPT !.pc = "read"]
    /\ UNCHANGED <<peer, outboxes, task>>

RefreshReads ==
    /\ refresher.pc = "read"
    /\ \/ \E v \in Resolvable : refresher' = [pc |-> "merge", doc |-> v]
       \/ refresher' = Resting
    /\ UNCHANGED <<peer, outboxes, task>>

RefreshMerges ==
    /\ refresher.pc = "merge"
    /\ cached' = merge_resolved(refresher.doc)
    /\ refresher' = Resting
    /\ UNCHANGED <<current, record, published, outboxes, task>>

-----------------------------------------------------------------------------
(* handle_did_document_publish, in the two parts between which the caller  *)
(* waits: the document is cached and the peer is no longer backed off;     *)
(* then Kubo publishes it under the peer's IPNS name, whose previous       *)
(* record is kept when that fails.  Pinning is not modelled: its failure   *)
(* is only logged.  The reply connects with the document at hand and       *)
(* neither reads nor writes the state here.                                *)
PublishCaches(v) ==
    /\ cached' = insert_published(v)
    /\ published' = v
    /\ clear_unreachable
    /\ UNCHANGED <<current, record, limits, task, refresher>>

PublishNames(v) ==
    /\ record' = v
    /\ UNCHANGED <<current, cached, published, outboxes, task, refresher>>

=============================================================================
