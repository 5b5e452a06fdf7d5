-------------------------- MODULE EventLoop_proofs --------------------------
(***************************************************************************)
(* Proofs about EventLoop, and PeerDelivery which it extends, for every    *)
(* set of messages, envelopes and deliveries and every limit.              *)
(***************************************************************************)
EXTENDS EventLoop, SetInduction, FiniteSetTheorems, TLAPS

(***************************************************************************)
(* Operators: Max and Min of two numbers, and the Fibonacci numbers.       *)
(***************************************************************************)
(* The smaller of two numbers. *)
LEMMA MinOfTwo ==
    ASSUME NEW a \in Int, NEW b \in Int
    PROVE  Min({a, b}) = IF a <= b THEN a ELSE b
  BY DEF Min

(* The larger of two numbers. *)
LEMMA MaxOfTwo ==
    ASSUME NEW a \in Int, NEW b \in Int
    PROVE  Max({a, b}) = IF a >= b THEN a ELSE b
  BY DEF Max

(* Largest is a limit, and no limit is above it. *)
LEMMA LargestLimit == Largest \in Limit /\ Largest \in Nat /\ \A n \in Limit : n <= Largest
  <1>1. PICK m \in Limit : \A n \in Limit : n <= m
    BY PeerAssumption
  <1>2. \A n \in Limit : m >= n
    BY <1>1, PeerAssumption
  <1>3. Largest \in Limit /\ \A n \in Limit : Largest >= n
    BY <1>2 DEF Largest, Max
  <1> QED BY <1>3, PeerAssumption

\* f is the Fibonacci sequence up to m.
FibUpTo(f, m) == \A n \in 0 .. m : f[n] = IF n < 2 THEN n ELSE f[n - 1] + f[n - 2]

(* The Fibonacci sequence exists up to any number. *)
LEMMA FibExists == \A m \in Nat : \E f \in [0 .. m -> Nat] : FibUpTo(f, m)
  <1> DEFINE S == {m \in Nat : \E f \in [0 .. m -> Nat] : FibUpTo(f, m)}
  <1>1. 0 \in S
    <2> DEFINE z == [n \in 0 .. 0 |-> 0]
    <2>1. z \in [0 .. 0 -> Nat] /\ FibUpTo(z, 0)
      BY DEF FibUpTo
    <2> QED BY <2>1
  <1>2. ASSUME NEW m \in S PROVE m + 1 \in S
    <2>1. PICK f \in [0 .. m -> Nat] : FibUpTo(f, m)
      OBVIOUS
    <2> DEFINE g == [n \in 0 .. m + 1 |-> IF n < 2 THEN n ELSE f[n - 1] + f[n - 2]]
    <2>2. \A n \in 0 .. m : g[n] = f[n]
      BY <2>1 DEF FibUpTo
    <2>3. g \in [0 .. m + 1 -> Nat]
      OBVIOUS
    <2>4. ASSUME NEW n \in 0 .. m + 1
          PROVE  g[n] = IF n < 2 THEN n ELSE g[n - 1] + g[n - 2]
      <3>1. CASE n < 2
        BY <3>1
      <3>2. CASE ~(n < 2)
        <4>1. n - 1 \in 0 .. m /\ n - 2 \in 0 .. m
          BY <3>2
        <4>2. g[n] = f[n - 1] + f[n - 2]
          BY <3>2
        <4> QED BY <2>2, <3>2, <4>1, <4>2
      <3> QED BY <3>1, <3>2
    <2>5. FibUpTo(g, m + 1)
      <3> HIDE DEF g
      <3> QED BY <2>4 DEF FibUpTo
    <2> HIDE DEF g
    <2>6. m + 1 \in Nat
      OBVIOUS
    <2> QED BY <2>3, <2>5, <2>6
  <1>3. \A m \in Nat : m \in S
    <2>1. S \in SUBSET Nat
      OBVIOUS
    <2> HIDE DEF S
    <2> QED BY <1>1, <1>2, <2>1, AllNumbers
  <1> QED BY <1>3

(* Fib is what its recursive definition says. *)
LEMMA FibEquation ==
    /\ Fib[1] = 1 /\ Fib[0] = 0
    /\ \A n \in 2 .. Largest : Fib[n] = Fib[n - 1] + Fib[n - 2]
  <1>0. Largest + 1 \in Nat
    BY LargestLimit
  <1>1. PICK f \in [0 .. Largest + 1 -> Nat] : FibUpTo(f, Largest + 1)
    BY <1>0, FibExists
  <1>2. f = [n \in 0 .. Largest + 1 |-> IF n < 2 THEN n ELSE f[n - 1] + f[n - 2]]
    BY <1>1 DEF FibUpTo
  <1>3. Fib = [n \in 0 .. Largest + 1 |-> IF n < 2 THEN n ELSE Fib[n - 1] + Fib[n - 2]]
    BY <1>2 DEF Fib
  <1> QED BY <1>3, LargestLimit

-----------------------------------------------------------------------------
(***************************************************************************)
(* The inductive invariant.                                                *)
(***************************************************************************)
MaybeVersion == Version \cup {None}
Reading == UNION {[S -> MaybeVersion] : S \in SUBSET (1 .. ATTEMPTS)}
Backoff == [previous : Nat, delay : Nat, attempts : Nat]

TaskRecord == [pc : {"free", "check", "fast", "lookup", "merge", "resolve", "connect", "send"},
               service : Service, gated : BOOLEAN, doc : MaybeVersion,
               started : 0 .. ATTEMPTS, reading : Reading]

\* A delivery's record, with a document wherever the next step uses one.
TaskOK(r) == r \in TaskRecord /\ (r.pc = "merge" => r.doc # None)

LoopPC == {"select", "ipfs", "publish", "key", "name", "store", "crud", "reply",
           "inbox", "outbox", "gate", "closing", "stopped"}

\* Documents: what the cache, the record and every resolution under way hold.
DocInv ==
    /\ current \in Version
    /\ record \in MaybeVersion /\ cached \in MaybeVersion /\ published \in MaybeVersion
    /\ refresher \in [pc : {"idle", "read", "merge"}, doc : MaybeVersion]
    /\ refresher.pc = "merge" => refresher.doc # None
    /\ task \in [Delivery -> TaskRecord] /\ \A d \in Delivery : TaskOK(task[d])
    /\ NoResolutionUndoesPublication

\* The permits of the remote gate.
Gated == {d \in Delivery : task[d].gated}
GateInv == Cardinality(Gated) <= RemoteLimit

\* Backoffs: each delay is the Fibonacci number of its attempts, the previous
\* delay the one before; the attempts are the failures that were counted, or
\* fewer once they have come to some limit.
BackoffInv ==
    /\ limit \in Limit /\ lowest \in Limit /\ highest \in Limit /\ lowest <= limit /\ limit <= highest
    /\ backoff \in [Service -> Backoff \cup {None}]
    /\ failures \in [Service -> 0 .. Largest]
    /\ cooling \subseteq {s \in Service : backoff[s] # None}
    /\ \A s \in Service :
          IF backoff[s] = None THEN failures[s] = 0
          ELSE /\ backoff[s].attempts \in 1 .. highest
               /\ backoff[s].attempts <= failures[s]
               /\ backoff[s].attempts >= failures[s] \/ backoff[s].attempts >= lowest
               /\ backoff[s].delay = Fib[backoff[s].attempts]
               /\ backoff[s].previous = Fib[backoff[s].attempts - 1]

\* The loop, the queues and the local gate.
QueueInv ==
    /\ pending \subseteq arrived /\ arrived \subseteq Message
    /\ outbox \in Seq(Envelope) /\ Len(outbox) <= Capacity
    /\ loop \in [pc : LoopPC, msg : Message \cup {None}, drained : 0 .. BUDGET]
    /\ loop.pc \in {"publish", "key", "name"} => loop.msg \in Message /\ loop.msg.kind = "publish"
    /\ local \in 0 .. LocalLimit
    /\ actors \subseteq arrived
    /\ signal \in {"none", "pending", "handled"}

LoopInv == DocInv /\ GateInv /\ BackoffInv /\ QueueInv

(* The invariant implies what the runs check. *)
LEMMA LoopInvImplies == LoopInv => TypeOK /\ NoResolutionUndoesPublication /\ BackoffCounts
  <1> SUFFICES ASSUME LoopInv PROVE TypeOK /\ NoResolutionUndoesPublication /\ BackoffCounts
    OBVIOUS
  <1> USE DEF LoopInv
  <1>1. TypeOK
    BY DEF TypeOK, DocInv, GateInv, Gated, BackoffInv, QueueInv, MaybeVersion
  <1>2. ASSUME NEW s \in Service, backoff[s] # None
        PROVE  /\ backoff[s].attempts >= Min({failures[s], lowest})
               /\ backoff[s].attempts <= Min({failures[s], highest})
    <2>1. failures[s] \in Int /\ lowest \in Int /\ highest \in Int
      BY PeerAssumption, LargestLimit DEF BackoffInv
    <2>2. /\ backoff[s].attempts \in Int
          /\ backoff[s].attempts <= failures[s] /\ backoff[s].attempts <= highest
          /\ backoff[s].attempts >= failures[s] \/ backoff[s].attempts >= lowest
      BY <1>2, <2>1 DEF BackoffInv
    <2> QED BY <2>1, <2>2, MinOfTwo
  <1>3. BackoffCounts
    BY <1>2 DEF BackoffCounts, BackoffInv
  <1> QED BY <1>1, <1>3 DEF DocInv

-----------------------------------------------------------------------------
(***************************************************************************)
(* Deliveries.                                                             *)
(***************************************************************************)
(* A free delivery. *)
LEMMA FreeOK == TaskOK(Free) /\ ~Free.gated /\ NoAttempt \in Reading
  <1>1. NoAttempt \in [{} -> MaybeVersion]
    BY DEF NoAttempt
  <1>2. {} \in SUBSET (1 .. ATTEMPTS)
    OBVIOUS
  <1>3. NoAttempt \in Reading
    BY <1>1, <1>2 DEF Reading
  <1>4. (CHOOSE s \in Service : TRUE) \in Service
    BY PeerAssumption
  <1>5. 0 \in 0 .. ATTEMPTS
    BY PeerAssumption
  <1> QED BY <1>3, <1>4, <1>5 DEF Free, TaskOK, TaskRecord, MaybeVersion

(* What an attempt has read is a document, or nothing yet. *)
LEMMA ReadingType ==
    ASSUME NEW r \in Reading
    PROVE  /\ DOMAIN r \subseteq 1 .. ATTEMPTS
           /\ \A i \in DOMAIN r : r[i] \in MaybeVersion
           /\ r \in [DOMAIN r -> MaybeVersion]
  BY DEF Reading

(* A function from attempts to documents is a Reading. *)
LEMMA ReadingIntro ==
    ASSUME NEW S \in SUBSET (1 .. ATTEMPTS), NEW r \in [S -> MaybeVersion]
    PROVE  r \in Reading
  BY DEF Reading

(* merge_resolved never goes back. *)
LEMMA MergeNewer ==
    ASSUME NEW v \in Version, cached \in MaybeVersion
    PROVE  /\ merge_resolved(v) \in Version
           /\ cached # None => merge_resolved(v) >= cached
  BY PeerAssumption DEF merge_resolved, MaybeVersion, Version

(* Every version that can be resolved is a version. *)
LEMMA ResolvableType == DocInv => Resolvable \subseteq Version
  BY PeerAssumption DEF DocInv, Resolvable, MaybeVersion, Version

\* What a step of delivery d does to the deliveries: it changes only its own
\* record, keeps it well-formed and does not take a permit.
OwnRecord(d) ==
    \E r : /\ TaskOK(r)
           /\ r.gated => task[d].gated
           /\ task' = [task EXCEPT ![d] = r]

\* What any step does to the cache: a merge never makes it older.
CacheGrows == cached' \in MaybeVersion /\ (cached # None => cached' # None /\ cached' >= cached)

(* The steps of a delivery keep its record well-formed and the cache growing. *)
LEMMA DeliverDocs ==
    ASSUME DocInv, NEW d \in Delivery, Deliver(d)
    PROVE  /\ OwnRecord(d)
           /\ CacheGrows
           /\ UNCHANGED <<current, record, published, refresher>>
  <1> DEFINE r == task[d]
  <1>0. r \in TaskRecord /\ TaskOK(r) /\ cached \in MaybeVersion
    BY DEF DocInv
  <1>a. cached' = cached => CacheGrows
    BY <1>0, PeerAssumption DEF CacheGrows, MaybeVersion, Version
  <1>b. task' = End(d) => OwnRecord(d)
    BY FreeOK DEF OwnRecord, End
  <1>c. ASSUME NEW pc \in {"check", "fast", "lookup", "resolve", "connect", "send"}, task' = Goto(d, pc)
        PROVE  OwnRecord(d)
    <2>1. TaskOK([r EXCEPT !.pc = pc]) /\ [r EXCEPT !.pc = pc].gated = r.gated
      BY <1>0 DEF TaskOK, TaskRecord
    <2>2. task' = [task EXCEPT ![d] = [r EXCEPT !.pc = pc]]
      BY <1>c DEF Goto
    <2> QED BY <2>1, <2>2 DEF OwnRecord
  <1>1. CASE CheckCooldown(d)
    <2>1. CASE task' = [task EXCEPT ![d].pc = "fast", ![d].doc = cached]
      <3> DEFINE n == [r EXCEPT !.pc = "fast", !.doc = cached]
      <3>1. TaskOK(n) /\ n.gated = r.gated
        BY <1>0 DEF TaskOK, TaskRecord
      <3>2. task' = [task EXCEPT ![d] = n]
        BY <2>1 DEF DocInv
      <3>3. OwnRecord(d)
        BY <3>1, <3>2 DEF OwnRecord
      <3> QED BY <1>1, <1>a, <3>3 DEF CheckCooldown, peer
    <2>2. OwnRecord(d)
      BY <1>1, <1>b, <1>c, <2>1 DEF CheckCooldown
    <2> QED BY <1>1, <1>a, <2>2 DEF CheckCooldown, peer
  <1>2. CASE LookupReads(d)
    <2>1. ASSUME NEW v \in Resolvable, task' = [task EXCEPT ![d].pc = "merge", ![d].doc = v]
          PROVE  OwnRecord(d)
      <3> DEFINE n == [r EXCEPT !.pc = "merge", !.doc = v]
      <3>1. v \in Version /\ v # None
        BY ResolvableType, PeerAssumption DEF Version
      <3>2. TaskOK(n) /\ n.gated = r.gated
        BY <1>0, <3>1 DEF TaskOK, TaskRecord, MaybeVersion
      <3>3. task' = [task EXCEPT ![d] = n]
        BY <2>1 DEF DocInv
      <3> QED BY <3>2, <3>3 DEF OwnRecord
    <2>2. OwnRecord(d)
      BY <1>2, <1>c, <2>1 DEF LookupReads
    <2> QED BY <1>2, <1>a, <2>2 DEF LookupReads, peer
  <1>3. CASE LookupMerges(d)
    <2>1. r.doc \in Version
      BY <1>0, <1>3 DEF LookupMerges, TaskOK, TaskRecord, MaybeVersion
    <2>2. cached' \in Version /\ (cached # None => cached' >= cached)
      BY <1>0, <1>3, <2>1, MergeNewer DEF LookupMerges
    <2> DEFINE n == [r EXCEPT !.pc = "fast", !.doc = cached']
    <2>3. TaskOK(n) /\ n.gated = r.gated
      BY <1>0, <2>2 DEF TaskOK, TaskRecord, MaybeVersion
    <2>4. task' = [task EXCEPT ![d] = n]
      BY <1>3 DEF DocInv, LookupMerges
    <2>5. OwnRecord(d)
      BY <2>3, <2>4 DEF OwnRecord
    <2>6. CacheGrows
      BY <2>2, PeerAssumption DEF CacheGrows, MaybeVersion, Version
    <2> QED BY <1>3, <2>5, <2>6 DEF LookupMerges
  <1>4. CASE Connects(d)
    BY <1>4, <1>a, <1>c DEF Connects, peer
  <1>5. CASE FastFails(d)
    BY <1>5, <1>a, <1>c DEF FastFails, peer
  <1>6. CASE ConnectFails(d)
    BY <1>6, <1>a, <1>b DEF ConnectFails, peer
  <1>7. CASE spawn_did_resolve_attempt(d)
    <2> DEFINE k == r.started + 1
               a == [i \in DOMAIN r.reading \cup {k} |-> IF i = k THEN None ELSE r.reading[i]]
               n == [r EXCEPT !.started = k, !.reading = a]
    <2>1. k \in 1 .. ATTEMPTS
      BY <1>0, <1>7, PeerAssumption DEF spawn_did_resolve_attempt, TaskRecord
    <2>2. r.reading \in Reading
      BY <1>0 DEF TaskRecord
    <2>3. DOMAIN r.reading \cup {k} \in SUBSET (1 .. ATTEMPTS)
      BY <2>1, <2>2, ReadingType
    <2>4. a \in [DOMAIN r.reading \cup {k} -> MaybeVersion]
      BY <2>2, ReadingType DEF MaybeVersion
    <2>5. a \in Reading
      BY <2>3, <2>4, ReadingIntro
    <2>6. TaskOK(n) /\ n.gated = r.gated
      <3>1. k \in 0 .. ATTEMPTS
        BY <2>1, PeerAssumption
      <3> HIDE DEF a, k
      <3> QED BY <1>0, <2>5, <3>1 DEF TaskOK, TaskRecord
    <2>7. task' = [task EXCEPT ![d] = n]
      BY <1>7 DEF DocInv, spawn_did_resolve_attempt
    <2>8. OwnRecord(d)
      BY <2>6, <2>7 DEF OwnRecord
    <2> QED BY <1>7, <1>a, <2>8 DEF spawn_did_resolve_attempt, peer
  <1>8. CASE AttemptReads(d)
    <2>1. PICK i \in DOMAIN r.reading, v \in Resolvable : task' = [task EXCEPT ![d].reading[i] = v]
      BY <1>8 DEF AttemptReads
    <2> DEFINE a == [r.reading EXCEPT ![i] = v]
               n == [r EXCEPT !.reading = a]
    <2>2. r.reading \in Reading
      BY <1>0 DEF TaskRecord
    <2>3. v \in MaybeVersion
      BY ResolvableType DEF MaybeVersion
    <2>4. a \in [DOMAIN r.reading -> MaybeVersion]
      BY <2>2, <2>3, ReadingType
    <2>5. a \in Reading
      BY <2>2, <2>4, ReadingType, ReadingIntro
    <2>6. TaskOK(n) /\ n.gated = r.gated
      <3> HIDE DEF a
      <3> QED BY <1>0, <2>5 DEF TaskOK, TaskRecord
    <2>7. task' = [task EXCEPT ![d] = n]
      BY <2>1 DEF DocInv
    <2>8. OwnRecord(d)
      BY <2>6, <2>7 DEF OwnRecord
    <2> QED BY <1>8, <1>a, <2>8 DEF AttemptReads, peer
  <1>9. CASE AttemptMerges(d)
    <2>1. PICK i \in DOMAIN r.reading : r.reading[i] # None /\ cached' = merge_resolved(r.reading[i])
      BY <1>9 DEF AttemptMerges
    <2>2. r.reading[i] \in Version
      BY <1>0, <2>1, ReadingType DEF TaskRecord, MaybeVersion
    <2>3. cached' \in Version /\ (cached # None => cached' >= cached)
      BY <1>0, <2>1, <2>2, MergeNewer
    <2> DEFINE n == [r EXCEPT !.pc = "connect", !.doc = cached', !.started = 0, !.reading = NoAttempt]
    <2>4. TaskOK(n) /\ n.gated = r.gated
      <3>1. 0 \in 0 .. ATTEMPTS /\ cached' \in MaybeVersion
        BY <2>3, PeerAssumption DEF MaybeVersion
      <3> QED BY <1>0, <3>1, FreeOK DEF TaskOK, TaskRecord
    <2>5. task' = [task EXCEPT ![d] = n]
      BY <1>9 DEF DocInv, AttemptMerges
    <2>6. OwnRecord(d)
      BY <2>4, <2>5 DEF OwnRecord
    <2>7. CacheGrows
      BY <2>3, PeerAssumption DEF CacheGrows, MaybeVersion, Version
    <2> QED BY <1>9, <2>6, <2>7 DEF AttemptMerges
  <1>10. CASE AttemptFails(d)
    <2>1. PICK i \in DOMAIN r.reading :
             task' = [task EXCEPT ![d].reading = [j \in DOMAIN @ \ {i} |-> @[j]]]
      BY <1>10 DEF AttemptFails
    <2> DEFINE a == [j \in DOMAIN r.reading \ {i} |-> r.reading[j]]
               n == [r EXCEPT !.reading = a]
    <2>2. r.reading \in Reading
      BY <1>0 DEF TaskRecord
    <2>3. a \in [DOMAIN r.reading \ {i} -> MaybeVersion] /\ DOMAIN r.reading \ {i} \in SUBSET (1 .. ATTEMPTS)
      BY <2>2, ReadingType
    <2>4. a \in Reading
      <3> HIDE DEF a
      <3> QED BY <2>3, ReadingIntro
    <2>5. TaskOK(n) /\ n.gated = r.gated
      <3> HIDE DEF a
      <3> QED BY <1>0, <2>4 DEF TaskOK, TaskRecord
    <2>6. task' = [task EXCEPT ![d] = n]
      BY <2>1 DEF DocInv
    <2>7. OwnRecord(d)
      BY <2>5, <2>6 DEF OwnRecord
    <2> QED BY <1>10, <1>a, <2>7 DEF AttemptFails, peer
  <1>11. CASE ResolveFails(d)
    BY <1>11, <1>a, <1>b DEF ResolveFails, peer
  <1>12. CASE Sends(d)
    BY <1>12, <1>a, <1>b DEF Sends, peer
  <1>13. CASE NoService(d)
    BY <1>13, <1>a, <1>b DEF NoService, peer
  <1> QED BY <1>1, <1>2, <1>3, <1>4, <1>5, <1>6, <1>7, <1>8, <1>9, <1>10, <1>11, <1>12, <1>13
          DEF Deliver

(* A delivery that starts gets a well-formed record; only one for an        *)
(* envelope takes a permit.                                                 *)
LEMMA StartDocs ==
    ASSUME DocInv, NEW d \in Delivery, NEW s \in Service, NEW g \in BOOLEAN, StartDelivery(d, s, g)
    PROVE  \E r : TaskOK(r) /\ (r.gated => g) /\ task' = [task EXCEPT ![d] = r]
  <1> DEFINE n == [Free EXCEPT !.pc = "check", !.service = s, !.gated = g]
  <1>1. Free \in TaskRecord
    BY FreeOK DEF TaskOK
  <1>2. TaskOK(n) /\ n.gated = g
    BY <1>1 DEF TaskOK, TaskRecord
  <1>3. task' = [task EXCEPT ![d] = n]
    BY DEF StartDelivery
  <1> QED BY <1>2, <1>3

(* One delivery's record is replaced, no published document is. *)
LEMMA DocInvKept ==
    ASSUME DocInv, NEW d \in Delivery, NEW r, TaskOK(r),
           task' = [task EXCEPT ![d] = r], CacheGrows,
           UNCHANGED <<current, record, published, refresher>>
    PROVE  DocInv'
  <1>1. /\ task' \in [Delivery -> TaskRecord]
        /\ \A e \in Delivery : TaskOK(task'[e])
    BY DEF DocInv, TaskOK
  <1>2. NoResolutionUndoesPublication'
    BY PeerAssumption DEF DocInv, NoResolutionUndoesPublication, CacheGrows, MaybeVersion, Version
  <1>3. cached' \in MaybeVersion
    BY DEF CacheGrows
  <1> QED BY <1>1, <1>2, <1>3 DEF DocInv, TaskOK

(* A delivery that starts keeps DocInv. *)
LEMMA StartKeeps ==
    ASSUME DocInv, NEW d \in Delivery, NEW s \in Service, NEW g \in BOOLEAN, StartDelivery(d, s, g),
           UNCHANGED <<peer, refresher>>
    PROVE  DocInv'
  <1>1. CacheGrows
    BY PeerAssumption DEF DocInv, CacheGrows, peer, MaybeVersion, Version
  <1> QED BY <1>1, StartDocs, DocInvKept DEF peer

\* The variables of DocInv.
docs == <<peer, task, refresher>>

(* Every step keeps DocInv. *)
LEMMA NextDocs == DocInv /\ QueueInv /\ [Next]_vars => DocInv'
  <1> SUFFICES ASSUME DocInv, QueueInv, [Next]_vars PROVE DocInv'
    OBVIOUS
  <1> USE PeerAssumption, LoopAssumption
  <1>0. ASSUME UNCHANGED docs PROVE DocInv'
    BY <1>0 DEF docs, peer, DocInv, NoResolutionUndoesPublication, TaskOK
  <1>s. "inbox" \in Service /\ "crud" \in Service /\ TRUE \in BOOLEAN /\ FALSE \in BOOLEAN
    OBVIOUS
  <1>e. ASSUME NEW d \in Delivery, task' = End(d), UNCHANGED <<peer, refresher>> PROVE DocInv'
    <2>1. CacheGrows
      BY <1>e DEF DocInv, CacheGrows, peer, MaybeVersion, Version
    <2> QED BY <1>e, <2>1, FreeOK, DocInvKept DEF End, peer
  <1>r. ASSUME send_reply_typed \/ UNCHANGED task, UNCHANGED <<peer, refresher>> PROVE DocInv'
    BY <1>0, <1>r, <1>s, StartKeeps DEF send_reply_typed, docs
  <1>1. CASE UNCHANGED vars
    BY <1>0, <1>1 DEF vars, peerVars, docs, peer
  <1>2. CASE (\E m \in Message : Arrives(m)) \/ CtrlC \/ (\E e \in Envelope : ma_send(e))
    BY <1>0, <1>2 DEF Arrives, CtrlC, ma_send, peerVars, docs, peer
  <1>3. CASE Tick \/ Drained("ipfs", "crud") \/ Drained("crud", "inbox") \/ Drained("inbox", "outbox")
    BY <1>0, <1>3 DEF Tick, Drained, peerVars, docs, peer
  <1>4. CASE \E m \in Message : drain_ipfs_messages(m) \/ drain_inbox_messages(m)
    BY <1>0, <1>4 DEF drain_ipfs_messages, drain_inbox_messages, docs
  <1>5. CASE handle_did_document_publish
    <2>1. loop.msg.val \in Version
      BY <1>5 DEF handle_did_document_publish, QueueInv
    <2>2. cached' = loop.msg.val /\ published' = loop.msg.val /\ UNCHANGED <<current, record, task, refresher>>
      BY <1>5 DEF handle_did_document_publish, PublishCaches, insert_published
    <2>3. NoResolutionUndoesPublication'
      BY <2>1, <2>2 DEF NoResolutionUndoesPublication, Version
    <2> QED BY <2>1, <2>2, <2>3 DEF DocInv, MaybeVersion, TaskOK
  <1>6. CASE ensure_kubo_ipns_key
    BY <1>0, <1>6 DEF ensure_kubo_ipns_key, peerVars, docs, peer
  <1>7. CASE NamePublishes
    <2>1. loop.msg.val \in Version
      BY <1>7 DEF NamePublishes, QueueInv
    <2>2. CASE UNCHANGED peerVars
      BY <1>0, <2>2 DEF peerVars, docs, peer
    <2>3. CASE PublishNames(loop.msg.val)
      BY <2>1, <2>3 DEF PublishNames, DocInv, MaybeVersion, TaskOK, NoResolutionUndoesPublication
    <2> QED BY <1>7, <2>2, <2>3 DEF NamePublishes
  <1>8. CASE handle_ipfs_store
    BY <1>r, <1>8 DEF handle_ipfs_store
  <1>9. ASSUME NEW m \in Message, drain_crud_messages(m) PROVE DocInv'
    <2>1. CASE UNCHANGED task
      BY <1>0, <1>9, <2>1 DEF drain_crud_messages, docs
    <2>2. CASE StartDelivery(Inline, "crud", FALSE)
      BY <1>9, <1>s, <2>2, StartKeeps DEF drain_crud_messages
    <2> QED BY <1>9, <2>1, <2>2 DEF drain_crud_messages
  <1>10. CASE CrudReplied
    BY <1>0, <1>10 DEF CrudReplied, peerVars, docs, peer
  <1>11. CASE CrudTimesOut
    BY <1>e, <1>11 DEF CrudTimesOut
  <1>12. CASE drain_plugin_envelopes_Ends \/ GateOpens \/ handle_shutdown \/ close_endpoint
    BY <1>0, <1>12 DEF drain_plugin_envelopes_Ends, GateOpens, handle_shutdown, close_endpoint,
                       peerVars, docs, peer
  <1>13. CASE \E e \in Envelope : dispatch_envelope_locally(e)
    BY <1>0, <1>13 DEF dispatch_envelope_locally, peerVars, docs, peer
  <1>14. ASSUME NEW e \in Envelope, dispatch_envelope_remotely(e) PROVE DocInv'
    <2>1. CASE UNCHANGED task
      BY <1>0, <1>14, <2>1 DEF dispatch_envelope_remotely, docs
    <2>2. CASE \E d \in Delivery \ {Inline} : StartDelivery(d, e.service, TRUE)
      BY <1>14, <1>s, <2>2, StartKeeps DEF dispatch_envelope_remotely
    <2> QED BY <1>14, <2>1, <2>2 DEF dispatch_envelope_remotely
  <1>15. CASE dispatch_local_plugin_envelope \/ LocalTimesOut
    BY <1>0, <1>15 DEF dispatch_local_plugin_envelope, LocalTimesOut, peerVars, docs, peer
  <1>16. ASSUME NEW m \in Message, dispatch_actor_message(m) PROVE DocInv'
    BY <1>r, <1>16 DEF dispatch_actor_message
  <1>17. CASE PeerStep
    <2>1. CASE PeerMoves
      BY <2>1 DEF PeerMoves, DocInv, Version, MaybeVersion, TaskOK, NoResolutionUndoesPublication
    <2>2. CASE PublishedElsewhere
      BY <2>2 DEF PublishedElsewhere, DocInv, MaybeVersion, TaskOK, NoResolutionUndoesPublication
    <2>3. CASE \E s \in Service : CooldownEnds(s)
      BY <1>0, <2>3 DEF CooldownEnds, docs
    <2>4. CASE RefreshStarts(interval)
      BY <2>4 DEF RefreshStarts, DocInv, peer, TaskOK, NoResolutionUndoesPublication
    <2>5. CASE RefreshReads
      <3>1. \A v \in Resolvable : v \in Version /\ v # None
        BY ResolvableType DEF Version
      <3>2. refresher' \in [pc : {"idle", "read", "merge"}, doc : MaybeVersion]
            /\ (refresher'.pc = "merge" => refresher'.doc # None)
        BY <2>5, <3>1 DEF RefreshReads, Resting, MaybeVersion
      <3> QED BY <2>5, <3>2 DEF RefreshReads, DocInv, peer, TaskOK, NoResolutionUndoesPublication
    <2>6. CASE RefreshMerges
      <3>1. refresher.doc \in Version /\ cached \in MaybeVersion
        BY <2>6 DEF RefreshMerges, DocInv, MaybeVersion
      <3>2. cached' \in Version /\ (cached # None => cached' >= cached)
        BY <2>6, <3>1, MergeNewer DEF RefreshMerges
      <3>3. NoResolutionUndoesPublication'
        BY <2>6, <3>2 DEF RefreshMerges, DocInv, NoResolutionUndoesPublication, MaybeVersion, Version
      <3> QED BY <2>6, <3>2, <3>3 DEF RefreshMerges, Resting, DocInv, MaybeVersion, TaskOK
    <2> QED BY <1>17, <2>1, <2>2, <2>3, <2>4, <2>5, <2>6 DEF PeerStep
  <1>18. ASSUME NEW d \in Delivery, DeliveryStep(d) PROVE DocInv'
    BY <1>18, DeliverDocs, DocInvKept DEF DeliveryStep, OwnRecord
  <1> QED BY <1>1, <1>2, <1>3, <1>4, <1>5, <1>6, <1>7, <1>8, <1>9, <1>10, <1>11, <1>12, <1>13, <1>14,
             <1>15, <1>16, <1>17, <1>18
          DEF Next, LoopStep

-----------------------------------------------------------------------------
(***************************************************************************)
(* The remote gate.                                                        *)
(***************************************************************************)
(* A permit less, or the same. *)
LEMMA FewerGated ==
    ASSUME GateInv, Gated' \subseteq Gated PROVE GateInv'
  <1>1. IsFiniteSet(Gated)
    BY PeerAssumption, FS_Subset DEF Gated
  <1>2. Cardinality(Gated') <= Cardinality(Gated) /\ IsFiniteSet(Gated')
    BY <1>1, FS_Subset
  <1>3. Cardinality(Gated) \in Nat /\ Cardinality(Gated') \in Nat
    BY <1>1, <1>2, FS_CardinalityType
  <1> QED BY <1>2, <1>3, LoopAssumption DEF GateInv

(* Every step keeps the number of permits within the limit. *)
LEMMA NextGate == DocInv /\ GateInv /\ [Next]_vars => GateInv'
  <1> SUFFICES ASSUME DocInv, GateInv, [Next]_vars PROVE GateInv'
    OBVIOUS
  <1> USE PeerAssumption, LoopAssumption
  <1>0. ASSUME UNCHANGED task PROVE GateInv'
    BY <1>0, FewerGated DEF Gated
  <1>o. ASSUME NEW d \in Delivery, NEW r, r.gated => task[d].gated, task' = [task EXCEPT ![d] = r]
        PROVE  GateInv'
    <2>1. Gated' \subseteq Gated
      BY <1>o DEF Gated, DocInv
    <2> QED BY <2>1, FewerGated
  <1>f. ASSUME NEW d \in Delivery, NEW s \in Service, StartDelivery(d, s, FALSE) PROVE GateInv'
    BY <1>f, <1>o, StartDocs
  <1>s. "inbox" \in Service /\ "crud" \in Service
    OBVIOUS
  <1>r. ASSUME send_reply_typed \/ UNCHANGED task PROVE GateInv'
    BY <1>0, <1>f, <1>r, <1>s DEF send_reply_typed
  <1>1. CASE UNCHANGED vars
    BY <1>0, <1>1 DEF vars, peerVars
  <1>2. CASE (\E m \in Message : Arrives(m)) \/ CtrlC \/ (\E e \in Envelope : ma_send(e))
    BY <1>0, <1>2 DEF Arrives, CtrlC, ma_send, peerVars
  <1>3. CASE Tick \/ Drained("ipfs", "crud") \/ Drained("crud", "inbox") \/ Drained("inbox", "outbox")
    BY <1>0, <1>3 DEF Tick, Drained, peerVars
  <1>4. CASE \E m \in Message : drain_ipfs_messages(m) \/ drain_inbox_messages(m)
    BY <1>0, <1>4 DEF drain_ipfs_messages, drain_inbox_messages
  <1>5. CASE handle_did_document_publish \/ ensure_kubo_ipns_key \/ NamePublishes
    BY <1>0, <1>5 DEF handle_did_document_publish, PublishCaches, ensure_kubo_ipns_key, NamePublishes,
                      PublishNames, peerVars
  <1>6. CASE handle_ipfs_store
    BY <1>r, <1>6 DEF handle_ipfs_store
  <1>7. ASSUME NEW m \in Message, drain_crud_messages(m) PROVE GateInv'
    BY <1>0, <1>f, <1>s, <1>7 DEF drain_crud_messages
  <1>8. CASE CrudReplied \/ drain_plugin_envelopes_Ends \/ GateOpens \/ handle_shutdown \/ close_endpoint
    BY <1>0, <1>8 DEF CrudReplied, drain_plugin_envelopes_Ends, GateOpens, handle_shutdown,
                      close_endpoint, peerVars
  <1>9. CASE CrudTimesOut
    BY <1>o, <1>9, FreeOK DEF CrudTimesOut, End
  <1>10. CASE \E e \in Envelope : dispatch_envelope_locally(e)
    BY <1>0, <1>10 DEF dispatch_envelope_locally, peerVars
  <1>11. ASSUME NEW e \in Envelope, dispatch_envelope_remotely(e) PROVE GateInv'
    <2>1. CASE UNCHANGED task
      BY <1>0, <2>1
    <2>2. CASE UNCHANGED task => FALSE
      <3>1. Cardinality(Gated) < RemoteLimit
        BY <1>11, <2>2 DEF dispatch_envelope_remotely, Gated
      <3>2. PICK d \in Delivery : StartDelivery(d, e.service, TRUE)
        BY <1>11, <2>2 DEF dispatch_envelope_remotely
      <3>a. e.service \in Service /\ TRUE \in BOOLEAN
        OBVIOUS
      <3>b. \E r : TaskOK(r) /\ task' = [task EXCEPT ![d] = r]
        BY <3>2, <3>a, StartDocs
      <3>3. Gated' \subseteq Gated \cup {d}
        BY <3>b DEF Gated, DocInv
      <3>4. IsFiniteSet(Gated)
        BY FS_Subset DEF Gated
      <3> HIDE DEF Gated
      <3>5. /\ IsFiniteSet(Gated \cup {d})
            /\ Cardinality(Gated \cup {d}) <= Cardinality(Gated) + 1
            /\ Cardinality(Gated) \in Nat
        <4>1. Cardinality(Gated) \in Nat
          BY <3>4, FS_CardinalityType
        <4>2. CASE d \in Gated
          <5>1. Gated \cup {d} = Gated
            BY <4>2
          <5>2. IsFiniteSet(Gated \cup {d}) /\ Cardinality(Gated \cup {d}) = Cardinality(Gated)
            BY <3>4, <5>1, Zenon
          <5> QED BY <4>1, <5>2
        <4>3. CASE d \notin Gated
          <5>1. IsFiniteSet(Gated \cup {d}) /\ Cardinality(Gated \cup {d}) = Cardinality(Gated) + 1
            BY <3>4, <4>3, FS_AddElement
          <5> QED BY <4>1, <5>1
        <4> QED BY <4>2, <4>3
      <3>6. Cardinality(Gated') <= Cardinality(Gated \cup {d}) /\ IsFiniteSet(Gated')
        BY <3>3, <3>5, FS_Subset
      <3>7. Cardinality(Gated') \in Nat /\ Cardinality(Gated \cup {d}) \in Nat
        BY <3>5, <3>6, FS_CardinalityType
      <3> QED BY <3>1, <3>5, <3>6, <3>7 DEF GateInv
    <2> QED BY <2>1, <2>2
  <1>12. CASE dispatch_local_plugin_envelope \/ LocalTimesOut
    BY <1>0, <1>12 DEF dispatch_local_plugin_envelope, LocalTimesOut, peerVars
  <1>13. ASSUME NEW m \in Message, dispatch_actor_message(m) PROVE GateInv'
    BY <1>r, <1>13 DEF dispatch_actor_message
  <1>14. CASE PeerStep
    BY <1>0, <1>14 DEF PeerStep, PeerMoves, PublishedElsewhere, CooldownEnds, RefreshStarts, RefreshReads,
                       RefreshMerges
  <1>15. ASSUME NEW d \in Delivery, DeliveryStep(d) PROVE GateInv'
    BY <1>o, <1>15, DeliverDocs DEF DeliveryStep, OwnRecord
  <1> QED BY <1>1, <1>2, <1>3, <1>4, <1>5, <1>6, <1>7, <1>8, <1>9, <1>10, <1>11, <1>12, <1>13, <1>14, <1>15
          DEF Next, LoopStep

-----------------------------------------------------------------------------
(***************************************************************************)
(* Backoffs.                                                               *)
(***************************************************************************)
(* All is forgotten at once, cooldowns and counts. *)
LEMMA ClearKeeps ==
    ASSUME BackoffInv, clear_unreachable, UNCHANGED limits
    PROVE  BackoffInv'
  BY LargestLimit DEF BackoffInv, clear_unreachable, limits

(* As ClearKeeps, when the limit is set in the same step. *)
LEMMA ClearAndLimitKeep ==
    ASSUME BackoffInv, clear_unreachable, NEW n \in Limit, set_backoff_attempts(n)
    PROVE  BackoffInv'
  <1>1. limit \in Nat /\ lowest \in Nat /\ highest \in Nat /\ n \in Nat
    BY PeerAssumption DEF BackoffInv
  <1>2. /\ lowest' = IF lowest <= n THEN lowest ELSE n
        /\ highest' = IF highest >= n THEN highest ELSE n
    BY <1>1, MinOfTwo, MaxOfTwo DEF set_backoff_attempts
  <1>3. /\ limit' \in Limit /\ lowest' \in Limit /\ highest' \in Limit
        /\ lowest' <= limit' /\ limit' <= highest'
    BY <1>1, <1>2 DEF set_backoff_attempts, BackoffInv
  <1> QED BY <1>3, LargestLimit DEF BackoffInv, clear_unreachable

(* A failed connect: one failure more, the next Fibonacci number up to the  *)
(* limit.                                                                   *)
LEMMA MarkKeeps ==
    ASSUME BackoffInv, NEW s \in Service, mark_unreachable(s)
    PROVE  BackoffInv'
  <1> DEFINE b == backoff[s]
             n == next_backoff(b)
  <1>0. /\ limit \in Nat /\ limit >= 1 /\ lowest \in Nat /\ lowest <= limit
        /\ highest \in Nat /\ limit <= highest /\ highest <= Largest /\ Largest \in Nat
    BY PeerAssumption, LargestLimit DEF BackoffInv
  <1>1. failures[s] \in Nat /\ failures[s] <= Largest
    BY <1>0 DEF BackoffInv
  <1>2. failures'[s] = IF failures[s] + 1 <= Largest THEN failures[s] + 1 ELSE Largest
    <2>1. failures \in [Service -> 0 .. Largest]
      BY DEF BackoffInv
    <2>2. failures'[s] = Min({failures[s] + 1, Largest})
      BY <2>1 DEF mark_unreachable
    <2>3. failures[s] + 1 \in Int /\ Largest \in Int
      BY <1>0, <1>1
    <2> QED BY <2>2, <2>3, MinOfTwo
  <1>3. failures' \in [Service -> 0 .. Largest] /\ \A t \in Service : t # s => failures'[t] = failures[t]
    BY <1>0, <1>1, <1>2, MinOfTwo DEF mark_unreachable, BackoffInv
  <1>4. /\ n \in Backoff
        /\ n.attempts \in 1 .. highest /\ n.attempts <= failures'[s]
        /\ n.attempts >= failures'[s] \/ n.attempts >= lowest
        /\ n.delay = Fib[n.attempts] /\ n.previous = Fib[n.attempts - 1]
    <2>1. CASE b = None
      <3>1. failures[s] = 0
        BY <2>1 DEF BackoffInv
      <3> QED BY <1>0, <1>2, <2>1, <3>1, FibEquation DEF next_backoff, Backoff
    <2>2. CASE b # None
      <3>1. /\ b \in Backoff /\ b.attempts \in 1 .. highest /\ b.attempts <= failures[s]
            /\ b.attempts >= failures[s] \/ b.attempts >= lowest
            /\ b.delay = Fib[b.attempts] /\ b.previous = Fib[b.attempts - 1]
        BY <2>2 DEF BackoffInv
      <3>2. CASE b.attempts >= limit
        BY <1>0, <1>1, <1>2, <2>2, <3>1, <3>2 DEF next_backoff, Backoff
      <3>3. CASE ~(b.attempts >= limit)
        <4>1. n = [previous |-> b.delay, delay |-> b.previous + b.delay, attempts |-> b.attempts + 1]
          BY <2>2, <3>3 DEF next_backoff
        <4>2. b.attempts \in Nat /\ b.delay \in Nat /\ b.previous \in Nat
          BY <3>1 DEF Backoff
        <4>3. b.attempts + 1 \in 2 .. Largest /\ b.attempts + 1 \in 1 .. highest
          BY <1>0, <3>1, <3>3, <4>2
        <4>4. Fib[b.attempts + 1] = Fib[(b.attempts + 1) - 1] + Fib[(b.attempts + 1) - 2]
          BY <4>3, FibEquation
        <4>5. (b.attempts + 1) - 1 = b.attempts /\ (b.attempts + 1) - 2 = b.attempts - 1
          BY <4>2
        <4>6. b.previous + b.delay = Fib[b.attempts + 1]
          BY <3>1, <4>2, <4>4, <4>5
        <4>7. b.attempts + 1 <= failures'[s] /\ (b.attempts + 1 >= failures'[s] \/ b.attempts + 1 >= lowest)
          BY <1>0, <1>1, <1>2, <3>1, <4>2, <4>3
        <4> QED BY <3>1, <4>1, <4>2, <4>3, <4>5, <4>6, <4>7 DEF Backoff
      <3> QED BY <3>2, <3>3
    <2> QED BY <2>1, <2>2
  <1>5. backoff' = [backoff EXCEPT ![s] = n]
    BY DEF mark_unreachable
  <1>6. n # None
    BY <1>4, PeerAssumption DEF Backoff
  <1> HIDE DEF n
  <1>7. /\ backoff' \in [Service -> Backoff \cup {None}]
        /\ backoff'[s] = n /\ \A t \in Service : t # s => backoff'[t] = backoff[t]
    BY <1>4, <1>5 DEF BackoffInv
  <1>8. cooling' \subseteq {t \in Service : backoff'[t] # None}
    BY <1>6, <1>7 DEF mark_unreachable, BackoffInv
  <1> QED BY <1>3, <1>4, <1>6, <1>7, <1>8 DEF BackoffInv, mark_unreachable, limits

(* Every step keeps BackoffInv. *)
LEMMA NextBackoff == DocInv /\ BackoffInv /\ [Next]_vars => BackoffInv'
  <1> SUFFICES ASSUME DocInv, BackoffInv, [Next]_vars PROVE BackoffInv'
    OBVIOUS
  <1> USE PeerAssumption, LoopAssumption
  <1>0. ASSUME UNCHANGED outboxes PROVE BackoffInv'
    BY <1>0 DEF outboxes, limits, BackoffInv
  <1>1. CASE UNCHANGED vars
    BY <1>0, <1>1 DEF vars, peerVars, outboxes, limits
  <1>2. CASE (\E m \in Message : Arrives(m)) \/ CtrlC \/ (\E e \in Envelope : ma_send(e))
    BY <1>0, <1>2 DEF Arrives, CtrlC, ma_send, peerVars, outboxes, limits
  <1>3. CASE Tick \/ Drained("ipfs", "crud") \/ Drained("crud", "inbox") \/ Drained("inbox", "outbox")
    BY <1>0, <1>3 DEF Tick, Drained, peerVars, outboxes, limits
  <1>4. CASE \E m \in Message : drain_ipfs_messages(m) \/ drain_inbox_messages(m)
    BY <1>4, ClearKeeps DEF drain_ipfs_messages, drain_inbox_messages, Pop
  <1>5. CASE handle_did_document_publish
    BY <1>5, ClearKeeps DEF handle_did_document_publish, PublishCaches
  <1>6. CASE ensure_kubo_ipns_key \/ NamePublishes \/ handle_ipfs_store
    BY <1>0, <1>6 DEF ensure_kubo_ipns_key, NamePublishes, PublishNames, handle_ipfs_store, peerVars, outboxes, limits
  <1>7. ASSUME NEW m \in Message, drain_crud_messages(m) PROVE BackoffInv'
    <2>1. CASE UNCHANGED limits
      BY <1>7, <2>1, ClearKeeps DEF drain_crud_messages, Pop
    <2>2. CASE m.kind = "limit" /\ set_backoff_attempts(m.val)
      BY <1>7, <2>2, ClearAndLimitKeep DEF drain_crud_messages, Pop
    <2> QED BY <1>7, <2>1, <2>2 DEF drain_crud_messages
  <1>8. CASE CrudReplied \/ CrudTimesOut \/ drain_plugin_envelopes_Ends \/ GateOpens \/ handle_shutdown
             \/ close_endpoint
    BY <1>0, <1>8 DEF CrudReplied, CrudTimesOut, drain_plugin_envelopes_Ends, GateOpens, handle_shutdown,
                      close_endpoint, peerVars, outboxes, limits
  <1>9. CASE \E e \in Envelope : dispatch_envelope_locally(e) \/ dispatch_envelope_remotely(e)
    BY <1>0, <1>9 DEF dispatch_envelope_locally, dispatch_envelope_remotely, peerVars, outboxes, limits
  <1>10. CASE dispatch_local_plugin_envelope \/ LocalTimesOut \/ (\E m \in Message : dispatch_actor_message(m))
    BY <1>0, <1>10 DEF dispatch_local_plugin_envelope, LocalTimesOut, dispatch_actor_message, peerVars, outboxes, limits
  <1>11. CASE PeerStep
    <2>1. CASE \E s \in Service : CooldownEnds(s)
      BY <2>1 DEF CooldownEnds, limits, BackoffInv
    <2> QED BY <1>0, <1>11, <2>1 DEF PeerStep, PeerMoves, PublishedElsewhere, RefreshStarts, RefreshReads,
                                     RefreshMerges
  <1>12. ASSUME NEW d \in Delivery, DeliveryStep(d) PROVE BackoffInv'
    <2>1. CASE Connects(d)
      BY <2>1, ClearKeeps DEF Connects
    <2>2. CASE ConnectFails(d)
      <3>1. task[d].service \in Service
        BY DEF DocInv, TaskRecord
      <3> QED BY <2>2, <3>1, MarkKeeps DEF ConnectFails
    <2> QED BY <1>0, <1>12, <2>1, <2>2 DEF DeliveryStep, Deliver, CheckCooldown, LookupReads, LookupMerges,
               FastFails, spawn_did_resolve_attempt, AttemptReads, AttemptMerges, AttemptFails, ResolveFails,
               Sends, NoService
  <1> QED BY <1>1, <1>2, <1>3, <1>4, <1>5, <1>6, <1>7, <1>8, <1>9, <1>10, <1>11, <1>12 DEF Next, LoopStep

-----------------------------------------------------------------------------
(***************************************************************************)
(* The loop and its queues.                                                *)
(***************************************************************************)
\* The parts of QueueInv.
InboxInv == pending \subseteq arrived /\ arrived \subseteq Message /\ actors \subseteq arrived
OutboxInv == outbox \in Seq(Envelope) /\ Len(outbox) <= Capacity
PlaceInv ==
    /\ loop \in [pc : LoopPC, msg : Message \cup {None}, drained : 0 .. BUDGET]
    /\ loop.pc \in {"publish", "key", "name"} => loop.msg \in Message /\ loop.msg.kind = "publish"
PermitInv == local \in 0 .. LocalLimit /\ signal \in {"none", "pending", "handled"}

(* QueueInv is its parts. *)
LEMMA QueueParts == QueueInv <=> InboxInv /\ OutboxInv /\ PlaceInv /\ PermitInv
  BY DEF QueueInv, InboxInv, OutboxInv, PlaceInv, PermitInv

(* The loop at a place where it holds no message. *)
LEMMA AtPlace ==
    ASSUME NEW pc \in LoopPC \ {"publish", "key", "name"}, loop' = At(pc)
    PROVE  PlaceInv'
  BY LoopAssumption DEF PlaceInv, At

(* The loop after one more envelope of the outbox. *)
LEMMA CountedPlace ==
    ASSUME PlaceInv, NEW pc \in {"outbox", "gate"}, loop' = Counted(pc)
    PROVE  PlaceInv'
  <1>1. loop.drained \in Int /\ loop.drained >= 0 /\ BUDGET \in Nat
    BY LoopAssumption DEF PlaceInv
  <1>2. Min({loop.drained + 1, BUDGET}) \in 0 .. BUDGET
    BY <1>1, MinOfTwo
  <1>3. loop' = [loop EXCEPT !.pc = pc, !.drained = Min({loop.drained + 1, BUDGET})]
    BY DEF Counted
  <1> QED BY <1>2, <1>3 DEF PlaceInv, LoopPC

(* Every step keeps QueueInv. *)
LEMMA NextQueue == QueueInv /\ [Next]_vars => QueueInv'
  <1> SUFFICES ASSUME InboxInv, OutboxInv, PlaceInv, PermitInv, [Next]_vars
               PROVE  InboxInv' /\ OutboxInv' /\ PlaceInv' /\ PermitInv'
    BY DEF QueueInv, InboxInv, OutboxInv, PlaceInv, PermitInv
  <1> USE LoopAssumption
  <1>i. ASSUME UNCHANGED <<pending, arrived, actors>> PROVE InboxInv'
    BY <1>i DEF InboxInv
  <1>o. ASSUME UNCHANGED outbox PROVE OutboxInv'
    BY <1>o DEF OutboxInv
  <1>l. ASSUME UNCHANGED loop PROVE PlaceInv'
    BY <1>l DEF PlaceInv
  <1>p. ASSUME UNCHANGED <<local, signal>> PROVE PermitInv'
    BY <1>p DEF PermitInv
  <1>a. \A pc \in LoopPC \ {"publish", "key", "name"} : loop' = At(pc) => PlaceInv'
    BY AtPlace
  <1>c. /\ {"select", "ipfs", "store", "crud", "reply", "inbox", "outbox", "gate", "closing", "stopped"}
              \subseteq LoopPC \ {"publish", "key", "name"}
    BY DEF LoopPC
  <1>1. CASE UNCHANGED vars
    BY <1>i, <1>o, <1>l, <1>p, <1>1 DEF vars, loopVars
  <1>2. ASSUME NEW m \in Message, Arrives(m) PROVE InboxInv' /\ OutboxInv' /\ PlaceInv' /\ PermitInv'
    BY <1>o, <1>l, <1>p, <1>2 DEF Arrives, InboxInv
  <1>3. CASE CtrlC
    BY <1>i, <1>o, <1>l, <1>3 DEF CtrlC, PermitInv
  <1>4. ASSUME NEW e \in Envelope, ma_send(e) PROVE InboxInv' /\ OutboxInv' /\ PlaceInv' /\ PermitInv'
    <2>1. OutboxInv'
      <3>1. CASE Len(outbox) < Capacity
        BY <1>4, <3>1 DEF ma_send, OutboxInv
      <3>2. CASE ~(Len(outbox) < Capacity)
        BY <1>4, <3>2 DEF ma_send, OutboxInv
      <3> QED BY <3>1, <3>2
    <2> QED BY <1>i, <1>l, <1>p, <1>4, <2>1 DEF ma_send
  <1>5. CASE Tick \/ Drained("ipfs", "crud") \/ Drained("crud", "inbox") \/ Drained("inbox", "outbox")
    BY <1>i, <1>o, <1>p, <1>a, <1>c, <1>5 DEF Tick, Drained
  <1>6. ASSUME NEW m \in Message, drain_ipfs_messages(m)
        PROVE  InboxInv' /\ OutboxInv' /\ PlaceInv' /\ PermitInv'
    <2>1. CASE loop' = At("ipfs")
      BY <1>o, <1>p, <1>a, <1>c, <1>6, <2>1 DEF drain_ipfs_messages, Pop, InboxInv
    <2>2. CASE loop' = [At(m.kind) EXCEPT !.msg = m]
      <3>1. m.kind \in {"publish", "store"}
        BY <1>6 DEF drain_ipfs_messages
      <3>2. PlaceInv'
        BY <2>2, <3>1 DEF PlaceInv, At, LoopPC
      <3> QED BY <1>o, <1>p, <1>6, <3>2 DEF drain_ipfs_messages, Pop, InboxInv
    <2> QED BY <1>6, <2>1, <2>2 DEF drain_ipfs_messages
  <1>7. CASE handle_did_document_publish
    <2>1. PlaceInv'
      BY <1>7 DEF handle_did_document_publish, PlaceInv, LoopPC
    <2> QED BY <1>i, <1>o, <1>p, <1>7, <2>1 DEF handle_did_document_publish
  <1>8. CASE ensure_kubo_ipns_key
    <2>1. ASSUME loop' = [loop EXCEPT !.pc = "name"] PROVE PlaceInv'
      BY <1>8, <2>1 DEF ensure_kubo_ipns_key, PlaceInv, LoopPC
    <2>2. PlaceInv'
      BY <1>8, <1>a, <1>c, <2>1 DEF ensure_kubo_ipns_key
    <2> QED BY <1>i, <1>o, <1>p, <1>8, <2>2 DEF ensure_kubo_ipns_key
  <1>9. CASE NamePublishes \/ handle_ipfs_store
    BY <1>i, <1>o, <1>p, <1>a, <1>c, <1>9 DEF NamePublishes, handle_ipfs_store
  <1>10. ASSUME NEW m \in Message, drain_crud_messages(m)
         PROVE  InboxInv' /\ OutboxInv' /\ PlaceInv' /\ PermitInv'
    BY <1>o, <1>p, <1>a, <1>c, <1>10 DEF drain_crud_messages, Pop, InboxInv
  <1>11. CASE CrudReplied \/ CrudTimesOut
    BY <1>i, <1>o, <1>p, <1>a, <1>c, <1>11 DEF CrudReplied, CrudTimesOut
  <1>12. ASSUME NEW m \in Message, drain_inbox_messages(m)
         PROVE  InboxInv' /\ OutboxInv' /\ PlaceInv' /\ PermitInv'
    BY <1>o, <1>p, <1>l, <1>12 DEF drain_inbox_messages, Pop, InboxInv
  <1>13. CASE drain_plugin_envelopes_Ends
    BY <1>i, <1>o, <1>p, <1>a, <1>c, <1>13 DEF drain_plugin_envelopes_Ends
  <1>t. ASSUME outbox # << >>, outbox' = Tail(outbox) PROVE OutboxInv'
    BY <1>t DEF OutboxInv
  <1>14. ASSUME NEW e \in Envelope, dispatch_envelope_locally(e)
         PROVE  InboxInv' /\ OutboxInv' /\ PlaceInv' /\ PermitInv'
    <2>1. InboxInv' /\ OutboxInv'
      BY <1>i, <1>t, <1>14 DEF dispatch_envelope_locally, Takes
    <2>2. PlaceInv'
      BY <1>14, CountedPlace DEF dispatch_envelope_locally
    <2>3. PermitInv'
      BY <1>14 DEF dispatch_envelope_locally, Takes, PermitInv
    <2> QED BY <2>1, <2>2, <2>3
  <1>15. CASE GateOpens
    <2>1. PlaceInv'
      BY <1>15 DEF GateOpens, PlaceInv, LoopPC
    <2> QED BY <1>i, <1>o, <1>15, <2>1 DEF GateOpens, PermitInv
  <1>16. ASSUME NEW e \in Envelope, dispatch_envelope_remotely(e)
         PROVE  InboxInv' /\ OutboxInv' /\ PlaceInv' /\ PermitInv'
    <2>1. InboxInv' /\ OutboxInv' /\ PermitInv'
      BY <1>i, <1>t, <1>p, <1>16 DEF dispatch_envelope_remotely, Takes
    <2>2. PlaceInv'
      BY <1>16, CountedPlace DEF dispatch_envelope_remotely
    <2> QED BY <2>1, <2>2
  <1>17. CASE handle_shutdown \/ close_endpoint
    <2>1. PlaceInv'
      BY <1>a, <1>c, <1>l, <1>17 DEF handle_shutdown, close_endpoint
    <2> QED BY <1>i, <1>o, <1>17, <2>1 DEF handle_shutdown, close_endpoint, PermitInv
  <1>18. CASE dispatch_local_plugin_envelope \/ LocalTimesOut
    BY <1>i, <1>o, <1>l, <1>18 DEF dispatch_local_plugin_envelope, LocalTimesOut, PermitInv
  <1>19. ASSUME NEW m \in Message, dispatch_actor_message(m)
         PROVE  InboxInv' /\ OutboxInv' /\ PlaceInv' /\ PermitInv'
    BY <1>o, <1>l, <1>p, <1>19 DEF dispatch_actor_message, InboxInv
  <1>20. CASE PeerStep \/ (\E d \in Delivery : DeliveryStep(d))
    BY <1>i, <1>o, <1>l, <1>p, <1>20 DEF PeerStep, DeliveryStep, loopVars
  <1> QED BY <1>1, <1>2, <1>3, <1>4, <1>5, <1>6, <1>7, <1>8, <1>9, <1>10, <1>11, <1>12, <1>13, <1>14, <1>15,
             <1>16, <1>17, <1>18, <1>19, <1>20
          DEF Next, LoopStep

-----------------------------------------------------------------------------
(***************************************************************************)
(* The theorems.                                                           *)
(***************************************************************************)
(* The invariant holds at the start. *)
LEMMA InitLoop == Init => LoopInv
  <1> SUFFICES ASSUME Init PROVE LoopInv
    OBVIOUS
  <1> USE PeerAssumption, LoopAssumption
  <1>1. DocInv
    BY FreeOK DEF Init, PeerInit, DocInv, MaybeVersion, Version, Resting, TaskOK, NoResolutionUndoesPublication
  <1>2. GateInv
    <2>1. Gated = {}
      BY FreeOK DEF Init, PeerInit, Gated
    <2> QED BY <2>1, FS_EmptySet DEF GateInv
  <1>3. BackoffInv
    <2>1. load.limit \in Limit /\ load.limit \in Nat
      BY DEF Init
    <2> QED BY <2>1, LargestLimit DEF Init, PeerInit, BackoffInv
  <1>4. QueueInv
    <2>1. PlaceInv
      BY DEF Init, At, PlaceInv, LoopPC
    <2> QED BY <2>1, QueueParts DEF Init, InboxInv, OutboxInv, PermitInv
  <1> QED BY <1>1, <1>2, <1>3, <1>4 DEF LoopInv

(* LoopInv is an invariant of the daemon's loop. *)
THEOREM LoopInvariant == Spec => []LoopInv
  <1>1. LoopInv /\ [Next]_vars => LoopInv'
    BY NextDocs, NextGate, NextBackoff, NextQueue DEF LoopInv
  <1> QED BY <1>1, InitLoop, PTL DEF Spec

(* The plugin outbox never holds more than its capacity, the tasks of      *)
(* drain_plugin_envelopes never more permits than their gates have, and    *)
(* drain_tick never counts past its budget.                                *)
THEOREM LoopTypeCorrect == Spec => []TypeOK
  BY LoopInvariant, LoopInvImplies, PTL

(* merge_resolved, in whatever order the resolutions finish that were      *)
(* under way, never undoes the last insert_published.                      *)
THEOREM CacheCorrect == Spec => []NoResolutionUndoesPublication
  BY LoopInvariant, LoopInvImplies, PTL

(* mark_unreachable counts every failed connect and nothing else, up to    *)
(* the limits of set_backoff_attempts, and its delays are the Fibonacci    *)
(* numbers.                                                                *)
THEOREM BackoffCorrect == Spec => []BackoffCounts
  BY LoopInvariant, LoopInvImplies, PTL

=============================================================================
