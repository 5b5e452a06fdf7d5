--------------------- MODULE EntityStateDurable_proofs ---------------------
(***************************************************************************)
(* With prompt callers, states that never recur, no shutdown and every     *)
(* stored state readable at boot, an entity with nothing pending has its   *)
(* last state in the manifest: the proof, for every number of calls.       *)
(***************************************************************************)
EXTENDS EntityState_proofs

\* The circumstances of the theorem, as conditions on the constants.
Undisturbed ==
    /\ PromptCallers
    /\ ~Revert
    /\ MaxSignals = 0
    /\ "cat" \notin Failures

(* A handler that sets a state sets a fresh one, which becomes pending. *)
LEMMA FreshState ==
    ASSUME Undisturbed, TypeOK, DurableInv, NEW s \in Maybe(State), RunHandler(s)
    PROVE  /\ latest' \in used' /\ used \subseteq used' /\ ctx'.persisted = ctx.persisted
           /\ \/ s = None /\ UNCHANGED <<ctx, latest, used>>
              \/ s \in State /\ latest' = s /\ s \notin used /\ ctx'.pending = s
  <1>1. CASE s = None
    BY <1>1 DEF RunHandler, DurableInv, BytesKnown
  <1>2. CASE s # None
    <2>1. s \in State /\ s \notin used
      BY <1>2 DEF RunHandler, Maybe, Settable, Undisturbed
    <2>2. s # ctx.persisted /\ s # ctx.pending
      BY <1>2, <2>1 DEF DurableInv, BytesKnown
    <2>3. ctx' = queue_state(ctx, s) /\ latest' = s /\ used' = used \cup {s}
      BY <1>2 DEF RunHandler
    <2>4. ctx'.pending = s /\ ctx'.persisted = ctx.persisted
      BY <2>2, <2>3 DEF queue_state, TypeOK, StateCtx
    <2> QED BY <2>1, <2>3, <2>4
  <1> QED BY <1>1, <1>2

(* A worker step that runs the handler: a fresh state makes every byte      *)
(* string on its way an old one, so nothing is claimed of them any more.    *)
LEMMA HandlerDurable ==
    ASSUME Undisturbed, TypeOK, DurableInv, NEW s \in Maybe(State), RunHandler(s),
           mailbox # << >>, mailbox' = Tail(mailbox),
           \A d \in Call : pc[d] # "replied",
           \A d \in Call : \/ pc'[d] = pc[d] /\ bytes'[d] = bytes[d]
                           \/ pc'[d] = "done" /\ bytes'[d] = None
                           \/ pc'[d] = "replied" /\ bytes'[d] = ctx'.pending /\ ctx' # ctx,
           UNCHANGED <<roots, shut, publishing>>
    PROVE  DurableInv'
  <1> USE ConstantsAssumption
  <1>1. /\ latest' \in used' /\ used \subseteq used' /\ ctx'.persisted = ctx.persisted
        /\ \/ s = None /\ UNCHANGED <<ctx, latest, used>>
           \/ s \in State /\ latest' = s /\ s \notin used /\ ctx'.pending = s
    BY FreshState
  <1>2. \A i \in DOMAIN mailbox' : i + 1 \in DOMAIN mailbox /\ mailbox'[i] = mailbox[i + 1]
    BY TakeFacts
  <1>3. ctx'.pending \in {None, latest'} /\ (ctx' # ctx => ctx'.pending = latest')
    BY <1>1 DEF DurableInv
  <1>4. BytesKnown'
    BY <1>1, <1>2, <1>3 DEF DurableInv, BytesKnown, Maybe, roots
  <1>5. UNCHANGED root /\ (latest' # latest => root # latest')
    BY <1>1 DEF DurableInv, BytesKnown, roots
  <1>6. ConfirmedIsLinked'
    <2>1. ASSUME NEW i \in DOMAIN mailbox', mailbox'[i].type = "MarkSaved", mailbox'[i].bytes = latest'
          PROVE  root' = latest'
      <3>1. mailbox[i + 1].bytes \in Maybe(used) /\ mailbox[i + 1].bytes = latest'
        BY <1>2, <2>1 DEF DurableInv, BytesKnown
      <3>2. latest' = latest
        BY <1>1, <3>1 DEF Maybe
      <3> QED BY <1>2, <1>5, <2>1, <3>2 DEF DurableInv, ConfirmedIsLinked
    <2>2. ASSUME NEW d \in Call, pc'[d] = "mark", bytes'[d] = latest' PROVE root' = latest'
      <3>1. pc[d] = "mark" /\ bytes[d] = latest'
        BY <2>2
      <3>2. latest' = latest
        BY <1>1, <3>1 DEF DurableInv, BytesKnown, Maybe
      <3> QED BY <1>5, <3>1, <3>2 DEF DurableInv, ConfirmedIsLinked
    <2> QED BY <2>1, <2>2 DEF ConfirmedIsLinked
  <1>7. NoStaleCarrier'
    <2>1. ASSUME NEW d \in Call, pc'[d] = "replied" PROVE bytes'[d] = latest'
      BY <1>3, <2>1
    <2>2. ASSUME root' = latest', NEW d \in Call, pc'[d] \in {"add", "link", "mark"}
          PROVE  bytes'[d] = latest'
      BY <1>5, <2>2 DEF DurableInv, NoStaleCarrier
    <2> QED BY <2>1, <2>2 DEF NoStaleCarrier
  <1>8. ctx'.pending = None => root' = latest'
    BY <1>1, <1>5 DEF DurableInv
  <1> QED BY <1>3, <1>4, <1>6, <1>7, <1>8 DEF DurableInv

(* Every step keeps DurableInv. *)
LEMMA NextDurable ==
    Undisturbed /\ TypeOK /\ RequestsMatch /\ OneLoop /\ DurableInv /\ [Next]_vars => DurableInv'
  <1> SUFFICES ASSUME Undisturbed, TypeOK, RequestsMatch, OneLoop, DurableInv, [Next]_vars
               PROVE  DurableInv'
    OBVIOUS
  <1> USE ConstantsAssumption
  <1>1. CASE UNCHANGED vars
    BY <1>1 DEF DurableInv, BytesKnown, ConfirmedIsLinked, NoStaleCarrier, vars, worker, task, roots, daemon
  <1>2. ASSUME NEW c \in Call, Dispatch(c) PROVE DurableInv'
    <2>1. \A i \in DOMAIN mailbox' :
             (i \in DOMAIN mailbox /\ mailbox'[i] = mailbox[i])
             \/ (mailbox'[i].type = "Dispatch" /\ mailbox'[i].bytes = None)
      <3>1. CASE HasRoom
        BY <1>2, <3>1, PostFacts DEF Dispatch, Maybe
      <3>2. CASE ~HasRoom
        BY <1>2, <3>2 DEF Dispatch
      <3> QED BY <3>1, <3>2
    <2>2. \A d \in Call : pc'[d] = pc[d] \/ pc'[d] \in {"queued", "done"}
      BY <1>2 DEF Dispatch, TypeOK
    <2>3. BytesKnown'
      BY <1>2, <2>1 DEF Dispatch, DurableInv, BytesKnown, Maybe, worker, roots
    <2>4. ConfirmedIsLinked'
      BY <1>2, <2>1, <2>2 DEF Dispatch, DurableInv, ConfirmedIsLinked, worker, roots
    <2>5. NoStaleCarrier'
      BY <1>2, <2>2 DEF Dispatch, DurableInv, NoStaleCarrier, worker, roots
    <2> QED BY <1>2, <2>3, <2>4, <2>5 DEF Dispatch, DurableInv, worker, roots, daemon
  <1>3. ASSUME NEW c \in Call, DispatchTimeout(c) PROVE DurableInv'
    <2>1. /\ DOMAIN mailbox' = DOMAIN mailbox
          /\ \A i \in DOMAIN mailbox : mailbox'[i].type = mailbox[i].type /\ mailbox'[i].bytes = mailbox[i].bytes
      BY <1>3, AbandonFacts DEF DispatchTimeout, TypeOK
    <2>2. \A d \in Call : pc'[d] = pc[d] \/ pc'[d] = "done"
      BY <1>3 DEF DispatchTimeout, TypeOK
    <2> QED BY <1>3, <2>1, <2>2
            DEF DispatchTimeout, DurableInv, BytesKnown, ConfirmedIsLinked, NoStaleCarrier, worker, roots, daemon
  <1>4. ASSUME NEW c \in Call, spawn_state_persist(c) PROVE DurableInv'
    BY <1>4 DEF spawn_state_persist, TypeOK, DurableInv, BytesKnown, ConfirmedIsLinked, NoStaleCarrier,
                worker, roots, daemon
  <1>5. ASSUME NEW s \in Maybe(State), NEW trap \in BOOLEAN, WorkerDispatch(s, trap)
        PROVE  DurableInv'
    <2>1. \A d \in Call : pc[d] # "replied"
      BY <1>5 DEF WorkerDispatch, WorkerReady, Undisturbed
    <2>2. Head(mailbox).reply = None \/ (Head(mailbox).reply \in Call /\ pc[Head(mailbox).reply] = "queued")
      BY <1>5, HeadWaits DEF WorkerDispatch, WorkerReady
    <2>3. \A d \in Call : \/ pc'[d] = pc[d] /\ bytes'[d] = bytes[d]
                          \/ pc'[d] = "done" /\ bytes'[d] = None
                          \/ pc'[d] = "replied" /\ bytes'[d] = ctx'.pending /\ ctx' # ctx
      BY <1>5, <2>2 DEF WorkerDispatch, TypeOK
    <2> QED BY <1>5, <2>1, <2>3, HandlerDurable DEF WorkerDispatch, WorkerReady
  <1>6. CASE WorkerTakePending
    <2> DEFINE c == Head(mailbox).reply
    <2>1. c = None \/ (c \in Call /\ pc[c] \in {"snapWait", "tailWait"})
      BY <1>6, HeadWaits DEF WorkerTakePending, WorkerReady
    <2>2. \A i \in DOMAIN mailbox' : i + 1 \in DOMAIN mailbox /\ mailbox'[i] = mailbox[i + 1]
      BY <1>6, TakeFacts DEF WorkerTakePending, WorkerReady
    <2>3. \A d \in Call : \/ pc'[d] = pc[d] /\ bytes'[d] = bytes[d]
                          \/ pc'[d] \in {"done", "store"} /\ bytes'[d] = None
                          \/ pc'[d] \in {"add", "replied"} /\ bytes'[d] = latest
      BY <1>6, <2>1 DEF WorkerTakePending, TypeOK, DurableInv
    <2>4. BytesKnown'
      BY <1>6, <2>2, <2>3 DEF WorkerTakePending, DurableInv, BytesKnown, Maybe, worker, roots
    <2>5. ConfirmedIsLinked'
      BY <1>6, <2>2, <2>3 DEF WorkerTakePending, DurableInv, ConfirmedIsLinked, worker, roots
    <2>6. NoStaleCarrier'
      BY <1>6, <2>3 DEF WorkerTakePending, DurableInv, NoStaleCarrier, worker, roots
    <2> QED BY <1>6, <2>4, <2>5, <2>6 DEF WorkerTakePending, DurableInv, worker, roots, daemon
  <1>7. CASE WorkerMarkSaved
    <2> DEFINE b == Head(mailbox).bytes
    <2>1. b \in State
      BY <1>7, TakeFacts DEF WorkerMarkSaved, WorkerReady, TypeOK, PayloadsPresent, Maybe
    <2>2. ctx \in StateCtx /\ ctx' = mark_saved(ctx, b)
      BY <1>7 DEF WorkerMarkSaved, TypeOK
    <2>3. \A i \in DOMAIN mailbox' : i + 1 \in DOMAIN mailbox /\ mailbox'[i] = mailbox[i + 1]
      BY <1>7, TakeFacts DEF WorkerMarkSaved, WorkerReady
    <2>4. b \in used /\ (b = latest => root = latest)
      BY <1>7, <2>1, TakeFacts
      DEF WorkerMarkSaved, WorkerReady, DurableInv, BytesKnown, ConfirmedIsLinked, Maybe
    <2>5. ctx'.persisted = b /\ ctx'.pending \in {None, latest}
      <3>1. CASE ctx.pending = b
        BY <2>1, <2>2, <3>1, MarkSavedFacts
      <3>2. CASE ctx.pending # b
        BY <2>1, <2>2, <3>2, MarkSavedFacts DEF DurableInv
      <3> QED BY <3>1, <3>2
    <2>6. ctx'.pending = None => root = latest
      <3>1. CASE ctx.pending = b
        BY <2>1, <2>4, <3>1 DEF DurableInv
      <3>2. CASE ctx.pending # b
        BY <2>1, <2>2, <3>2, MarkSavedFacts DEF DurableInv
      <3> QED BY <3>1, <3>2
    <2>7. BytesKnown'
      BY <1>7, <2>3, <2>4, <2>5 DEF WorkerMarkSaved, DurableInv, BytesKnown, task, roots
    <2>8. ConfirmedIsLinked' /\ NoStaleCarrier'
      BY <1>7, <2>3 DEF WorkerMarkSaved, DurableInv, ConfirmedIsLinked, NoStaleCarrier, task, roots
    <2> QED BY <1>7, <2>5, <2>6, <2>7, <2>8 DEF WorkerMarkSaved, DurableInv, roots, daemon
  <1>8. ASSUME NEW s \in Maybe(State), WorkerShutdown(s) PROVE DurableInv'
    <2>1. \A d \in Call : pc[d] # "replied"
      BY <1>8 DEF WorkerShutdown, WorkerReady, Undisturbed
    <2>2. shut = "run"
      BY <1>8 DEF WorkerShutdown, WorkerReady, Alive, DurableInv
    <2>3. Head(mailbox).reply = None
      BY <1>8, <2>2, TakeFacts DEF WorkerShutdown, WorkerReady, RequestsMatch, RepliesOwned, Owned
    <2>4. UNCHANGED <<pc, bytes, roots, shut, publishing>>
      BY <1>8, <2>3 DEF WorkerShutdown, task
    <2> QED BY <1>8, <2>1, <2>4, HandlerDurable DEF WorkerShutdown, WorkerReady
  <1>9. ASSUME NEW c \in Call, AddBytes(c) PROVE DurableInv'
    BY <1>9 DEF AddBytes, TaskStep, TypeOK, DurableInv, BytesKnown, ConfirmedIsLinked, NoStaleCarrier,
                worker, roots, daemon
  <1>10. ASSUME NEW c \in Call, set_entity_state(c) PROVE DurableInv'
    <2>1. CASE TaskStep(c, "link", "snap") /\ UNCHANGED <<root, statsRoot>>
      <3>1. \A d \in Call : pc'[d] = pc[d] \/ pc'[d] = "snap"
        BY <1>10, <2>1 DEF set_entity_state, TaskStep, TypeOK, PayloadsPresent
      <3> QED BY <1>10, <2>1, <3>1
              DEF set_entity_state, DurableInv, BytesKnown, ConfirmedIsLinked, NoStaleCarrier, worker, daemon
    <2>2. CASE TaskStep(c, "link", "mark") /\ root' = bytes[c] /\ statsRoot' = bytes[c]
      <3>1. bytes[c] \in used /\ pc[c] = "link"
        BY <2>2 DEF TaskStep, TypeOK, PayloadsPresent, DurableInv, BytesKnown, Maybe
      <3>2. \A d \in Call : pc[d] \in Body => d = c
        BY <3>1 DEF OneLoop, Body
      <3>3. \A d \in Call : IF d = c THEN pc'[d] = "mark" ELSE pc'[d] = pc[d] /\ pc[d] \notin Body
        BY <2>2, <3>2 DEF TaskStep, TypeOK
      <3>4. root = latest => bytes[c] = latest
        BY <3>1 DEF DurableInv, NoStaleCarrier
      <3>5. BytesKnown'
        BY <1>10, <2>2, <3>1 DEF set_entity_state, DurableInv, BytesKnown, worker
      <3>6. ConfirmedIsLinked'
        BY <1>10, <2>2, <3>3, <3>4 DEF set_entity_state, DurableInv, ConfirmedIsLinked, worker, Body
      <3>7. NoStaleCarrier'
        BY <1>10, <2>2, <3>3 DEF set_entity_state, DurableInv, NoStaleCarrier, worker, Body
      <3> QED BY <1>10, <2>2, <3>4, <3>5, <3>6, <3>7 DEF set_entity_state, DurableInv, worker, daemon
    <2> QED BY <1>10, <2>1, <2>2 DEF set_entity_state
  <1>11. ASSUME NEW c \in Call, MarkSaved(c) PROVE DurableInv'
    <2>1. pc[c] = "mark" /\ bytes[c] \in State /\ bytes[c] \in used
      BY <1>11 DEF MarkSaved, TaskStep, TypeOK, PayloadsPresent, DurableInv, BytesKnown, Maybe
    <2>2. bytes[c] = latest => root = latest
      BY <2>1 DEF DurableInv, ConfirmedIsLinked
    <2>3. \A i \in DOMAIN mailbox' :
             \/ i \in DOMAIN mailbox /\ mailbox'[i] = mailbox[i]
             \/ mailbox'[i].type = "MarkSaved" /\ mailbox'[i].bytes = bytes[c]
      BY <1>11, <2>1, PostMarkSavedFacts DEF MarkSaved
    <2>4. \A d \in Call : pc'[d] = pc[d] \/ pc'[d] = "snap"
      BY <1>11 DEF MarkSaved, TaskStep, TypeOK
    <2>5. BytesKnown'
      BY <1>11, <2>1, <2>3 DEF MarkSaved, DurableInv, BytesKnown, Maybe, worker, roots
    <2>6. ConfirmedIsLinked'
      BY <1>11, <2>2, <2>3, <2>4 DEF MarkSaved, DurableInv, ConfirmedIsLinked, worker, roots
    <2>7. NoStaleCarrier'
      BY <1>11, <2>4 DEF MarkSaved, DurableInv, NoStaleCarrier, worker, roots
    <2> QED BY <1>11, <2>5, <2>6, <2>7 DEF MarkSaved, DurableInv, worker, roots, daemon
  <1>12. ASSUME NEW c \in Call, TakeSnapshot(c) \/ TakeTail(c) PROVE DurableInv'
    <2>1. \A i \in DOMAIN mailbox' :
             \/ /\ i \in DOMAIN mailbox
                /\ mailbox'[i].type = mailbox[i].type /\ mailbox'[i].bytes = mailbox[i].bytes
             \/ mailbox'[i].type = "TakePending" /\ mailbox'[i].bytes = None
      <3>1. CASE HasRoom /\ Post("TakePending", c, None)
        BY <3>1, PostFacts DEF Maybe
      <3>2. CASE UNCHANGED mailbox
        BY <3>2
      <3>3. CASE Abandon(c)
        BY <3>3, AbandonFacts DEF TypeOK
      <3> QED BY <1>12, <3>1, <3>2, <3>3 DEF TakeSnapshot, TakeTail
    <2>2. /\ \A d \in Call : pc'[d] = pc[d] \/ pc'[d] \in {"snapWait", "store", "tailWait", "done"}
          /\ UNCHANGED <<worker, bytes, roots, daemon, publishing>>
      BY <1>12 DEF TakeSnapshot, TakeTail, TaskStep, TypeOK
    <2>3. BytesKnown'
      BY <2>1, <2>2 DEF DurableInv, BytesKnown, Maybe, worker, roots
    <2>4. ConfirmedIsLinked' /\ NoStaleCarrier'
      BY <2>1, <2>2 DEF DurableInv, ConfirmedIsLinked, NoStaleCarrier, worker, roots
    <2> QED BY <2>2, <2>3, <2>4 DEF DurableInv, worker, roots, daemon
  <1>13. ASSUME NEW c \in Call, StoreInFlight(c) PROVE DurableInv'
    BY <1>13 DEF StoreInFlight, TaskStep, TypeOK, DurableInv, BytesKnown, ConfirmedIsLinked,
                 NoStaleCarrier, worker, roots, daemon
  <1>14. CASE CtrlC \/ Shutdown
    <2>1. FALSE
      BY <1>14 DEF CtrlC, Shutdown, ShutdownEntity, ShutdownAdd, ShutdownPutNode, ShutdownPublish,
                   ShutdownStats, ShutdownConfig, Exit, ShutStep, AbortShutdown, DurableInv,
                   Undisturbed, TypeOK
    <2> QED BY <2>1
  <1>15. CASE RepublishStart \/ RepublishFinish \/ Crash
    BY <1>15 DEF RepublishStart, RepublishFinish, Crash, TypeOK, DurableInv, BytesKnown,
                 ConfirmedIsLinked, NoStaleCarrier, Maybe, worker, task, roots, daemon
  <1>16. CASE Boot
    <2>1. /\ ctx' = StateCtx_new(configRoot) /\ latest' = configRoot /\ used' = used \cup {configRoot}
          /\ root' = configRoot /\ statsRoot' = configRoot /\ configRoot' = configRoot
          /\ DOMAIN mailbox' = {} /\ shut' = "run" /\ publishing' = None
          /\ \A c \in Call : pc'[c] \in {"idle", "done"} /\ bytes'[c] = None
      BY <1>16 DEF Boot, init_state, Undisturbed
    <2>2. ctx'.pending = None /\ ctx'.persisted = configRoot
      BY <2>1 DEF StateCtx_new
    <2>3. BytesKnown'
      BY <2>1, <2>2 DEF BytesKnown, DurableInv, Maybe
    <2> QED BY <2>1, <2>2, <2>3 DEF DurableInv, ConfirmedIsLinked, NoStaleCarrier
  <1> QED BY <1>1, <1>2, <1>3, <1>4, <1>5, <1>6, <1>7, <1>8, <1>9, <1>10, <1>11, <1>12, <1>13,
             <1>14, <1>15, <1>16
          DEF Next, Worker, PersistTask

(* The inductive invariant holds in every reachable state. *)
THEOREM DurableInvCorrect ==
    ASSUME Undisturbed
    PROVE  Spec => []DurableInv
  <1>1. Init => DurableInv
    <2> SUFFICES ASSUME Init PROVE DurableInv
      OBVIOUS
    <2>1. /\ ctx.pending = None /\ ctx.persisted = configRoot /\ DOMAIN mailbox = {}
          /\ \A c \in Call : pc[c] = "idle" /\ bytes[c] = None
      BY DEF Init, StateCtx_new
    <2> QED BY <2>1 DEF Init, DurableInv, BytesKnown, ConfirmedIsLinked, NoStaleCarrier, Maybe
  <1>2. TypeOK /\ RequestsMatch /\ OneLoop /\ DurableInv /\ [Next]_vars => DurableInv'
    BY NextDurable
  <1> QED BY <1>1, <1>2, TypeCorrect, RepliesCorrect, LoopCorrect, PTL DEF Spec

(* Nothing pending means durable, however calls, retries, timeouts, traps,  *)
(* full mailboxes, crashes and reboots interleave.                          *)
THEOREM DurabilityCorrect ==
    ASSUME Undisturbed
    PROVE  Spec => []NothingPendingMeansDurable
  <1>1. DurableInv => NothingPendingMeansDurable
    BY DEF DurableInv, NothingPendingMeansDurable
  <1> QED BY <1>1, DurableInvCorrect, PTL
=============================================================================
