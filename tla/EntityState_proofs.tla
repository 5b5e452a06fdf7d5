------------------------- MODULE EntityState_proofs -------------------------
(***************************************************************************)
(* Proofs about EntityState for every set of calls and states, every       *)
(* mailbox capacity and every combination of faults.                       *)
(***************************************************************************)
EXTENDS EntityState, TLAPS

-----------------------------------------------------------------------------
(* The mailbox as a sequence. *)

(* Taking the first message shifts the others down by one. *)
LEMMA TailFacts ==
    ASSUME NEW S, NEW q \in Seq(S), q # << >>
    PROVE  /\ Head(q) \in S /\ Head(q) = q[1] /\ 1 \in DOMAIN q
           /\ Tail(q) \in Seq(S) /\ Len(Tail(q)) = Len(q) - 1
           /\ \A i \in DOMAIN Tail(q) : i + 1 \in DOMAIN q /\ Tail(q)[i] = q[i + 1]
           /\ \A i \in DOMAIN q : i # 1 => i - 1 \in DOMAIN Tail(q) /\ Tail(q)[i - 1] = q[i]
  OBVIOUS

(* Appending a message keeps the others where they are. *)
LEMMA AppendFacts ==
    ASSUME NEW S, NEW q \in Seq(S), NEW e \in S
    PROVE  /\ Append(q, e) \in Seq(S) /\ Len(Append(q, e)) = Len(q) + 1
           /\ DOMAIN Append(q, e) = DOMAIN q \cup {Len(q) + 1}
           /\ Append(q, e)[Len(q) + 1] = e
           /\ Len(q) + 1 \notin DOMAIN q
           /\ \A i \in DOMAIN q : Append(q, e)[i] = q[i]
  OBVIOUS

(* An abandoned request stays in the mailbox, with nobody to reply to. *)
LEMMA AbandonFacts ==
    ASSUME mailbox \in Seq(EntityMsg), NEW who, Abandon(who)
    PROVE  /\ mailbox' \in Seq(EntityMsg) /\ Len(mailbox') = Len(mailbox)
           /\ DOMAIN mailbox' = DOMAIN mailbox
           /\ \A i \in DOMAIN mailbox :
                 /\ mailbox'[i].type = mailbox[i].type
                 /\ mailbox'[i].bytes = mailbox[i].bytes
                 /\ mailbox'[i].reply = IF mailbox[i].reply = who THEN None ELSE mailbox[i].reply
  <1>1. DOMAIN mailbox = 1..Len(mailbox) /\ Len(mailbox) \in Nat
    OBVIOUS
  <1>2. \A i \in DOMAIN mailbox : mailbox[i] \in EntityMsg
    OBVIOUS
  <1>3. \A i \in DOMAIN mailbox : [mailbox[i] EXCEPT !.reply = None] \in EntityMsg
    BY <1>2 DEF EntityMsg
  <1>4. mailbox' = [i \in 1..Len(mailbox) |->
                      IF mailbox[i].reply = who
                      THEN [mailbox[i] EXCEPT !.reply = None]
                      ELSE mailbox[i]]
    BY <1>1 DEF Abandon
  <1>5. mailbox' \in Seq(EntityMsg) /\ Len(mailbox') = Len(mailbox) /\ DOMAIN mailbox' = DOMAIN mailbox
    BY <1>1, <1>2, <1>3, <1>4
  <1>6. \A i \in DOMAIN mailbox :
           mailbox'[i] = IF mailbox[i].reply = who
                         THEN [mailbox[i] EXCEPT !.reply = None]
                         ELSE mailbox[i]
    BY <1>1, <1>4
  <1> QED BY <1>2, <1>5, <1>6 DEF EntityMsg

-----------------------------------------------------------------------------
(* StateCtx. *)

(* What queue_state leaves in the fields of the context. *)
LEMMA QueueStateFacts ==
    ASSUME NEW x \in StateCtx, NEW s \in State
    PROVE  /\ queue_state(x, s) \in StateCtx
           /\ queue_state(x, s).persisted = x.persisted
           /\ \/ queue_state(x, s) = x
              \/ /\ queue_state(x, s).pending = s
                 /\ queue_state(x, s).dirty = TRUE
                 /\ s # x.persisted
  BY DEF queue_state, StateCtx, Maybe

(* What mark_saved leaves in the fields of the context. *)
LEMMA MarkSavedFacts ==
    ASSUME NEW x \in StateCtx, NEW b \in State
    PROVE  /\ mark_saved(x, b) \in StateCtx
           /\ mark_saved(x, b).persisted = b
           /\ x.pending = b => mark_saved(x, b).pending = None /\ mark_saved(x, b).dirty = FALSE
           /\ x.pending # b => /\ mark_saved(x, b).pending = x.pending
                               /\ mark_saved(x, b).dirty = (x.pending # None)
  <1>1. CASE x.pending = b
    BY <1>1 DEF mark_saved, StateCtx, Maybe
  <1>2. CASE x.pending # b
    BY <1>2 DEF mark_saved, StateCtx, Maybe
  <1> QED BY <1>1, <1>2

(* A handler changes the context by one queue_state or not at all. *)
LEMMA RunHandlerFacts ==
    ASSUME ctx \in StateCtx, latest \in State, used \subseteq State,
           NEW s \in Maybe(State), RunHandler(s)
    PROVE  /\ ctx' \in StateCtx /\ latest' \in State /\ used' \subseteq State
           /\ ctx'.persisted = ctx.persisted
           /\ ctx' = ctx \/ ctx'.pending \in State
           /\ \/ ctx' = ctx
              \/ /\ s \in State /\ ctx'.pending = s /\ ctx'.dirty = TRUE
                 /\ s # ctx.persisted
  <1>1. CASE s = None
    BY <1>1 DEF RunHandler
  <1>2. CASE s # None
    <2>1. s \in State
      BY <1>2 DEF Maybe
    <2> QED BY <1>2, <2>1, QueueStateFacts DEF RunHandler
  <1> QED BY <1>1, <1>2

-----------------------------------------------------------------------------
(* Type correctness. *)

(* The initial state is well typed. *)
LEMMA InitType == Init => TypeOK
  <1> SUFFICES ASSUME Init PROVE TypeOK
    OBVIOUS
  <1>1. EmptyState \in State /\ MailboxCapacity \in Nat /\ MaxSignals \in Nat
    BY ConstantsAssumption
  <1>2. ctx \in StateCtx
    BY <1>1 DEF Init, StateCtx_new, StateCtx, Maybe
  <1>3. mailbox \in Seq(EntityMsg) /\ Len(mailbox) <= MailboxCapacity
    BY <1>1 DEF Init
  <1>4. pc \in [Call -> CallPC] /\ bytes \in [Call -> Maybe(State)] /\ PayloadsPresent
    BY DEF Init, CallPC, Maybe, PayloadsPresent
  <1>5. /\ root \in State /\ statsRoot \in State /\ configRoot \in State /\ shutRoot \in State
        /\ latest \in State /\ used \subseteq State /\ due \subseteq State
    BY <1>1 DEF Init
  <1>6. /\ shut \in ShutPC /\ shutBytes \in Maybe(State) /\ publishing \in Maybe(State)
        /\ inFlight \in BOOLEAN /\ orphaned \in BOOLEAN
    BY DEF Init, ShutPC, Maybe
  <1>7. signals \in 0..MaxSignals
    BY <1>1 DEF Init
  <1> QED BY <1>2, <1>3, <1>4, <1>5, <1>6, <1>7 DEF TypeOK

(* The message a sender posts is well formed. *)
LEMMA MessageType ==
    ASSUME NEW type \in {"Dispatch", "TakePending", "MarkSaved", "Shutdown"},
           NEW r \in Call \cup {Daemon, None}, NEW b \in Maybe(State)
    PROVE  /\ Message(type, r, b) \in EntityMsg
           /\ Message(type, r, b).type = type
           /\ Message(type, r, b).reply = r
           /\ Message(type, r, b).bytes = b
  BY DEF Message, EntityMsg

(* The mailbox after a message was posted to it. *)
LEMMA PostFacts ==
    ASSUME TypeOK, HasRoom,
           NEW type \in {"Dispatch", "TakePending", "MarkSaved", "Shutdown"},
           NEW r \in Call \cup {Daemon, None}, NEW b \in Maybe(State),
           Post(type, r, b)
    PROVE  /\ mailbox' \in Seq(EntityMsg) /\ Len(mailbox') <= MailboxCapacity
           /\ DOMAIN mailbox' = DOMAIN mailbox \cup {Len(mailbox) + 1}
           /\ Len(mailbox) + 1 \notin DOMAIN mailbox
           /\ \A i \in DOMAIN mailbox : mailbox'[i] = mailbox[i]
           /\ mailbox'[Len(mailbox) + 1].type = type
           /\ mailbox'[Len(mailbox) + 1].reply = r
           /\ mailbox'[Len(mailbox) + 1].bytes = b
  <1>1. Message(type, r, b) \in EntityMsg
    BY MessageType
  <1>2. mailbox \in Seq(EntityMsg) /\ Len(mailbox) < MailboxCapacity
    BY DEF TypeOK, HasRoom
  <1>3. mailbox' = Append(mailbox, Message(type, r, b))
    BY DEF Post
  <1>4. Len(mailbox) \in Nat /\ MailboxCapacity \in Nat
    BY <1>2, ConstantsAssumption
  <1>5. /\ mailbox' \in Seq(EntityMsg) /\ Len(mailbox') = Len(mailbox) + 1
        /\ DOMAIN mailbox' = DOMAIN mailbox \cup {Len(mailbox) + 1}
        /\ Len(mailbox) + 1 \notin DOMAIN mailbox
        /\ mailbox'[Len(mailbox) + 1] = Message(type, r, b)
        /\ \A i \in DOMAIN mailbox : mailbox'[i] = mailbox[i]
    BY <1>1, <1>2, <1>3, AppendFacts
  <1>6. Len(mailbox') <= MailboxCapacity
    BY <1>2, <1>4, <1>5
  <1>7. /\ mailbox'[Len(mailbox) + 1].type = type
        /\ mailbox'[Len(mailbox) + 1].reply = r
        /\ mailbox'[Len(mailbox) + 1].bytes = b
    BY <1>5, MessageType
  <1> QED BY <1>5, <1>6, <1>7

(* The mailbox after the worker took its first message. *)
LEMMA TakeFacts ==
    ASSUME TypeOK, mailbox # << >>, mailbox' = Tail(mailbox)
    PROVE  /\ mailbox' \in Seq(EntityMsg) /\ Len(mailbox') <= MailboxCapacity
           /\ Head(mailbox) = mailbox[1] /\ 1 \in DOMAIN mailbox
           /\ Head(mailbox).reply \in Call \cup {Daemon, None}
           /\ Head(mailbox).bytes \in Maybe(State)
           /\ \A i \in DOMAIN mailbox' : i \in Nat /\ i + 1 \in DOMAIN mailbox /\ mailbox'[i] = mailbox[i + 1]
           /\ \A i \in DOMAIN mailbox : i # 1 => i - 1 \in DOMAIN mailbox' /\ mailbox'[i - 1] = mailbox[i]
           /\ (\A i \in DOMAIN mailbox' : mailbox'[i].type = "MarkSaved" => mailbox'[i].bytes # None)
  <1>1. mailbox \in Seq(EntityMsg) /\ Len(mailbox) <= MailboxCapacity
    BY DEF TypeOK
  <1>2. Head(mailbox) \in EntityMsg
    BY <1>1, TailFacts
  <1>3. Head(mailbox).reply \in Call \cup {Daemon, None} /\ Head(mailbox).bytes \in Maybe(State)
    BY <1>2 DEF EntityMsg
  <1>4. MailboxCapacity \in Nat /\ Len(mailbox) \in Nat
    BY <1>1, ConstantsAssumption
  <1>5. mailbox' \in Seq(EntityMsg) /\ Len(mailbox') <= MailboxCapacity
    BY <1>1, <1>4, TailFacts
  <1>6. \A i \in DOMAIN mailbox' : i \in Nat /\ i + 1 \in DOMAIN mailbox /\ mailbox'[i] = mailbox[i + 1]
    BY <1>1, <1>5, TailFacts
  <1>7. \A i \in DOMAIN mailbox' : mailbox'[i].type = "MarkSaved" => mailbox'[i].bytes # None
    BY <1>6 DEF TypeOK, PayloadsPresent
  <1> QED BY <1>1, <1>3, <1>5, <1>6, <1>7, TailFacts

(* EntityPlugin::mark_saved posts its message or leaves the mailbox alone. *)
LEMMA PostMarkSavedFacts ==
    ASSUME TypeOK, NEW b \in State, PostMarkSaved(b)
    PROVE  /\ mailbox' \in Seq(EntityMsg) /\ Len(mailbox') <= MailboxCapacity
           /\ \A i \in DOMAIN mailbox : i \in DOMAIN mailbox' /\ mailbox'[i] = mailbox[i]
           /\ \A i \in DOMAIN mailbox' : i \notin DOMAIN mailbox =>
                  /\ mailbox'[i].type = "MarkSaved"
                  /\ mailbox'[i].reply = None
                  /\ mailbox'[i].bytes = b
  <1>1. CASE HasRoom
    BY <1>1, PostFacts DEF PostMarkSaved, Maybe
  <1>2. CASE ~HasRoom
    BY <1>2 DEF PostMarkSaved, TypeOK
  <1> QED BY <1>1, <1>2

(* Every step keeps the types, the mailbox bound and the payloads. *)
LEMMA NextType == TypeOK /\ [Next]_vars => TypeOK'
  <1> SUFFICES ASSUME TypeOK, [Next]_vars PROVE TypeOK'
    OBVIOUS
  <1> USE ConstantsAssumption
  <1>1. CASE UNCHANGED vars
    BY <1>1 DEF TypeOK, PayloadsPresent, vars, worker, task, roots, daemon
  <1>2. ASSUME NEW c \in Call, Dispatch(c) PROVE TypeOK'
    <2>1. /\ mailbox' \in Seq(EntityMsg) /\ Len(mailbox') <= MailboxCapacity
          /\ \A i \in DOMAIN mailbox' : mailbox'[i].type = "MarkSaved" => mailbox'[i].bytes # None
      <3>1. CASE HasRoom
        BY <1>2, <3>1, PostFacts DEF Dispatch, Maybe, TypeOK, PayloadsPresent
      <3>2. CASE ~HasRoom
        BY <1>2, <3>2 DEF Dispatch, TypeOK, PayloadsPresent
      <3> QED BY <3>1, <3>2
    <2>2. pc' \in [Call -> CallPC] /\ \A d \in Call : pc'[d] = pc[d] \/ pc'[d] \in {"queued", "done"}
      BY <1>2 DEF Dispatch, TypeOK, CallPC
    <2> QED BY <1>2, <2>1, <2>2 DEF Dispatch, TypeOK, PayloadsPresent, worker, roots, daemon
  <1>3. ASSUME NEW c \in Call, DispatchTimeout(c) PROVE TypeOK'
    BY <1>3, AbandonFacts
    DEF DispatchTimeout, TypeOK, PayloadsPresent, CallPC, worker, roots, daemon
  <1>4. ASSUME NEW c \in Call, spawn_state_persist(c) PROVE TypeOK'
    BY <1>4
    DEF spawn_state_persist, TypeOK, PayloadsPresent, CallPC, Body, worker, roots, daemon
  <1>5. ASSUME NEW s \in Maybe(State), NEW trap \in BOOLEAN, WorkerDispatch(s, trap) PROVE TypeOK'
    <2>1. ctx' \in StateCtx /\ latest' \in State /\ used' \subseteq State
      BY <1>5, RunHandlerFacts DEF WorkerDispatch, TypeOK
    <2>2. ctx' # ctx => ctx'.pending \in State
      BY <1>5, RunHandlerFacts DEF WorkerDispatch, TypeOK
    <2>3. mailbox' \in Seq(EntityMsg) /\ Len(mailbox') <= MailboxCapacity
      BY <1>5, TakeFacts DEF WorkerDispatch, WorkerReady
    <2>4. \A i \in DOMAIN mailbox' : mailbox'[i].type = "MarkSaved" => mailbox'[i].bytes # None
      BY <1>5, TakeFacts DEF WorkerDispatch, WorkerReady
    <2>5. Head(mailbox).reply \in Call \cup {Daemon, None}
      BY <1>5, TakeFacts DEF WorkerDispatch, WorkerReady
    <2>6. pc' \in [Call -> CallPC] /\ bytes' \in [Call -> Maybe(State)]
      BY <1>5, <2>2, <2>5 DEF WorkerDispatch, TypeOK, CallPC, Maybe
    <2>7. \A c \in Call : pc'[c] \in {"replied", "add", "link", "mark"} => bytes'[c] # None
      BY <1>5, <2>2, <2>5 DEF WorkerDispatch, TypeOK, PayloadsPresent
    <2> QED BY <1>5, <2>1, <2>3, <2>4, <2>6, <2>7 DEF WorkerDispatch, TypeOK, PayloadsPresent, roots
  <1>6. CASE WorkerTakePending
    <2>1. mailbox' \in Seq(EntityMsg) /\ Len(mailbox') <= MailboxCapacity
      BY <1>6, TakeFacts DEF WorkerTakePending, WorkerReady
    <2>2. \A i \in DOMAIN mailbox' : mailbox'[i].type = "MarkSaved" => mailbox'[i].bytes # None
      BY <1>6, TakeFacts DEF WorkerTakePending, WorkerReady
    <2>3. Head(mailbox).reply \in Call \cup {Daemon, None} /\ ctx.pending \in Maybe(State)
      BY <1>6, TakeFacts DEF WorkerTakePending, WorkerReady, TypeOK, StateCtx
    <2>4. pc' \in [Call -> CallPC] /\ bytes' \in [Call -> Maybe(State)] /\ orphaned' \in BOOLEAN
      BY <1>6, <2>3 DEF WorkerTakePending, TypeOK, CallPC, Body
    <2>5. \A c \in Call : pc'[c] \in {"replied", "add", "link", "mark"} => bytes'[c] # None
      BY <1>6, <2>3 DEF WorkerTakePending, TypeOK, PayloadsPresent
    <2> QED BY <1>6, <2>1, <2>2, <2>4, <2>5
            DEF WorkerTakePending, TypeOK, PayloadsPresent, worker, roots, daemon
  <1>7. CASE WorkerMarkSaved
    <2>1. mailbox' \in Seq(EntityMsg) /\ Len(mailbox') <= MailboxCapacity
      BY <1>7, TakeFacts DEF WorkerMarkSaved, WorkerReady
    <2>2. \A i \in DOMAIN mailbox' : mailbox'[i].type = "MarkSaved" => mailbox'[i].bytes # None
      BY <1>7, TakeFacts DEF WorkerMarkSaved, WorkerReady
    <2>3. Head(mailbox).bytes \in State
      BY <1>7, TakeFacts DEF WorkerMarkSaved, WorkerReady, TypeOK, PayloadsPresent, Maybe
    <2>4. ctx' \in StateCtx
      BY <1>7, <2>3, MarkSavedFacts DEF WorkerMarkSaved, TypeOK
    <2> QED BY <1>7, <2>1, <2>2, <2>4 DEF WorkerMarkSaved, TypeOK, PayloadsPresent, task, roots, daemon
  <1>8. ASSUME NEW s \in Maybe(State), WorkerShutdown(s) PROVE TypeOK'
    <2>1. ctx' \in StateCtx /\ latest' \in State /\ used' \subseteq State
      BY <1>8, RunHandlerFacts DEF WorkerShutdown, TypeOK
    <2>2. mailbox' \in Seq(EntityMsg) /\ Len(mailbox') <= MailboxCapacity
      BY <1>8, TakeFacts DEF WorkerShutdown, WorkerReady
    <2>3. \A i \in DOMAIN mailbox' : mailbox'[i].type = "MarkSaved" => mailbox'[i].bytes # None
      BY <1>8, TakeFacts DEF WorkerShutdown, WorkerReady
    <2>4. /\ shut' \in ShutPC /\ shutBytes' \in Maybe(State) /\ due' \subseteq State
          /\ shut' = "add" => shutBytes' # None
      BY <1>8, <2>1 DEF WorkerShutdown, TypeOK, PayloadsPresent, ShutPC, StateCtx
    <2> QED BY <1>8, <2>1, <2>2, <2>3, <2>4 DEF WorkerShutdown, TypeOK, PayloadsPresent, task, roots
  <1>9. ASSUME NEW c \in Call, AddBytes(c) PROVE TypeOK'
    BY <1>9 DEF AddBytes, TaskStep, TypeOK, PayloadsPresent, CallPC, Body, worker, roots, daemon
  <1>10. ASSUME NEW c \in Call, set_entity_state(c) PROVE TypeOK'
    <2>1. pc[c] = "link" /\ bytes[c] \in State
      BY <1>10 DEF set_entity_state, TaskStep, TypeOK, PayloadsPresent, Maybe
    <2> QED BY <1>10, <2>1
            DEF set_entity_state, TaskStep, TypeOK, PayloadsPresent, CallPC, Body, worker, daemon
  <1>11. ASSUME NEW c \in Call, MarkSaved(c) PROVE TypeOK'
    <2>1. pc[c] = "mark" /\ bytes[c] \in State
      BY <1>11 DEF MarkSaved, TaskStep, TypeOK, PayloadsPresent, Maybe
    <2>2. /\ mailbox' \in Seq(EntityMsg) /\ Len(mailbox') <= MailboxCapacity
          /\ \A i \in DOMAIN mailbox' : mailbox'[i].type = "MarkSaved" => mailbox'[i].bytes # None
      BY <1>11, <2>1, PostMarkSavedFacts DEF MarkSaved, TypeOK, PayloadsPresent
    <2> QED BY <1>11, <2>2
            DEF MarkSaved, TaskStep, TypeOK, PayloadsPresent, CallPC, Body, worker, roots, daemon
  <1>12. ASSUME NEW c \in Call, TakeSnapshot(c) PROVE TypeOK'
    <2>1. /\ mailbox' \in Seq(EntityMsg) /\ Len(mailbox') <= MailboxCapacity
          /\ \A i \in DOMAIN mailbox' : mailbox'[i].type = "MarkSaved" => mailbox'[i].bytes # None
      <3>1. CASE HasRoom /\ Post("TakePending", c, None)
        BY <3>1, PostFacts DEF Maybe, TypeOK, PayloadsPresent
      <3>2. CASE UNCHANGED mailbox
        BY <3>2 DEF TypeOK, PayloadsPresent
      <3>3. CASE Abandon(c)
        BY <3>3, AbandonFacts DEF TypeOK, PayloadsPresent
      <3> QED BY <1>12, <3>1, <3>2, <3>3 DEF TakeSnapshot
    <2>2. /\ pc' \in [Call -> CallPC]
          /\ \A d \in Call : pc'[d] = pc[d] \/ pc'[d] \in {"snapWait", "store"}
      BY <1>12 DEF TakeSnapshot, TaskStep, TypeOK, CallPC, Body
    <2> QED BY <1>12, <2>1, <2>2 DEF TakeSnapshot, TypeOK, PayloadsPresent, worker, roots, daemon
  <1>13. ASSUME NEW c \in Call, StoreInFlight(c) PROVE TypeOK'
    BY <1>13 DEF StoreInFlight, TaskStep, TypeOK, PayloadsPresent, CallPC, worker, roots, daemon
  <1>14. ASSUME NEW c \in Call, TakeTail(c) PROVE TypeOK'
    <2>1. /\ mailbox' \in Seq(EntityMsg) /\ Len(mailbox') <= MailboxCapacity
          /\ \A i \in DOMAIN mailbox' : mailbox'[i].type = "MarkSaved" => mailbox'[i].bytes # None
      <3>1. CASE HasRoom /\ Post("TakePending", c, None)
        BY <3>1, PostFacts DEF Maybe, TypeOK, PayloadsPresent
      <3>2. CASE UNCHANGED mailbox
        BY <3>2 DEF TypeOK, PayloadsPresent
      <3>3. CASE Abandon(c)
        BY <3>3, AbandonFacts DEF TypeOK, PayloadsPresent
      <3> QED BY <1>14, <3>1, <3>2, <3>3 DEF TakeTail
    <2>2. /\ pc' \in [Call -> CallPC] /\ orphaned' \in BOOLEAN
          /\ \A d \in Call : pc'[d] = pc[d] \/ pc'[d] \in {"tailWait", "done"}
      BY <1>14 DEF TakeTail, TaskStep, TypeOK, CallPC
    <2> QED BY <1>14, <2>1, <2>2 DEF TakeTail, TypeOK, PayloadsPresent, worker, roots, daemon
  <1>15. CASE CtrlC
    <2>1. signals' \in 0..MaxSignals
      BY <1>15 DEF CtrlC, TypeOK
    <2> QED BY <1>15, <2>1 DEF CtrlC, ShutStep, TypeOK, PayloadsPresent, ShutPC, worker, task, roots
  <1>16. CASE ShutdownEntity
    <2>1. /\ mailbox' \in Seq(EntityMsg) /\ Len(mailbox') <= MailboxCapacity
          /\ \A i \in DOMAIN mailbox' : mailbox'[i].type = "MarkSaved" => mailbox'[i].bytes # None
      <3>1. CASE HasRoom /\ Post("Shutdown", Daemon, None)
        BY <3>1, PostFacts DEF Maybe, TypeOK, PayloadsPresent
      <3>2. CASE UNCHANGED mailbox
        BY <3>2 DEF TypeOK, PayloadsPresent
      <3>3. CASE Abandon(Daemon)
        BY <3>3, AbandonFacts DEF TypeOK, PayloadsPresent
      <3> QED BY <1>16, <3>1, <3>2, <3>3 DEF ShutdownEntity
    <2>2. /\ shut' \in {"publish", "wait", "run"} /\ shutBytes' \in Maybe(State)
          /\ due' \subseteq State
      BY <1>16 DEF ShutdownEntity, ShutStep, AbortShutdown, TypeOK, Maybe
    <2> QED BY <1>16, <2>1, <2>2 DEF ShutdownEntity, TypeOK, PayloadsPresent, ShutPC, worker, task, roots
  <1>17. CASE ShutdownAdd
    <2>1. shut = "add" /\ shutBytes \in State
      BY <1>17 DEF ShutdownAdd, ShutStep, AbortShutdown, TypeOK, PayloadsPresent, Maybe
    <2>2. /\ mailbox' \in Seq(EntityMsg) /\ Len(mailbox') <= MailboxCapacity
          /\ \A i \in DOMAIN mailbox' : mailbox'[i].type = "MarkSaved" => mailbox'[i].bytes # None
      BY <1>17, <2>1, PostMarkSavedFacts DEF ShutdownAdd, TypeOK, PayloadsPresent
    <2>3. shut' \in {"put", "run"} /\ shutBytes' \in Maybe(State)
      BY <1>17 DEF ShutdownAdd, ShutStep, AbortShutdown, TypeOK, Maybe
    <2> QED BY <1>17, <2>2, <2>3 DEF ShutdownAdd, TypeOK, PayloadsPresent, ShutPC, worker, task, roots
  <1>18. CASE ShutdownPutNode
    BY <1>18 DEF ShutdownPutNode, ShutStep, AbortShutdown, TypeOK, PayloadsPresent, ShutPC, Maybe,
                 worker, task, roots
  <1>19. CASE ShutdownPublish
    <2>1. /\ root' \in State /\ statsRoot' \in State /\ shutRoot' \in State
          /\ shutBytes' \in Maybe(State) /\ shut' \in {"stats", "run"}
      BY <1>19 DEF ShutdownPublish, ShutStep, AbortShutdown, TypeOK, Maybe
    <2> QED BY <1>19, <2>1 DEF ShutdownPublish, TypeOK, PayloadsPresent, ShutPC, worker, task
  <1>20. CASE ShutdownStats
    BY <1>20 DEF ShutdownStats, ShutStep, TypeOK, PayloadsPresent, ShutPC, worker, task
  <1>21. CASE ShutdownConfig
    BY <1>21 DEF ShutdownConfig, ShutStep, TypeOK, PayloadsPresent, ShutPC, worker, task
  <1>22. CASE Exit
    BY <1>22 DEF Exit, ShutStep, TypeOK, PayloadsPresent, ShutPC, worker, task, roots
  <1>23. CASE RepublishStart
    BY <1>23 DEF RepublishStart, TypeOK, PayloadsPresent, Maybe, worker, task, roots, daemon
  <1>24. CASE RepublishFinish
    BY <1>24 DEF RepublishFinish, TypeOK, PayloadsPresent, Maybe, worker, task, daemon
  <1>25. CASE Crash
    BY <1>25 DEF Crash, TypeOK, PayloadsPresent, ShutPC, worker, task, roots
  <1>26. CASE Boot
    <2>1. PICK s \in {configRoot} \cup (IF "cat" \in Failures THEN {EmptyState} ELSE {}) :
             ctx' = StateCtx_new(s) /\ latest' = s /\ used' = used \cup {s}
      BY <1>26 DEF Boot, init_state
    <2>2. s \in State
      BY <2>1 DEF TypeOK
    <2>3. ctx' \in StateCtx /\ latest' \in State /\ used' \subseteq State
      BY <2>1, <2>2 DEF StateCtx_new, StateCtx, Maybe, TypeOK
    <2>4. pc' \in [Call -> {"idle", "done"}] /\ bytes' \in [Call -> Maybe(State)]
      BY <1>26 DEF Boot, Maybe
    <2>5. mailbox' \in Seq(EntityMsg) /\ Len(mailbox') <= MailboxCapacity /\ DOMAIN mailbox' = {}
      BY <1>26 DEF Boot
    <2> QED BY <1>26, <2>3, <2>4, <2>5 DEF Boot, TypeOK, PayloadsPresent, CallPC, ShutPC, Maybe
  <1> QED BY <1>1, <1>2, <1>3, <1>4, <1>5, <1>6, <1>7, <1>8, <1>9, <1>10, <1>11, <1>12, <1>13,
             <1>14, <1>15, <1>16, <1>17, <1>18, <1>19, <1>20, <1>21, <1>22, <1>23, <1>24,
             <1>25, <1>26
          DEF Next, Worker, PersistTask, Shutdown

(* Types, mailbox bound and payloads, in every reachable state. *)
THEOREM TypeCorrect == Spec => []TypeOK
  BY InitType, NextType, PTL DEF Spec

-----------------------------------------------------------------------------
(* StateCtx stays consistent. *)

(* Only a handler, mark_saved and a boot touch the context. *)
LEMMA NextCtx == TypeOK /\ CtxConsistent /\ [Next]_vars => CtxConsistent'
  <1> SUFFICES ASSUME TypeOK, CtxConsistent, [Next]_vars PROVE CtxConsistent'
    OBVIOUS
  <1> USE ConstantsAssumption
  <1>1. CASE UNCHANGED ctx
    BY <1>1 DEF CtxConsistent
  <1>2. ASSUME NEW s \in Maybe(State), RunHandler(s) PROVE CtxConsistent'
    <2>1. CASE ctx' = ctx
      BY <2>1 DEF CtxConsistent
    <2>2. CASE ctx' # ctx
      <3>1. s \in State /\ ctx'.pending = s /\ ctx'.dirty = TRUE /\ ctx'.persisted = ctx.persisted
            /\ s # ctx.persisted
        BY <1>2, <2>2, RunHandlerFacts DEF TypeOK
      <3> QED BY <3>1 DEF CtxConsistent
    <2> QED BY <2>1, <2>2
  <1>3. CASE WorkerMarkSaved
    <2>1. Head(mailbox).bytes \in State
      BY <1>3, TakeFacts DEF WorkerMarkSaved, WorkerReady, TypeOK, PayloadsPresent, Maybe
    <2>2. ctx \in StateCtx /\ ctx' = mark_saved(ctx, Head(mailbox).bytes)
      BY <1>3 DEF WorkerMarkSaved, TypeOK
    <2>3. CASE ctx.pending = Head(mailbox).bytes
      BY <2>1, <2>2, <2>3, MarkSavedFacts DEF CtxConsistent
    <2>4. CASE ctx.pending # Head(mailbox).bytes
      BY <2>1, <2>2, <2>4, MarkSavedFacts DEF CtxConsistent
    <2> QED BY <2>3, <2>4
  <1>4. CASE Boot
    <2>1. \E s \in State : ctx' = StateCtx_new(s)
      BY <1>4 DEF Boot, init_state, TypeOK
    <2> QED BY <2>1 DEF StateCtx_new, CtxConsistent
  <1> QED BY <1>1, <1>2, <1>3, <1>4
          DEF Next, Worker, PersistTask, Shutdown, Dispatch, DispatchTimeout, spawn_state_persist,
              WorkerDispatch, WorkerTakePending, WorkerShutdown, AddBytes, set_entity_state,
              MarkSaved, TakeSnapshot, StoreInFlight, TakeTail, CtrlC, ShutdownEntity, ShutdownAdd,
              ShutdownPutNode, ShutdownPublish, ShutdownStats, ShutdownConfig, Exit,
              RepublishStart, RepublishFinish, Crash, vars, worker

(* dirty tells exactly whether bytes are pending, and pending bytes always  *)
(* differ from the persisted ones, however handlers and late confirmations  *)
(* of the persist task and of the shutdown interleave.                      *)
THEOREM ContextCorrect == Spec => []CtxConsistent
  <1>1. Init => CtxConsistent
    BY ConstantsAssumption DEF Init, CtxConsistent, StateCtx_new
  <1> QED BY <1>1, NextCtx, TypeCorrect, PTL DEF Spec

-----------------------------------------------------------------------------
(* Requests and replies. *)

Waits(who, p, sh) == (who \in Call /\ p[who] \in Waiting) \/ (who = Daemon /\ sh = "wait")

(* Someone who has a reply handle in the mailbox is waiting for it. *)
LEMMA HandleFacts ==
    ASSUME TypeOK, RequestsMatch, Alive, NEW i \in DOMAIN mailbox, mailbox[i].reply # None
    PROVE  Waits(mailbox[i].reply, pc, shut)
  BY ConstantsAssumption DEF RequestsMatch, RepliesOwned, Owned, Waits, Waiting, Alive

(* Steps that leave the mailbox and everybody who waits alone. *)
LEMMA FrameMatch ==
    ASSUME TypeOK, RequestsMatch, UNCHANGED mailbox,
           \A c \in Call : pc'[c] = pc[c] \/ (pc[c] \notin Waiting /\ pc'[c] \notin Waiting),
           shut' = shut \/ shut' = "crashed" \/ (shut \notin {"wait", "crashed"} /\ shut' # "wait")
    PROVE  RequestsMatch'
  <1>1. RepliesOwned'
    BY ConstantsAssumption DEF RequestsMatch, RepliesOwned, Owned, Waiting
  <1>2. RepliesUnique' /\ RepliesDue'
    BY DEF RequestsMatch, RepliesUnique, RepliesDue
  <1> QED BY <1>1, <1>2 DEF RequestsMatch

(* The worker takes the first request and answers it. *)
LEMMA TakeMatch ==
    ASSUME TypeOK, RequestsMatch, mailbox # << >>, mailbox' = Tail(mailbox),
           \A c \in Call : IF c = Head(mailbox).reply THEN pc'[c] \notin Waiting ELSE pc'[c] = pc[c],
           IF Head(mailbox).reply = Daemon THEN shut' # "wait" ELSE shut' = shut
    PROVE  RequestsMatch'
  <1> DEFINE who == Head(mailbox).reply
  <1>1. \A i \in DOMAIN mailbox' : mailbox'[i].reply = None \/ mailbox'[i].reply # who
    BY TakeFacts DEF RequestsMatch, RepliesUnique
  <1>2. \A i \in DOMAIN mailbox' : Owned(mailbox'[i])
    BY TakeFacts DEF RequestsMatch, RepliesOwned
  <1>3. RepliesOwned'
    <2> SUFFICES ASSUME NEW i \in DOMAIN mailbox' PROVE Owned(mailbox[i])'
      BY DEF RepliesOwned
    <2> QED BY <1>1, <1>2, ConstantsAssumption DEF Owned
  <1>4. RepliesUnique'
    BY TakeFacts DEF RequestsMatch, RepliesUnique
  <1>5. RepliesDue'
    <2>1. ASSUME NEW c \in Call, pc'[c] \in Waiting PROVE \E i \in DOMAIN mailbox' : mailbox'[i].reply = c
      <3>1. PICK i \in DOMAIN mailbox : mailbox[i].reply = c
        BY <2>1 DEF RequestsMatch, RepliesDue
      <3>2. i # 1
        BY <2>1, <3>1, TakeFacts
      <3> QED BY <3>1, <3>2, TakeFacts
    <2>2. ASSUME shut' = "wait" PROVE \E i \in DOMAIN mailbox' : mailbox'[i].reply = Daemon
      <3>1. PICK i \in DOMAIN mailbox : mailbox[i].reply = Daemon
        BY <2>2 DEF RequestsMatch, RepliesDue
      <3>2. i # 1
        BY <2>2, <3>1, TakeFacts
      <3> QED BY <3>1, <3>2, TakeFacts
    <2> QED BY <2>1, <2>2 DEF RepliesDue
  <1> QED BY <1>3, <1>4, <1>5 DEF RequestsMatch

(* Someone gives up waiting. *)
LEMMA AbandonMatch ==
    ASSUME TypeOK, RequestsMatch, NEW who \in Call \cup {Daemon}, Abandon(who),
           \A c \in Call : IF c = who THEN pc'[c] \notin Waiting ELSE pc'[c] = pc[c],
           IF who = Daemon THEN shut' # "wait" ELSE shut' = shut
    PROVE  RequestsMatch'
  <1>1. /\ DOMAIN mailbox' = DOMAIN mailbox
        /\ \A i \in DOMAIN mailbox :
              /\ mailbox'[i].type = mailbox[i].type
              /\ mailbox'[i].reply = IF mailbox[i].reply = who THEN None ELSE mailbox[i].reply
    BY AbandonFacts DEF TypeOK
  <1>2. RepliesOwned'
    <2> SUFFICES ASSUME NEW i \in DOMAIN mailbox PROVE Owned(mailbox[i])'
      BY <1>1 DEF RepliesOwned
    <2>1. Owned(mailbox[i])
      BY DEF RequestsMatch, RepliesOwned
    <2> QED BY <1>1, <2>1, ConstantsAssumption DEF Owned
  <1>3. RepliesUnique'
    BY <1>1 DEF RequestsMatch, RepliesUnique
  <1>4. RepliesDue'
    BY <1>1, ConstantsAssumption DEF RequestsMatch, RepliesDue
  <1> QED BY <1>2, <1>3, <1>4 DEF RequestsMatch

(* Someone who was not waiting posts a request and waits for the reply. *)
LEMMA PostMatch ==
    ASSUME TypeOK, RequestsMatch, Alive, HasRoom,
           NEW type \in {"Dispatch", "TakePending", "Shutdown"},
           NEW who \in Call \cup {Daemon}, Post(type, who, None),
           ~Waits(who, pc, shut),
           \A c \in Call : c # who => pc'[c] = pc[c],
           who # Daemon => shut' = shut,
           type = "Dispatch" => who \in Call /\ pc'[who] = "queued",
           type = "TakePending" => who \in Call /\ pc'[who] \in {"snapWait", "tailWait"},
           type = "Shutdown" => who = Daemon /\ shut' = "wait"
    PROVE  RequestsMatch'
  <1> DEFINE n == Len(mailbox) + 1
  <1>1. /\ DOMAIN mailbox' = DOMAIN mailbox \cup {n} /\ n \notin DOMAIN mailbox
        /\ \A i \in DOMAIN mailbox : mailbox'[i] = mailbox[i]
        /\ mailbox'[n].type = type /\ mailbox'[n].reply = who
    <2>1. type \in {"Dispatch", "TakePending", "MarkSaved", "Shutdown"}
      OBVIOUS
    <2>2. who \in Call \cup {Daemon, None} /\ None \in Maybe(State)
      BY DEF Maybe
    <2> QED BY <2>1, <2>2, PostFacts
  <1>2. \A i \in DOMAIN mailbox : mailbox[i].reply # who
    BY HandleFacts, ConstantsAssumption
  <1>3. RepliesOwned'
    <2> SUFFICES ASSUME NEW i \in DOMAIN mailbox' PROVE Owned(mailbox[i])'
      BY DEF RepliesOwned
    <2>1. CASE i = n
      BY <1>1, <2>1 DEF Owned
    <2>2. CASE i \in DOMAIN mailbox
      <3>1. Owned(mailbox[i]) /\ mailbox'[i] = mailbox[i] /\ mailbox[i].reply # who
        BY <1>1, <1>2, <2>2 DEF RequestsMatch, RepliesOwned
      <3> QED BY <3>1, ConstantsAssumption DEF Owned, Waits, Alive
    <2> QED BY <1>1, <2>1, <2>2
  <1>4. RepliesUnique'
    BY <1>1, <1>2 DEF RequestsMatch, RepliesUnique
  <1>5. RepliesDue'
    BY <1>1, ConstantsAssumption DEF RequestsMatch, RepliesDue
  <1> QED BY <1>3, <1>4, <1>5 DEF RequestsMatch

(* A MarkSaved message asks for no reply. *)
LEMMA MarkMatch ==
    ASSUME TypeOK, RequestsMatch, NEW b \in State, PostMarkSaved(b),
           \A c \in Call : pc'[c] = pc[c] \/ (pc[c] \notin Waiting /\ pc'[c] \notin Waiting),
           shut' = shut \/ (shut \notin {"wait", "crashed"} /\ shut' # "wait")
    PROVE  RequestsMatch'
  <1>1. /\ \A i \in DOMAIN mailbox : i \in DOMAIN mailbox' /\ mailbox'[i] = mailbox[i]
        /\ \A i \in DOMAIN mailbox' : i \notin DOMAIN mailbox => mailbox'[i].reply = None
    BY PostMarkSavedFacts
  <1>2. RepliesOwned'
    <2> SUFFICES ASSUME NEW i \in DOMAIN mailbox' PROVE Owned(mailbox[i])'
      BY DEF RepliesOwned
    <2>1. CASE i \notin DOMAIN mailbox
      BY <1>1, <2>1 DEF Owned
    <2>2. CASE i \in DOMAIN mailbox
      <3>1. Owned(mailbox[i]) /\ mailbox'[i] = mailbox[i]
        BY <1>1, <2>2 DEF RequestsMatch, RepliesOwned
      <3> QED BY <3>1, ConstantsAssumption DEF Owned, Waiting
    <2> QED BY <2>1, <2>2
  <1>3. RepliesUnique'
    BY <1>1 DEF RequestsMatch, RepliesUnique
  <1>4. RepliesDue'
    BY <1>1 DEF RequestsMatch, RepliesDue
  <1> QED BY <1>2, <1>3, <1>4 DEF RequestsMatch

(* Every step keeps requests and waiters together. *)
LEMMA NextMatch == TypeOK /\ RequestsMatch /\ [Next]_vars => RequestsMatch'
  <1> SUFFICES ASSUME TypeOK, RequestsMatch, [Next]_vars PROVE RequestsMatch'
    OBVIOUS
  <1> USE ConstantsAssumption
  <1>1. CASE UNCHANGED vars
    BY <1>1, FrameMatch DEF vars, task, daemon
  <1>2. ASSUME NEW c \in Call, Dispatch(c) PROVE RequestsMatch'
    <2>1. CASE HasRoom
      <3>1. /\ Alive /\ Post("Dispatch", c, None) /\ ~Waits(c, pc, shut)
            /\ pc'[c] = "queued" /\ \A d \in Call : d # c => pc'[d] = pc[d]
            /\ shut' = shut
        BY <1>2, <2>1 DEF Dispatch, TypeOK, Waits, Waiting, daemon
      <3> QED BY <2>1, <3>1, PostMatch
    <2>2. CASE ~HasRoom
      <3>1. /\ UNCHANGED <<mailbox, shut>>
            /\ \A d \in Call : pc'[d] = pc[d] \/ (pc[d] \notin Waiting /\ pc'[d] \notin Waiting)
        BY <1>2, <2>2 DEF Dispatch, TypeOK, Waiting, daemon
      <3> QED BY <3>1, FrameMatch
    <2> QED BY <2>1, <2>2
  <1>3. ASSUME NEW c \in Call, DispatchTimeout(c) PROVE RequestsMatch'
    <2>1. /\ Abandon(c) /\ shut' = shut
          /\ \A d \in Call : IF d = c THEN pc'[d] \notin Waiting ELSE pc'[d] = pc[d]
      BY <1>3 DEF DispatchTimeout, TypeOK, Waiting, daemon
    <2> QED BY <2>1, AbandonMatch
  <1>4. ASSUME NEW c \in Call, spawn_state_persist(c) PROVE RequestsMatch'
    <2>1. /\ UNCHANGED <<mailbox, shut>>
          /\ \A d \in Call : pc'[d] = pc[d] \/ (pc[d] \notin Waiting /\ pc'[d] \notin Waiting)
      BY <1>4 DEF spawn_state_persist, TypeOK, Waiting, daemon
    <2> QED BY <2>1, FrameMatch
  <1>5. ASSUME mailbox # << >>, mailbox' = Tail(mailbox), Alive,
               Head(mailbox).type # "Shutdown", shut' = shut,
               \A c \in Call : IF c = Head(mailbox).reply THEN pc'[c] \notin Waiting ELSE pc'[c] = pc[c]
        PROVE  RequestsMatch'
    <2>1. Head(mailbox).reply # Daemon
      BY <1>5, TakeFacts DEF RequestsMatch, RepliesOwned, Owned
    <2> QED BY <1>5, <2>1, TakeMatch
  <1>6. ASSUME NEW s \in Maybe(State), NEW trap \in BOOLEAN, WorkerDispatch(s, trap)
        PROVE  RequestsMatch'
    <2>1. \A c \in Call : IF c = Head(mailbox).reply THEN pc'[c] \notin Waiting ELSE pc'[c] = pc[c]
      BY <1>6 DEF WorkerDispatch, TypeOK, Waiting
    <2> QED BY <1>5, <1>6, <2>1 DEF WorkerDispatch, WorkerReady
  <1>7. CASE WorkerTakePending
    <2>1. \A c \in Call : IF c = Head(mailbox).reply THEN pc'[c] \notin Waiting ELSE pc'[c] = pc[c]
      BY <1>7 DEF WorkerTakePending, TypeOK, Waiting
    <2> QED BY <1>5, <1>7, <2>1 DEF WorkerTakePending, WorkerReady, daemon
  <1>8. CASE WorkerMarkSaved
    <2>1. Head(mailbox).reply = None
      BY <1>8, TakeFacts DEF WorkerMarkSaved, WorkerReady, RequestsMatch, RepliesOwned, Owned
    <2> QED BY <1>5, <1>8, <2>1 DEF WorkerMarkSaved, WorkerReady, task, daemon
  <1>9. ASSUME NEW s \in Maybe(State), WorkerShutdown(s) PROVE RequestsMatch'
    <2>1. Head(mailbox).reply \in {Daemon, None}
      BY <1>9, TakeFacts DEF WorkerShutdown, WorkerReady, RequestsMatch, RepliesOwned, Owned
    <2>2. UNCHANGED pc /\ IF Head(mailbox).reply = Daemon THEN shut' # "wait" ELSE shut' = shut
      BY <1>9, <2>1 DEF WorkerShutdown, task
    <2>3. \A c \in Call : c # Head(mailbox).reply
      BY <2>1
    <2> QED BY <1>9, <2>2, <2>3, TakeMatch DEF WorkerShutdown, WorkerReady
  <1>10. ASSUME NEW c \in Call, AddBytes(c) \/ set_entity_state(c) \/ StoreInFlight(c)
         PROVE  RequestsMatch'
    <2>1. /\ UNCHANGED <<mailbox, shut>>
          /\ \A d \in Call : pc'[d] = pc[d] \/ (pc[d] \notin Waiting /\ pc'[d] \notin Waiting)
      BY <1>10 DEF AddBytes, set_entity_state, StoreInFlight, TaskStep, TypeOK, Waiting, daemon
    <2> QED BY <2>1, FrameMatch
  <1>11. ASSUME NEW c \in Call, MarkSaved(c) PROVE RequestsMatch'
    <2>1. /\ PostMarkSaved(bytes[c]) /\ UNCHANGED shut /\ bytes[c] \in State
          /\ \A d \in Call : pc'[d] = pc[d] \/ (pc[d] \notin Waiting /\ pc'[d] \notin Waiting)
      BY <1>11 DEF MarkSaved, TaskStep, TypeOK, PayloadsPresent, Maybe, Waiting, daemon
    <2> QED BY <2>1, MarkMatch
  <1>12. ASSUME NEW c \in Call, TakeSnapshot(c) \/ TakeTail(c) PROVE RequestsMatch'
    <2>1. CASE HasRoom /\ pc[c] \in {"snap", "tail"} /\ Post("TakePending", c, None)
               /\ pc'[c] \in {"snapWait", "tailWait"}
      <3>1. /\ Alive /\ ~Waits(c, pc, shut) /\ shut' = shut
            /\ \A d \in Call : d # c => pc'[d] = pc[d]
        BY <1>12, <2>1 DEF TakeSnapshot, TakeTail, TaskStep, TypeOK, Waits, Waiting, daemon
      <3> QED BY <2>1, <3>1, PostMatch
    <2>2. CASE /\ UNCHANGED mailbox /\ pc[c] \in {"snap", "tail"} /\ pc'[c] \in {"store", "done"}
      <3>1. /\ shut' = shut
            /\ \A d \in Call : pc'[d] = pc[d] \/ (pc[d] \notin Waiting /\ pc'[d] \notin Waiting)
        BY <1>12, <2>2 DEF TakeSnapshot, TakeTail, TaskStep, TypeOK, Waiting, daemon
      <3> QED BY <2>2, <3>1, FrameMatch
    <2>3. CASE Abandon(c) /\ pc'[c] \in {"store", "done"}
      <3>1. /\ shut' = shut
            /\ \A d \in Call : IF d = c THEN pc'[d] \notin Waiting ELSE pc'[d] = pc[d]
        BY <1>12, <2>3 DEF TakeSnapshot, TakeTail, TaskStep, TypeOK, Waiting, daemon
      <3> QED BY <2>3, <3>1, AbandonMatch
    <2> QED BY <1>12, <2>1, <2>2, <2>3 DEF TakeSnapshot, TakeTail, TaskStep, TypeOK
  <1>13. CASE ShutdownEntity
    <2>1. UNCHANGED pc
      BY <1>13 DEF ShutdownEntity, task
    <2>2. CASE HasRoom /\ ShutStep("locked", "wait") /\ Post("Shutdown", Daemon, None)
      BY <2>1, <2>2, PostMatch DEF ShutStep, Waits, Alive
    <2>3. CASE shut = "locked" /\ shut' # "wait" /\ UNCHANGED mailbox
      BY <2>1, <2>3, FrameMatch
    <2>4. CASE Abandon(Daemon) /\ shut' # "wait"
      BY <2>1, <2>4, AbandonMatch
    <2> QED BY <1>13, <2>2, <2>3, <2>4 DEF ShutdownEntity, ShutStep, AbortShutdown
  <1>14. CASE ShutdownAdd
    <2>1. UNCHANGED pc /\ shut = "add" /\ shut' \in {"put", "run"} /\ shutBytes \in State
      BY <1>14 DEF ShutdownAdd, ShutStep, AbortShutdown, TypeOK, PayloadsPresent, Maybe, task
    <2>2. CASE PostMarkSaved(shutBytes)
      BY <2>1, <2>2, MarkMatch
    <2>3. CASE UNCHANGED mailbox
      BY <2>1, <2>3, FrameMatch
    <2> QED BY <1>14, <2>2, <2>3 DEF ShutdownAdd
  <1>15. CASE ShutdownPutNode \/ ShutdownPublish \/ ShutdownStats \/ ShutdownConfig \/ Exit \/ CtrlC
    <2>1. /\ UNCHANGED <<mailbox, pc>> /\ shut \notin {"wait", "crashed"} /\ shut' # "wait"
      BY <1>15 DEF ShutdownPutNode, ShutdownPublish, ShutdownStats, ShutdownConfig, Exit, CtrlC,
                   ShutStep, AbortShutdown, task
    <2> QED BY <2>1, FrameMatch
  <1>16. CASE RepublishStart \/ RepublishFinish \/ Crash
    <2>1. UNCHANGED <<mailbox, pc>> /\ (shut' = shut \/ shut' = "crashed")
      BY <1>16 DEF RepublishStart, RepublishFinish, Crash, task, daemon
    <2> QED BY <2>1, FrameMatch
  <1>17. CASE Boot
    <2>1. DOMAIN mailbox' = {} /\ shut' = "run" /\ \A c \in Call : pc'[c] \in {"idle", "done"}
      BY <1>17 DEF Boot
    <2> QED BY <2>1 DEF RequestsMatch, RepliesOwned, RepliesUnique, RepliesDue, Waiting
  <1> QED BY <1>1, <1>2, <1>3, <1>4, <1>6, <1>7, <1>8, <1>9, <1>10, <1>11, <1>12, <1>13, <1>14,
             <1>15, <1>16, <1>17
          DEF Next, Worker, PersistTask, Shutdown

(* Every caller, persist task and shutdown that awaits the worker has one   *)
(* request in the mailbox, and every reply handle there has its waiter.     *)
THEOREM RepliesCorrect == Spec => []RequestsMatch
  <1>1. Init => RequestsMatch
    <2> SUFFICES ASSUME Init PROVE RequestsMatch
      OBVIOUS
    <2>1. DOMAIN mailbox = {} /\ shut = "run" /\ \A c \in Call : pc[c] = "idle"
      BY DEF Init
    <2> QED BY <2>1 DEF RequestsMatch, RepliesOwned, RepliesUnique, RepliesDue, Waiting
  <1> QED BY <1>1, NextMatch, TypeCorrect, PTL DEF Spec

-----------------------------------------------------------------------------
(* One persist task at a time, and never none when state is pending. *)

(* Whom the worker answers, and where that call or task is. *)
LEMMA HeadWaits ==
    ASSUME TypeOK, RequestsMatch, Alive, mailbox # << >>
    PROVE  LET m == Head(mailbox) IN
           /\ m.type = "Dispatch" => m.reply = None \/ (m.reply \in Call /\ pc[m.reply] = "queued")
           /\ m.type = "TakePending" =>
                 m.reply = None \/ (m.reply \in Call /\ pc[m.reply] \in {"snapWait", "tailWait"})
  <1>1. Owned(Head(mailbox))
    BY TailFacts DEF TypeOK, RequestsMatch, RepliesOwned
  <1> QED BY <1>1 DEF Owned

(* Steps that move nobody into or out of the body of the loop. *)
LEMMA FrameLoop ==
    ASSUME OneLoop, UNCHANGED inFlight,
           \A c \in Call : (pc'[c] \in Body) <=> (pc[c] \in Body)
    PROVE  OneLoop'
  BY DEF OneLoop

(* The swap of the flag admits one task, and only its reset ends the body. *)
LEMMA NextLoop == TypeOK /\ RequestsMatch /\ OneLoop /\ [Next]_vars => OneLoop'
  <1> SUFFICES ASSUME TypeOK, RequestsMatch, OneLoop, [Next]_vars PROVE OneLoop'
    OBVIOUS
  <1> USE ConstantsAssumption
  <1>1. CASE UNCHANGED <<pc, inFlight>>
    BY <1>1 DEF OneLoop
  <1>2. ASSUME NEW c \in Call, Dispatch(c) \/ DispatchTimeout(c) PROVE OneLoop'
    BY <1>2, FrameLoop DEF Dispatch, DispatchTimeout, TypeOK, Body
  <1>3. ASSUME NEW c \in Call, spawn_state_persist(c) PROVE OneLoop'
    <2>1. CASE inFlight
      BY <1>3, <2>1, FrameLoop DEF spawn_state_persist, TypeOK, Body
    <2>2. CASE ~inFlight
      <3>1. \A d \in Call : (pc'[d] \in Body) <=> d = c
        BY <1>3, <2>2 DEF spawn_state_persist, TypeOK, OneLoop, Body
      <3> QED BY <1>3, <3>1 DEF spawn_state_persist, OneLoop
    <2> QED BY <2>1, <2>2
  <1>4. ASSUME NEW s \in Maybe(State), NEW trap \in BOOLEAN, WorkerDispatch(s, trap) PROVE OneLoop'
    <2>1. Head(mailbox).reply = None \/ (Head(mailbox).reply \in Call /\ pc[Head(mailbox).reply] = "queued")
      BY <1>4, HeadWaits DEF WorkerDispatch, WorkerReady
    <2>2. \A c \in Call : (pc'[c] \in Body) <=> (pc[c] \in Body)
      BY <1>4, <2>1 DEF WorkerDispatch, TypeOK, Body
    <2> QED BY <1>4, <2>2, FrameLoop DEF WorkerDispatch
  <1>5. CASE WorkerTakePending
    <2>1. \/ Head(mailbox).reply = None
          \/ Head(mailbox).reply \in Call /\ pc[Head(mailbox).reply] \in {"snapWait", "tailWait"}
      BY <1>5, HeadWaits DEF WorkerTakePending, WorkerReady
    <2>2. \A c \in Call : (pc'[c] \in Body) <=> (pc[c] \in Body)
      BY <1>5, <2>1 DEF WorkerTakePending, TypeOK, Body
    <2> QED BY <1>5, <2>2, FrameLoop DEF WorkerTakePending
  <1>6. ASSUME NEW c \in Call, AddBytes(c) \/ set_entity_state(c) \/ MarkSaved(c) \/ TakeSnapshot(c) \/ TakeTail(c)
        PROVE  OneLoop'
    <2>1. UNCHANGED inFlight /\ \A d \in Call : (pc'[d] \in Body) <=> (pc[d] \in Body)
      BY <1>6 DEF AddBytes, set_entity_state, MarkSaved, TakeSnapshot, TakeTail, TaskStep, TypeOK, Body
    <2> QED BY <2>1, FrameLoop
  <1>7. ASSUME NEW c \in Call, StoreInFlight(c) PROVE OneLoop'
    <2>1. \A d \in Call : pc'[d] \notin Body
      BY <1>7 DEF StoreInFlight, TaskStep, TypeOK, OneLoop, Body
    <2> QED BY <1>7, <2>1 DEF StoreInFlight, OneLoop
  <1>8. CASE Boot
    BY <1>8 DEF Boot, OneLoop, Body
  <1> QED BY <1>1, <1>2, <1>3, <1>4, <1>5, <1>6, <1>7, <1>8
          DEF Next, Worker, PersistTask, Shutdown, WorkerMarkSaved, WorkerShutdown, CtrlC,
              ShutdownEntity, ShutdownAdd, ShutdownPutNode, ShutdownPublish, ShutdownStats,
              ShutdownConfig, Exit, RepublishStart, RepublishFinish, Crash, vars, task

(* state_persist_in_flight is set exactly while one task is in its loop. *)
THEOREM LoopCorrect == Spec => []OneLoop
  <1>1. Init => OneLoop
    BY DEF Init, OneLoop, Body
  <1> QED BY <1>1, NextLoop, TypeCorrect, RepliesCorrect, PTL DEF Spec

(* A task that still has to look stays until it has looked, or hands over   *)
(* to the one that holds the flag.                                          *)
LEMMA NextStranded ==
    TypeOK /\ RequestsMatch /\ OneLoop /\ NoStranded /\ [Next]_vars => NoStranded'
  <1> SUFFICES ASSUME TypeOK, RequestsMatch, OneLoop, NoStranded, [Next]_vars,
                      Alive', ctx'.pending # None, ~orphaned'
               PROVE  \E c \in Call : pc'[c] \in Carriers
    BY DEF NoStranded
  <1> USE ConstantsAssumption
  <1>1. ASSUME NEW d \in Call, pc[d] \in Carriers, pc'[d] \in Carriers
        PROVE  \E c \in Call : pc'[c] \in Carriers
    BY <1>1
  <1>2. CASE UNCHANGED <<ctx, pc, orphaned>> /\ Alive
    BY <1>2 DEF NoStranded
  <1>3. ASSUME NEW c \in Call, Dispatch(c) \/ DispatchTimeout(c)
        PROVE  \E d \in Call : pc'[d] \in Carriers
    <2>1. PICK d \in Call : pc[d] \in Carriers
      BY <1>3 DEF Dispatch, DispatchTimeout, NoStranded, worker
    <2>2. pc'[d] = pc[d]
      BY <1>3, <2>1 DEF Dispatch, DispatchTimeout, TypeOK, Carriers, Body
    <2> QED BY <2>1, <2>2
  <1>4. ASSUME NEW c \in Call, spawn_state_persist(c) PROVE \E d \in Call : pc'[d] \in Carriers
    <2>1. CASE inFlight
      <3>1. PICK d \in Call : pc[d] \in Body
        BY <2>1 DEF OneLoop
      <3>2. pc'[d] = pc[d]
        BY <1>4, <3>1 DEF spawn_state_persist, TypeOK, Body
      <3> QED BY <3>1, <3>2 DEF Carriers
    <2>2. CASE ~inFlight
      BY <1>4, <2>2 DEF spawn_state_persist, TypeOK, Carriers, Body
    <2> QED BY <2>1, <2>2
  <1>5. ASSUME NEW s \in Maybe(State), NEW trap \in BOOLEAN, WorkerDispatch(s, trap)
        PROVE  \E d \in Call : pc'[d] \in Carriers
    <2>1. Head(mailbox).reply = None \/ (Head(mailbox).reply \in Call /\ pc[Head(mailbox).reply] = "queued")
      BY <1>5, HeadWaits DEF WorkerDispatch, WorkerReady
    <2>2. CASE ctx' = ctx
      <3>1. PICK d \in Call : pc[d] \in Carriers
        BY <1>5, <2>2 DEF WorkerDispatch, WorkerReady, NoStranded
      <3>2. pc'[d] = pc[d]
        BY <1>5, <2>1, <3>1 DEF WorkerDispatch, TypeOK, Carriers, Body
      <3> QED BY <3>1, <3>2
    <2>3. CASE ctx' # ctx
      <3>1. Head(mailbox).reply # None /\ ~trap
        BY <1>5, <2>3 DEF WorkerDispatch
      <3>2. Head(mailbox).reply \in Call /\ pc'[Head(mailbox).reply] = "replied"
        BY <1>5, <2>1, <2>3, <3>1 DEF WorkerDispatch, TypeOK
      <3> QED BY <3>2 DEF Carriers
    <2> QED BY <2>2, <2>3
  <1>6. CASE WorkerTakePending
    <2>1. \/ Head(mailbox).reply = None
          \/ Head(mailbox).reply \in Call /\ pc[Head(mailbox).reply] \in {"snapWait", "tailWait"}
      BY <1>6, HeadWaits DEF WorkerTakePending, WorkerReady
    <2>2. ctx.pending # None /\ Alive
      BY <1>6 DEF WorkerTakePending, WorkerReady, worker
    <2>3. CASE Head(mailbox).reply = None
      BY <1>6, <2>2, <2>3 DEF WorkerTakePending, NoStranded
    <2>4. CASE Head(mailbox).reply # None
      <3>1. Head(mailbox).reply \in Call /\ pc'[Head(mailbox).reply] \in {"add", "replied"}
        BY <1>6, <2>1, <2>2, <2>4 DEF WorkerTakePending, TypeOK
      <3> QED BY <3>1 DEF Carriers, Body
    <2> QED BY <2>3, <2>4
  <1>7. CASE WorkerMarkSaved
    <2>1. Head(mailbox).bytes \in State
      BY <1>7, TakeFacts DEF WorkerMarkSaved, WorkerReady, TypeOK, PayloadsPresent, Maybe
    <2>2. ctx \in StateCtx /\ ctx' = mark_saved(ctx, Head(mailbox).bytes)
      BY <1>7 DEF WorkerMarkSaved, TypeOK
    <2>3. ctx.pending # None
      <3>1. CASE ctx.pending = Head(mailbox).bytes
        BY <2>1, <2>2, <3>1, MarkSavedFacts
      <3>2. CASE ctx.pending # Head(mailbox).bytes
        BY <2>1, <2>2, <3>2, MarkSavedFacts
      <3> QED BY <3>1, <3>2
    <2> QED BY <1>7, <2>3 DEF WorkerMarkSaved, WorkerReady, NoStranded, task
  <1>8. ASSUME NEW s \in Maybe(State), WorkerShutdown(s) PROVE \E d \in Call : pc'[d] \in Carriers
    BY <1>8 DEF WorkerShutdown, WorkerReady, NoStranded, task
  <1>9. ASSUME NEW c \in Call, PersistTask(c) PROVE \E d \in Call : pc'[d] \in Carriers
    <2>1. pc[c] \in Carriers /\ pc'[c] \in Carriers
      BY <1>9 DEF PersistTask, AddBytes, set_entity_state, MarkSaved, TakeSnapshot, StoreInFlight,
                  TakeTail, TaskStep, TypeOK, Carriers, Body
    <2> QED BY <2>1
  <1>10. CASE Boot
    BY <1>10 DEF Boot, StateCtx_new
  <1>11. CASE \/ UNCHANGED vars \/ CtrlC \/ Shutdown \/ RepublishStart \/ RepublishFinish \/ Crash
    BY <1>2, <1>11
    DEF Shutdown, CtrlC, ShutdownEntity, ShutdownAdd, ShutdownPutNode, ShutdownPublish,
        ShutdownStats, ShutdownConfig, Exit, RepublishStart, RepublishFinish, Crash,
        ShutStep, AbortShutdown, Alive, vars, worker, task, daemon
  <1> QED BY <1>3, <1>4, <1>5, <1>6, <1>7, <1>8, <1>9, <1>10, <1>11 DEF Next, Worker

(* No wake-up is lost between a call that finds the flag set and the task   *)
(* that is about to reset it: pending state always has a task to look at it *)
(* unless a trap, a timeout or a full mailbox swallowed the report.         *)
THEOREM WakeupCorrect == Spec => []NoStranded
  <1>1. Init => NoStranded
    BY DEF Init, NoStranded, StateCtx_new
  <1> QED BY <1>1, NextStranded, TypeCorrect, RepliesCorrect, LoopCorrect, PTL DEF Spec
=============================================================================
