----------------------------- MODULE Scheduler -----------------------------
(***************************************************************************)
(* The native #scheduler entity: the schedule registry of                  *)
(* scheduler_actor.rs and the jobs of schedule.rs.                         *)
(*                                                                         *)
(* A registration message is answered at once and processed by a task of   *)
(* its own, so several definitions of one schedule key can be under way    *)
(* together.  The registry gives each a version; a job dispatches only     *)
(* while its version is the registered one.                                *)
(*                                                                         *)
(* The model has one schedule key (keys share nothing).  A job is          *)
(* identified with the definition that added it.                           *)
(***************************************************************************)
EXTENDS Naturals

CONSTANTS
    Definition,     \* registration messages for the schedule key
    None,           \* Rust's Option::None
    Kinds,          \* kinds in use: "repeat" (:cron, :interval),
                    \* "oneshot" (:at, :in), "random" (:random)
    AddMayFail,     \* may JobScheduler::add or a cron parse fail?
    RemoveMayFail,  \* may JobScheduler::remove fail?
    Overtaking,     \* may a task begin before one that was spawned earlier?
    Signals         \* may #scheduler get a shutdown signal?

ASSUME SchedulerAssumption ==
    /\ None \notin Definition
    /\ None \notin [version : Nat, job_id : Definition \cup {None}]
    /\ Kinds \subseteq {"repeat", "oneshot", "random"}
    /\ AddMayFail \in BOOLEAN
    /\ RemoveMayFail \in BOOLEAN
    /\ Overtaking \in BOOLEAN
    /\ Signals \in BOOLEAN

VARIABLES
    entry,     \* the TrackedJob of the key in ScheduleRegistry.jobs, or None
    reg,       \* control point of each process_schedule_registration
    kind,      \* the kind of each definition
    version,   \* RegistrationAttempt.version, and the one its guard compares
    previous,  \* RegistrationAttempt.previous_job
    timer,     \* the job of a definition in the JobScheduler: the first one,
               \* whose id is known, or one a :random job added again
    run,       \* control point of the callback of that job
    (* History. *)
    older,     \* for each message accepted, the ones accepted before it
    current,   \* the definition whose registration began last
    reset      \* has the entry of the key ever been removed?

vars == <<entry, reg, kind, older, version, previous, timer, run, current, reset>>

Maybe(S) == S \cup {None}

TrackedJob == [version : Nat, job_id : Maybe(Definition)]

RegPC == {"idle", "spawned", "remove", "add", "commit", "cleanup", "done"}
RunPC == {"idle", "guard", "busy", "check", "add"}
Begun == RegPC \ {"idle", "spawned"}

(***************************************************************************)
(* ScheduleRegistry.                                                       *)
(***************************************************************************)
\* Mutant: a new definition of a key takes the version of the previous one.
next_version_Same == IF entry = None THEN 1 ELSE entry.version

\* The version counter lives in the entry and starts over without one.
next_version == IF entry = None THEN 1 ELSE entry.version + 1

\* The guard of a job, and the test in commit and rollback.
is_current(d) == entry # None /\ entry.version = version[d]

rollback_registration(d) ==
    /\ entry' = IF is_current(d) THEN None ELSE entry
    /\ reset' = (reset \/ is_current(d))

(***************************************************************************)
(* process_schedule_registration.                                          *)
(***************************************************************************)
RegStep(d, from, to) == reg[d] = from /\ reg' = [reg EXCEPT ![d] = to]

Accepted == {d \in Definition : reg[d] # "idle"}

\* Mutant: the actor adds the job itself, before the task has a version for it.
Register_AddsJob(d) ==
    /\ RegStep(d, "idle", "spawned")
    /\ \E k \in Kinds : kind' = [kind EXCEPT ![d] = k]
    /\ older' = [older EXCEPT ![d] = Accepted]
    /\ timer' = [timer EXCEPT ![d] = "first"]
    /\ UNCHANGED <<entry, version, previous, run, current, reset>>

\* The native actor accepts the message, spawns the task and replies :ok.
Register(d) ==
    /\ RegStep(d, "idle", "spawned")
    /\ \E k \in Kinds : kind' = [kind EXCEPT ![d] = k]
    /\ older' = [older EXCEPT ![d] = Accepted]
    /\ UNCHANGED <<entry, version, previous, timer, run, current, reset>>

\* On tokio's threads the tasks begin in any order.
begin_registration(d) ==
    /\ Overtaking \/ \A e \in older[d] : reg[e] \in Begun
    /\ RegStep(d, "spawned", "remove")
    /\ entry' = [version |-> next_version, job_id |-> None]
    /\ version' = [version EXCEPT ![d] = next_version]
    /\ previous' = [previous EXCEPT ![d] = IF entry = None THEN None ELSE entry.job_id]
    /\ current' = d
    /\ UNCHANGED <<kind, older, timer, run, reset>>

\* JobScheduler::remove drops the job with that id, if there still is one.
\* A job that a :random callback added again has an id of its own.
Removed(e) == IF timer[e] = "first" THEN [timer EXCEPT ![e] = "none"] ELSE timer

RemovePrevious(d) ==
    /\ RegStep(d, "remove", "add")
    /\ \/ previous[d] # None /\ timer' = Removed(previous[d])
       \/ (previous[d] = None \/ RemoveMayFail) /\ UNCHANGED timer
    /\ UNCHANGED <<entry, kind, older, version, previous, run, current, reset>>

\* The job is in the scheduler, and may fire, before it is committed.
register_schedule(d) ==
    /\ \/ /\ RegStep(d, "add", "commit")
          /\ timer' = [timer EXCEPT ![d] = "first"]
          /\ UNCHANGED <<entry, reset>>
       \/ /\ AddMayFail
          /\ RegStep(d, "add", "done")
          /\ rollback_registration(d)
          /\ UNCHANGED timer
    /\ UNCHANGED <<kind, older, version, previous, run, current>>

\* Mutant: the job id is stored whatever has become of the entry.
commit_registration_Blind(d) ==
    /\ RegStep(d, "commit", "done")
    /\ entry' = [version |-> version[d], job_id |-> d]
    /\ UNCHANGED <<kind, older, version, previous, timer, run, current, reset>>

commit_registration(d) ==
    /\ \/ /\ is_current(d)
          /\ RegStep(d, "commit", "done")
          /\ entry' = [entry EXCEPT !.job_id = d]
       \/ /\ ~is_current(d)
          /\ RegStep(d, "commit", "cleanup")
          /\ UNCHANGED entry
    /\ UNCHANGED <<kind, older, version, previous, timer, run, current, reset>>

RemoveSuperseded(d) ==
    /\ RegStep(d, "cleanup", "done")
    /\ \/ timer' = Removed(d)
       \/ RemoveMayFail /\ UNCHANGED timer
    /\ UNCHANGED <<entry, kind, older, version, previous, run, current, reset>>

Registration(d) ==
    \/ begin_registration(d)
    \/ RemovePrevious(d)
    \/ register_schedule(d)
    \/ commit_registration(d)
    \/ RemoveSuperseded(d)

(***************************************************************************)
(* The jobs.  A one-shot or :random job has one callback at a time.  The   *)
(* callbacks of a repeating job may overlap, but change nothing the others *)
(* read: the model follows one of them at a time.                          *)
(***************************************************************************)
RunStep(d, from, to) == run[d] = from /\ run' = [run EXCEPT ![d] = to]

\* A timer expires; only a repeating job stays in the scheduler.
Fire(d) ==
    /\ timer[d] # "none"
    /\ RunStep(d, "idle", "guard")
    /\ timer' = IF kind[d] = "repeat" THEN timer ELSE [timer EXCEPT ![d] = "none"]
    /\ UNCHANGED <<entry, reg, kind, older, version, previous, current, reset>>

\* Mutant: the guard is not asked.
dispatch_if_active_Always(d) ==
    /\ RunStep(d, "guard", "busy")
    /\ UNCHANGED <<entry, reg, kind, older, version, previous, timer, current, reset>>

\* The entity is called ("busy") or the dispatch is skipped.
dispatch_if_active(d) ==
    /\ \/ is_current(d) /\ RunStep(d, "guard", "busy")
       \/ ~is_current(d) /\ RunStep(d, "guard", "check")
    /\ UNCHANGED <<entry, reg, kind, older, version, previous, timer, current, reset>>

DispatchReturns(d) ==
    /\ RunStep(d, "busy", "check")
    /\ UNCHANGED <<entry, reg, kind, older, version, previous, timer, current, reset>>

\* A one-shot completes; a :random job goes on to add its successor while it
\* is current.
JobDone(d) ==
    /\ \/ kind[d] = "repeat" /\ RunStep(d, "check", "idle") /\ UNCHANGED <<entry, reset>>
       \/ kind[d] = "oneshot" /\ RunStep(d, "check", "idle") /\ rollback_registration(d)
       \/ /\ kind[d] = "random"
          /\ RunStep(d, "check", IF is_current(d) THEN "add" ELSE "idle")
          /\ UNCHANGED <<entry, reset>>
    /\ UNCHANGED <<reg, kind, older, version, previous, timer, current>>

\* The add is awaited: the definition may be superseded by now.
AddAgain(d) ==
    /\ RunStep(d, "add", "idle")
    /\ timer' \in {[timer EXCEPT ![d] = "again"]} \cup (IF AddMayFail THEN {timer} ELSE {})
    /\ UNCHANGED <<entry, reg, kind, older, version, previous, current, reset>>

Job(d) ==
    \/ Fire(d)
    \/ dispatch_if_active(d)
    \/ DispatchReturns(d)
    \/ JobDone(d)
    \/ AddAgain(d)

\* NativeSignal::Shutdown, also when the shutdown is then aborted.
deactivate_all ==
    /\ Signals
    /\ entry # None
    /\ entry' = None
    /\ reset' = TRUE
    /\ UNCHANGED <<reg, kind, older, version, previous, timer, run, current>>

-----------------------------------------------------------------------------
Init ==
    /\ entry = None
    /\ reg = [d \in Definition |-> "idle"]
    /\ kind = [d \in Definition |-> "repeat"]
    /\ older = [d \in Definition |-> {}]
    /\ version = [d \in Definition |-> 0]
    /\ previous = [d \in Definition |-> None]
    /\ timer = [d \in Definition |-> "none"]
    /\ run = [d \in Definition |-> "idle"]
    /\ current = None
    /\ reset = FALSE

Next ==
    \/ \E d \in Definition : Register(d) \/ Registration(d) \/ Job(d)
    \/ deactivate_all

Spec == Init /\ [][Next]_vars

\* Tasks and callbacks run, and timers expire.
Fairness == \A d \in Definition : WF_vars(Registration(d)) /\ WF_vars(Job(d))

FairSpec == Spec /\ Fairness

-----------------------------------------------------------------------------
(* Every variable has its type, and a definition that has not begun holds   *)
(* no job: a version is never compared before it was assigned.              *)
TypeOK ==
    /\ entry \in Maybe(TrackedJob)
    /\ reg \in [Definition -> RegPC]
    /\ kind \in [Definition -> {"repeat", "oneshot", "random"}]
    /\ older \in [Definition -> SUBSET Definition]
    /\ version \in [Definition -> Nat]
    /\ previous \in [Definition -> Maybe(Definition)]
    /\ timer \in [Definition -> {"none", "first", "again"}]
    /\ run \in [Definition -> RunPC]
    /\ current \in Maybe(Definition)
    /\ reset \in BOOLEAN
    /\ \A d \in Definition : timer[d] # "none" \/ run[d] # "idle" => reg[d] \in Begun

\* A callback that is about to dispatch or to add itself again.
AboutToAct(d) == run[d] \in {"guard", "check"} /\ is_current(d)

(* Of the registrations that have begun the last to begin wins, as long as *)
(* the key has always had an entry: versions then grow with every one that  *)
(* begins, and however slowly an older one adds, commits or cleans up its   *)
(* job, it cannot act, take over or undo the newer one.  Which message was  *)
(* accepted last is another matter: StrictLatestWins.                       *)
LastBegunWinsUntilReset ==
    ~reset =>
       /\ \A d \in Definition : AboutToAct(d) => d = current
       /\ entry # None => entry.version = version[current] /\ entry.job_id \in {None, current}

\* The registration message that #scheduler accepted last.
IsLastAccepted(d) == d \in Accepted /\ Accepted \ {d} \subseteq older[d]

(* REFERENCE.md: "re-registering the same name overwrites the previous      *)
(* definition", "callbacks from superseded definitions MUST NOT dispatch    *)
(* and MUST NOT self-reschedule".  Once every registration accepted so far  *)
(* has come to its end, only a job of the last one acts (violated).         *)
StrictLatestWins ==
    (\A d \in Accepted : reg[d] = "done") =>
       \A d \in Definition : AboutToAct(d) => IsLastAccepted(d)

(* No zombie entry: whatever is registered can still fire or is about to    *)
(* be; a one-shot that fires before its own commit does not leave an entry  *)
(* behind.  Only a :random chain that could not be added again may be dead. *)
NoZombieEntry ==
    entry # None =>
       \E d \in Definition :
          /\ version[d] = entry.version /\ reg[d] \in Begun
          /\ \/ reg[d] \in {"remove", "add"} \/ timer[d] # "none" \/ run[d] # "idle"
             \/ AddMayFail /\ kind[d] = "random"

(* A superseded definition stops for good: it dispatches no more and its    *)
(* :random chain ends, even when its job could not be removed.              *)
SupersededStops ==
    \A d \in Definition :
       (reg[d] \in Begun /\ d # current) ~> (reset \/ [](reset \/ (run[d] # "busy" /\ timer[d] # "again")))
=============================================================================
