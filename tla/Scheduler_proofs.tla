-------------------------- MODULE Scheduler_proofs --------------------------
(***************************************************************************)
(* Proofs about Scheduler for every set of definitions and every           *)
(* combination of kinds, failures and signals.                             *)
(***************************************************************************)
EXTENDS Scheduler, TLAPS

(* Every step keeps the types, and only a definition that has begun gets a job. *)
LEMMA NextType == TypeOK /\ [Next]_vars => TypeOK'
  <1> SUFFICES ASSUME TypeOK, [Next]_vars PROVE TypeOK'
    OBVIOUS
  <1> USE SchedulerAssumption
  <1>1. CASE UNCHANGED vars
    BY <1>1 DEF TypeOK, vars
  <1>2. ASSUME NEW d \in Definition, Register(d) PROVE TypeOK'
    <2>1. reg' \in [Definition -> RegPC] /\ \A e \in Definition : reg[e] \in Begun => reg'[e] \in Begun
      BY <1>2 DEF Register, RegStep, TypeOK, RegPC, Begun
    <2>2. kind' \in [Definition -> {"repeat", "oneshot", "random"}]
      BY <1>2 DEF Register, TypeOK
    <2>3. older' \in [Definition -> SUBSET Definition]
      BY <1>2 DEF Register, Accepted, TypeOK
    <2> QED BY <1>2, <2>1, <2>2, <2>3 DEF Register, TypeOK
  <1>3. ASSUME NEW d \in Definition, begin_registration(d) PROVE TypeOK'
    <2>1. reg' \in [Definition -> RegPC] /\ \A e \in Definition : reg[e] \in Begun => reg'[e] \in Begun
      BY <1>3 DEF begin_registration, RegStep, TypeOK, RegPC, Begun
    <2>2. next_version \in Nat /\ (entry # None => entry.job_id \in Maybe(Definition))
      BY DEF next_version, TypeOK, TrackedJob, Maybe
    <2>3. entry' \in Maybe(TrackedJob)
      BY <1>3, <2>2 DEF begin_registration, TrackedJob, Maybe
    <2>4. version' \in [Definition -> Nat] /\ previous' \in [Definition -> Maybe(Definition)]
      BY <1>3, <2>2 DEF begin_registration, TypeOK, Maybe
    <2> QED BY <1>3, <2>1, <2>3, <2>4 DEF begin_registration, TypeOK, Maybe
  <1>4. ASSUME NEW d \in Definition, RemovePrevious(d) PROVE TypeOK'
    <2>1. reg' \in [Definition -> RegPC] /\ \A e \in Definition : reg[e] \in Begun => reg'[e] \in Begun
      BY <1>4 DEF RemovePrevious, RegStep, TypeOK, RegPC, Begun
    <2>2. /\ timer' \in [Definition -> {"none", "first", "again"}]
          /\ \A e \in Definition : timer'[e] \in {"none", timer[e]}
      BY <1>4 DEF RemovePrevious, Removed, TypeOK, Maybe
    <2> QED BY <1>4, <2>1, <2>2 DEF RemovePrevious, TypeOK
  <1>5. ASSUME NEW d \in Definition, register_schedule(d) PROVE TypeOK'
    <2>1. reg' \in [Definition -> RegPC] /\ \A e \in Definition : reg[e] \in Begun => reg'[e] \in Begun
      BY <1>5 DEF register_schedule, RegStep, TypeOK, RegPC, Begun
    <2>2. /\ timer' \in [Definition -> {"none", "first", "again"}]
          /\ \A e \in Definition : timer'[e] = timer[e] \/ reg'[e] \in Begun
      BY <1>5 DEF register_schedule, RegStep, TypeOK, RegPC, Begun
    <2>3. entry' \in Maybe(TrackedJob) /\ reset' \in BOOLEAN
      BY <1>5 DEF register_schedule, rollback_registration, is_current, TypeOK, Maybe
    <2> QED BY <1>5, <2>1, <2>2, <2>3 DEF register_schedule, TypeOK
  <1>6. ASSUME NEW d \in Definition, commit_registration(d) PROVE TypeOK'
    <2>1. reg' \in [Definition -> RegPC] /\ \A e \in Definition : reg[e] \in Begun => reg'[e] \in Begun
      BY <1>6 DEF commit_registration, RegStep, TypeOK, RegPC, Begun
    <2>2. entry' \in Maybe(TrackedJob)
      BY <1>6 DEF commit_registration, is_current, TypeOK, TrackedJob, Maybe
    <2> QED BY <1>6, <2>1, <2>2 DEF commit_registration, TypeOK
  <1>7. ASSUME NEW d \in Definition, RemoveSuperseded(d) PROVE TypeOK'
    <2>1. reg' \in [Definition -> RegPC] /\ \A e \in Definition : reg[e] \in Begun => reg'[e] \in Begun
      BY <1>7 DEF RemoveSuperseded, RegStep, TypeOK, RegPC, Begun
    <2>2. /\ timer' \in [Definition -> {"none", "first", "again"}]
          /\ \A e \in Definition : timer'[e] \in {"none", timer[e]}
      BY <1>7 DEF RemoveSuperseded, Removed, TypeOK
    <2> QED BY <1>7, <2>1, <2>2 DEF RemoveSuperseded, TypeOK
  <1>8. ASSUME NEW d \in Definition, Fire(d) PROVE TypeOK'
    <2>1. reg[d] \in Begun
      BY <1>8 DEF Fire, TypeOK
    <2>2. /\ timer' \in [Definition -> {"none", "first", "again"}]
          /\ \A e \in Definition : timer'[e] \in {"none", timer[e]}
      BY <1>8 DEF Fire, TypeOK
    <2>3. /\ run' \in [Definition -> RunPC]
          /\ \A e \in Definition : e # d => run'[e] = run[e]
      BY <1>8 DEF Fire, RunStep, TypeOK, RunPC
    <2> QED BY <1>8, <2>1, <2>2, <2>3 DEF Fire, TypeOK
  <1>9. ASSUME NEW d \in Definition, dispatch_if_active(d) \/ DispatchReturns(d) PROVE TypeOK'
    <2>1. /\ run' \in [Definition -> RunPC]
          /\ \A e \in Definition : run[e] = "idle" => run'[e] = "idle"
      BY <1>9 DEF dispatch_if_active, DispatchReturns, RunStep, TypeOK, RunPC
    <2> QED BY <1>9, <2>1 DEF dispatch_if_active, DispatchReturns, TypeOK
  <1>10. ASSUME NEW d \in Definition, JobDone(d) PROVE TypeOK'
    <2>1. reg[d] \in Begun
      BY <1>10 DEF JobDone, RunStep, TypeOK, RunPC
    <2>3. /\ run' \in [Definition -> RunPC]
          /\ \A e \in Definition : e # d => run'[e] = run[e]
      BY <1>10 DEF JobDone, RunStep, TypeOK, RunPC
    <2>4. entry' \in Maybe(TrackedJob) /\ reset' \in BOOLEAN
      BY <1>10 DEF JobDone, rollback_registration, is_current, TypeOK, Maybe
    <2> QED BY <1>10, <2>1, <2>3, <2>4 DEF JobDone, TypeOK
  <1>11. ASSUME NEW d \in Definition, AddAgain(d) PROVE TypeOK'
    <2>1. reg[d] \in Begun
      BY <1>11 DEF AddAgain, RunStep, TypeOK
    <2>2. /\ timer' \in [Definition -> {"none", "first", "again"}]
          /\ \A e \in Definition : e # d => timer'[e] = timer[e]
      BY <1>11 DEF AddAgain, TypeOK
    <2>3. /\ run' \in [Definition -> RunPC]
          /\ \A e \in Definition : e # d => run'[e] = run[e]
      BY <1>11 DEF AddAgain, RunStep, TypeOK, RunPC
    <2> QED BY <1>11, <2>1, <2>2, <2>3 DEF AddAgain, TypeOK
  <1>12. CASE deactivate_all
    BY <1>12 DEF deactivate_all, TypeOK, Maybe
  <1> QED BY <1>1, <1>2, <1>3, <1>4, <1>5, <1>6, <1>7, <1>8, <1>9, <1>10, <1>11, <1>12
          DEF Next, Registration, Job

(* Types, and no job before its registration has begun. *)
THEOREM SchedulerTypeCorrect == Spec => []TypeOK
  <1>1. Init => TypeOK
    <2> SUFFICES ASSUME Init PROVE TypeOK
      OBVIOUS
    <2>1. entry \in Maybe(TrackedJob) /\ current \in Maybe(Definition) /\ reset \in BOOLEAN
      BY DEF Init, Maybe
    <2>2. reg \in [Definition -> RegPC] /\ kind \in [Definition -> {"repeat", "oneshot", "random"}]
      BY DEF Init, RegPC
    <2>3. version \in [Definition -> Nat] /\ older \in [Definition -> SUBSET Definition]
      BY DEF Init
    <2>6. previous \in [Definition -> Maybe(Definition)]
      BY DEF Init, Maybe
    <2>4. /\ timer \in [Definition -> {"none", "first", "again"}]
          /\ run \in [Definition -> RunPC]
      BY DEF Init, RunPC
    <2>5. \A d \in Definition : timer[d] = "none" /\ run[d] = "idle"
      BY DEF Init
    <2> QED BY <2>1, <2>2, <2>3, <2>4, <2>5, <2>6 DEF TypeOK
  <1> QED BY <1>1, NextType, PTL DEF Spec

-----------------------------------------------------------------------------
\* Until the entry is removed for the first time the registered version is the
\* current definition's and larger than any other's.
VersionsGrow ==
    ~reset =>
       /\ entry = None => \A d \in Definition : reg[d] \notin Begun
       /\ entry # None =>
             /\ current \in Definition
             /\ entry.version = version[current]
             /\ entry.job_id \in {None, current}
             /\ \A d \in Definition : reg[d] \in Begun /\ d # current => version[d] < entry.version

(* While versions grow, whoever has the registered version is current. *)
LEMMA CurrentUnique ==
    ASSUME TypeOK, VersionsGrow, ~reset, NEW d \in Definition, reg[d] \in Begun, is_current(d)
    PROVE  d = current
  <1>1. entry # None /\ entry.version = version[d] /\ version[d] \in Nat
    BY DEF is_current, TypeOK
  <1> QED BY <1>1 DEF VersionsGrow

(* Every step keeps VersionsGrow. *)
LEMMA NextVersions == TypeOK /\ VersionsGrow /\ [Next]_vars => VersionsGrow'
  <1> SUFFICES ASSUME TypeOK, VersionsGrow, [Next]_vars, ~reset' PROVE VersionsGrow'
    BY DEF VersionsGrow
  <1> USE SchedulerAssumption
  <1>0. ~reset
    BY DEF Next, Registration, Job, Register, begin_registration, RemovePrevious, register_schedule,
           commit_registration, RemoveSuperseded, Fire, dispatch_if_active, DispatchReturns, JobDone,
           AddAgain, rollback_registration, deactivate_all, vars, TypeOK
  <1>1. ASSUME UNCHANGED <<entry, version, current>>,
               \A d \in Definition : (reg'[d] \in Begun) <=> (reg[d] \in Begun)
        PROVE  VersionsGrow'
    BY <1>0, <1>1 DEF VersionsGrow
  <1>2. ASSUME NEW d \in Definition, Register(d) PROVE VersionsGrow'
    BY <1>1, <1>2 DEF Register, RegStep, TypeOK, RegPC, Begun
  <1>3. ASSUME NEW d \in Definition, begin_registration(d) PROVE VersionsGrow'
    <2>1. \A e \in Definition : reg[e] \in Begun => version[e] < next_version
      <3>1. CASE entry = None
        BY <1>0, <3>1 DEF VersionsGrow
      <3>2. CASE entry # None
        <4>1. entry.version \in Nat /\ next_version = entry.version + 1
          BY <3>2 DEF TypeOK, TrackedJob, Maybe, next_version
        <4>2. \A e \in Definition : version[e] \in Nat
          BY DEF TypeOK
        <4> QED BY <1>0, <3>2, <4>1, <4>2 DEF VersionsGrow
      <3> QED BY <3>1, <3>2
    <2>2. /\ entry'.version = next_version /\ entry'.job_id = None /\ entry' # None
          /\ current' = d
      <3>1. next_version \in Nat
        BY DEF next_version, TypeOK, TrackedJob, Maybe
      <3>2. entry' = [version |-> next_version, job_id |-> None]
        BY <1>3 DEF begin_registration
      <3>3. entry' # None
        BY <3>1, <3>2
      <3> QED BY <1>3, <3>2, <3>3 DEF begin_registration
    <2>3. version'[d] = next_version /\ \A e \in Definition : e # d => version'[e] = version[e]
      BY <1>3 DEF begin_registration, TypeOK
    <2>4. \A e \in Definition : e # d => reg'[e] = reg[e]
      BY <1>3 DEF begin_registration, RegStep, TypeOK
    <2> QED BY <2>1, <2>2, <2>3, <2>4 DEF VersionsGrow
  <1>4. ASSUME NEW d \in Definition, RemovePrevious(d) PROVE VersionsGrow'
    BY <1>1, <1>4 DEF RemovePrevious, RegStep, TypeOK, RegPC, Begun
  <1>5. ASSUME NEW d \in Definition, register_schedule(d) PROVE VersionsGrow'
    <2>1. /\ UNCHANGED <<version, current>>
          /\ \A e \in Definition : (reg'[e] \in Begun) <=> (reg[e] \in Begun)
      BY <1>5 DEF register_schedule, RegStep, TypeOK, RegPC, Begun
    <2>2. UNCHANGED entry
      BY <1>0, <1>5 DEF register_schedule, rollback_registration
    <2> QED BY <1>1, <2>1, <2>2
  <1>6. ASSUME NEW d \in Definition, commit_registration(d) PROVE VersionsGrow'
    <2>1. /\ UNCHANGED <<version, current, reset>>
          /\ \A e \in Definition : (reg'[e] \in Begun) <=> (reg[e] \in Begun)
      BY <1>6 DEF commit_registration, RegStep, TypeOK, RegPC, Begun
    <2>2. CASE ~is_current(d)
      BY <1>1, <1>6, <2>1, <2>2 DEF commit_registration
    <2>3. CASE is_current(d)
      <3>1. reg[d] \in Begun
        BY <1>6 DEF commit_registration, RegStep, RegPC, Begun
      <3>2. d = current
        BY <1>0, <2>3, <3>1, CurrentUnique
      <3>3. entry \in TrackedJob /\ entry # None
        BY <2>3 DEF is_current, TypeOK, Maybe
      <3>4. entry' = [entry EXCEPT !.job_id = d]
        BY <1>6, <2>3 DEF commit_registration
      <3>5. entry' \in TrackedJob /\ entry'.version = entry.version /\ entry'.job_id = d
        BY <3>3, <3>4 DEF TrackedJob, Maybe
      <3>6. entry' # None
        BY <3>5 DEF TrackedJob, Maybe
      <3> QED BY <1>0, <2>1, <3>2, <3>3, <3>5, <3>6 DEF VersionsGrow
    <2> QED BY <2>2, <2>3
  <1>7. ASSUME NEW d \in Definition, RemoveSuperseded(d) PROVE VersionsGrow'
    BY <1>1, <1>7 DEF RemoveSuperseded, RegStep, TypeOK, RegPC, Begun
  <1>8. ASSUME NEW d \in Definition, Fire(d) \/ dispatch_if_active(d) \/ DispatchReturns(d) \/ AddAgain(d)
        PROVE  VersionsGrow'
    BY <1>1, <1>8 DEF Fire, dispatch_if_active, DispatchReturns, AddAgain
  <1>9. ASSUME NEW d \in Definition, JobDone(d) PROVE VersionsGrow'
    <2>1. UNCHANGED entry
      BY <1>0, <1>9 DEF JobDone, rollback_registration
    <2> QED BY <1>1, <1>9, <2>1 DEF JobDone
  <1>10. CASE deactivate_all
    BY <1>10 DEF deactivate_all
  <1>11. CASE UNCHANGED vars
    BY <1>1, <1>11 DEF vars
  <1> QED BY <1>2, <1>3, <1>4, <1>5, <1>6, <1>7, <1>8, <1>9, <1>10, <1>11 DEF Next, Registration, Job

(* The last registration to begin wins: as long as the key has always had   *)
(* an entry, no callback of one that began before dispatches or adds itself *)
(* again, and no late commit takes the entry over, for any number of racing *)
(* definitions of any kinds.                                                *)
THEOREM LastBegunWinsCorrect == Spec => []LastBegunWinsUntilReset
  <1>1. Init => VersionsGrow
    BY SchedulerAssumption DEF Init, VersionsGrow, RegPC, Begun
  <1>2. TypeOK /\ VersionsGrow => LastBegunWinsUntilReset
    <2> SUFFICES ASSUME TypeOK, VersionsGrow, ~reset
                 PROVE  /\ \A d \in Definition : AboutToAct(d) => d = current
                        /\ entry # None =>
                              entry.version = version[current] /\ entry.job_id \in {None, current}
      BY DEF LastBegunWinsUntilReset
    <2>1. ASSUME NEW d \in Definition, AboutToAct(d) PROVE d = current
      <3>1. reg[d] \in Begun /\ is_current(d)
        BY <2>1 DEF AboutToAct, TypeOK
      <3> QED BY <3>1, CurrentUnique
    <2> QED BY <2>1 DEF VersionsGrow
  <1> QED BY <1>1, <1>2, SchedulerTypeCorrect, NextVersions, PTL DEF Spec

-----------------------------------------------------------------------------
\* The registered definition is the one that began last, entry removed or not:
\* versions start over, but only with a definition that has just begun.  It can
\* still fire.
CurrentAlive ==
    entry # None =>
       /\ current \in Definition
       /\ version[current] = entry.version
       /\ reg[current] \in Begun \ {"cleanup"}
       /\ \/ reg[current] \in {"remove", "add"}
          \/ timer[current] # "none"
          \/ kind[current] # "repeat" /\ run[current] # "idle"
          \/ AddMayFail /\ kind[current] = "random"

\* A job that is registered, or about to be removed as the previous one, is of
\* a definition that has begun; the one that began last is never about to be
\* removed by another.
PreviousBegun ==
    /\ entry # None /\ entry.job_id # None => reg[entry.job_id] \in Begun
    /\ \A d \in Definition : previous[d] # None => reg[previous[d]] \in Begun /\ previous[d] # current

\* Only a :random job adds itself again.
OnlyRandomAdds == \A d \in Definition : run[d] = "add" => kind[d] = "random"

ZombieInv == CurrentAlive /\ PreviousBegun /\ OnlyRandomAdds

(* Every step keeps ZombieInv. *)
LEMMA NextZombie == TypeOK /\ ZombieInv /\ [Next]_vars => ZombieInv'
  <1> SUFFICES ASSUME TypeOK, ZombieInv, [Next]_vars PROVE ZombieInv'
    OBVIOUS
  <1> USE SchedulerAssumption
  \* A step that neither begins a registration nor changes the entry's version
  \* keeps the second part; the first is about the current definition alone.
  <1>a. ASSUME UNCHANGED <<previous, current>>,
               entry' = entry \/ entry' = None,
               \A d \in Definition : reg[d] \in Begun => reg'[d] \in Begun
        PROVE  PreviousBegun'
    <2>1. \A d \in Definition : previous[d] # None => previous[d] \in Definition
      BY DEF TypeOK, Maybe
    <2>2. entry # None => entry.job_id \in Maybe(Definition)
      BY DEF TypeOK, TrackedJob, Maybe
    <2> QED BY <1>a, <2>1, <2>2 DEF ZombieInv, PreviousBegun, Maybe
  <1>b. ASSUME UNCHANGED <<version, current, kind>>,
               entry' = entry \/ entry' = None,
               current \in Definition /\ entry' # None =>
                  /\ UNCHANGED <<reg[current], timer[current]>>
                  /\ run'[current] = run[current] \/ run'[current] # "idle"
        PROVE  CurrentAlive'
    BY <1>b DEF ZombieInv, CurrentAlive
  <1>c. ASSUME UNCHANGED kind,
               \A d \in Definition : run'[d] = "add" => run[d] = "add"
        PROVE  OnlyRandomAdds'
    BY <1>c DEF ZombieInv, OnlyRandomAdds
  <1>1. CASE UNCHANGED vars
    BY <1>1, <1>a, <1>b, <1>c DEF vars, ZombieInv
  <1>2. ASSUME NEW d \in Definition, Register(d) PROVE ZombieInv'
    <2>1. /\ \A e \in Definition : e # d => reg'[e] = reg[e] /\ kind'[e] = kind[e]
          /\ reg[d] = "idle"
      BY <1>2 DEF Register, RegStep, TypeOK
    <2>2. \A e \in Definition : reg[e] \in Begun => e # d
      BY <2>1 DEF Begun, RegPC
    <2>3. CurrentAlive'
      BY <1>2, <2>1, <2>2 DEF Register, ZombieInv, CurrentAlive
    <2>4. PreviousBegun'
      BY <1>2, <1>a, <2>1, <2>2 DEF Register
    <2>5. OnlyRandomAdds'
      <3>1. run[d] = "idle"
        BY <2>1 DEF TypeOK, Begun, RegPC
      <3> QED BY <1>2, <2>1, <3>1 DEF Register, ZombieInv, OnlyRandomAdds
    <2> QED BY <2>3, <2>4, <2>5 DEF ZombieInv
  <1>3. ASSUME NEW d \in Definition, begin_registration(d) PROVE ZombieInv'
    <2>1. /\ reg[d] = "spawned" /\ reg'[d] = "remove"
          /\ \A e \in Definition : e # d => reg'[e] = reg[e]
      BY <1>3 DEF begin_registration, RegStep, TypeOK
    <2>2. \A e \in Definition : reg[e] \in Begun => e # d /\ reg'[e] \in Begun
      BY <2>1 DEF Begun, RegPC
    <2>3. entry'.version = next_version /\ entry'.job_id = None /\ current' = d
      BY <1>3 DEF begin_registration
    <2>4. version'[d] = next_version
      BY <1>3 DEF begin_registration, TypeOK
    <2>5. CurrentAlive'
      BY <2>1, <2>3, <2>4 DEF CurrentAlive, Begun, RegPC
    <2>6. ASSUME NEW e \in Definition, previous'[e] # None
          PROVE  reg'[previous'[e]] \in Begun /\ previous'[e] # current'
      <3>1. CASE e = d
        <4>1. entry # None /\ previous'[d] = entry.job_id
          BY <1>3, <2>6, <3>1 DEF begin_registration, TypeOK
        <4>2. entry.job_id \in Definition
          BY <2>6, <3>1, <4>1 DEF TypeOK, TrackedJob, Maybe
        <4>3. reg[entry.job_id] \in Begun
          BY <4>1, <4>2 DEF ZombieInv, PreviousBegun
        <4> QED BY <2>2, <2>3, <3>1, <4>1, <4>2, <4>3
      <3>2. CASE e # d
        <4>1. previous'[e] = previous[e]
          BY <1>3, <3>2 DEF begin_registration, TypeOK
        <4>2. previous[e] \in Definition
          BY <2>6, <4>1 DEF TypeOK, Maybe
        <4>3. reg[previous[e]] \in Begun
          BY <2>6, <4>1 DEF ZombieInv, PreviousBegun
        <4> QED BY <2>2, <2>3, <4>1, <4>2, <4>3
      <3> QED BY <3>1, <3>2
    <2>7. OnlyRandomAdds'
      BY <1>3, <1>c DEF begin_registration
    <2> QED BY <2>3, <2>5, <2>6, <2>7 DEF ZombieInv, PreviousBegun
  <1>4. ASSUME NEW d \in Definition, RemovePrevious(d) PROVE ZombieInv'
    <2>1. /\ reg[d] = "remove" /\ reg'[d] = "add"
          /\ \A e \in Definition : e # d => reg'[e] = reg[e]
      BY <1>4 DEF RemovePrevious, RegStep, TypeOK
    <2>2. \A e \in Definition : reg[e] \in Begun => reg'[e] \in Begun
      BY <2>1 DEF Begun, RegPC
    <2>3. current \in Definition => timer'[current] = timer[current]
      <3>1. \A e \in Definition : e # previous[d] => timer'[e] = timer[e]
        BY <1>4 DEF RemovePrevious, Removed, TypeOK, Maybe
      <3> QED BY <3>1 DEF ZombieInv, PreviousBegun
    <2>4. CurrentAlive'
      BY <1>4, <2>1, <2>3 DEF RemovePrevious, ZombieInv, CurrentAlive, Begun, RegPC
    <2>5. PreviousBegun'
      BY <1>4, <1>a, <2>2 DEF RemovePrevious
    <2> QED BY <1>4, <1>c, <2>4, <2>5 DEF RemovePrevious, ZombieInv
  <1>5. ASSUME NEW d \in Definition, register_schedule(d) PROVE ZombieInv'
    <2>1. /\ reg[d] = "add" /\ reg'[d] \in {"commit", "done"}
          /\ \A e \in Definition : e # d => reg'[e] = reg[e]
      BY <1>5 DEF register_schedule, RegStep, TypeOK
    <2>2. \A e \in Definition : reg[e] \in Begun => reg'[e] \in Begun
      BY <2>1 DEF Begun, RegPC
    <2>3. entry' = entry \/ entry' = None
      BY <1>5 DEF register_schedule, rollback_registration
    <2>4. ASSUME entry' # None, current = d
          PROVE  timer'[d] = "first" /\ reg'[d] = "commit"
      <3>1. is_current(d)
        BY <2>3, <2>4 DEF ZombieInv, CurrentAlive, is_current
      <3> QED BY <1>5, <2>4, <3>1 DEF register_schedule, rollback_registration, RegStep, TypeOK
    <2>5. \A e \in Definition : e # d => timer'[e] = timer[e]
      BY <1>5 DEF register_schedule, TypeOK
    <2>6. CurrentAlive'
      <3> SUFFICES ASSUME entry' # None PROVE CurrentAlive'
        BY DEF CurrentAlive
      <3>1. CASE current = d
        BY <1>5, <2>3, <2>4, <3>1 DEF register_schedule, ZombieInv, CurrentAlive, Begun, RegPC
      <3>2. CASE current # d
        BY <1>5, <1>b, <2>1, <2>3, <2>5, <3>2 DEF register_schedule
      <3> QED BY <3>1, <3>2
    <2>7. PreviousBegun'
      BY <1>5, <1>a, <2>2, <2>3 DEF register_schedule
    <2> QED BY <1>5, <1>c, <2>6, <2>7 DEF register_schedule, ZombieInv
  <1>6. ASSUME NEW d \in Definition, commit_registration(d) PROVE ZombieInv'
    <2>1. /\ reg[d] = "commit" /\ reg'[d] = IF is_current(d) THEN "done" ELSE "cleanup"
          /\ \A e \in Definition : e # d => reg'[e] = reg[e]
      BY <1>6 DEF commit_registration, RegStep, TypeOK
    <2>2. \A e \in Definition : reg[e] \in Begun => reg'[e] \in Begun
      BY <2>1 DEF Begun, RegPC
    <2>3. CASE is_current(d)
      <3>1. entry \in TrackedJob /\ entry # None
        BY <2>3 DEF is_current, TypeOK, Maybe
      <3>2. entry' = [entry EXCEPT !.job_id = d]
        BY <1>6, <2>3 DEF commit_registration, RegStep
      <3>3. entry'.version = entry.version /\ entry'.job_id = d
        BY <3>1, <3>2 DEF TrackedJob
      <3>4. CurrentAlive'
        <4>1. current \in Definition => reg'[current] \in {reg[current], "done"}
                                        /\ (reg'[current] # reg[current] => reg[current] = "commit")
          BY <2>1, <2>3
        <4> QED BY <1>6, <3>1, <3>3, <4>1 DEF commit_registration, ZombieInv, CurrentAlive, Begun, RegPC
      <3>5. reg'[d] \in Begun
        BY <2>1, <2>3 DEF Begun, RegPC
      <3>6. PreviousBegun'
        <4>1. \A e \in Definition : previous[e] # None => previous[e] \in Definition
          BY DEF TypeOK, Maybe
        <4> QED BY <1>6, <2>2, <3>3, <3>5, <4>1 DEF commit_registration, ZombieInv, PreviousBegun
      <3> QED BY <1>6, <1>c, <3>4, <3>6 DEF commit_registration, ZombieInv
    <2>4. CASE ~is_current(d)
      <3>1. entry # None => d # current
        BY <2>4 DEF ZombieInv, CurrentAlive, is_current
      <3>2. entry' = entry
        BY <1>6, <2>4 DEF commit_registration
      <3> QED BY <1>6, <1>a, <1>b, <1>c, <2>1, <2>2, <3>1, <3>2 DEF commit_registration, ZombieInv
    <2> QED BY <2>3, <2>4
  <1>7. ASSUME NEW d \in Definition, RemoveSuperseded(d) PROVE ZombieInv'
    <2>1. /\ reg[d] = "cleanup" /\ reg'[d] = "done"
          /\ \A e \in Definition : e # d => reg'[e] = reg[e]
      BY <1>7 DEF RemoveSuperseded, RegStep, TypeOK
    <2>2. \A e \in Definition : reg[e] \in Begun => reg'[e] \in Begun
      BY <2>1 DEF Begun, RegPC
    <2>3. \A e \in Definition : e # d => timer'[e] = timer[e]
      BY <1>7 DEF RemoveSuperseded, Removed, TypeOK
    <2>4. entry # None => d # current
      BY <2>1 DEF ZombieInv, CurrentAlive
    <2> QED BY <1>7, <1>a, <1>b, <1>c, <2>1, <2>2, <2>3, <2>4 DEF RemoveSuperseded, ZombieInv
  <1>8. ASSUME NEW d \in Definition, Fire(d) PROVE ZombieInv'
    <2>1. /\ timer' = IF kind[d] = "repeat" THEN timer ELSE [timer EXCEPT ![d] = "none"]
          /\ run'[d] = "guard" /\ \A e \in Definition : e # d => run'[e] = run[e]
      BY <1>8 DEF Fire, RunStep, TypeOK
    <2>2. CurrentAlive'
      BY <1>8, <2>1 DEF Fire, ZombieInv, CurrentAlive, TypeOK
    <2> QED BY <1>8, <1>a, <1>c, <2>1, <2>2 DEF Fire, ZombieInv
  <1>9. ASSUME NEW d \in Definition, dispatch_if_active(d) \/ DispatchReturns(d) PROVE ZombieInv'
    <2>1. \A e \in Definition : run'[e] = run[e] \/ run'[e] \notin {"idle", "add"}
      BY <1>9 DEF dispatch_if_active, DispatchReturns, RunStep, TypeOK
    <2> QED BY <1>9, <1>a, <1>b, <1>c, <2>1 DEF dispatch_if_active, DispatchReturns, ZombieInv
  <1>10. ASSUME NEW d \in Definition, JobDone(d) PROVE ZombieInv'
    <2>1. entry' = entry \/ entry' = None
      BY <1>10 DEF JobDone, rollback_registration
    <2>2. \A e \in Definition : e # d => run'[e] = run[e]
      BY <1>10 DEF JobDone, RunStep, TypeOK
    <2>3. CurrentAlive'
      <3> SUFFICES ASSUME entry' # None PROVE CurrentAlive'
        BY DEF CurrentAlive
      <3>1. CASE current = d
        <4>1. is_current(d)
          BY <2>1, <3>1 DEF ZombieInv, CurrentAlive, is_current
        <4>2. ~(kind[d] = "oneshot" /\ rollback_registration(d))
          BY <4>1 DEF rollback_registration
        <4>3. kind[d] = "repeat" \/ (kind[d] = "random" /\ run'[d] = "add")
          <5>1. kind[d] \in {"repeat", "random"}
            BY <1>10, <4>2 DEF JobDone
          <5>2. kind[d] = "random" => run' = [run EXCEPT ![d] = "add"]
            BY <1>10, <4>1 DEF JobDone, RunStep, is_current
          <5> QED BY <5>1, <5>2 DEF TypeOK
        <4> QED BY <1>10, <2>1, <3>1, <4>3 DEF JobDone, ZombieInv, CurrentAlive
      <3>2. CASE current # d
        BY <1>10, <1>b, <2>1, <2>2, <3>2 DEF JobDone
      <3> QED BY <3>1, <3>2
    <2>4. run'[d] = "add" => kind[d] = "random"
      BY <1>10 DEF JobDone, RunStep, TypeOK
    <2>5. OnlyRandomAdds'
      BY <1>10, <2>2, <2>4 DEF JobDone, ZombieInv, OnlyRandomAdds
    <2> QED BY <1>10, <1>a, <2>1, <2>3, <2>5 DEF JobDone, ZombieInv
  <1>11. ASSUME NEW d \in Definition, AddAgain(d) PROVE ZombieInv'
    <2>1. /\ \A e \in Definition : e # d => run'[e] = run[e]
          /\ run[d] = "add" /\ run'[d] = "idle"
      BY <1>11 DEF AddAgain, RunStep, TypeOK
    <2>2. /\ \A e \in Definition : e # d => timer'[e] = timer[e]
          /\ timer'[d] = "again" \/ (AddMayFail /\ timer' = timer)
      BY <1>11 DEF AddAgain, TypeOK
    <2>3. kind[d] = "random"
      BY <2>1 DEF ZombieInv, OnlyRandomAdds
    <2>4. CurrentAlive'
      BY <1>11, <2>1, <2>2, <2>3 DEF AddAgain, ZombieInv, CurrentAlive
    <2> QED BY <1>11, <1>a, <1>c, <2>1, <2>4 DEF AddAgain, ZombieInv
  <1>12. CASE deactivate_all
    BY <1>12, <1>a, <1>c DEF deactivate_all, ZombieInv, CurrentAlive
  <1> QED BY <1>1, <1>2, <1>3, <1>4, <1>5, <1>6, <1>7, <1>8, <1>9, <1>10, <1>11, <1>12
          DEF Next, Registration, Job

(* No zombie entry: whatever order registrations, failures, one-shots that  *)
(* fire before their commit, and signals come in, a registered schedule can *)
(* still fire or is about to be added.                                      *)
THEOREM NoZombieCorrect == Spec => []NoZombieEntry
  <1>1. Init => ZombieInv
    BY SchedulerAssumption DEF Init, ZombieInv, CurrentAlive, PreviousBegun, OnlyRandomAdds
  <1>2. ZombieInv => NoZombieEntry
    BY DEF ZombieInv, CurrentAlive, NoZombieEntry
  <1> QED BY <1>1, <1>2, SchedulerTypeCorrect, NextZombie, PTL DEF Spec
=============================================================================
