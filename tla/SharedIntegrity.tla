--------------------------- MODULE SharedIntegrity ---------------------------
(***************************************************************************)
(* The integrity check that every reader of GET /api/jarvis/status shares: *)
(* one recheck of the database runs at a time in a worker thread, its      *)
(* result stays usable for maxAgeMs, and a recheck that is itself as old   *)
(* as that is refused, however it ends (src/src/storage/                   *)
(* shared-integrity.js).  now is the clock, damagedAt the moment the       *)
(* database file goes bad.                                                 *)
(***************************************************************************)
EXTENDS Integers

CONSTANTS
  Readers,         \* the requests of the other service
  MaxAge,          \* maxAgeMs, in ticks
  MaxNow,          \* bound: ticks of the clock
  MaxGenerations   \* bound: rechecks and refusals

ASSUME IntegrityAssumption == MaxAge \in Nat \ {0} /\ MaxNow \in Nat /\ MaxGenerations \in Nat

Never == -1       \* a moment that has not come
NoGeneration == 0 \* inflight and pending are null

VARIABLES
  now, damagedAt,
  completed,    \* the last result, with the moment it was taken
  inflight,     \* the generation of the recheck that is awaited
  inflightStartedAt,
  generation,
  tasks,        \* the check() promises that are not settled, by generation
  pending,      \* the worker's one check: its generation and what it saw
  reader        \* each request: what it waits for, then what it was told

integrityVars == <<now, damagedAt, completed, inflight, inflightStartedAt, generation, tasks, pending, reader>>

\* How long the database had been bad.
DamageAge == IF damagedAt = Never THEN 0 ELSE now - damagedAt

Moments == 0..MaxNow \cup {Never}
Results == [ok : BOOLEAN, at : Moments]   \* null: a result of no moment
Generations == 0..MaxGenerations
Tasks == [gen : Generations, startedAt : 0..MaxNow, refused : BOOLEAN]
Checks == [gen : Generations, startedAt : 0..MaxNow, saw : {"nothing", "ok", "bad"}]
NoCheck == [gen |-> NoGeneration, startedAt |-> 0, saw |-> "nothing"]
Idle == [st |-> "idle"]
ReaderStates ==
  {Idle} \cup [st : {"waits"}, on : Generations]
         \cup [st : {"answered"}, ready : BOOLEAN, damageAge : 0..MaxNow]

\* Types of the state.
IntegrityTypeOK ==
  /\ now \in 0..MaxNow
  /\ damagedAt \in Moments
  /\ completed \in Results
  /\ inflight \in Generations
  /\ inflightStartedAt \in 0..MaxNow
  /\ generation \in Generations
  /\ tasks \subseteq Tasks
  /\ pending \in Checks
  /\ reader \in [Readers -> ReaderStates]

IntegrityInit ==
  /\ now = 0 /\ damagedAt = Never
  /\ completed = [ok |-> FALSE, at |-> Never]
  /\ inflight = NoGeneration /\ inflightStartedAt = 0 /\ generation = 0
  /\ tasks = {} /\ pending = NoCheck
  /\ reader = [q \in Readers |-> Idle]

-----------------------------------------------------------------------------
\* createSharedIntegrity.

\* What a waiting recheck has come to when somebody looks: it has run too long.
Overdue == inflight # NoGeneration /\ now - inflightStartedAt >= MaxAge

Fresh(result) == result.at # Never /\ now - result.at < MaxAge

(* read(): an overdue recheck is refused for good, and where no usable      *)
(* result is left one recheck starts.  The worker answers one check at a    *)
(* time: one that is asked for meanwhile is rejected.                       *)
Refused == IF Overdue THEN [ok |-> FALSE, at |-> now] ELSE completed

Read ==
  LET gen  == IF Overdue THEN generation + 1 ELSE generation
      fly  == IF Overdue THEN NoGeneration ELSE inflight
      opens == ~Fresh(Refused) /\ fly = NoGeneration
  IN /\ completed' = Refused
     /\ generation' = IF opens THEN gen + 1 ELSE gen
     /\ generation' <= MaxGenerations
     /\ inflight' = IF opens THEN gen + 1 ELSE fly
     /\ inflightStartedAt' = IF opens THEN now ELSE inflightStartedAt
     /\ tasks' = IF opens THEN tasks \cup {[gen |-> gen + 1, startedAt |-> now, refused |-> pending # NoCheck]}
                 ELSE tasks
     /\ pending' = IF opens /\ pending = NoCheck
                   THEN [gen |-> gen + 1, startedAt |-> now, saw |-> "nothing"] ELSE pending

\* finish without the age test: whatever the check says is usable.
BadFinish(task, ok) ==
  IF task.gen # generation THEN UNCHANGED <<completed, generation, inflight>>
  ELSE /\ completed' = [ok |-> ok, at |-> now]
       /\ inflight' = NoGeneration
       /\ UNCHANGED generation

(* finish(), and the finally that forgets the awaited recheck: a check of a *)
(* refused generation says nothing, one that took too long is refused.      *)
Finish(task, ok) ==
  IF task.gen # generation THEN UNCHANGED <<completed, generation, inflight>>
  ELSE LET late == now - task.startedAt >= MaxAge
       IN /\ completed' = [ok |-> ok /\ ~late, at |-> now]
          /\ generation' = IF late THEN generation + 1 ELSE generation
          /\ generation' <= MaxGenerations
          /\ inflight' = NoGeneration

\* Those who wait for this recheck go on, or are told that it failed.
Wakes(gen, answer) ==
  reader' = [q \in Readers |->
               IF reader[q].st = "waits" /\ reader[q].on = gen THEN answer ELSE reader[q]]

Told(ready) == [st |-> "answered", ready |-> ready, damageAge |-> DamageAge]

-----------------------------------------------------------------------------
\* createReadonlyIntegrityCheck: the worker thread.

\* PRAGMA quick_check and foreign_key_check, at some moment of the check.
WorkerLooks ==
  /\ pending # NoCheck /\ pending.saw = "nothing"
  /\ pending' = [pending EXCEPT !.saw = IF damagedAt = Never THEN "ok" ELSE "bad"]
  /\ UNCHANGED <<now, damagedAt, completed, inflight, inflightStartedAt, generation, tasks, reader>>

CheckEnds ==
  /\ pending # NoCheck /\ pending.saw # "nothing"
  /\ \E task \in tasks :
       /\ task.gen = pending.gen
       /\ Finish(task, pending.saw = "ok")
       /\ tasks' = tasks \ {task}
       /\ Wakes(task.gen, [st |-> "waits", on |-> NoGeneration])
  /\ pending' = NoCheck
  /\ UNCHANGED <<now, damagedAt, inflightStartedAt>>

\* The check is rejected: the worker was busy, or it died.
CheckFails ==
  \E task \in tasks :
    /\ task.refused \/ (pending # NoCheck /\ pending.gen = task.gen)
    /\ tasks' = tasks \ {task}
    /\ pending' = IF task.refused THEN pending ELSE NoCheck
    /\ inflight' = IF task.gen = generation THEN NoGeneration ELSE inflight
    /\ Wakes(task.gen, Told(FALSE))
    /\ UNCHANGED <<now, damagedAt, completed, inflightStartedAt, generation>>

-----------------------------------------------------------------------------
\* jarvisReaderStatusWithin.

\* A request reads once and waits for settled().
Ask(q) ==
  /\ reader[q].st # "waits"
  /\ Read
  /\ reader' = [reader EXCEPT ![q] = [st |-> "waits", on |-> inflight']]
  /\ UNCHANGED <<now, damagedAt>>

\* settled() resolved: jarvisReaderStatus reads again and answers.
Answer(q) ==
  /\ reader[q].st = "waits" /\ reader[q].on = NoGeneration
  /\ Read
  /\ reader' = [reader EXCEPT ![q] = Told(Fresh(Refused) /\ Refused.ok)]
  /\ UNCHANGED <<now, damagedAt>>

\* JARVIS_READER_INTEGRITY_WAIT_MS passed first: 'pending', not ready.
WaitTimesOut(q) ==
  /\ reader[q].st = "waits" /\ reader[q].on # NoGeneration
  /\ reader' = [reader EXCEPT ![q] = Told(FALSE)]
  /\ UNCHANGED <<now, damagedAt, completed, inflight, inflightStartedAt, generation, tasks, pending>>

Tick ==
  /\ now < MaxNow
  /\ now' = now + 1
  /\ UNCHANGED <<damagedAt, completed, inflight, inflightStartedAt, generation, tasks, pending, reader>>

\* The database file goes bad.
Damage ==
  /\ damagedAt = Never
  /\ damagedAt' = now
  /\ UNCHANGED <<now, completed, inflight, inflightStartedAt, generation, tasks, pending, reader>>

IntegrityNext ==
  \/ WorkerLooks \/ CheckEnds \/ CheckFails \/ Tick \/ Damage
  \/ \E q \in Readers : Ask(q) \/ Answer(q) \/ WaitTimesOut(q)

IntegritySpec == IntegrityInit /\ [][IntegrityNext]_integrityVars

-----------------------------------------------------------------------------
(* A reader that is told 'ready' is told of a database that was whole less  *)
(* than twice maxAgeMs ago, however long the worker took, whatever checks   *)
(* were refused, died or ended late, and whoever else asked meanwhile.      *)
ReadyIsRecent ==
  \A q \in Readers : reader[q].st = "answered" /\ reader[q].ready => reader[q].damageAge < 2 * MaxAge
=============================================================================
