--------------------------- MODULE StorageStartup ---------------------------
(***************************************************************************)
(* StorageManager (storage/manager.py) coming up: the lazy connection of   *)
(* _ensure_initialized behind its lock, the core and namespace migrations  *)
(* it runs (MigrationRunner, storage/migrations.py), run_namespace_        *)
(* migrations and the initializer's disable_migrations, called by any mix  *)
(* of coroutines, with a database that may fail and a process that may     *)
(* crash.  A step runs from one await to the next.                         *)
(***************************************************************************)
EXTENDS Integers, Sequences

CONSTANTS
    Queries,            \* tasks that query the database
    Startups,           \* tasks in StoragePackageInitializer.initialize_async
    Manuals,            \* namespaces somebody calls run_namespace_migrations for
    Registered,         \* the keys of _additional_migrations, in order
    Files,              \* namespace (or "core") -> names of its .sql files
    MaxFaults           \* bound: database errors and crashes

Tasks == Queries \cup Startups \cup Manuals
Paths == DOMAIN Files
Script(n, i) == <<n, Files[n][i]>>
Scripts == UNION {{Script(n, i) : i \in DOMAIN Files[n]} : n \in Paths}
None == "none"

\* The files of a directory have different names; those of two directories
\* may have the same.
ASSUME StartupAssumption ==
    /\ "core" \in Paths
    /\ Registered \in Seq(Paths \ {"core"})
    /\ \A n \in Paths :
          /\ DOMAIN Files[n] \subseteq Nat
          /\ \A i, j \in DOMAIN Files[n] : Files[n][i] = Files[n][j] => i = j
    /\ Manuals \subseteq {Registered[i] : i \in DOMAIN Registered}
    /\ Manuals \cap (Queries \cup Startups) = {} /\ Queries \cap Startups = {}
    /\ None \notin Tasks
    /\ MaxFaults \in Nat

VARIABLES
    setting,            \* storage.migrations_enabled in optorch.yaml
    initialized,        \* _initialized
    lock,               \* the task in _init_lock, or None
    disabled,           \* _migrations_disabled
    enabled,            \* config.migrations_enabled
    path,               \* config.migrations_path ("core" for None)
    nsRun,              \* _namespace_migrations_run
    pc,                 \* task -> the await it is in
    stage,              \* task -> whose run_migrations call it is in
    plan,               \* task -> the path its MigrationRunner reads
    todo,               \* task -> the runner's pending files not recorded yet
    left,               \* task -> the namespaces its loop has not finished
    saved,              \* task -> original_path, original_enabled, was_disabled
    recorded,           \* the database: schema_migrations
    executed,           \* history: how often the database executed a script
    lost,               \* history: how often it was lost that a script was executed
    faults              \* history: database errors and crashes so far

process == <<initialized, lock, disabled, enabled, path, nsRun>>
tasks == <<pc, stage, plan, todo, left, saved>>
database == <<recorded, executed, lost>>
startupVars == <<setting, process, tasks, database, faults>>

NotSaved == [path |-> "core", enabled |-> TRUE, disabled |-> FALSE]

StartupInit ==
    /\ setting \in BOOLEAN
    /\ initialized = FALSE
    /\ lock = None
    /\ disabled = FALSE
    /\ enabled = setting
    /\ path = "core"
    /\ nsRun = {}
    /\ pc = [t \in Tasks |-> "idle"]
    /\ stage = [t \in Tasks |-> "none"]
    /\ plan = [t \in Tasks |-> "core"]
    /\ todo = [t \in Tasks |-> {}]
    /\ left = [t \in Tasks |-> {}]
    /\ saved = [t \in Tasks |-> NotSaved]
    /\ recorded = {}
    /\ executed = [s \in Scripts |-> 0]
    /\ lost = [s \in Scripts |-> 0]
    /\ faults = 0

-----------------------------------------------------------------------------
\* Files and namespaces are taken in order: those that are left are a set of
\* places in it.
First(i, rest) == i \in rest /\ \A j \in rest : i <= j

\* What follows without an await.  The arguments p, e and d are the values
\* that path, enabled and disabled have at that point.

\* store.run_migrations(): the runner takes the path the config has now.
StartRun(t, who, p) ==
    /\ pc' = [pc EXCEPT ![t] = "creating"]
    /\ stage' = [stage EXCEPT ![t] = who]
    /\ plan' = [plan EXCEPT ![t] = p]

Rest(t, s) ==
    /\ pc' = [pc EXCEPT ![t] = s]
    /\ stage' = [stage EXCEPT ![t] = "none"]
    /\ UNCHANGED plan

\* _ensure_initialized() has returned to its caller.
AfterEnsure(t, p, e, d) ==
    \/ /\ t \in Queries
       /\ Rest(t, "using")
       /\ path' = p /\ enabled' = e /\ disabled' = d
       /\ UNCHANGED saved
    \/ /\ t \in Startups
       /\ Rest(t, "done")
       /\ path' = p /\ enabled' = FALSE /\ disabled' = TRUE
       /\ UNCHANGED saved
    \/ /\ t \in Manuals
       /\ saved' = [saved EXCEPT ![t].path = p]
       /\ StartRun(t, "manual", t)
       /\ path' = t /\ enabled' = e /\ disabled' = saved[t].disabled

\* The next round of the namespace loop, which skips what has been run, or the
\* end of the critical section.
Continue(t, rest, p, e, done) ==
    LET pending == {i \in rest : Registered[i] \notin done} IN
    \/ /\ pending = {}
       /\ lock' = None
       /\ left' = [left EXCEPT ![t] = {}]
       /\ AfterEnsure(t, p, e, disabled)
    \/ \E i \in pending :
       /\ First(i, pending)
       /\ saved' = [saved EXCEPT ![t].path = p, ![t].enabled = e]
       /\ left' = [left EXCEPT ![t] = pending]
       /\ path' = Registered[i]
       /\ enabled' = TRUE
       /\ StartRun(t, "namespace", Registered[i])
       /\ UNCHANGED <<lock, disabled>>

AfterCore(t) ==
    Continue(t, IF disabled THEN {} ELSE DOMAIN Registered, path, enabled, nsRun)

\* run_migrations() has returned.
RunEnds(t) ==
    \/ /\ stage[t] = "core"
       /\ AfterCore(t)
       /\ UNCHANGED nsRun
    \/ /\ stage[t] = "namespace"
       /\ nsRun' = nsRun \cup {plan[t]}
       /\ Continue(t, left[t], saved[t].path, saved[t].enabled, nsRun')
    \/ /\ stage[t] = "manual"
       /\ path' = saved[t].path
       /\ nsRun' = nsRun \cup {t}
       /\ Rest(t, "done")
       /\ UNCHANGED <<lock, disabled, enabled, left, saved>>

-----------------------------------------------------------------------------

\* A query; a startup unless migrations are disabled; a manual run unless its
\* namespace has been run.  The last one disables migrations across the await.
Enter(t) ==
    /\ pc[t] = "idle"
    /\ t \in Startups => enabled
    /\ t \in Manuals => t \notin nsRun
    /\ \/ /\ initialized
          /\ IF t \in Manuals
             THEN /\ saved' = [saved EXCEPT ![t].path = path]
                  /\ StartRun(t, "manual", t)
                  /\ path' = t
                  /\ UNCHANGED <<enabled, disabled>>
             ELSE AfterEnsure(t, path, enabled, disabled)
       \/ /\ ~initialized
          /\ pc' = [pc EXCEPT ![t] = "waiting"]
          /\ IF t \in Manuals
             THEN saved' = [saved EXCEPT ![t].disabled = disabled] /\ disabled' = TRUE
             ELSE UNCHANGED <<saved, disabled>>
          /\ UNCHANGED <<path, enabled, stage, plan>>
    /\ UNCHANGED <<setting, initialized, lock, nsRun, todo, left, database, faults>>

\* migrations_enabled is off, or the namespace has been run: nothing to do.
EnterNothing(t) ==
    /\ pc[t] = "idle"
    /\ \/ t \in Startups /\ ~enabled
       \/ t \in Manuals /\ t \in nsRun
    /\ Rest(t, "done")
    /\ UNCHANGED <<setting, process, todo, left, saved, database, faults>>

\* async with self._init_lock, and the second look at _initialized.
Acquire(t) ==
    /\ pc[t] = "waiting"
    /\ lock = None
    /\ \/ /\ initialized
          /\ AfterEnsure(t, path, enabled, disabled)
          /\ UNCHANGED lock
       \/ /\ ~initialized
          /\ lock' = t
          /\ pc' = [pc EXCEPT ![t] = "connecting"]
          /\ UNCHANGED <<path, enabled, disabled, saved, stage, plan>>
    /\ UNCHANGED <<setting, initialized, nsRun, todo, left, database, faults>>

\* Connected and prepared: _initialized is set before the migrations run.
Connect(t) ==
    /\ pc[t] = "connecting"
    /\ initialized' = TRUE
    /\ \/ /\ ~disabled /\ enabled
          /\ StartRun(t, "core", path)
          /\ UNCHANGED <<lock, path, enabled, disabled, left, saved>>
       \/ /\ disabled \/ ~enabled
          /\ AfterCore(t)
    /\ UNCHANGED <<setting, nsRun, todo, database, faults>>

CreateTable(t) ==
    /\ pc[t] = "creating"
    /\ pc' = [pc EXCEPT ![t] = "listing"]
    /\ UNCHANGED <<setting, process, stage, plan, todo, left, saved, database, faults>>

\* A run that has files to execute, or has none.
Executes(t, files) ==
    \/ /\ files = {}
       /\ RunEnds(t)
    \/ /\ files # {}
       /\ pc' = [pc EXCEPT ![t] = "executing"]
       /\ UNCHANGED <<lock, disabled, enabled, path, nsRun, stage, plan, left, saved>>

\* Mutant: the runner does not ask which migrations are applied.
PendingAll(t, applied) == DOMAIN Files[plan[t]]

\* What is not applied is pending.
Pending(t, applied) == {i \in DOMAIN Files[plan[t]] : Files[plan[t]][i] \notin applied}

\* get_applied_migrations() answers.
List(t) ==
    /\ pc[t] = "listing"
    /\ todo' = [todo EXCEPT ![t] = Pending(t, recorded)]
    /\ Executes(t, Pending(t, recorded))
    /\ UNCHANGED <<setting, initialized, database, faults>>

\* The SQLite store answers "none applied" when it cannot read the table.
ListFails(t) ==
    /\ pc[t] = "listing"
    /\ faults < MaxFaults
    /\ faults' = faults + 1
    /\ todo' = [todo EXCEPT ![t] = Pending(t, {})]
    /\ Executes(t, Pending(t, {}))
    /\ lost' = [s \in Scripts |->
                   IF s[1] = plan[t] /\ s[2] \in recorded THEN lost[s] + 1 ELSE lost[s]]
    /\ UNCHANGED <<setting, initialized, recorded, executed>>

\* The history at an error or crash: scripts executed and not recorded.
LosesTrack ==
    [s \in Scripts |-> IF executed'[s] > 0 /\ s[2] \notin recorded THEN lost[s] + 1 ELSE lost[s]]

\* The database executes the script that is next.
Runs(t) ==
    \E i \in todo[t] :
        /\ First(i, todo[t])
        /\ executed' = [executed EXCEPT ![Script(plan[t], i)] = @ + 1]

\* Mutant: a script's error is logged and not raised, so it is recorded.
ExecuteSwallows(t) ==
    /\ pc[t] = "executing"
    /\ Runs(t) \/ UNCHANGED executed
    /\ pc' = [pc EXCEPT ![t] = "recording"]
    /\ UNCHANGED <<setting, process, stage, plan, todo, left, saved, recorded, lost, faults>>

Execute(t) ==
    /\ pc[t] = "executing"
    /\ Runs(t)
    /\ pc' = [pc EXCEPT ![t] = "recording"]
    /\ UNCHANGED <<setting, process, stage, plan, todo, left, saved, recorded, lost, faults>>

\* Mutant: run() returns after the first file it has recorded.
RecordFirst(t) ==
    /\ pc[t] = "recording"
    /\ \E i \in todo[t] :
          /\ First(i, todo[t])
          /\ recorded' = recorded \cup {Files[plan[t]][i]}
          /\ todo' = [todo EXCEPT ![t] = @ \ {i}]
          /\ RunEnds(t)
    /\ UNCHANGED <<setting, initialized, executed, lost, faults>>

\* record_migration() has returned: the next file, or the end of the run.
Record(t) ==
    /\ pc[t] = "recording"
    /\ \E i \in todo[t] :
          /\ First(i, todo[t])
          /\ recorded' = recorded \cup {Files[plan[t]][i]}
          /\ todo' = [todo EXCEPT ![t] = @ \ {i}]
          /\ Executes(t, todo[t] \ {i})
    /\ UNCHANGED <<setting, initialized, executed, lost, faults>>

\* The query reaches the store.
Use(t) ==
    /\ pc[t] = "using"
    /\ Rest(t, "done")
    /\ UNCHANGED <<setting, process, todo, left, saved, database, faults>>

\* Mutant: an exception leaves the lock taken.
FaultKeepsLock(t) ==
    /\ pc[t] \in {"connecting", "creating", "executing", "recording"}
    /\ faults < MaxFaults
    /\ faults' = faults + 1
    /\ Rest(t, "failed")
    /\ \/ UNCHANGED executed
       \/ pc[t] = "executing" /\ Runs(t)
    /\ lost' = LosesTrack
    /\ UNCHANGED <<setting, process, todo, left, saved, recorded>>

\* The database raises, having done what it was asked or not: the exception
\* leaves through the lock, and nothing else is put back.
Fault(t) ==
    /\ pc[t] \in {"connecting", "creating", "executing", "recording"}
    /\ faults < MaxFaults
    /\ faults' = faults + 1
    /\ Rest(t, "failed")
    /\ lock' = IF lock = t THEN None ELSE lock
    /\ \/ UNCHANGED executed
       \/ pc[t] = "executing" /\ Runs(t)
    /\ lost' = LosesTrack
    /\ UNCHANGED <<setting, initialized, disabled, enabled, path, nsRun, todo, left, saved,
                   recorded>>

\* The process dies and a new one starts; the database keeps what it has.
Crash ==
    /\ faults < MaxFaults
    /\ faults' = faults + 1
    /\ initialized' = FALSE
    /\ lock' = None
    /\ disabled' = FALSE
    /\ enabled' = setting
    /\ path' = "core"
    /\ nsRun' = {}
    /\ pc' = [t \in Tasks |-> "idle"]
    /\ stage' = [t \in Tasks |-> "none"]
    /\ plan' = [t \in Tasks |-> "core"]
    /\ todo' = [t \in Tasks |-> {}]
    /\ left' = [t \in Tasks |-> {}]
    /\ saved' = [t \in Tasks |-> NotSaved]
    /\ UNCHANGED <<setting, recorded, executed>>
    /\ lost' = LosesTrack

Step(t) ==
    \/ Enter(t) \/ EnterNothing(t) \/ Acquire(t) \/ Connect(t)
    \/ CreateTable(t) \/ List(t) \/ Execute(t) \/ Record(t) \/ Use(t)

StartupNext ==
    \/ \E t \in Tasks : Step(t) \/ ListFails(t) \/ Fault(t)
    \/ Crash

StartupSpec == StartupInit /\ [][StartupNext]_startupVars

\* The event loop runs every task and the database answers.
FairStartupSpec == StartupSpec /\ \A t \in Tasks : WF_startupVars(Step(t))

-----------------------------------------------------------------------------

CoreFiles == {Files["core"][i] : i \in DOMAIN Files["core"]}

\* What schema_migrations says was done was done, by a script of that name (it
\* does not tell namespaces apart), and in version order: no script is executed
\* before those in front of it are recorded.
RecordedIsExecuted ==
    /\ \A f \in recorded : \E s \in Scripts : s[2] = f /\ executed[s] > 0
    /\ \A n \in Paths : \A i \in DOMAIN Files[n] :
          executed[Script(n, i)] > 0 =>
              \A j \in DOMAIN Files[n] : j < i => Files[n][j] \in recorded

\* A script is executed once in the life of the database, over any restarts,
\* and once more for each time an error or a crash lost what was known of it; a
\* namespace's twice as often if it is run manually too.
ExecutionsBounded ==
    \A s \in Scripts :
        executed[s] <= (1 + lost[s]) * (IF s[1] \in Manuals THEN 2 ELSE 1)

\* Once nobody is initializing any more and nothing has failed, the core
\* tables are there, whichever call came first; a manual run, which disables
\* migrations while it waits, is the exception.
CoreMigrated ==
    setting /\ initialized /\ lock = None /\ faults = 0 /\ (\A m \in Manuals : pc[m] = "idle") =>
        CoreFiles \subseteq recorded

\* No task is left waiting: every call ends, well or with an exception.
CallsEnd == \A t \in Tasks : pc[t] = "waiting" ~> pc[t] # "waiting"

=============================================================================
