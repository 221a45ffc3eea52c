--------------------------- MODULE UsageMetering ---------------------------
(***************************************************************************)
(* A license's quota of node executions per month: LicenseManager.validate *)
(* asks what was used before a node is dispatched; what is used is counted *)
(* by a listener of the node.complete event (identity/licensing/).  On its *)
(* way the event passes the emitter's backend, behind a health breaker     *)
(* (events/), and two tasks of the event loop that nobody awaits.  The     *)
(* counter is in memory or in a table.  The watcher thread of the          *)
(* configuration emits through the same breaker, without a loop, where     *)
(* listeners run in the call and may raise.  One organization, one metric; *)
(* the application validates before it dispatches.                         *)
(***************************************************************************)
EXTENDS Integers, FiniteSets

CONSTANTS
    Requests,           \* node executions
    Limit,              \* the constraint's right operand
    FailureThreshold,   \* of the health breaker
    ResetTimeout,       \* its time to reset, in ticks
    MonthLength,        \* ticks of a month
    MaxTime,            \* bound: the last tick
    MaxWatched,         \* bound: events the watcher emits
    MaxFaults           \* bound: failed queries, failed work, crashes, resets

ASSUME MeteringAssumption ==
    /\ Limit \in Nat /\ FailureThreshold \in Nat \ {0}
    /\ ResetTimeout \in Nat \ {0} /\ MonthLength \in Nat \ {0}
    /\ MaxTime \in Nat \ {0} /\ MaxWatched \in Nat /\ MaxFaults \in Nat

VARIABLES
    tracker,            \* "memory" or "storage"
    now,                \* the clock
    req,                \* request -> how far it is, its window, the usage read
    note,               \* request -> where its node.complete is, its window
    count,              \* window -> the counter
    health,             \* the breaker: failures, open_until (0: closed)
    watcher,            \* the watcher thread: where it is, failures it read
    watched, faults,    \* history: events of the watcher, faults
    errors,             \* history: errors since the breaker last reset
    knew,               \* history: request -> who was counted when it read
    late                \* history: request -> who was let in, and not counted

clock == <<tracker, now, faults>>
breaker == <<health, errors>>
thread == <<watcher, watched>>
history == <<knew, late>>
meterVars == <<clock, req, note, count, breaker, thread, history>>

\* _get_window_key("monthly").
MonthOf(t) == t \div MonthLength

Months == {MonthOf(t) : t \in 1 .. MaxTime}
Month == MonthOf(now)

MeterInit ==
    /\ tracker \in {"memory", "storage"}
    /\ now = 1
    /\ req = [r \in Requests |-> [pc |-> "idle", window |-> 0, seen |-> 0]]
    /\ note = [r \in Requests |-> [pc |-> "none", window |-> 0]]
    /\ count = [m \in Months |-> 0]
    /\ health = [failures |-> 0, open |-> 0]
    /\ watcher = [pc |-> "idle", seen |-> 0]
    /\ watched = 0 /\ faults = 0 /\ errors = 0
    /\ knew = [r \in Requests |-> {}]
    /\ late = [r \in Requests |-> {}]

Fault == faults < MaxFaults /\ faults' = faults + 1 /\ UNCHANGED <<tracker, now>>

-----------------------------------------------------------------------------
(* The backend behind its breaker                                          *)

\* Mutant: the failures are kept over a reset.
ChecksOnly(h) == [h EXCEPT !.open = 0]

\* is_healthy, once it is time to reset.
Checks(h) == IF h.open = 0 THEN h ELSE [failures |-> 0, open |-> 0]

Healthy == now >= health.open

Decays(h, k) == [h EXCEPT !.failures = IF @ > k THEN @ - k ELSE 0]

\* k events emitted on the loop, without an await between them: the local
\* backend makes tasks of the listeners and never fails.
Emits(k) ==
    IF Healthy
    THEN /\ health' = Decays(Checks(health), k)
         /\ errors' = IF health.open = 0 THEN errors ELSE 0
    ELSE UNCHANGED breaker

\* The watcher's event: is the backend healthy?
WatcherEmits ==
    /\ watcher.pc = "idle" /\ watched < MaxWatched
    /\ watched' = watched + 1
    /\ IF Healthy
       THEN /\ health' = Checks(health)
            /\ errors' = IF health.open = 0 THEN errors ELSE 0
            /\ watcher' = [watcher EXCEPT !.pc = "notifying"]
       ELSE UNCHANGED <<breaker, watcher>>
    /\ UNCHANGED <<clock, req, note, count, history>>

\* No loop runs in this thread: the listeners are called, and none raises.
WatcherDelivers ==
    /\ watcher.pc = "notifying"
    /\ health' = Decays(health, 1)
    /\ watcher' = [watcher EXCEPT !.pc = "idle"]
    /\ UNCHANGED <<clock, req, note, count, errors, watched, history>>

\* One raises: `self._failures += 1` has read the failures ...
WatcherFails ==
    /\ watcher.pc = "notifying"
    /\ watcher' = [pc |-> "failing", seen |-> health.failures]
    /\ UNCHANGED <<clock, req, note, count, breaker, watched, history>>

\* ... and writes them, whatever the loop did meanwhile.
WatcherRecords ==
    /\ watcher.pc = "failing"
    /\ watcher' = [pc |-> "idle", seen |-> 0]
    /\ errors' = errors + 1
    /\ LET f == watcher.seen + 1
       IN health' = [failures |-> f,
                     open |-> IF f >= FailureThreshold
                              THEN now + ResetTimeout ELSE health.open]
    /\ UNCHANGED <<clock, req, note, count, watched, history>>

-----------------------------------------------------------------------------
(* The check, and the node                                                 *)

Counted(n, m) == n \in {[pc |-> p, window |-> m] : p \in {"reading", "counted"}}

\* Let in for this window, and not failed since.
Used(m) == {q \in Requests : req[q].pc \in {"permitted", "working", "done"}
                             /\ req[q].window = m}

\* _check_operator("lteq"): what is asked for is not counted in.
Allows(usage) == usage <= Limit

\* quota_warning, from nine tenths on.
Warned(usage) == IF 10 * usage >= 9 * Limit THEN 1 ELSE 0

CountedIn(m) == {q \in Requests : Counted(note[q], m)}

\* Permitted, with license.validated, or denied, with quota_exceeded and
\* license.denied.
Decides(r, m, usage, counted) ==
    IF Allows(usage)
    THEN /\ req' = [req EXCEPT ![r] = [pc |-> "permitted", window |-> m, seen |-> usage]]
         /\ late' = [late EXCEPT ![r] = Used(m) \ counted]
         /\ Emits(Warned(usage) + 1)
    ELSE /\ req' = [req EXCEPT ![r].pc = "denied"]
         /\ Emits(Warned(usage) + 2)
         /\ UNCHANGED late

\* validate, with the window of the moment; a counter in memory is read at
\* once, the table is asked.
Validate(r) ==
    /\ req[r].pc = "idle"
    /\ IF tracker = "memory"
       THEN Decides(r, Month, count[Month], CountedIn(Month))
       ELSE /\ req' = [req EXCEPT ![r].pc = "asking", ![r].window = Month]
            /\ UNCHANGED <<breaker, late>>
    /\ UNCHANGED <<clock, note, count, thread, knew>>

ReadsUsage(r) ==
    /\ req[r].pc = "asking"
    /\ LET m == req[r].window
       IN /\ req' = [req EXCEPT ![r].pc = "answered", ![r].seen = count[m]]
          /\ knew' = [knew EXCEPT ![r] = CountedIn(m)]
    /\ UNCHANGED <<clock, note, count, breaker, thread, late>>

Decide(r) ==
    /\ req[r].pc = "answered"
    /\ Decides(r, req[r].window, req[r].seen, knew[r])
    /\ UNCHANGED <<clock, note, count, thread, knew>>

\* The query raised: "Usage check unavailable".
CheckFails(r) ==
    /\ req[r].pc = "asking"
    /\ Fault
    /\ req' = [req EXCEPT ![r].pc = "denied"]
    /\ Emits(1)
    /\ UNCHANGED <<note, count, thread, history>>

\* dispatch, with node.start.
Begin(r) ==
    /\ req[r].pc = "permitted"
    /\ req' = [req EXCEPT ![r].pc = "working"]
    /\ Emits(1)
    /\ UNCHANGED <<clock, note, count, thread, history>>

\* The node is done: node.complete reaches the listener's task, unless the
\* backend is taken to be ill.
NodeDone(r) ==
    /\ req[r].pc = "working"
    /\ req' = [req EXCEPT ![r].pc = "done"]
    /\ Emits(1)
    /\ note' = [note EXCEPT ![r].pc = IF Healthy THEN "notified" ELSE "skipped"]
    /\ UNCHANGED <<clock, count, thread, history>>

\* The node raises: node.error is not counted.
WorkFails(r) ==
    /\ req[r].pc = "working"
    /\ Fault
    /\ req' = [req EXCEPT ![r].pc = "failed"]
    /\ Emits(1)
    /\ UNCHANGED <<note, count, thread, history>>

\* is_healthy reads _open_until twice: when the watcher resets it in between,
\* the comparison with None raises out of emit, and out of the request.
Trips(r) ==
    /\ \/ req[r].pc \in {"answered", "permitted", "working"}
       \/ req[r].pc = "idle" /\ tracker = "memory"
    /\ health.open # 0 /\ Healthy
    /\ watcher.pc = "idle" /\ watched < MaxWatched
    /\ watched' = watched + 1
    /\ watcher' = [watcher EXCEPT !.pc = "notifying"]
    /\ health' = Checks(health) /\ errors' = 0
    /\ req' = [req EXCEPT ![r].pc = "failed"]
    /\ UNCHANGED <<clock, note, count, history>>

-----------------------------------------------------------------------------
(* The listener and the tracker                                            *)

\* _safe_notify: on_event makes a task of its own for the tracker.
OnEvent(r) ==
    /\ note[r].pc = "notified"
    /\ note' = [note EXCEPT ![r].pc = "tracking"]
    /\ UNCHANGED <<clock, req, count, breaker, thread, history>>

\* increment, with the window of the moment: in memory it is done at once.
Track(r) ==
    /\ note[r].pc = "tracking"
    /\ IF tracker = "memory"
       THEN /\ note' = [note EXCEPT ![r] = [pc |-> "counted", window |-> Month]]
            /\ count' = [count EXCEPT ![Month] = @ + 1]
       ELSE /\ note' = [note EXCEPT ![r] = [pc |-> "adding", window |-> Month]]
            /\ UNCHANGED count
    /\ UNCHANGED <<clock, req, breaker, thread, history>>

\* Mutant: the row is written as it was first inserted.
Overwritten(n) == 1

\* Inserted with the amount, or added to.
Added(n) == n + 1

\* The upsert ...
Add(r) ==
    /\ note[r].pc = "adding"
    /\ count' = [count EXCEPT ![note[r].window] = Added(@)]
    /\ note' = [note EXCEPT ![r].pc = "reading"]
    /\ UNCHANGED <<clock, req, breaker, thread, history>>

\* ... which may fail, in a task whose exception nobody sees ...
AddFails(r) ==
    /\ note[r].pc = "adding"
    /\ Fault
    /\ note' = [note EXCEPT ![r].pc = "lost"]
    /\ UNCHANGED <<req, count, breaker, thread, history>>

\* ... and the count is read back, for nobody.
Reread(r) ==
    /\ note[r].pc = "reading"
    /\ note' = [note EXCEPT ![r].pc = "counted"]
    /\ UNCHANGED <<clock, req, count, breaker, thread, history>>

Emptied(windows) == [m \in Months |-> IF m \in windows THEN 0 ELSE count[m]]

Forgotten(windows, n) ==
    IF \E m \in windows : Counted(n, m) THEN [n EXCEPT !.pc = "forgotten"] ELSE n

\* reset_usage of the current month, by an administrator.
Reset ==
    /\ Fault
    /\ count' = Emptied({Month})
    /\ note' = [q \in Requests |-> Forgotten({Month}, note[q])]
    /\ UNCHANGED <<req, breaker, thread, history>>

\* The process ends and starts again: requests and tasks are gone, and so is a
\* counter in memory that is not kept in a file, or whose file was being
\* written.
Crash ==
    /\ Fault
    /\ req' = [r \in Requests |->
                  IF req[r].pc \in {"idle", "done", "denied"} THEN req[r]
                  ELSE [req[r] EXCEPT !.pc = "failed"]]
    /\ \E windows \in {{}} \cup (IF tracker = "memory" THEN {Months} ELSE {}) :
          /\ count' = Emptied(windows)
          /\ note' = [q \in Requests |->
                IF note[q].pc \in {"notified", "tracking", "adding"}
                THEN [note[q] EXCEPT !.pc = "lost"]
                ELSE Forgotten(windows, note[q])]
    /\ health' = [failures |-> 0, open |-> 0] /\ errors' = 0
    /\ watcher' = [pc |-> "idle", seen |-> 0]
    /\ UNCHANGED <<watched, history>>

Tick ==
    /\ now < MaxTime
    /\ now' = now + 1
    /\ UNCHANGED <<tracker, faults, req, note, count, breaker, thread, history>>

MeterNext ==
    \/ \E r \in Requests :
          \/ Validate(r) \/ ReadsUsage(r) \/ CheckFails(r) \/ Decide(r)
          \/ Begin(r) \/ NodeDone(r) \/ WorkFails(r) \/ Trips(r)
          \/ OnEvent(r) \/ Track(r) \/ Add(r) \/ AddFails(r) \/ Reread(r)
    \/ WatcherEmits \/ WatcherDelivers \/ WatcherFails \/ WatcherRecords
    \/ Reset \/ Crash \/ Tick

MeterSpec == MeterInit /\ [][MeterNext]_meterVars

-----------------------------------------------------------------------------

\* More than the quota and one is let into a month only when somebody was let in
\* while the work of another was not, or no longer, in the counter: still
\* running, on its way through the tasks, dropped by the breaker, lost with
\* a query or the process, counted in the next month, or reset.
OverrunNeedsUncounted ==
    \A m \in Months :
        Cardinality(Used(m)) > Limit + 1 => \E r \in Used(m) : late[r] # {}

\* The backend is closed to all listeners, the conversations' and the usage's
\* among them, only after as many errors as the threshold since it was last
\* open to all: decays that got lost between the threads never make up for
\* an error.
OutageIsEarned == health.open # 0 => errors >= FailureThreshold

=============================================================================
