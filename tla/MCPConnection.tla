--------------------------- MODULE MCPConnection ---------------------------
(***************************************************************************)
(* The SSE adapter of one MCP server (mcp/adapters/sse_adapter.py), shared *)
(* by every task that calls a tool of that server.  A connection is a task *)
(* of its own (_maintain_connection) that holds a ClientSession open until *)
(* it is cancelled.  _session and _connected are always set and cleared    *)
(* together, so session # None stands for both.  Every step ends at an     *)
(* await.  The server and the mcp library are external.                    *)
(***************************************************************************)
EXTENDS Integers, FiniteSets

CONSTANTS
    Callers,            \* tasks that use the adapter
    Conns,              \* bound: names of connection tasks, used again
    Attempts,           \* _max_retries
    MaxOps,             \* bound: operations begun at any time
    MaxAlone,           \* bound: operations begun later, one after the other
    MaxFaults,          \* bound: refusals, lost links, slow answers, cancellations
    None

ASSUME ConnectionAssumption ==
    /\ Conns \subseteq Nat
    /\ None \notin Conns /\ None \notin {"connect", "call", "list", "close"}
    /\ Attempts \in Nat \ {0}
    /\ MaxOps \in Nat /\ MaxAlone \in Nat /\ MaxFaults \in Nat

VARIABLES
    session,            \* whose ClientSession _session is, or None
    task,               \* _connection_task
    conn,               \* connection task -> how far it is
    idle,               \* more than _idle_threshold has passed since _last_call
    at,                 \* caller -> where it is
    solo,               \* history: the caller whose call has had no company
                        \* and no fault but a late answer so far, or None
    runs,               \* history: times the server ran that call
    late,               \* history: its first answer was late
    result,             \* history: how that call ended
    astray,             \* history: callers connected at a time, or beside a
                        \* connection already there, or went off meanwhile
    ops, faults         \* history: operations, faults so far

adapter == <<session, task, conn>>
lone == <<solo, runs, late>>
vars == <<adapter, idle, at, lone, result, astray, ops, faults>>

Rest == [pc |-> "idle", op |-> None, stage |-> "first", attempt |-> 0,
         on |-> None, sent |-> FALSE]

Init ==
    /\ session = None /\ task = None
    /\ conn = [k \in Conns |-> "none"]
    /\ idle = TRUE
    /\ at = [c \in Callers |-> Rest]
    /\ solo = None /\ runs = 0 /\ late = FALSE
    /\ result = "none"
    /\ astray = FALSE
    /\ ops = 0 /\ faults = 0

-----------------------------------------------------------------------------
(* Helpers.  Each says what becomes of at[c] and of the adapter.           *)

\* The task has begun and not ended: cancel() still reaches it.
Pending(k) == k # None /\ conn[k] # "none"

Goes(c, how) == at' = [at EXCEPT ![c] = how]

Ends(c, r) ==
    /\ Goes(c, Rest)
    /\ result' = IF c = solo THEN r ELSE "none"

Fails == faults < MaxFaults /\ faults' = faults + 1

Fault == Fails /\ solo' = None /\ runs' = 0 /\ late' = FALSE

Fine == UNCHANGED <<faults, lone>>

\* task.cancel(): a task that has not run yet never reaches its finally.
Cancelled(how) == IF how \in {"created", "dropped"} THEN "dropped" ELSE "cancelled"

Free == {k \in Conns : conn[k] = "none" /\ \A c \in Callers : at[c].on # k}

\* create_task(_maintain_connection()): the new task takes the name
\* _connection_task, whatever it named before.
Creates ==
    \E k \in Free :
        /\ \A j \in Free : k <= j
        /\ task' = k
        /\ conn' = [conn EXCEPT ![k] = "created"]

\* One attempt of connect, which finds no session yet.
Attempt(c, me) ==
    /\ Creates
    /\ Goes(c, [me EXCEPT !.pc = "polling", !.attempt = @ + 1, !.on = None])

\* _cleanup_connection after its await, and what its caller does then: close
\* is over, list gives up after a timeout, connect sleeps before its next
\* attempt or returns False, all others connect.
Proceed(c, me) ==
    /\ session' = None
    /\ \/ /\ me.op = "close" \/ me.stage = "ends" \/ me.attempt = Attempts
          /\ Ends(c, IF me.op = "close" THEN "ok" ELSE "failed")
          /\ task' = None /\ UNCHANGED conn
       \/ /\ me.op # "close" /\ me.stage # "ends" /\ me.attempt \in 1 .. Attempts - 1
          /\ Goes(c, [me EXCEPT !.pc = "backoff", !.on = None])
          /\ task' = None /\ UNCHANGED <<conn, result>>
       \/ /\ me.op # "close" /\ me.stage # "ends" /\ me.attempt = 0
          /\ Attempt(c, me) /\ UNCHANGED result

\* Mutant: the names are dropped and the task is not cancelled.
Forget(c, me) == Proceed(c, me)

\* _cleanup_connection up to its await, or to its end when nothing is pending.
Cleanup(c, me) ==
    IF Pending(task)
    THEN /\ conn' = [conn EXCEPT ![task] = Cancelled(@)]
         /\ Goes(c, [me EXCEPT !.pc = "cleaning", !.on = task])
         /\ UNCHANGED <<session, task, result>>
    ELSE Proceed(c, me)

\* The request goes out on the session there is.  The second try of list is
\* not counted as a call.
Sends(c, me) ==
    /\ Goes(c, [me EXCEPT !.pc = "calling", !.attempt = 0,
                      !.on = session, !.sent = FALSE])
    /\ idle' = (idle /\ me.op = "list" /\ me.stage = "again")
    /\ UNCHANGED result

\* connect() returns True: connect is over, call and list send their request,
\* and a call that reconnected after an HTTP timeout raises it all the same.
Connected(c, me) ==
    \/ /\ me.op # "connect" /\ me.stage # "http"
       /\ Sends(c, me)
    \/ /\ me.op = "connect" \/ me.stage = "http"
       /\ Ends(c, IF me.stage = "http" THEN "failed" ELSE "ok")
       /\ UNCHANGED idle

-----------------------------------------------------------------------------
(* Callers                                                                 *)

Quiescent == \A d \in Callers : at[d].pc = "idle"

\* A task comes to use the adapter.
Comes(c) ==
    /\ at[c].pc = "idle"
    /\ ops < MaxOps \/ (Quiescent /\ ops < MaxOps + MaxAlone)
    /\ ops' = ops + 1
    /\ runs' = 0 /\ late' = FALSE

\* connect(), call(), list() or close() up to the first await.  A session that
\* has been idle is given up.
Begin(c) ==
    /\ Comes(c)
    /\ \E op \in {"connect", "call", "list", "close"} :
          LET me == [Rest EXCEPT !.op = op]
              drops == session # None /\ idle
          IN  \/ /\ op # "close" /\ session = None
                 /\ Attempt(c, me)
                 /\ UNCHANGED <<session, idle, result>>
              \/ /\ op = "close" \/ (op \in {"call", "list"} /\ drops)
                 /\ Cleanup(c, me)
                 /\ UNCHANGED idle
              \/ /\ op \in {"call", "list"} /\ session # None /\ ~drops
                 /\ Sends(c, me)
                 /\ UNCHANGED adapter
    /\ solo' = IF at'[c].op = "call" /\ Quiescent THEN c ELSE None
    /\ UNCHANGED faults

\* connect() does not ask whether there is a session: the new connection takes
\* the name of the one that is there, whose session ends the first look.
ConnectAgain(c) ==
    /\ Comes(c) /\ session # None
    /\ Creates
    /\ solo' = None /\ result' = "none"
    /\ UNCHANGED <<session, idle, at, faults>>

\* The caller's task is cancelled: whatever it waits for, it is gone, and the
\* fields stay as they are.  (_cleanup_connection takes a cancellation of its
\* caller for that of the connection, and goes on.)
Cancel(c) ==
    /\ Ends(c, "failed")
    /\ Fault
    /\ UNCHANGED <<adapter, idle, ops>>

\* Mutant: waits until the task it cancelled is gone and still the adapter's.
CleanedOwn(c) ==
    /\ at[c].pc = "cleaning" /\ conn[at[c].on] = "none" /\ task = at[c].on
    /\ Proceed(c, at[c])
    /\ UNCHANGED <<idle, ops>> /\ Fine

\* The await of _cleanup_connection is over: the fields are cleared, whatever
\* they name by now.
Cleaned(c) ==
    /\ at[c].pc = "cleaning" /\ conn[at[c].on] = "none"
    /\ Proceed(c, at[c])
    /\ UNCHANGED <<idle, ops>> /\ Fine

\* One of the fifty looks at the fields finds a session, anyone's.
Poll(c) ==
    /\ at[c].pc = "polling" /\ session # None
    /\ Connected(c, at[c])
    /\ UNCHANGED <<adapter, ops>> /\ Fine

\* Five seconds are over.  That a healthy server took so long is a fault.
PollTimeout(c) ==
    /\ at[c].pc = "polling"
    /\ Cleanup(c, at[c])
    /\ IF session = None /\ (task = None \/ conn[task] \notin {"created", "opening"})
       THEN Fine ELSE Fault
    /\ UNCHANGED <<idle, ops>>

\* The sleep between two attempts is over.
NextAttempt(c) ==
    /\ at[c].pc = "backoff"
    /\ \/ session = None /\ Attempt(c, at[c]) /\ UNCHANGED <<session, idle, result>>
       \/ session # None /\ Creates /\ Connected(c, at[c]) /\ UNCHANGED session
    /\ UNCHANGED ops /\ Fine

\* The server runs the request...
Serve(c) ==
    /\ at[c].pc = "calling" /\ conn[at[c].on] = "open" /\ ~at[c].sent
    /\ Goes(c, [at[c] EXCEPT !.sent = TRUE])
    /\ runs' = IF c = solo THEN runs + 1 ELSE runs
    /\ UNCHANGED <<adapter, idle, result, ops, faults, solo, late>>

\* ...and its answer comes back, or an error of the tool, which
\* is an answer too.
Answer(c) ==
    /\ at[c].pc = "calling" /\ conn[at[c].on] = "open" /\ at[c].sent
    /\ Ends(c, "ok")
    /\ UNCHANGED <<adapter, idle, ops>> /\ Fine

\* Mutant: tries again on the session there is, without reconnecting.
BreaksAgain(c) ==
    /\ at[c].pc = "calling" /\ session # None
    /\ conn[at[c].on] # "open"
    /\ IF at[c].stage = "first"
       THEN Sends(c, [at[c] EXCEPT !.stage = "again"])
       ELSE Ends(c, "failed") /\ UNCHANGED idle
    /\ UNCHANGED <<adapter, ops>> /\ Fine

\* A request that was not answered in time: it may have been run.
Late(c) ==
    /\ Fails
    /\ late' = (late \/ c = solo)
    /\ UNCHANGED <<solo, runs>>

\* The call ends without an answer.  The first time, a closed session or a
\* timeout has the adapter reconnect and try again, except that list gives up
\* after a timeout; after an HTTP timeout a call reconnects and fails.  Any
\* other exception, and the second time any exception, ends the operation and
\* leaves the connection as it is.
Breaks(c) ==
    /\ at[c].pc = "calling"
    /\ \E how \in {"closed", "timeout", "http", "other"} :
          LET lost == at[c].on = None \/ conn[at[c].on] # "open"
              first == at[c].stage = "first" /\ how # "other"
              me == [at[c] EXCEPT
                       !.stage = IF at[c].op = "list" /\ how # "closed" THEN "ends"
                                 ELSE IF how = "http" THEN "http" ELSE "again"]
          IN  /\ how = "closed" => lost
              /\ IF lost /\ how \in {"closed", "timeout"} THEN Fine
                 ELSE IF first /\ how = "timeout" THEN Late(c) ELSE Fault
              /\ IF first THEN Cleanup(c, me) ELSE Ends(c, "failed") /\ UNCHANGED adapter
    /\ UNCHANGED <<idle, ops>>

-----------------------------------------------------------------------------
(* Connection tasks, and the world                                         *)

\* _maintain_connection begins to connect.
Start(k) ==
    /\ conn[k] = "created"
    /\ conn' = [conn EXCEPT ![k] = "opening"]
    /\ UNCHANGED <<session, task, idle, at, result, ops>> /\ Fine

\* The session is initialized and becomes the adapter's, if that has another
\* or not.
Open(k) ==
    /\ conn[k] = "opening"
    /\ conn' = [conn EXCEPT ![k] = "open"]
    /\ session' = k
    /\ UNCHANGED <<task, idle, at, result, ops>> /\ Fine

\* The server refuses, or initialize times out.  The finally clears the
\* fields, whoever's they are.
OpenFails(k) ==
    /\ conn[k] = "opening"
    /\ conn' = [conn EXCEPT ![k] = "none"]
    /\ session' = None
    /\ Fault
    /\ UNCHANGED <<task, idle, at, result, ops>>

\* Mutant: the finally leaves the fields to whoever cancelled the task.
ClosesKeeping(k) ==
    /\ conn[k] \in {"cancelled", "dropped"}
    /\ conn' = [conn EXCEPT ![k] = "none"]
    /\ UNCHANGED <<session, task, idle, at, result, ops>> /\ Fine

\* A cancelled task ends, through its finally if it had begun.
Closes(k) ==
    /\ conn[k] \in {"cancelled", "dropped"}
    /\ conn' = [conn EXCEPT ![k] = "none"]
    /\ session' = IF conn[k] = "cancelled" THEN None ELSE session
    /\ UNCHANGED <<task, idle, at, result, ops>> /\ Fine

\* The server drops the stream; the task waits on, and the fields stay.
LosesLink(k) ==
    /\ conn[k] = "open"
    /\ conn' = [conn EXCEPT ![k] = "lost"]
    /\ Fault
    /\ UNCHANGED <<session, task, idle, at, result, ops>>

\* Five minutes without an operation.
TimePasses ==
    /\ Quiescent
    /\ ~idle /\ idle' = TRUE
    /\ UNCHANGED <<adapter, at, result, ops>> /\ Fine

Connecting(c) == at[c].pc \in {"cleaning", "polling", "backoff"}

\* What the event loop does once something has begun.
Progress ==
    \/ \E c \in Callers : Cleaned(c) \/ Poll(c) \/ PollTimeout(c) \/ NextAttempt(c)
                             \/ Serve(c) \/ Answer(c) \/ Breaks(c)
    \/ \E k \in Conns : Start(k) \/ Open(k) \/ Closes(k)

\* What nobody is obliged to do.
Outside ==
    \/ \E c \in Callers : Begin(c) \/ (at[c].pc \in {"backoff", "calling"} /\ Cancel(c))
    \/ \E k \in Conns : OpenFails(k) \/ LosesLink(k)
    \/ TimePasses

\* A caller connects beside the connection there is, or is cancelled while it
\* looks for the session of the connection it made, and leaves that to itself.
Strays == \E c \in Callers : ConnectAgain(c) \/ (at[c].pc = "polling" /\ Cancel(c))

Notes(strays) ==
    astray' = (astray \/ strays
                  \/ \E c, d \in Callers : c # d /\ Connecting(c)' /\ Connecting(d)')

Next ==
    \/ (Progress \/ Outside) /\ Notes(FALSE)
    \/ Strays /\ Notes(TRUE)

Spec == Init /\ [][Next]_vars

\* Tasks that are ready run, timers fire, a healthy server connects and
\* answers: the loop as a whole is never stuck, which is enough because an
\* operation has finitely many steps.
Fairness == WF_vars(Progress /\ Notes(FALSE))

FairSpec == Spec /\ Fairness

-----------------------------------------------------------------------------

Doing == [pc : {"idle", "cleaning", "polling", "backoff", "calling"},
          op : {None, "connect", "call", "list", "close"},
          stage : {"first", "again", "http", "ends"},
          attempt : 0 .. Attempts, on : Conns \cup {None}, sent : BOOLEAN]

States == {"none", "created", "opening", "open", "lost", "cancelled", "dropped"}

TypeOK ==
    /\ session \in Conns \cup {None} /\ task \in Conns \cup {None}
    /\ conn \in [Conns -> States]
    /\ at \in [Callers -> Doing]
    /\ idle \in BOOLEAN /\ astray \in BOOLEAN /\ late \in BOOLEAN
    /\ solo \in Callers \cup {None}
    /\ runs \in Nat
    /\ result \in {"none", "ok", "failed"}
    /\ ops \in 0 .. MaxOps + MaxAlone /\ faults \in 0 .. MaxFaults

\* _session is never the session of a task that has ended, and a caller in
\* call or list never finds it None where it asserts that it is there: the
\* fields may be anyone's, but not nobody's.
SessionLives ==
    /\ session # None => conn[session] \in {"open", "lost", "cancelled"}
    /\ \A c \in Callers : at[c].pc = "calling" => at[c].on # None

\* A connection that no field names is never closed: it stays until the
\* process ends.  One is left behind only when two callers were connecting or
\* cleaning up at a time, when connect() was called although there was a
\* session, or when a caller was cancelled in connect; so is an adapter whose
\* connection is open but whose _session is gone.
OrphansHaveCause ==
    ~astray =>
        /\ \A k \in Conns : conn[k] \in {"created", "opening", "open", "lost"} => task = k
        /\ task # None /\ conn[task] \in {"open", "lost"} => session = task

\* Whatever earlier operations have left in the adapter (lost links, orphans,
\* an idle session), a call during which nobody else uses it and nothing goes
\* wrong is answered, and the server has run it once.  If its first answer
\* came too late it is answered all the same, and has been run at most twice.
\* (Of a lost link such a call learns by a closed session or a timeout.)
SoloSucceeds ==
    solo # None /\ at[solo].pc = "idle" =>
        result = "ok" /\ runs \in 1 .. (IF late THEN 2 ELSE 1)

\* Every operation ends, with an answer, an empty list or an exception: nobody
\* waits for a connection or an answer that will not come.
CallsEnd == <>[]Quiescent
=============================================================================
