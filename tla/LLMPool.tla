------------------------------ MODULE LLMPool ------------------------------
(***************************************************************************)
(* A pool of LLM clients (llm/llm_pool.py) with its strategies             *)
(* (llm/pool/), used by several tasks at a time: single requests, batches  *)
(* in their three modes, and the raw calls of the tool executor.  Each     *)
(* client has a semaphore of one slot and a count of active requests, and  *)
(* is registered under its own name too, where it is used without the      *)
(* pool.  asyncio.Semaphore serves in order: its holder and the tasks that *)
(* wait for it are a line.  A stream is a request that is over when the    *)
(* stream object is returned.  Every step ends at an await.                *)
(***************************************************************************)
EXTENDS Integers, Sequences, FiniteSets

CONSTANTS
    N,                  \* len(clients)
    Wheels,             \* for the strategies that count: name -> the clients in turn
    Callers,            \* tasks; each uses the pool once
    MaxBatch,           \* bound: messages in a batch
    MaxFaults           \* bound: failed calls and cancelled tasks

Clients == 1 .. N

ASSUME PoolAssumption ==
    /\ N \in Nat \ {0} /\ MaxBatch \in Nat \ {0} /\ MaxFaults \in Nat
    /\ "least_busy" \notin DOMAIN Wheels
    /\ \A s \in DOMAIN Wheels : Wheels[s] \in Seq(Clients) /\ Wheels[s] # <<>>

Requests == Callers \X (1 .. MaxBatch)

VARIABLES
    strategy,           \* the pool's strategy
    index,              \* how often it was asked, modulo its wheel
    line,               \* client -> who has its slot, and those who wait for it
    ahead,              \* request -> those who came before it and have not left
    active,             \* client -> active_requests
    req,                \* request -> how far it is, and on which client
    doing,              \* caller -> what it does
    faults              \* history: faults so far

poolVars == <<strategy, index, line, ahead, active, req, doing, faults>>

PoolInit ==
    /\ strategy \in DOMAIN Wheels \cup {"least_busy"}
    /\ index = 0
    /\ line = [k \in Clients |-> {}]
    /\ ahead = [r \in Requests |-> {}]
    /\ active = [k \in Clients |-> 0]
    /\ req = [r \in Requests |-> [pc |-> "none", on |-> 1, dying |-> FALSE]]
    /\ doing = [c \in Callers |-> [pc |-> "idle", op |-> "invoke", size |-> 1, from |-> 1]]
    /\ faults = 0

-----------------------------------------------------------------------------
(* Selection                                                               *)

\* The first of the least busy clients; those who wait for a slot are not
\* counted.
LeastBusy(load) ==
    CHOOSE k \in Clients :
        \A j \in Clients : load[k] < load[j] \/ (load[k] = load[j] /\ k <= j)

\* select_client, asked for the i-th time.
Selected(i, load) ==
    IF strategy = "least_busy" THEN LeastBusy(load)
    ELSE LET w == Wheels[strategy] IN w[1 + (i % Len(w))]

Advances(n) ==
    index' = IF strategy = "least_busy" THEN 0 ELSE (index + n) % Len(Wheels[strategy])

-----------------------------------------------------------------------------
(* A request in its client's line                                          *)

\* What a request adds to active_requests: the pool and the client each count
\* one of the pool's; one that came to the client by name is counted once,
\* and a raw one on the pool only.
Weight(c) == CASE doing[c].op = "direct" -> 1 [] doing[c].op = "raw" -> 0 [] OTHER -> 2

\* Who came before whom, of those still in the lines ln.
Order(ln) ==
    LET lined == UNION {ln[k] : k \in Clients}
    IN  [r \in Requests |-> IF r \in lined THEN ahead[r] \cap lined ELSE {}]

\* async with semaphores[k]: without waiting when the line is empty.  ln, ld
\* and rq are line, active and req as the step has left them.
Enters(r, k, ln, ld, rq) ==
    LET free == ln[k] = {}
    IN  /\ line' = [ln EXCEPT ![k] = @ \cup {r}]
        /\ ahead' = [Order(ln) EXCEPT ![r] = ln[k]]
        /\ active' = [ld EXCEPT ![k] = IF free THEN @ + 2 ELSE @]
        /\ req' = [rq EXCEPT ![r].on = k, ![r].pc = IF free THEN "calling" ELSE "waiting"]

\* r is the one who has the slot.
First(r) == r \in line[req[r].on] /\ ahead[r] = {}

\* Mutant: the slot is released after the call and not in a finally.
ReleasedAfter(r) ==
    [k \in Clients |-> IF req[r].dying THEN line[k] ELSE line[k] \ {r}]

Without(r) == [k \in Clients |-> line[k] \ {r}]

\* Mutant: a request that is cancelled while it waits is counted off too.
Discounted(r) == [active EXCEPT ![req[r].on] = @ - Weight(r[1])]

\* The two finally blocks: only a request that was counted is counted off.
Lightened(r) ==
    [active EXCEPT ![req[r].on] = IF req[r].pc = "calling" THEN @ - Weight(r[1]) ELSE @]

\* r is over and gives its place back.
Leaves(r, how) ==
    /\ line' = Without(r)
    /\ ahead' = Order(Without(r))
    /\ active' = Lightened(r)
    /\ req' = [req EXCEPT ![r].pc = how, ![r].dying = FALSE]

Live(r) == req[r].pc \in {"ready", "waiting", "calling"}

-----------------------------------------------------------------------------
(* Batches                                                                 *)

Gathers(c) == doing[c].op \in {"parallel", "throttled"}

\* The messages of the wave that begins with message i.
Wave(op, i, size) ==
    CASE op = "parallel" -> 1 .. size
      [] op = "throttled" -> {j \in i .. i + N - 1 : j <= size}
      [] OTHER -> {i}

Current(c) == Wave(doing[c].op, doing[c].from, doing[c].size)

\* _invoke_parallel: one task for each message of the wave, dealt to the
\* clients in order and not by the strategy.
Creates(c, op, i, size) ==
    req' = [r \in Requests |->
              IF r[1] = c /\ r[2] \in Wave(op, i, size)
              THEN [req[r] EXCEPT !.pc = "ready", !.on = 1 + ((r[2] - i) % N)]
              ELSE req[r]]

\* Few or short messages go one by one, many together or in waves.
Modes(size) == IF size < 3 THEN {"sequential"} ELSE {"sequential", "parallel", "throttled"}

-----------------------------------------------------------------------------
(* Callers                                                                 *)

\* invoke or astream on the pool, or invoke_batch up to its first await.
Begin(c) ==
    /\ doing[c].pc = "idle"
    /\ \E op \in {"invoke", "sequential", "parallel", "throttled"}, size \in 1 .. MaxBatch :
          /\ IF op = "invoke" THEN size = 1 ELSE op \in Modes(size)
          /\ doing' = [doing EXCEPT ![c] = [pc |-> "running", op |-> op, size |-> size, from |-> 1]]
          /\ \/ /\ op \in {"invoke", "sequential"}
                /\ Enters(<<c, 1>>, Selected(index, active), line, active, req)
                /\ Advances(1)
             \/ /\ op \in {"parallel", "throttled"}
                /\ Creates(c, op, 1, size)
                /\ UNCHANGED <<index, line, ahead, active>>
    /\ UNCHANGED <<strategy, faults>>

\* A client that is called by its own name: no slot, but it counts.
BeginDirect(c) ==
    /\ doing[c].pc = "idle"
    /\ doing' = [doing EXCEPT ![c].pc = "running", ![c].op = "direct"]
    /\ \E k \in Clients :
          /\ active' = [active EXCEPT ![k] = @ + 1]
          /\ req' = [req EXCEPT ![<<c, 1>>].pc = "calling", ![<<c, 1>>].on = k]
    /\ UNCHANGED <<strategy, index, line, ahead, faults>>

\* raw_invoke on the pool: the strategy is asked for the client that builds
\* the parameters and asked again for the one that sends them, with no slot.
BeginRaw(c) ==
    /\ doing[c].pc = "idle"
    /\ doing' = [doing EXCEPT ![c].pc = "running", ![c].op = "raw"]
    /\ req' = [req EXCEPT ![<<c, 1>>].pc = "calling",
                          ![<<c, 1>>].on = Selected(index + 1, active)]
    /\ Advances(2)
    /\ UNCHANGED <<strategy, line, ahead, active, faults>>

\* The task of one message of a batch starts; a cancelled one never does.
Run(r) ==
    /\ req[r].pc = "ready" /\ ~req[r].dying
    /\ Enters(r, req[r].on, line, active, req)
    /\ UNCHANGED <<strategy, index, doing, faults>>

\* The slot was handed to r, which goes on.
Resume(r) ==
    /\ req[r].pc = "waiting" /\ ~req[r].dying /\ First(r)
    /\ active' = [active EXCEPT ![req[r].on] = @ + 2]
    /\ req' = [req EXCEPT ![r].pc = "calling"]
    /\ UNCHANGED <<strategy, index, line, ahead, doing, faults>>

\* The client answers.  The task of a single request or of a message of a
\* sequential batch goes on; the others report to gather.
Answer(r) ==
    LET c == r[1]
    IN  /\ req[r].pc = "calling" /\ ~req[r].dying
        /\ \/ /\ Gathers(c)
              /\ Leaves(r, "ok")
              /\ UNCHANGED <<index, doing>>
           \/ /\ ~Gathers(c) /\ r[2] = doing[c].size
              /\ Leaves(r, "ok")
              /\ doing' = [doing EXCEPT ![c].pc = "ok"]
              /\ UNCHANGED index
           \/ /\ ~Gathers(c) /\ r[2] < doing[c].size
              /\ doing' = [doing EXCEPT ![c].from = @ + 1]
              /\ Enters(<<c, r[2] + 1>>, Selected(index, Lightened(r)), Without(r),
                        Lightened(r), [req EXCEPT ![r].pc = "ok"])
              /\ Advances(1)
        /\ UNCHANGED <<strategy, faults>>

\* The client raises.  The pool tries no other client.
Fail(r) ==
    /\ req[r].pc = "calling" /\ ~req[r].dying
    /\ faults < MaxFaults /\ faults' = faults + 1
    /\ Leaves(r, "failed")
    /\ doing' = IF Gathers(r[1]) THEN doing ELSE [doing EXCEPT ![r[1]].pc = "failed"]
    /\ UNCHANGED <<strategy, index>>

\* gather has lost one of its tasks: it has told its caller and lets go.
Raised(c) == \E j \in Current(c) : req[<<c, j>>].pc = "failed"

\* Mutant: a task does not let itself be cancelled while it waits for a slot.
ReachesCalls(c) ==
    {r \in Requests : r[1] = c /\ r[2] \in Current(c) /\ req[r].pc = "calling"}

\* task.cancel() on a caller reaches the request it is in, or through gather
\* every request of the wave that is not over.
Reaches(c) ==
    IF Gathers(c) /\ (Raised(c) \/ doing[c].pc = "asleep") THEN {}
    ELSE {r \in Requests : r[1] = c /\ r[2] \in Current(c) /\ Live(r)}

\* One that waits leaves the line at once, one that was handed the slot or is
\* in its call when it unwinds.
Stays(c) == [k \in Clients |-> {r \in line[k] : r \notin Reaches(c) \/ First(r)}]

Cancel(c) ==
    /\ doing[c].pc \in {"running", "asleep"}
    /\ faults < MaxFaults /\ faults' = faults + 1
    /\ doing' = [doing EXCEPT ![c].pc = "cancelling"]
    /\ req' = [r \in Requests |-> IF r \in Reaches(c) THEN [req[r] EXCEPT !.dying = TRUE] ELSE req[r]]
    /\ line' = Stays(c)
    /\ ahead' = Order(Stays(c))
    /\ UNCHANGED <<strategy, index, active>>

\* CancelledError goes through the request.
Unwind(r) ==
    /\ req[r].dying
    /\ Leaves(r, "cancelled")
    /\ UNCHANGED <<strategy, index, doing, faults>>

\* gather, with return_exceptions=False, is over with the first of its tasks
\* that raises or ends cancelled, whatever the others do.
Broken(c) == \E j \in Current(c) : req[<<c, j>>].pc \in {"failed", "cancelled"}

\* The caller that was cancelled gets its CancelledError.
Cancelled(c) ==
    /\ doing[c].pc = "cancelling"
    /\ \A j \in Current(c) : Live(<<c, j>>) => Gathers(c) /\ Broken(c)
    /\ doing' = [doing EXCEPT ![c].pc = "cancelled"]
    /\ UNCHANGED <<strategy, index, line, ahead, active, req, faults>>

\* Mutant: gather(return_exceptions=True).
AllOver(c) == \A j \in Current(c) : req[<<c, j>>].pc \in {"ok", "failed"}

\* Every task of the wave has answered.
AllAnswered(c) == \A j \in Current(c) : req[<<c, j>>].pc = "ok"

\* gather returns or raises.  Between two waves the caller sleeps.
WaveOver(c) ==
    /\ doing[c].pc = "running" /\ Gathers(c)
    /\ \/ Raised(c) /\ doing' = [doing EXCEPT ![c].pc = "failed"]
       \/ /\ AllAnswered(c)
          /\ doing' = [doing EXCEPT ![c].pc = IF doing[c].size \in Current(c) THEN "ok" ELSE "asleep"]
    /\ UNCHANGED <<strategy, index, line, ahead, active, req, faults>>

NextWave(c) ==
    /\ doing[c].pc = "asleep"
    /\ doing' = [doing EXCEPT ![c].pc = "running", ![c].from = @ + N]
    /\ Creates(c, doing[c].op, doing[c].from + N, doing[c].size)
    /\ UNCHANGED <<strategy, index, line, ahead, active, faults>>

-----------------------------------------------------------------------------

\* What the event loop does once something has begun.
Progress ==
    \/ \E r \in Requests : Run(r) \/ Resume(r) \/ Answer(r) \/ Unwind(r)
    \/ \E c \in Callers : Cancelled(c) \/ WaveOver(c) \/ NextWave(c)

PoolNext ==
    \/ Progress
    \/ \E c \in Callers : Begin(c) \/ BeginDirect(c) \/ BeginRaw(c) \/ Cancel(c)
    \/ \E r \in Requests : Fail(r)

PoolSpec == PoolInit /\ [][PoolNext]_poolVars

\* Tasks that are ready run and a client answers what it was sent: the loop as
\* a whole does not stop, which is enough because a task has finitely many
\* steps.
Fairness == WF_poolVars(Progress)

PoolFairSpec == PoolSpec /\ Fairness

-----------------------------------------------------------------------------

InSlot(k) == {r \in Requests : req[r].pc = "calling" /\ req[r].on = k /\ Weight(r[1]) = 2}
ByName(k) == {r \in Requests : req[r].pc = "calling" /\ req[r].on = k /\ Weight(r[1]) = 1}

\* However requests overlap, fail and are cancelled, before or after they were
\* handed the slot: the pool has at most one request at a client, and
\* active_requests, which least_busy goes by, counts it twice (once in the
\* pool, once in the client) and each request made past the pool once.
LoadCounted ==
    \A k \in Clients :
        /\ Cardinality(InSlot(k)) <= 1
        /\ active[k] = 2 * Cardinality(InSlot(k)) + Cardinality(ByName(k))

\* A batch returns only with an answer to each of its messages, and raises
\* only for one that failed; then no later wave or message was begun.
BatchAccounted ==
    \A c \in Callers :
        /\ doing[c].pc = "ok" => \A j \in 1 .. doing[c].size : req[<<c, j>>].pc = "ok"
        /\ doing[c].pc = "failed" =>
              /\ \E j \in Current(c) : req[<<c, j>>].pc = "failed"
              /\ \A j \in 1 .. MaxBatch :
                    (\A i \in Current(c) : i < j) => req[<<c, j>>].pc = "none"

\* What still runs when its caller has gone: the other messages of a wave that
\* one of them ended.  If one failed, they go on to their answers; if the
\* caller was cancelled, each of them has been cancelled too and is on its way
\* out, with its slot and its count until it is (asyncio.gather in
\* _invoke_parallel).
LeftRunning ==
    \A r \in Requests :
        Live(r) /\ doing[r[1]].pc \in {"ok", "failed", "cancelled"} =>
            /\ Gathers(r[1]) /\ r[2] \in Current(r[1]) /\ doing[r[1]].pc # "ok"
            /\ IF req[r].dying THEN doing[r[1]].pc = "cancelled" /\ Broken(r[1]) ELSE Raised(r[1])

\* Every request and every batch comes to an end when the clients answer: no
\* slot is lost, whoever was cancelled when it was handed to him.
EverythingEnds ==
    <>[](/\ \A r \in Requests : ~Live(r)
         /\ \A c \in Callers : doing[c].pc \notin {"running", "asleep", "cancelling"})

=============================================================================
