---------------------------- MODULE NodeDispatch ----------------------------
(***************************************************************************)
(* A turn of a conversation runs nodes (controller/node_controller.py):    *)
(* dispatch hands the turn's state and NodeContext to the node's one       *)
(* shared instance, runs the lifecycle under RetryHandler, puts the        *)
(* context's node name back, and goes on with the next node.  A node may   *)
(* call others while it executes.  Turns of the same process interleave at *)
(* the awaits: inside a node's execute and in the pause before a retry.    *)
(* An execution an intent skips is one that returns at once; the states a  *)
(* streaming node makes and the names of phases are left out.              *)
(***************************************************************************)
EXTENDS Naturals, Sequences

CONSTANTS
    Turns,              \* concurrent Orchestrator.run calls
    Nodes,
    Entry,              \* turn -> its entry node
    Config              \* node -> its entry in nodes.yaml and its class

None == "none"

(* next: what the routing block may resolve to, whatever the state holds;  *)
(* routes: what its route() may answer; calls: what its execute may call   *)
(* (once: a bound); attempts: max_attempts, 0 with retry off; onFailure    *)
(* and fallback: as in the retry block.                                    *)
ConfigType ==
    [next : SUBSET (Nodes \cup {None}), routes : SUBSET (Nodes \cup {None}),
     calls : SUBSET Nodes, attempts : Nat,
     onFailure : {"halt", "fail", "skip", "use_defaults", "escalate", "fallback"},
     fallback : Nodes \cup {None}]

ASSUME DispatchAssumption ==
    /\ None \notin Nodes \cup Turns
    /\ Entry \in [Turns -> Nodes]
    /\ Config \in [Nodes -> ConfigType]
    /\ \A n \in Nodes : Config[n].routes # {} /\ Config[n].next # {}

VARIABLES
    instState,          \* node -> the turn whose state its instance holds
    instCtx,            \* node -> the turn whose NodeContext its instance holds
    name,               \* turn -> current_node_name of its NodeContext
    state,              \* turn -> the keys of its state that steer dispatch
    stack,              \* turn -> its open dispatches, the innermost first
    status,             \* turn -> "new", "running", "done" or "raised"
    shared,             \* history: turns in a node when another turn entered it
    lent                \* history: turns whose NodeContext another turn got

vars == <<instState, instCtx, name, state, stack, status, shared, lent>>

Frame == [node : Nodes, ctx : Turns, llm : Turns, prev : Nodes \cup {None},
          attempt : Nat \ {0}, pc : {"execute", "call", "backoff"},
          called : BOOLEAN, failed : BOOLEAN, inherited : BOOLEAN]

Init ==
    /\ instState = [n \in Nodes |-> None]
    /\ instCtx = [n \in Nodes |-> None]
    /\ name = Entry
    /\ state = [t \in Turns |-> [error |-> FALSE, next |-> None]]
    /\ stack = [t \in Turns |-> <<>>]
    /\ status = [t \in Turns |-> "new"]
    /\ shared = {}
    /\ lent = {}

-----------------------------------------------------------------------------
\* What dispatch is made of.

\* Mutant: the instance keeps the first state it was handed.
HandedOnce(inst, n, x) == IF inst[n] = None THEN [inst EXCEPT ![n] = x] ELSE inst

Handed(inst, n, x) == [inst EXCEPT ![n] = x]

Inside(t) == {stack[t][i].node : i \in DOMAIN stack[t]}

\* Up to the first await of execute: the instance gets state and context, the
\* context the node's name, and the LLMContext that PRE_DISPATCH makes carries
\* the instance's context.
Dispatch(t, n, c, below, names, s) ==
    /\ instState' = Handed(instState, n, t)
    /\ instCtx' = Handed(instCtx, n, c)
    /\ name' = [names EXCEPT ![c] = n]
    /\ state' = [state EXCEPT ![t] = s]
    /\ stack' = [stack EXCEPT ![t] =
         <<[node |-> n, ctx |-> c, llm |-> instCtx'[n], prev |-> names[c],
            attempt |-> 1, pc |-> "execute", called |-> FALSE, failed |-> FALSE,
            inherited |-> s.error]>> \o below]
    /\ status' = [status EXCEPT ![t] = "running"]
    /\ shared' = shared \cup {u \in Turns \ {t} : n \in Inside(u)}
    /\ lent' = lent \cup ({c} \ {t})

\* Mutant: no finally.
RestoredNot(f) == name

\* The finally of dispatch.
Restored(f) == [name EXCEPT ![f.ctx] = f.prev]

\* Control is back in the execute that called, or the turn is over.
Leave(t, below, names, s, how) ==
    /\ name' = names
    /\ state' = [state EXCEPT ![t] = s]
    /\ stack' = [stack EXCEPT ![t] =
         IF below = <<>> THEN <<>>
         ELSE <<[Head(below) EXCEPT !.pc = "execute"]>> \o Tail(below)]
    /\ status' = [status EXCEPT ![t] = IF below = <<>> THEN how ELSE "running"]
    /\ UNCHANGED <<instState, instCtx, shared, lent>>

-----------------------------------------------------------------------------
\* RetryHandler and the failure types.

Again(f) == f.attempt < Config[f.node].attempts

\* Mutant: the error stays.
ClearedNot(s) == s

Cleared(s) == [s EXCEPT !.error = FALSE]

\* Mutant: attempts are not counted.
NextAttemptUncounted(f) == f

NextAttempt(f) == [f EXCEPT !.attempt = @ + 1]

Clears(n) == Config[n].onFailure \in {"skip", "use_defaults", "escalate", "fallback"}

\* The handler runs after the last attempt: anything but the four leaves error.
GivenUp(n, s) == Config[n].attempts > 0 /\ s.error
Handled(n, s) == IF GivenUp(n, s) /\ Clears(n) THEN Cleared(s) ELSE s

\* RouteResolver.resolve by the node's routing block, some way or other.
Resolved(n) == Config[n].next

\* _resolve_next_node, where the routing block gives r, and the fallback that
\* overrides it.
NextNode(n, s, r) ==
    CASE GivenUp(n, s) /\ Config[n].onFailure = "fallback" -> Config[n].fallback
      [] s.next # None -> s.next
      [] OTHER -> r

-----------------------------------------------------------------------------

Top(t) == Head(stack[t])
Executing(t) == stack[t] # <<>> /\ Top(t).pc = "execute"

\* A failure is one of every dispatch it happens in.
Blamed(s, failed) ==
    IF failed THEN [i \in DOMAIN s |-> [s[i] EXCEPT !.failed = TRUE]] ELSE s

Start(t) ==
    /\ status[t] = "new"
    /\ Dispatch(t, Entry[t], t, <<>>, name, state[t])

\* self.call and self.goto: with the context the instance holds by now.
Call(t, n) ==
    /\ Executing(t)
    /\ ~Top(t).called
    /\ n \in Config[Top(t).node].calls
    /\ LET caller == [Top(t) EXCEPT !.pc = "call", !.called = TRUE]
       IN  Dispatch(t, n, instCtx[Top(t).node], <<caller>> \o Tail(stack[t]),
                    name, state[t])

\* The state when execute has returned, with an error or not, and the ROUTE
\* hook has written the answer of route().
Executed(t, failed, route) ==
    [error |-> state[t].error \/ failed, next |-> route]

BackOff(t) ==
    /\ Executing(t)
    /\ Again(Top(t))
    /\ \E failed \in BOOLEAN, route \in Config[Top(t).node].routes :
         /\ Executed(t, failed, route).error
         /\ state' = [state EXCEPT ![t] = Executed(t, failed, route)]
         /\ LET s == Blamed(stack[t], failed)
            IN  stack' = [stack EXCEPT ![t] =
                            <<[Head(s) EXCEPT !.pc = "backoff"]>> \o Tail(s)]
    /\ UNCHANGED <<instState, instCtx, name, status, shared, lent>>

\* The next attempt: nothing is handed to the instance again.
Retry(t) ==
    /\ stack[t] # <<>>
    /\ Top(t).pc = "backoff"
    /\ state' = [state EXCEPT ![t] = Cleared(@)]
    /\ stack' = [stack EXCEPT ![t] =
         <<[NextAttempt(Top(t)) EXCEPT
              !.pc = "execute", !.called = FALSE, !.failed = FALSE,
              !.llm = instCtx[Top(t).node]]>> \o Tail(@)]
    /\ UNCHANGED <<instState, instCtx, name, status, shared, lent>>

\* The node is done with: on to the next one, or back.
Complete(t) ==
    /\ Executing(t)
    /\ \E failed \in BOOLEAN, route \in Config[Top(t).node].routes,
          resolved \in Resolved(Top(t).node) :
         LET f == Top(t)
             s == Executed(t, failed, route)
             below == Tail(Blamed(stack[t], failed))
             next == NextNode(f.node, s, resolved)
         IN  /\ ~(Again(f) /\ s.error)
             /\ \/ /\ next # None
                   /\ Dispatch(t, next, f.ctx, below, Restored(f),
                               Handled(f.node, s))
                \/ /\ next = None
                   /\ Leave(t, below, Restored(f), Handled(f.node, s), "done")

\* execute raises, or the turn is cancelled in an await: nothing on the way
\* retries; the caller may catch it.
Raise(t) ==
    /\ stack[t] # <<>>
    /\ Leave(t, Tail(Blamed(stack[t], TRUE)), Restored(Top(t)), state[t], "raised")

Step(t) ==
    \/ \E n \in Nodes : Call(t, n)
    \/ BackOff(t) \/ Retry(t) \/ Complete(t) \/ Raise(t)

Next == \E t \in Turns : Start(t) \/ Step(t)

Spec == Init /\ [][Next]_vars

\* An execute returns and a pause ends: client timeouts and the event loop.
Fairness == \A t \in Turns : WF_vars(Step(t))

FairSpec == Spec /\ Fairness

-----------------------------------------------------------------------------
\* Type invariant: in particular no node gets more attempts than configured
\* (the loop of execute_with_retry).
TypeOK ==
    /\ instState \in [Nodes -> Turns \cup {None}]
    /\ instCtx \in [Nodes -> Turns \cup {None}]
    /\ name \in [Turns -> Nodes \cup {None}]
    /\ state \in [Turns -> [error : BOOLEAN, next : Nodes \cup {None}]]
    /\ stack \in [Turns -> Seq(Frame)]
    /\ status \in [Turns -> {"new", "running", "done", "raised"}]
    /\ shared \subseteq Turns
    /\ lent \subseteq Turns
    /\ \A t \in Turns : \A i \in DOMAIN stack[t] :
         \/ stack[t][i].attempt = 1
         \/ stack[t][i].attempt <= Config[stack[t][i].node].attempts

\* A node instance is shared by all turns; a turn that no other turn joined in
\* a node finds its own state and context there (set_state and set_context of
\* dispatch), in nested calls and in retries too.
Isolated ==
    \A t \in Turns \ shared : \A i \in DOMAIN stack[t] :
      LET f == stack[t][i]
      IN  /\ instState[f.node] = t
          /\ instCtx[f.node] = t
          /\ f.ctx = t
          /\ f.llm = t

\* current_node_name, which events and saved messages carry, is the innermost
\* node of the turn, and the entry node before and after: dispatch saves and
\* restores it through nested calls, retries and exceptions.  This holds for a
\* turn that shares no node and whose context no other turn was handed.
NameIsInnermost ==
    \A t \in Turns \ (shared \cup lent) :
      name[t] = IF stack[t] = <<>> THEN Entry[t] ELSE Top(t).node

\* RetryHandler runs a node again because an execution in that dispatch failed,
\* or, the first time only, because the state already held an error.
RetryIsEarned ==
    \A t \in Turns : \A i \in DOMAIN stack[t] :
      LET f == stack[t][i]
      IN  f.pc = "backoff" => f.failed \/ (f.attempt = 1 /\ f.inherited)

\* Where the routing has no cycle every turn comes to an end.
TurnsEnd == \A t \in Turns : status[t] = "running" ~> status[t] \in {"done", "raised"}

=============================================================================
