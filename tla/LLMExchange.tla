----------------------------- MODULE LLMExchange -----------------------------
(***************************************************************************)
(* LLMManager.invoke and the lifecycle executor (llm/lifecycle): the       *)
(* processors of one synchronous invocation after another, those of        *)
(* llm/processors registered by default and the opt-in ones, the context   *)
(* they share, which a node hands on from call to call, the cache of       *)
(* responses, and the background task of the suggestions.  Every stage     *)
(* ends at an await.                                                       *)
(***************************************************************************)
EXTENDS Naturals, Sequences

CONSTANTS
    OptIns,             \* processors a configuration may add
    ToolsGiven,         \* ways a caller passes tools: "none", "kwargs", "both"
    MaxInvocations      \* bound: invocations

ASSUME ExchangeAssumption ==
    /\ OptIns \subseteq {"ResponseCache", "ProviderFallback", "ToolResultCache",
                         "ParallelToolExecutor", "ResponseCachePersistence",
                         "SuggestionsGenerator"}
    /\ ToolsGiven \subseteq {"none", "kwargs", "both"}
    /\ MaxInvocations \in Nat

Invocations == 1 .. MaxInvocations

\* Mutant: the suggestions come before the exchange is persisted.
SuggestsFirst == <<
    "HistoryRetrieval", "MessageBuilder", "PromptRegistration", "ResponseCache", "Wait",
    "LLMInvoke", "ProviderFallback", "Wait",
    "ToolExecutor", "ToolResultCache", "ParallelToolExecutor", "Wait",
    "TransformerPipeline", "ResponseCachePersistence", "Wait",
    "SuggestionsGenerator", "HistoryPersistence", "CostTracker", "UsageLogger", "Wait" >>

\* register_processor keeps the order of registration among equals, the
\* processors of the configuration last; every hook waits for its tasks.
Pipeline == <<
    "HistoryRetrieval", "MessageBuilder", "PromptRegistration", "ResponseCache", "Wait",
    "LLMInvoke", "ProviderFallback", "Wait",
    "ToolExecutor", "ToolResultCache", "ParallelToolExecutor", "Wait",
    "TransformerPipeline", "ResponseCachePersistence", "Wait",
    "HistoryPersistence", "CostTracker", "UsageLogger", "SuggestionsGenerator", "Wait" >>

Optional == {"ResponseCache", "ProviderFallback", "ToolResultCache",
             "ParallelToolExecutor", "ResponseCachePersistence", "SuggestionsGenerator"}

VARIABLES
    optin,              \* the opt-in processors registered
    tools,              \* how tools are passed
    reused,             \* the caller hands its context on to the next call
    inv,                \* invocations begun
    at,                 \* place in Pipeline, 0 between invocations
    messages,           \* context.messages: roles, oldest first
    response,           \* context.response: whose call, any tool calls, any text
    substate,           \* context.active_substates
    skip,               \* context.skip_remaining
    key,                \* metadata["cache_key"], 0 when absent
    cached,             \* the cache: [key, response]
    outcome,            \* invocation -> "none", "returned", "raised"
    reply,              \* history: invocation -> the response it returned
    task,               \* invocation -> its suggestions task
    stored,             \* exchanges in the session's history, oldest first
    read                \* history: invocation -> what its task found stored

control == <<substate, skip, key>>
context == <<messages, response, control>>
setting == <<optin, tools, reused>>
ending == <<outcome, reply>>
history == <<stored, read>>
vars == <<setting, inv, at, context, cached, ending, task, history>>

NoResponse == [by |-> 0, asks |-> FALSE, text |-> FALSE]

\* Stands for the invocations of other sessions, which share the cache.
Another == MaxInvocations + 1

Responses == [by : Invocations \cup {0, Another}, asks : BOOLEAN, text : BOOLEAN]

Init ==
    /\ optin \in SUBSET OptIns
    /\ tools \in ToolsGiven
    /\ reused \in BOOLEAN
    /\ inv = 0 /\ at = 0
    /\ messages = <<>> /\ response = NoResponse
    /\ substate = "default" /\ skip = FALSE /\ key = 0
    /\ cached = {}
    /\ reply = [k \in Invocations |-> NoResponse]
    /\ outcome = [k \in Invocations |-> "none"]
    /\ task = [k \in Invocations |-> "none"]
    /\ stored = <<>>
    /\ read = [k \in Invocations |-> <<>>]

-----------------------------------------------------------------------------

\* should_run: the opt-in ones when registered, and all of them only in the
\* default substate and while nothing has set skip_remaining.
Runs(p) ==
    \/ p = "Wait"
    \/ /\ p \in Optional => p \in optin
       /\ ~skip
       /\ p \in {"CostTracker", "UsageLogger"} \/ substate = "default"

Running(p) == at # 0 /\ Pipeline[at] = p /\ Runs(p)

\* The executor is through: invoke returns the context's response, and raises
\* when there is none.
Returns(k) ==
    /\ at' = 0
    /\ outcome' = [outcome EXCEPT ![k] = IF response.by = 0 THEN "raised" ELSE "returned"]
    /\ reply' = [reply EXCEPT ![k] = response]

\* The next stage; the executor leaves after the last hook, and after one that
\* set skip_remaining.
Advance ==
    IF at = Len(Pipeline) \/ (skip /\ Pipeline[at] = "Wait") THEN Returns(inv)
    ELSE at' = at + 1 /\ UNCHANGED ending

Raises == at' = 0 /\ outcome' = [outcome EXCEPT ![inv] = "raised"] /\ UNCHANGED reply

\* invoke: populate sets the fields the caller gives; the rest of a context
\* handed on stays as the last call left it, skip_remaining included, with
\* which no hook runs at all.
Invoke ==
    /\ at = 0 /\ inv < MaxInvocations
    /\ inv' = inv + 1
    /\ messages' = <<>>
    /\ IF reused THEN UNCHANGED <<response, control>>
       ELSE response' = NoResponse /\ substate' = "default" /\ skip' = FALSE /\ key' = 0
    /\ IF reused /\ skip THEN Returns(inv + 1) ELSE at' = 1 /\ UNCHANGED ending
    /\ UNCHANGED <<setting, cached, task, history>>

\* A processor that does not run, or changes nothing another one reads.
Pass ==
    /\ at # 0
    /\ ~Runs(Pipeline[at]) \/ Pipeline[at] \in {"PromptRegistration", "CostTracker", "UsageLogger"}
    /\ Advance
    /\ UNCHANGED <<setting, inv, context, cached, task, history>>

HistoryRetrieval ==
    /\ Running("HistoryRetrieval")
    /\ \/ messages' = [i \in DOMAIN stored |-> "history"] \o messages /\ Advance
       \/ Raises /\ UNCHANGED messages
    /\ UNCHANGED <<setting, inv, response, control, cached, task, history>>

MessageBuilder ==
    /\ Running("MessageBuilder")
    /\ messages' = Append(messages, "user")
    /\ Advance
    /\ UNCHANGED <<setting, inv, response, control, cached, task, history>>

\* ResponseCache: a response stored under the same messages, here or in
\* another session, ends the invocation.  The question may be another one,
\* the entry too old, the cache out of reach.
ResponseCache ==
    /\ Running("ResponseCache")
    /\ key' = Len(messages)
    /\ \/ /\ \E r \in Responses :
             /\ r.by = Another \/ [key |-> Len(messages), response |-> r] \in cached
             /\ response' = r
          /\ skip' = TRUE
       \/ UNCHANGED <<response, skip>>
    /\ Advance
    /\ UNCHANGED <<setting, inv, messages, substate, cached, task, history>>

\* A model asks only for tools it was told of; it may say nothing.
Answers(r) == r \in [by : {inv}, asks : {FALSE, tools # "none"}, text : BOOLEAN]

LLMInvoke ==
    /\ Running("LLMInvoke")
    /\ \/ \E r \in Responses : Answers(r) /\ response' = r /\ Advance
       \/ Raises /\ UNCHANGED response
    /\ UNCHANGED <<setting, inv, messages, control, cached, task, history>>

\* ProviderFallback calls every provider until one answers, whatever
\* LLMInvoke's answer was.
ProviderFallback ==
    /\ Running("ProviderFallback")
    /\ \/ \E r \in Responses : Answers(r) /\ response' = r /\ Advance
       \/ Raises /\ UNCHANGED response
    /\ UNCHANGED <<setting, inv, messages, control, cached, task, history>>

\* Mutant: the substates are put back only when the call succeeds.
RestoresOnSuccess == substate' = "tool_result"

\* The finally of the tool loop.
Restores == UNCHANGED substate

\* ToolExecutor: only tools of the configuration are looked at.  The tools
\* run, and the call that follows is given "tools" twice, which raises.
ToolExecutor ==
    /\ Running("ToolExecutor")
    /\ IF response.asks /\ tools = "both"
       THEN /\ messages' = messages \o <<"assistant", "tool">>
            /\ Restores
            /\ Raises
       ELSE Advance /\ UNCHANGED <<messages, substate>>
    /\ UNCHANGED <<setting, inv, response, skip, key, cached, task, history>>

\* ToolResultCache: runs or remembers the tools and calls no model.
ToolResultCache ==
    /\ Running("ToolResultCache")
    /\ messages' = IF response.asks THEN Append(messages, "tool") ELSE messages
    /\ Advance
    /\ UNCHANGED <<setting, inv, response, control, cached, task, history>>

\* ParallelToolExecutor: the results go into the metadata.
ParallelToolExecutor ==
    /\ Running("ParallelToolExecutor")
    /\ Advance
    /\ UNCHANGED <<setting, inv, context, cached, task, history>>

TransformerPipeline ==
    /\ Running("TransformerPipeline")
    /\ Advance \/ Raises
    /\ UNCHANGED <<setting, inv, context, cached, task, history>>

\* ResponseCachePersistence: a cache that cannot be written is logged.
ResponseCachePersistence ==
    /\ Running("ResponseCachePersistence")
    /\ \/ /\ key # 0 /\ response.by # 0
          /\ cached' = cached \cup {[key |-> key, response |-> response]}
       \/ UNCHANGED cached
    /\ Advance
    /\ UNCHANGED <<setting, inv, context, task, history>>

\* The last message, and the response when it has any text.
Exchange ==
    [of |-> inv, by |-> response.by, asked |-> messages[Len(messages)], text |-> response.text]

\* The save fails, before or after the session has the exchange.
HistoryPersistence ==
    /\ Running("HistoryPersistence")
    /\ \/ stored' = Append(stored, Exchange) /\ (Advance \/ Raises)
       \/ Raises /\ UNCHANGED stored
    /\ UNCHANGED <<setting, inv, context, cached, task, read>>

SuggestionsGenerator ==
    /\ Running("SuggestionsGenerator")
    /\ task' = [task EXCEPT ![inv] = "reading"]
    /\ Advance
    /\ UNCHANGED <<setting, inv, context, cached, history>>

Unfinished == {"reading", "asking", "storing"}

\* Mutant: the tasks are waited for and left running after the timeout.
TimesOutRunning == UNCHANGED task

\* Mutant: the tasks are waited for without a timeout.
WaitsForAll == (\A k \in Invocations : task[k] \notin Unfinished) /\ UNCHANGED task

\* gather ends with the last task, or wait_for cancels those it waited for.
TimesOut == task' = [k \in Invocations |-> IF task[k] \in Unfinished THEN "cancelled" ELSE task[k]]

\* wait_for_pending_tasks, at the end of every hook.
Wait ==
    /\ Running("Wait")
    /\ TimesOut
    /\ Advance
    /\ UNCHANGED <<setting, inv, context, cached, history>>

\* _generate_suggestions: reads the history, which has to have two messages,
\* asks a model in an invocation of its own, whose exchange is stored in the
\* same session.  Errors are logged.
Suggest(k) ==
    /\ \/ /\ task[k] = "reading"
          /\ Len(stored) > 1 \/ \E i \in DOMAIN stored : stored[i].text
          /\ read' = [read EXCEPT ![k] = stored]
          /\ task' = [task EXCEPT ![k] = "asking"]
          /\ UNCHANGED stored
       \/ /\ task[k] = "asking"
          /\ task' = [task EXCEPT ![k] = "storing"]
          /\ UNCHANGED history
       \/ /\ task[k] = "storing"
          /\ \E said \in BOOLEAN :
                stored' = Append(stored, [of |-> k, by |-> 0, asked |-> "suggestions", text |-> said])
          /\ task' = [task EXCEPT ![k] = "done"]
          /\ UNCHANGED read
       \/ /\ task[k] \in Unfinished
          /\ task' = [task EXCEPT ![k] = "done"]
          /\ UNCHANGED history
    /\ UNCHANGED <<setting, inv, at, context, cached, ending>>

Stage ==
    \/ Pass \/ HistoryRetrieval \/ MessageBuilder \/ ResponseCache
    \/ LLMInvoke \/ ProviderFallback
    \/ ToolExecutor \/ ToolResultCache \/ ParallelToolExecutor
    \/ TransformerPipeline \/ ResponseCachePersistence
    \/ HistoryPersistence \/ SuggestionsGenerator \/ Wait

Next == Invoke \/ Stage \/ \E k \in Invocations : Suggest(k)

Spec == Init /\ [][Next]_vars

\* Providers answer or fail, and the event loop resumes who waits.
FairSpec == Spec /\ WF_vars(Stage)

-----------------------------------------------------------------------------

Entries(k) == {i \in DOMAIN stored : stored[i].of = k}

Stored(k) == {i \in Entries(k) : stored[i].by = k}

Roles == {"history", "user", "assistant", "tool"}

Exchanges ==
    [of : Invocations, by : Invocations \cup {0, Another},
     asked : {"user", "tool", "suggestions"}, text : BOOLEAN]

TypeOK ==
    /\ optin \subseteq Optional /\ tools \in {"none", "kwargs", "both"} /\ reused \in BOOLEAN
    /\ inv \in 0 .. MaxInvocations /\ at \in 0 .. Len(Pipeline)
    /\ messages \in Seq(Roles)
    /\ response \in Responses
    /\ substate \in {"default", "tool_result"} /\ skip \in BOOLEAN /\ key \in Nat
    /\ cached \subseteq [key : Nat, response : Responses]
    /\ outcome \in [Invocations -> {"none", "returned", "raised"}]
    /\ reply \in [Invocations -> Responses]
    /\ task \in [Invocations -> Unfinished \cup {"none", "cancelled", "done"}]
    /\ stored \in Seq(Exchanges)
    /\ read \in [Invocations -> Seq(Exchanges)]

\* A reply this invocation asked a model for is stored before it is returned,
\* once, under its question or its tools' results, and with its text when it
\* has any.  The only other reply ever returned is a cached one, and then the
\* history has nothing of the invocation: also when the context is one that an
\* earlier, failed invocation left behind (executor.execute, the finally of
\* tool_executor.py, HistoryPersistence, ResponseCache).
ReturnedIsStored ==
    \A k \in Invocations : outcome[k] = "returned" =>
        IF reply[k].by = k
        THEN \E i \in DOMAIN stored :
                 /\ Stored(k) = {i}
                 /\ stored[i].asked \in {"user", "tool"}
                 /\ stored[i].text = reply[k].text
        ELSE "ResponseCache" \in optin /\ Entries(k) = {}

\* No background task outlives the invocation that started it: none uses the
\* session or the context once the reply is returned
\* (LLMContext.wait_for_pending_tasks).
TasksEnd == \A k \in Invocations : outcome[k] # "none" => task[k] \notin Unfinished

\* The suggestions are made from a history that has the exchange they are to
\* follow, the reply included if it says anything (suggestions_generator.py:
\* "after conversation persisted").
SuggestionsFollow ==
    \A k \in Invocations : task[k] \in {"asking", "storing"} =>
        \E i \in DOMAIN read[k] :
            read[k][i].of = k /\ read[k][i].by = k /\ read[k][i].text = response.text

\* Every invocation returns or raises, whatever its background tasks do
\* (wait_for_pending_tasks with its timeout).
InvocationEnds == \A k \in Invocations : inv = k ~> outcome[k] # "none"

\* README: the synchronous tool loop "executes tool calls and re-invokes LLM
\* until no more tools": no reply is returned with tool calls unanswered.
ToolCallsAnswered ==
    \A k \in Invocations : outcome[k] = "returned" /\ reply[k].by = k => ~reply[k].asks

=============================================================================
