-------------------------- MODULE StreamingResponse --------------------------
(***************************************************************************)
(* llm/responses/streaming_response.py: one streamed LLM response, from    *)
(* the moment LLMManager.astream has returned it.  It is a nest of async   *)
(* generators the caller drives by pulling: transformers around            *)
(* deferred_stream around the tool loop around the provider's stream; the  *)
(* deferred FINALIZE hook of the lifecycle runs in deferred_stream's       *)
(* finally block.  A step is what runs from one await or yield to the      *)
(* next.  A chunk is named <<round, n>>: the n-th text chunk of the round- *)
(* th provider stream of this response.                                    *)
(***************************************************************************)
EXTENDS Integers, Sequences, FiniteSets

CONSTANTS
    Pipelines,          \* transformer lists a node may configure, each a
                        \* sequence of "pass" and "pattern" (accumulators)
    MaxRounds,          \* bound: provider streams one response may open
    MaxText             \* bound: text chunks of one provider stream

ASSUME StreamAssumption ==
    /\ MaxRounds \in Nat \ {0}
    /\ MaxText \in Nat \ {0}
    /\ \A p \in Pipelines : p \in Seq({"pass", "pattern"})

VARIABLES
    transformers,       \* the list of this response
    withTools,          \* StreamingToolExecutor has set _tool_executor_callback
    round,              \* the provider stream being read
    sent,               \* text chunks of it so far
    toolBuffer,         \* it has asked for tools: tool_calls_buffer
    tools,              \* the round whose calls are in _accumulated_tools, or 0
    executed,           \* history: the rounds whose calls were executed, in order
    usage,              \* rounds counted in _accumulated_usage
    reported,           \* history: the rounds whose stream reported its usage
    held,               \* buffered_chunks not yielded yet
    content,            \* _content
    at,                 \* where deferred_stream is
    cur, idx, handled,  \* _transform_stream: the chunk, the loop index, chunk_handled
    acc,                \* what each accumulator holds back
    out,                \* what the caller has received
    caller,             \* what the caller is doing
    exc,                \* how deferred_stream came to its finally block
    fin,                \* the deferred FINALIZE hook
    saved               \* what FINALIZE has billed and stored

provider == <<round, sent, toolBuffer, usage, reported>>
loop == <<tools, executed, held>>
wrapper == <<cur, idx, handled, acc>>
config == <<transformers, withTools>>
vars == <<config, provider, loop, content, at, wrapper, out, caller, exc, fin, saved>>

NoChunk == <<0, 0>>
Chunks == (1 .. MaxRounds) \X (1 .. MaxText)
N == Len(transformers)

Init ==
    /\ transformers \in Pipelines
    /\ withTools \in BOOLEAN
    /\ round = 1
    /\ sent = 0
    /\ toolBuffer = FALSE
    /\ tools = 0
    /\ executed = <<>>
    /\ usage = {}
    /\ reported = {}
    /\ held = <<>>
    /\ content = <<>>
    /\ at = "fresh"
    /\ cur = NoChunk
    /\ idx = 1
    /\ handled = FALSE
    /\ acc = [i \in 1 .. N |-> <<>>]
    /\ out = <<>>
    /\ caller = "holding"
    /\ exc = "none"
    /\ fin = "no"
    /\ saved = [content |-> <<>>, usage |-> {}]

-----------------------------------------------------------------------------
\* The caller.

\* __anext__ on the outermost generator.
Pull ==
    /\ caller \in {"holding", "has"}
    /\ caller' = "pulling"
    /\ at' = IF at = "fresh" THEN "reading" ELSE at
    /\ UNCHANGED <<config, provider, loop, content, wrapper, out, exc, fin, saved>>

\* The caller stops iterating (break, an exception of its own, a client that
\* went away) or never starts; the generators stay suspended where they are.
Leave ==
    /\ caller \in {"holding", "has"}
    /\ caller' = "left"
    /\ UNCHANGED <<config, provider, loop, content, at, wrapper, out, exc, fin, saved>>

-----------------------------------------------------------------------------
\* deferred_stream and what it wraps.

\* finally: the first time, the lifecycle goes on with the deferred hooks.
Finally(why) ==
    /\ at' = "resuming"
    /\ exc' = why
    /\ fin' = "running"
    /\ UNCHANGED saved

\* What the hooks leave behind.  CostTracker bills the usage accumulated by
\* now, then HistoryPersistence stores the text; an exception in one of them or
\* a cancellation cuts that short anywhere.
Complete == [content |-> content, usage |-> usage]
CutShort == {saved, [saved EXCEPT !.usage = usage], Complete}

\* deferred_stream yields a chunk: to the caller, or to _transform_stream.
Yield(x) ==
    IF N = 0 THEN /\ out' = Append(out, x)
                  /\ caller' = "has"
                  /\ UNCHANGED wrapper
             ELSE /\ cur' = x
                  /\ idx' = 1
                  /\ handled' = FALSE
                  /\ UNCHANGED <<acc, out, caller>>

Reading == caller = "pulling" /\ cur = NoChunk /\ at = "reading"

\* _process_stream, a chunk with text in it; _tool_handler keeps the text of
\* the first stream back until it knows whether tools are to be called.
ProviderText ==
    /\ Reading
    /\ sent < MaxText
    /\ LET x == <<round, sent + 1>> IN
         /\ content' = Append(content, x)
         /\ IF withTools /\ round = 1
            THEN held' = Append(held, x) /\ UNCHANGED <<wrapper, out, caller>>
            ELSE Yield(x) /\ UNCHANGED held
    /\ sent' = sent + 1
    /\ UNCHANGED <<config, round, toolBuffer, usage, reported, tools, executed, at, exc, fin,
                   saved>>

ProviderTool ==
    /\ Reading
    /\ withTools
    /\ ~toolBuffer
    /\ round < MaxRounds
    /\ toolBuffer' = TRUE
    /\ UNCHANGED <<config, round, sent, usage, reported, loop, content, at, wrapper, out,
                   caller, exc, fin, saved>>

\* Mutant: the usage of a later stream replaces that of the earlier ones.
ProviderUsageReplaces ==
    /\ Reading
    /\ round \notin reported
    /\ reported' = reported \cup {round}
    /\ usage' = {round}
    /\ UNCHANGED <<config, round, sent, toolBuffer, loop, content, at, wrapper, out,
                   caller, exc, fin, saved>>

\* A provider reports usage once in a stream, or never; it is added to what
\* the earlier streams reported.
ProviderUsage ==
    /\ Reading
    /\ round \notin reported
    /\ reported' = reported \cup {round}
    /\ usage' = usage \cup {round}
    /\ UNCHANGED <<config, round, sent, toolBuffer, loop, content, at, wrapper, out,
                   caller, exc, fin, saved>>

\* The provider's stream ends, whatever it has reported: the tool calls in its buffer are accumulated,
\* and the loop executes them or yields what it kept back and ends.
ProviderEnd ==
    /\ Reading
    /\ tools' = IF toolBuffer THEN round ELSE tools
    /\ \/ /\ ~withTools
          /\ Finally("none")
       \/ /\ withTools
          /\ at' = IF tools' # 0 THEN "calling" ELSE "replaying"
          /\ UNCHANGED <<exc, fin, saved>>
    /\ UNCHANGED <<config, provider, executed, held, content, wrapper, out, caller>>

ProviderFails ==
    /\ Reading
    /\ Finally("raised")
    /\ UNCHANGED <<config, provider, loop, content, wrapper, out, caller>>

\* Mutant: the loop ends without the last chunk it kept back.
ReplayDropsLast ==
    /\ caller = "pulling" /\ cur = NoChunk /\ at = "replaying"
    /\ \/ /\ Len(held) > 1
          /\ Yield(Head(held))
          /\ held' = Tail(held)
          /\ UNCHANGED <<at, exc, fin, saved>>
       \/ /\ Len(held) <= 1
          /\ Finally("none")
          /\ held' = <<>>
          /\ UNCHANGED <<wrapper, out, caller>>
    /\ UNCHANGED <<config, provider, tools, executed, content>>

\* No more tools: what the loop kept back of the first stream goes out, after
\* the text of the later ones, and deferred_stream ends.
Replay ==
    /\ caller = "pulling" /\ cur = NoChunk /\ at = "replaying"
    /\ \/ /\ held # <<>>
          /\ Yield(Head(held))
          /\ held' = Tail(held)
          /\ UNCHANGED <<at, exc, fin, saved>>
       \/ /\ held = <<>>
          /\ Finally("none")
          /\ UNCHANGED <<held, wrapper, out, caller>>
    /\ UNCHANGED <<config, provider, tools, executed, content>>

\* Mutant: _accumulated_tools is not cleared for the next stream.
ToolsAnsweredKeeps ==
    /\ at = "calling"
    /\ round < MaxRounds
    /\ executed' = Append(executed, tools)
    /\ round' = round + 1
    /\ sent' = 0
    /\ toolBuffer' = FALSE
    /\ at' = "reading"
    /\ UNCHANGED <<config, tools, usage, reported, held, content, wrapper, out, caller,
                   exc, fin, saved>>

\* _tool_executor_callback: every tool call is executed, its error if it fails
\* becoming its result, and the client opens the next stream.
ToolsAnswered ==
    /\ at = "calling"
    /\ round < MaxRounds
    /\ executed' = Append(executed, tools)
    /\ round' = round + 1
    /\ sent' = 0
    /\ toolBuffer' = FALSE
    /\ tools' = 0
    /\ at' = "reading"
    /\ UNCHANGED <<config, usage, reported, held, content, wrapper, out, caller, exc, fin,
                   saved>>

\* No controller, no client, or the next stream cannot be opened.
ToolsFail ==
    /\ at = "calling"
    /\ executed' \in {executed, Append(executed, tools)}
    /\ Finally("raised")
    /\ UNCHANGED <<config, provider, tools, held, content, wrapper, out, caller>>

\* The deferred hooks end, well or with an exception that is only logged; then
\* the generator ends or the exception that was on its way goes on.
FinalizeEnds ==
    /\ at = "resuming"
    /\ \/ fin' = "done" /\ saved' = Complete
       \/ fin' = "failed" /\ saved' \in CutShort
    /\ at' = IF exc = "none" /\ N > 0 THEN "flushing" ELSE "closed"
    /\ idx' = IF at' = "flushing" THEN 1 ELSE idx
    /\ caller' = CASE exc = "raised" -> "error"
                   [] exc = "none" /\ N = 0 -> "done"
                   [] OTHER -> caller
    /\ UNCHANGED <<config, provider, loop, content, cur, handled, acc, out, exc>>

\* Mutant: a closed generator resumes the lifecycle even if it never ran.
CollectFresh ==
    /\ caller \in {"left", "error"}
    /\ at \in {"fresh", "reading", "replaying", "closed"}
    /\ Finally("collected")
    /\ UNCHANGED <<config, provider, loop, content, wrapper, out, caller>>

\* The caller closes the stream it left, or the event loop does so for a
\* generator that was collected: the finally block of one that had started
\* runs, one that never started has none to run.
Collect ==
    /\ caller \in {"left", "error"}
    /\ at \in {"reading", "replaying"}
    /\ Finally("collected")
    /\ UNCHANGED <<config, provider, loop, content, wrapper, out, caller>>

-----------------------------------------------------------------------------
\* _transform_stream, the generator around deferred_stream.

Transforming == caller = "pulling" /\ cur # NoChunk /\ idx <= N

Emit(pieces) == out' = out \o pieces /\ caller' = "has"

\* A pattern accumulator keeps the chunk back, and the loop tries the next.
Hold ==
    /\ Transforming
    /\ transformers[idx] = "pattern"
    /\ acc' = [acc EXCEPT ![idx] = Append(@, cur)]
    /\ idx' = idx + 1
    /\ UNCHANGED <<config, provider, loop, content, at, cur, handled, out, caller,
                   exc, fin, saved>>

\* It gives back what it held, but for a rolling window; the text is
\* transformed and the chunk done, or goes out as it is when the transformer
\* fails, and then the next accumulator sees the chunk too.
Release ==
    /\ Transforming
    /\ transformers[idx] = "pattern"
    /\ LET all == Append(acc[idx], cur) IN
       \E k \in 1 .. Len(all) :
          /\ acc' = [acc EXCEPT ![idx] = SubSeq(all, k + 1, Len(all))]
          /\ \/ /\ Emit(SubSeq(all, 1, k))
                /\ cur' = NoChunk
                /\ UNCHANGED <<idx, handled>>
             \/ /\ Emit(SubSeq(all, 1, k))
                /\ handled' = TRUE
                /\ idx' = idx + 1
                /\ UNCHANGED cur
    /\ UNCHANGED <<config, provider, loop, content, at, exc, fin, saved>>

\* A passthrough accumulator: the chunk is transformed, or not if that fails.
Passthrough ==
    /\ Transforming
    /\ transformers[idx] = "pass"
    /\ Emit(<<cur>>)
    /\ cur' = NoChunk
    /\ UNCHANGED <<config, provider, loop, content, at, idx, handled, acc, exc, fin, saved>>

\* The loop has asked every accumulator.  A chunk nobody handled is held by
\* one, so the code's last branch (yield it as it is) is never taken.
LoopEnds ==
    /\ caller = "pulling" /\ cur # NoChunk /\ idx > N
    /\ handled \/ \E i \in 1 .. N : acc[i] # <<>>
    /\ cur' = NoChunk
    /\ UNCHANGED <<config, provider, loop, content, at, idx, handled, acc, out, caller,
                   exc, fin, saved>>

\* Mutant: the wrapper waits for an accumulator that has nothing to give.
FlushWaits ==
    /\ caller = "pulling" /\ at = "flushing" /\ idx <= N
    /\ acc[idx] # <<>>
    /\ Emit(acc[idx])
    /\ acc' = [acc EXCEPT ![idx] = <<>>]
    /\ idx' = idx + 1
    /\ UNCHANGED <<config, provider, loop, content, at, cur, handled, exc, fin, saved>>

\* The source has ended: each accumulator gives up what it still holds.
Flush ==
    /\ caller = "pulling" /\ at = "flushing" /\ idx <= N
    /\ \/ /\ acc[idx] # <<>>
          /\ Emit(acc[idx])
          /\ acc' = [acc EXCEPT ![idx] = <<>>]
       \/ acc[idx] = <<>> /\ UNCHANGED <<acc, out, caller>>
    /\ idx' = idx + 1
    /\ UNCHANGED <<config, provider, loop, content, at, cur, handled, exc, fin, saved>>

\* _content = transformed_content, and the stream ends.
TransformEnds ==
    /\ caller = "pulling" /\ at = "flushing" /\ idx > N
    /\ content' = out
    /\ at' = "closed"
    /\ caller' = "done"
    /\ UNCHANGED <<config, provider, loop, wrapper, out, exc, fin, saved>>

-----------------------------------------------------------------------------
\* The caller's task is cancelled while it waits for a chunk.

\* In the provider's stream or in the tools: out through the finally block.
CancelRead ==
    /\ caller = "pulling" /\ cur = NoChunk
    /\ at \in {"reading", "calling"}
    /\ Finally("raised")
    /\ UNCHANGED <<config, provider, loop, content, wrapper, out, caller>>

\* In a transformer: out of the outer generator, the inner one stays suspended.
CancelTransform ==
    /\ caller = "pulling"
    /\ cur # NoChunk \/ at = "flushing"
    /\ idx <= N
    /\ caller' = "error"
    /\ UNCHANGED <<config, provider, loop, content, at, wrapper, out, exc, fin, saved>>

\* In the deferred hooks: they are cut off and nothing runs them again.
CancelFinalize ==
    /\ caller = "pulling"
    /\ at = "resuming"
    /\ fin' = "cut"
    /\ saved' \in CutShort
    /\ at' = "closed"
    /\ caller' = "error"
    /\ UNCHANGED <<config, provider, loop, content, wrapper, out, exc>>

-----------------------------------------------------------------------------

Provider == ProviderText \/ ProviderTool \/ ProviderUsage \/ ProviderEnd \/ ProviderFails
Loop == Replay \/ ToolsAnswered \/ ToolsFail \/ FinalizeEnds
Wrapper == Hold \/ Release \/ Passthrough \/ LoopEnds \/ Flush \/ TransformEnds
Cancel == CancelRead \/ CancelTransform \/ CancelFinalize

Next == Pull \/ Leave \/ Provider \/ Loop \/ Wrapper \/ Collect \/ Cancel

Spec == Init /\ [][Next]_vars

\* The provider goes on with its stream, tools and hooks return, and the
\* generators run as long as somebody pulls; nobody has to pull.
FairSpec == Spec /\ WF_vars(Provider) /\ WF_vars(Loop) /\ WF_vars(Wrapper)

-----------------------------------------------------------------------------

TypeOK ==
    /\ transformers \in Pipelines
    /\ withTools \in BOOLEAN
    /\ round \in 1 .. MaxRounds
    /\ sent \in 0 .. MaxText
    /\ toolBuffer \in BOOLEAN
    /\ tools \in 0 .. MaxRounds
    /\ executed \in Seq(1 .. MaxRounds)
    /\ usage \subseteq 1 .. MaxRounds
    /\ reported \subseteq 1 .. MaxRounds
    /\ held \in Seq(Chunks)
    /\ content \in Seq(Chunks)
    /\ at \in {"fresh", "reading", "replaying", "calling", "resuming", "flushing", "closed"}
    /\ cur \in Chunks \cup {NoChunk}
    /\ idx \in 1 .. N + 1
    /\ handled \in BOOLEAN
    /\ acc \in [1 .. N -> Seq(Chunks)]
    /\ out \in Seq(Chunks)
    /\ caller \in {"holding", "pulling", "has", "left", "done", "error"}
    /\ exc \in {"none", "raised", "collected"}
    /\ fin \in {"no", "running", "done", "failed", "cut"}
    /\ saved \in [content : Seq(Chunks), usage : SUBSET (1 .. MaxRounds)]

\* What the caller has, what is on its way and what is kept back make up the
\* text the provider sent: no chunk is lost or doubled, and the chunks of one
\* provider stream stay in order.  For the transformer lists the streaming
\* wrapper handles: at most one transformer.
Copies(x) ==
    Cardinality({i \in DOMAIN out : out[i] = x})
    + Cardinality({i \in DOMAIN held : held[i] = x})
    + Cardinality({p \in (1 .. N) \X (1 .. Len(content)) :
                     p[2] \in DOMAIN acc[p[1]] /\ acc[p[1]][p[2]] = x})
    + (IF cur = x /\ idx = 1 THEN 1 ELSE 0)

ChunksAccounted ==
    /\ \A x \in Chunks :
          Copies(x) = Cardinality({i \in DOMAIN content : content[i] = x})
    /\ \A i, j \in DOMAIN out :
          i < j /\ out[i][1] = out[j][1] => out[i][2] < out[j][2]

\* Every tool call the model asked for is executed once, before the stream
\* that answers its results is read.
ToolCallsOnce ==
    /\ \A i \in DOMAIN executed : executed[i] = i
    /\ at \in {"reading", "replaying"} => Len(executed) = round - 1

\* A caller that sees the stream end sees it after the deferred hooks: if they
\* came through, all the text there was is stored and the usage of every
\* provider stream that reported one is billed.  Hooks that failed are only
\* logged (resume_lifecycle), and the same end is seen: then nothing is promised.
EndMeansSaved ==
    caller = "done" =>
        /\ fin \in {"done", "failed"}
        /\ fin = "done" =>
             /\ saved.usage = reported
             /\ \A x \in Chunks : Copies(x) > 0 =>
                  \E i \in DOMAIN saved.content : saved.content[i] = x

\* However the stream ends (to its end, by an error, cancelled, closed by a
\* caller that left, and any of these after another), FINALIZE starts at most
\* once and never for a stream nobody started to read.
FinalizedOnce ==
    [][/\ fin # "no" => fin' \notin {"no", "running"} \/ fin' = fin
       /\ fin = "no" /\ fin' # "no" =>
             at \in {"reading", "calling", "replaying"} /\ fin' = "running"
       /\ fin \notin {"no", "running"} => fin' = fin
       /\ saved' # saved => fin = "running" /\ fin' # "running"]_vars

\* Whoever waits for a chunk gets one, or the end, or an exception.
EveryPullReturns == caller = "pulling" ~> caller # "pulling"

=============================================================================
