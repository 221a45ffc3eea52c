---------------------- MODULE StreamingResponseProofs ----------------------
(***************************************************************************)
(* For any transformers, tool rounds and texts: a streamed response runs   *)
(* its tool calls once and in order, finalizes once, and has billed what   *)
(* was reported and stored all its text when its reader sees the end of a  *)
(* FINALIZE that did not fail; with at most one transformer none of its    *)
(* text is lost, doubled or put out of order; and no pull is stuck, each   *)
(* step taking it further or being a new pull.                             *)
(***************************************************************************)
EXTENDS StreamingResponse, FiniteSetTheorems, SequenceTheorems, TLAPS

\* Every chunk that has been yielded, or is on its way or kept back, is in S.
In(S) ==
    /\ out \in Seq(S) /\ held \in Seq(S)
    /\ acc \in [1 .. N -> Seq(S)]
    /\ cur \in S \cup {NoChunk}

\* The text FINALIZE will see, or has stored; any, if it was cut short.
Text ==
    CASE fin \in {"no", "running"} -> Range(content)
      [] fin = "done" -> Range(saved.content)
      [] OTHER -> Chunks

\* Where the stream is tells how far its tools, its usage and its hook are.
Stage ==
    /\ fin = "no" <=> at \in {"fresh", "reading", "calling", "replaying"}
    /\ fin = "running" <=> at = "resuming"
    /\ at = "fresh" => round = 1
    /\ at \in {"fresh", "reading"} => tools = 0
    /\ at = "calling" => tools = round

Executed ==
    /\ \A i \in DOMAIN executed : executed[i] = i
    /\ fin = "no" => Len(executed) = round - 1

Billed ==
    /\ usage = reported
    /\ fin = "done" => saved.usage = reported
    /\ at = "flushing" \/ caller = "done" => exc = "none" /\ fin \in {"done", "failed"}

IInv == TypeOK /\ Stage /\ Executed /\ Billed /\ In(Text)

-----------------------------------------------------------------------------
(* Sequences                                                               *)

\* A sequence of members of S that grows, shrinks or is cut stays one.
LEMMA SeqStep ==
    ASSUME NEW S, NEW s \in Seq(S), NEW t \in Seq(S), NEW x \in S
    PROVE  /\ Append(s, x) \in Seq(S) /\ s \o t \in Seq(S) /\ <<>> \in Seq(S)
           /\ <<x>> \in Seq(S)
           /\ s # <<>> => Head(s) \in S /\ Tail(s) \in Seq(S)
           /\ \A k \in 1 .. Len(s) : SubSeq(s, 1, k) \in Seq(S) /\ SubSeq(s, k + 1, Len(s)) \in Seq(S)
<1>1. Append(s, x) \in Seq(S) /\ s \o t \in Seq(S) /\ <<>> \in Seq(S) /\ <<x>> \in Seq(S)
  BY AppendProperties, ConcatProperties
<1>2. s # <<>> => Head(s) \in S /\ Tail(s) \in Seq(S)
  BY HeadTailProperties
<1>3. ASSUME NEW k \in 1 .. Len(s)
      PROVE  SubSeq(s, 1, k) \in Seq(S) /\ SubSeq(s, k + 1, Len(s)) \in Seq(S)
  <2>1. Len(s) \in Nat /\ \A i \in 1 .. Len(s) : s[i] \in S
    BY LenProperties, ElementOfSeq
  <2> QED BY <2>1, SubSeqProperties
<1> QED BY <1>1, <1>2, <1>3

\* A sequence is one of members of its range.
LEMMA OwnRange ==
    ASSUME NEW S, NEW s \in Seq(S)
    PROVE  s \in Seq(Range(s)) /\ \A x \in Range(s) : \E i \in DOMAIN s : s[i] = x
<1>1. s \in [1 .. Len(s) -> Range(s)] /\ Len(s) \in Nat
  BY LenProperties DEF Range
<1>2. s \in Seq(Range(s))
  BY <1>1, SeqDef
<1> QED BY <1>2 DEF Range

-----------------------------------------------------------------------------
(* Chunks come from the provider and from nowhere else.                    *)

LEMMA Yields ==
    ASSUME NEW S, In(S), NEW x \in S, Yield(x), UNCHANGED config
    PROVE  /\ out' \in Seq(S) /\ acc' \in [1 .. N' -> Seq(S)] /\ cur' \in S \cup {NoChunk}
<1>1. N' = N
  BY DEF config, N
<1>2. CASE N = 0
  BY <1>1, <1>2, SeqStep DEF Yield, In, wrapper
<1>3. CASE N # 0
  BY <1>1, <1>3 DEF Yield, In
<1> QED BY <1>2, <1>3

LEMMA Carried ==
    ASSUME NEW S, In(S), TypeOK, Next, ProviderText => <<round, sent + 1>> \in S
    PROVE  In(S)'
<1> USE DEF config, provider, loop, wrapper
<1>1. idx \in 1 .. N + 1 /\ N \in Nat
  BY LenProperties DEF TypeOK, N, StreamAssumption
<1>2. out \in Seq(S) /\ held \in Seq(S) /\ <<>> \in Seq(S)
  BY EmptySeq DEF In
<1>3. CASE UNCHANGED <<transformers, out, held, acc, cur>>
  BY <1>3 DEF In, N
<1>4. CASE ProviderText
  <2> DEFINE x == <<round, sent + 1>>
  <2>1. x \in S
    BY <1>4
  <2> HIDE DEF x
  <2>2. CASE held' = Append(held, x) /\ UNCHANGED <<transformers, wrapper, out>>
    BY <1>2, <2>1, <2>2, SeqStep DEF In, N
  <2>3. CASE Yield(x) /\ UNCHANGED <<config, held>>
    BY <1>2, <2>1, <2>3, Yields DEF In
  <2> QED BY <1>4, <2>2, <2>3 DEF ProviderText, x
<1>5. CASE Replay
  <2>1. CASE held # <<>> /\ Yield(Head(held)) /\ held' = Tail(held) /\ UNCHANGED config
    <3>1. Head(held) \in S /\ Tail(held) \in Seq(S)
      BY <1>2, <2>1, HeadTailProperties
    <3> QED BY <2>1, <3>1, Yields DEF In
  <2>2. CASE UNCHANGED <<transformers, held, wrapper, out>>
    BY <1>3, <2>2
  <2> QED BY <1>5, <2>1, <2>2 DEF Replay
<1>6. ASSUME Transforming PROVE idx \in 1 .. N /\ cur \in S /\ acc[idx] \in Seq(S)
  BY <1>1, <1>6 DEF Transforming, In
<1>7. CASE Hold
  <2>1. idx \in 1 .. N /\ cur \in S /\ acc[idx] \in Seq(S) /\ Append(acc[idx], cur) \in Seq(S)
    BY <1>6, <1>7, SeqStep DEF Hold
  <2> QED BY <1>7, <2>1 DEF Hold, In, N
<1>8. CASE Release
  <2> DEFINE all == Append(acc[idx], cur)
  <2>1. idx \in 1 .. N /\ all \in Seq(S)
    BY <1>6, <1>8, SeqStep DEF Release
  <2> HIDE DEF all
  <2>2. PICK k \in 1 .. Len(all) :
          /\ acc' = [acc EXCEPT ![idx] = SubSeq(all, k + 1, Len(all))]
          /\ out' = out \o SubSeq(all, 1, k)
          /\ cur' \in {cur, NoChunk} /\ UNCHANGED <<transformers, held>>
    BY <1>8 DEF Release, Emit, all
  <2>3. SubSeq(all, 1, k) \in Seq(S) /\ SubSeq(all, k + 1, Len(all)) \in Seq(S)
    <3>1. \A i \in 1 .. Len(all) : all[i] \in S
      BY <2>1, ElementOfSeq
    <3>2. Len(all) \in Nat
      BY <2>1, LenProperties
    <3> QED BY <3>1, <3>2, SubSeqProperties
  <2>4. out \o SubSeq(all, 1, k) \in Seq(S)
    BY <1>2, <2>3, ConcatProperties
  <2> QED BY <2>1, <2>2, <2>3, <2>4 DEF In, N
<1>9. CASE Passthrough
  <2>1. out \o <<cur>> \in Seq(S)
    BY <1>2, <1>6, <1>9, SeqStep, ConcatProperties DEF Passthrough
  <2> QED BY <1>9, <2>1 DEF Passthrough, Emit, In, N
<1>10. CASE LoopEnds
  BY <1>10 DEF LoopEnds, In, N
<1>11. CASE Flush
  <2>1. idx \in 1 .. N /\ acc[idx] \in Seq(S)
    BY <1>1, <1>11 DEF Flush, In
  <2>2. out \o acc[idx] \in Seq(S)
    BY <1>2, <2>1, ConcatProperties
  <2> QED BY <1>2, <1>11, <2>1, <2>2 DEF Flush, Emit, In, N
<1>12. CASE TransformEnds
  BY <1>3, <1>12 DEF TransformEnds
<1>13. CASE \/ Pull \/ Leave \/ Collect \/ Cancel
            \/ ProviderTool \/ ProviderUsage \/ ProviderEnd \/ ProviderFails
            \/ ToolsAnswered \/ ToolsFail \/ FinalizeEnds
  <2>1. UNCHANGED <<transformers, out, held, acc, cur>>
    BY <1>13 DEF Pull, Leave, Collect, Cancel, CancelRead, CancelTransform, CancelFinalize,
         ProviderTool, ProviderUsage, ProviderEnd, ProviderFails, ToolsAnswered, ToolsFail, FinalizeEnds
  <2> QED BY <1>3, <2>1
<1> QED
  BY <1>4, <1>5, <1>7, <1>8, <1>9, <1>10, <1>11, <1>12, <1>13 DEF Next, Provider, Loop, Wrapper

\* Whatever is in S stays in S while the provider sends nothing else.
LEMMA Grows ==
    ASSUME NEW S, NEW T, In(S), S \subseteq T
    PROVE  In(T)
BY SeqMonotonic DEF In

-----------------------------------------------------------------------------
(* Types                                                                   *)

Fixed ==
    /\ transformers \in Pipelines
    /\ withTools \in BOOLEAN
    /\ round \in 1 .. MaxRounds
    /\ sent \in 0 .. MaxText
    /\ toolBuffer \in BOOLEAN
    /\ tools \in 0 .. MaxRounds
    /\ executed \in Seq(1 .. MaxRounds)
    /\ usage \subseteq 1 .. MaxRounds
    /\ reported \subseteq 1 .. MaxRounds
    /\ content \in Seq(Chunks)
    /\ saved \in [content : Seq(Chunks), usage : SUBSET (1 .. MaxRounds)]

Placed ==
    /\ at \in {"fresh", "reading", "replaying", "calling", "resuming", "flushing", "closed"}
    /\ idx \in 1 .. N + 1
    /\ handled \in BOOLEAN
    /\ caller \in {"holding", "pulling", "has", "left", "done", "error"}
    /\ exc \in {"none", "raised", "collected"}
    /\ fin \in {"no", "running", "done", "failed", "cut"}

LEMMA TypeParts == TypeOK <=> Fixed /\ Placed /\ In(Chunks)
BY DEF TypeOK, Fixed, Placed, In

LEMMA FixedNext ==
    ASSUME TypeOK, Stage, Next
    PROVE  Fixed'
<1> USE StreamAssumption DEF config, provider, loop, wrapper
<1>1. Fixed /\ out \in Seq(Chunks) /\ MaxRounds \in Nat /\ MaxText \in Nat
  BY DEF TypeOK, Fixed
<1>2. CASE UNCHANGED <<transformers, withTools, round, sent, toolBuffer, tools, executed, usage, reported, content, saved>>
  BY <1>1, <1>2 DEF Fixed
<1>3. ASSUME NEW why, Finally(why)
      PROVE  saved' \in [content : Seq(Chunks), usage : SUBSET (1 .. MaxRounds)]
  BY <1>1, <1>3 DEF Finally, Fixed
<1>4. CASE ProviderText
  <2>1. <<round, sent + 1>> \in Chunks
    <3>1. sent < MaxText
      BY <1>4 DEF ProviderText
    <3>2. round \in 1 .. MaxRounds /\ sent \in 0 .. MaxText
      BY <1>1 DEF Fixed
    <3>3. sent + 1 \in 1 .. MaxText
      BY <1>1, <3>1, <3>2
    <3> QED BY <3>2, <3>3 DEF Chunks
  <2>2. Append(content, <<round, sent + 1>>) \in Seq(Chunks)
    BY <1>1, <2>1, AppendProperties DEF Fixed
  <2>3. UNCHANGED <<transformers, withTools, round, toolBuffer, usage, reported, tools, executed, saved>>
        /\ sent' \in 0 .. MaxText /\ content' = Append(content, <<round, sent + 1>>)
    BY <1>1, <1>4 DEF ProviderText, Fixed
  <2> QED BY <1>1, <2>2, <2>3 DEF Fixed
<1>5. CASE ProviderTool
  BY <1>1, <1>5 DEF ProviderTool, Fixed
<1>6. CASE ProviderUsage
  BY <1>1, <1>6 DEF ProviderUsage, Fixed
<1>7. CASE ProviderEnd
  <2>1. saved' \in [content : Seq(Chunks), usage : SUBSET (1 .. MaxRounds)]
    BY <1>1, <1>3, <1>7 DEF ProviderEnd, Fixed
  <2>2. tools' \in 0 .. MaxRounds
    BY <1>1, <1>7 DEF ProviderEnd, Fixed
  <2> QED BY <1>1, <1>7, <2>1, <2>2 DEF ProviderEnd, Fixed
<1>8. CASE ProviderFails \/ Collect \/ CancelRead
  BY <1>1, <1>3, <1>8 DEF ProviderFails, Collect, CancelRead, Fixed
<1>9. CASE Replay
  BY <1>1, <1>3, <1>9 DEF Replay, Fixed
<1>10. at = "calling" => Append(executed, tools) \in Seq(1 .. MaxRounds)
  <2>1. at = "calling" => tools \in 1 .. MaxRounds
    BY <1>1 DEF Stage, Fixed
  <2> QED BY <1>1, <2>1, AppendProperties DEF Fixed
<1>11. CASE ToolsAnswered
  <2>1. round' \in 1 .. MaxRounds /\ sent' \in 0 .. MaxText /\ tools' \in 0 .. MaxRounds
    BY <1>1, <1>11 DEF ToolsAnswered, Fixed
  <2>2. executed' \in Seq(1 .. MaxRounds)
    BY <1>10, <1>11 DEF ToolsAnswered
  <2>3. UNCHANGED <<transformers, withTools, usage, reported, content, saved>> /\ toolBuffer' = FALSE
    BY <1>11 DEF ToolsAnswered
  <2> QED BY <1>1, <2>1, <2>2, <2>3 DEF Fixed
<1>12. CASE ToolsFail
  BY <1>1, <1>3, <1>10, <1>12 DEF ToolsFail, Fixed
<1>13. CASE TransformEnds
  BY <1>1, <1>13 DEF TransformEnds, Fixed
<1>15. CASE FinalizeEnds \/ CancelFinalize
  <2>1. /\ Complete \in [content : Seq(Chunks), usage : SUBSET (1 .. MaxRounds)]
        /\ \A x \in CutShort : x \in [content : Seq(Chunks), usage : SUBSET (1 .. MaxRounds)]
    <3>1. content \in Seq(Chunks) /\ usage \in SUBSET (1 .. MaxRounds)
      BY <1>1 DEF Fixed
    <3>2. Complete \in [content : Seq(Chunks), usage : SUBSET (1 .. MaxRounds)]
      BY <3>1 DEF Complete
    <3>3. saved \in [content : Seq(Chunks), usage : SUBSET (1 .. MaxRounds)]
      BY <1>1 DEF Fixed
    <3>4. [saved EXCEPT !.usage = usage] \in [content : Seq(Chunks), usage : SUBSET (1 .. MaxRounds)]
      BY <3>1, <3>3
    <3> QED BY <3>2, <3>3, <3>4 DEF CutShort
  <2>2. saved' = Complete \/ saved' \in CutShort
    BY <1>15 DEF FinalizeEnds, CancelFinalize
  <2>3. UNCHANGED <<transformers, withTools, round, sent, toolBuffer, tools, executed, usage, reported, content>>
    BY <1>15 DEF FinalizeEnds, CancelFinalize
  <2> QED BY <1>1, <2>1, <2>2, <2>3 DEF Fixed
<1>14. CASE \/ Pull \/ Leave \/ CancelTransform
            \/ Hold \/ Release \/ Passthrough \/ LoopEnds \/ Flush
  <2>1. UNCHANGED <<transformers, withTools, round, sent, toolBuffer, tools, executed, usage, reported, content, saved>>
    BY <1>14 DEF Pull, Leave, CancelTransform, Hold, Release, Passthrough, LoopEnds, Flush
  <2> QED BY <1>2, <2>1
<1> QED
  BY <1>4, <1>5, <1>6, <1>7, <1>8, <1>9, <1>11, <1>12, <1>13, <1>14, <1>15
  DEF Next, Provider, Loop, Wrapper, Cancel

LEMMA PlacedNext ==
    ASSUME TypeOK, Next
    PROVE  Placed'
<1> USE DEF config, provider, loop, wrapper
<1>1. Placed /\ N \in Nat
  BY StreamAssumption, LenProperties DEF TypeOK, Placed, N
<1>2. N' = N
  BY DEF Next, Pull, Leave, Collect, Provider, Loop, Wrapper, Cancel, CancelRead, CancelTransform,
     CancelFinalize, ProviderText, ProviderTool, ProviderUsage, ProviderEnd, ProviderFails, Replay,
     ToolsAnswered, ToolsFail, FinalizeEnds, Hold, Release, Passthrough, LoopEnds, Flush,
     TransformEnds, N
<1>3. 1 \in 1 .. N + 1 /\ \A i \in 1 .. N + 1 : i <= N => i + 1 \in 1 .. N + 1
  BY <1>1
<1>4. ASSUME NEW x, Yield(x)
      PROVE  idx' \in 1 .. N + 1 /\ handled' \in BOOLEAN /\ caller' \in {"has", caller}
  BY <1>1, <1>3, <1>4 DEF Yield, Placed
<1>5. CASE ProviderText
  <2>1. idx' \in 1 .. N + 1 /\ handled' \in BOOLEAN /\ caller' \in {"has", caller}
    BY <1>1, <1>4, <1>5 DEF ProviderText, Placed
  <2> QED BY <1>1, <1>2, <1>5, <2>1 DEF ProviderText, Placed
<1>6. CASE Replay
  <2>1. idx' \in 1 .. N + 1 /\ handled' \in BOOLEAN /\ caller' \in {"has", caller}
    BY <1>1, <1>4, <1>6 DEF Replay, Placed
  <2>2. at' \in {at, "resuming"} /\ exc' \in {exc, "none"} /\ fin' \in {fin, "running"}
    BY <1>6 DEF Replay, Finally
  <2> QED BY <1>1, <1>2, <2>1, <2>2 DEF Placed
<1>7. CASE ProviderTool \/ ProviderUsage \/ ToolsAnswered
  BY <1>1, <1>2, <1>7 DEF ProviderTool, ProviderUsage, ToolsAnswered, Placed
<1>8. CASE ProviderEnd
  BY <1>1, <1>2, <1>8 DEF ProviderEnd, Finally, Placed
<1>9. CASE ProviderFails \/ Collect \/ CancelRead \/ ToolsFail
  BY <1>1, <1>2, <1>9 DEF ProviderFails, Collect, CancelRead, ToolsFail, Finally, Placed
<1>10. CASE FinalizeEnds
  BY <1>1, <1>2, <1>3, <1>10 DEF FinalizeEnds, Placed
<1>11. CASE Pull \/ Leave \/ CancelTransform \/ CancelFinalize
  BY <1>1, <1>2, <1>11 DEF Pull, Leave, CancelTransform, CancelFinalize, Placed
<1>12. CASE Hold
  BY <1>1, <1>2, <1>3, <1>12 DEF Hold, Transforming, Placed
<1>13. CASE Release
  BY <1>1, <1>2, <1>3, <1>13 DEF Release, Transforming, Emit, Placed
<1>14. CASE Passthrough \/ LoopEnds
  BY <1>1, <1>2, <1>14 DEF Passthrough, Emit, LoopEnds, Placed
<1>15. CASE Flush
  BY <1>1, <1>2, <1>3, <1>15 DEF Flush, Emit, Placed
<1>16. CASE TransformEnds
  BY <1>1, <1>2, <1>16 DEF TransformEnds, Placed
<1> QED
  BY <1>5, <1>6, <1>7, <1>8, <1>9, <1>10, <1>11, <1>12, <1>13, <1>14, <1>15, <1>16
  DEF Next, Provider, Loop, Wrapper, Cancel

LEMMA TypeNext ==
    ASSUME TypeOK, Stage, Next
    PROVE  TypeOK'
<1>1. ProviderText => <<round, sent + 1>> \in Chunks
  BY StreamAssumption DEF TypeOK, ProviderText, Chunks
<1>2. In(Chunks)'
  BY <1>1, Carried, TypeParts
<1>3. Fixed' /\ Placed' /\ In(Chunks)' => TypeOK'
  BY DEF TypeOK, Fixed, Placed, In, N
<1> QED BY <1>2, <1>3, FixedNext, PlacedNext

-----------------------------------------------------------------------------
(* What a step does to deferred_stream: nothing, or one of four things.    *)

hook == <<at, exc, fin, saved>>

\* The caller begins to read.
Begins ==
    /\ at = "fresh" /\ at' = "reading"
    /\ UNCHANGED <<exc, fin, saved, round, tools, executed, usage, reported>> /\ caller' # "done"

\* It reads, or plays back what it kept.
Reads ==
    /\ at \in {"reading", "replaying"}
    /\ UNCHANGED <<hook, round, tools, executed>>
    /\ \/ UNCHANGED <<usage, reported>>
       \/ at = "reading" /\ usage' = usage \cup {round} /\ reported' = reported \cup {round}
    /\ caller' # "done"

\* A provider's stream ends and leaves tools to call or text to play back.
Turns ==
    /\ at = "reading"
    /\ tools' \in {tools, round}
    /\ at' = IF tools' # 0 THEN "calling" ELSE "replaying"
    /\ UNCHANGED <<exc, fin, saved, round, executed, usage, reported>> /\ caller' # "done"

\* The tools have answered.
Answers ==
    /\ at = "calling" /\ at' = "reading"
    /\ executed' = Append(executed, tools) /\ round' = round + 1 /\ tools' = 0
    /\ UNCHANGED <<exc, fin, saved, usage, reported, caller>>

\* The finally block begins.
Stops ==
    /\ at \in {"reading", "replaying", "calling"}
    /\ exc' \in {"none", "raised", "collected"}
    /\ at' = "resuming" /\ fin' = "running" /\ saved' = saved
    /\ executed' = executed \/ (at = "calling" /\ executed' = Append(executed, tools))
    /\ UNCHANGED <<round, usage, reported>> /\ (caller' = "done" => caller = "done")

\* It ends.
Finishes ==
    /\ at = "resuming"
    /\ \/ at' = "flushing" /\ exc = "none" /\ fin' \in {"done", "failed"}
       \/ at' = "closed" /\ fin' \in {"done", "failed", "cut"}
    /\ caller' = "done" => caller = "done" \/ (exc = "none" /\ fin' \in {"done", "failed"})
    /\ fin' = "done" => saved' = Complete
    /\ UNCHANGED <<exc, round, tools, executed, usage, reported, content>>

\* What is around it goes on, or the caller does.
Around ==
    /\ UNCHANGED <<exc, fin, saved, round, tools, executed, usage, reported>>
    /\ at' = at \/ (at = "flushing" /\ at' = "closed")
    /\ caller' = "done" => caller = "done" \/ at = "flushing"

LEMMA Steps ==
    ASSUME TypeOK, Stage, Billed, Next
    PROVE  Begins \/ Reads \/ Turns \/ Answers \/ Stops \/ Finishes \/ Around
<1> USE DEF config, provider, loop, wrapper, hook
<1>1. ASSUME NEW x, Yield(x), caller = "pulling" PROVE caller' # "done"
  BY <1>1 DEF Yield
<1>2. CASE Pull
  BY <1>2 DEF Pull, Begins, Around
<1>3. CASE ProviderText
  BY <1>1, <1>3 DEF ProviderText, Reading, Reads
<1>4. CASE ProviderTool \/ ProviderUsage
  BY <1>4 DEF ProviderTool, ProviderUsage, Reading, Reads
<1>5. CASE ProviderEnd
  <2>1. CASE Finally("none")
    BY <1>5, <2>1 DEF ProviderEnd, Reading, Finally, Stops
  <2>2. CASE at' = IF tools' # 0 THEN "calling" ELSE "replaying"
    BY <1>5, <2>2 DEF ProviderEnd, Reading, Finally, Turns, Stops
  <2> QED BY <1>5, <2>1, <2>2 DEF ProviderEnd
<1>6. CASE ProviderFails \/ Collect \/ CancelRead
  BY <1>6 DEF ProviderFails, Collect, CancelRead, Reading, Finally, Stops
<1>7. CASE Replay
  <2>1. CASE Finally("none") /\ UNCHANGED caller
    BY <1>7, <2>1 DEF Replay, Finally, Stops, Billed
  <2>2. CASE Yield(Head(held)) /\ UNCHANGED <<at, exc, fin, saved>>
    BY <1>1, <1>7, <2>2 DEF Replay, Reads
  <2> QED BY <1>7, <2>1, <2>2 DEF Replay
<1>8. CASE ToolsAnswered
  BY <1>8 DEF ToolsAnswered, Answers
<1>9. CASE ToolsFail
  BY <1>9 DEF ToolsFail, Finally, Stops
<1>10. CASE FinalizeEnds
  BY <1>10 DEF FinalizeEnds, Finishes
<1>11. CASE CancelFinalize
  BY <1>11 DEF CancelFinalize, Finishes
<1>12. CASE Leave \/ CancelTransform \/ Hold \/ Release \/ Passthrough \/ LoopEnds \/ Flush \/ TransformEnds
  BY <1>12 DEF Leave, CancelTransform, Hold, Release, Passthrough, LoopEnds, Flush, TransformEnds,
     Emit, Around
<1> QED
  BY <1>2, <1>3, <1>4, <1>5, <1>6, <1>7, <1>8, <1>9, <1>10, <1>11, <1>12
  DEF Next, Provider, Loop, Wrapper, Cancel

LEMMA StageNext ==
    ASSUME TypeOK, Stage, Billed, Next
    PROVE  Stage'
<1>1. Begins \/ Reads \/ Turns \/ Answers \/ Stops \/ Finishes \/ Around
  BY Steps
<1> QED
  BY <1>1 DEF Begins, Reads, Turns, Answers, Stops, Finishes, Around, Stage, TypeOK, hook

LEMMA ExecutedNext ==
    ASSUME TypeOK, Stage, Executed, Billed, Next
    PROVE  Executed'
<1>1. Begins \/ Reads \/ Turns \/ Answers \/ Stops \/ Finishes \/ Around
  BY Steps
<1>2. executed \in Seq(1 .. MaxRounds) /\ round \in Nat /\ DOMAIN executed = 1 .. Len(executed)
  BY StreamAssumption, LenProperties DEF TypeOK
<1>3. CASE UNCHANGED <<executed, round>> /\ (fin' = "no" => fin = "no")
  BY <1>3 DEF Executed
<1>4. CASE executed' = Append(executed, tools) /\ at = "calling" /\ (fin' = "no" => round' = round + 1)
  <2>1. tools = round /\ tools \in 1 .. MaxRounds /\ fin = "no" /\ Len(executed) = round - 1
    BY <1>4, StreamAssumption DEF Stage, Executed, TypeOK
  <2>2. /\ Len(Append(executed, tools)) = Len(executed) + 1
        /\ DOMAIN Append(executed, tools) = 1 .. Len(executed) + 1
        /\ \A i \in 1 .. Len(executed) : Append(executed, tools)[i] = executed[i]
        /\ Append(executed, tools)[Len(executed) + 1] = tools
    BY <1>2, <2>1, AppendProperties, LenProperties
  <2> QED BY <1>2, <1>4, <2>1, <2>2 DEF Executed
<1> QED
  BY <1>1, <1>3, <1>4 DEF Begins, Reads, Turns, Answers, Stops, Finishes, Around, hook, Stage

LEMMA BilledNext ==
    ASSUME TypeOK, Stage, Billed, Next
    PROVE  Billed'
<1>1. Begins \/ Reads \/ Turns \/ Answers \/ Stops \/ Finishes \/ Around
  BY Steps
<1>2. CASE Begins \/ Reads \/ Turns \/ Answers \/ Stops
  BY <1>2 DEF Begins, Reads, Turns, Answers, Stops, Billed, Stage, hook
<1>3. CASE Finishes
  BY <1>3 DEF Finishes, Billed, Stage, Complete
<1>4. CASE Around
  BY <1>4 DEF Around, Billed, Stage
<1> QED BY <1>1, <1>2, <1>3, <1>4

\* What has been sent before FINALIZE is what it saves; nothing comes after.
LEMMA TextNext ==
    ASSUME IInv, TypeOK', Next
    PROVE  In(Text)'
<1> USE DEF hook
<1>1. Begins \/ Reads \/ Turns \/ Answers \/ Stops \/ Finishes \/ Around
  BY Steps DEF IInv
<1>2. TypeOK /\ Stage /\ In(Text)
  BY DEF IInv
<1>3. CASE ProviderText
  <2> DEFINE x == <<round, sent + 1>>
  <2>1. fin = "no" /\ fin' = "no" /\ content' = Append(content, x)
    BY <1>2, <1>3 DEF ProviderText, Reading, Stage
  <2>2. content \in Seq(Chunks) /\ x \in Chunks
    BY <1>2, <1>3, StreamAssumption DEF TypeOK, ProviderText, Chunks
  <2> HIDE DEF x
  <2>3. Range(content) \cup {x} \subseteq Range(content')
    <3>1. /\ Len(content') = Len(content) + 1 /\ Len(content) \in Nat
          /\ \A i \in 1 .. Len(content) : content'[i] = content[i]
          /\ content'[Len(content) + 1] = x
          /\ DOMAIN content = 1 .. Len(content) /\ DOMAIN content' = 1 .. Len(content) + 1
      BY <2>1, <2>2, AppendProperties, LenProperties
    <3> QED BY <3>1 DEF Range
  <2>4. Text = Range(content) /\ Text' = Range(content')
    BY <2>1 DEF Text
  <2>5. In(Text \cup {x})
    BY <1>2, Grows
  <2>6. \A S : In(S) /\ x \in S => In(S)'
    BY <1>2, Carried DEF IInv, x
  <2>7. In(Text')
    BY <1>2, <2>3, <2>4, Grows
  <2>8. x \in Text'
    BY <2>3, <2>4
  <2> QED BY <2>6, <2>7, <2>8
<1>4. CASE ~ProviderText
  <2>1. \A S : In(S) => In(S)'
    BY <1>2, <1>4, Carried
  <2>2. fin' \in {"no", "running"} => content' = content
    <3>1. CASE UNCHANGED content
      BY <3>1
    <3>2. CASE TransformEnds
      BY <1>2, <3>2 DEF TransformEnds, Stage
    <3> QED
      BY <1>4, <3>1, <3>2 DEF Next, Provider, Loop, Wrapper, Cancel, Pull, Leave, Collect,
         ProviderTool, ProviderUsage, ProviderEnd, ProviderFails, Replay, ToolsAnswered, ToolsFail,
         FinalizeEnds, Hold, Release, Passthrough, LoopEnds, Flush, CancelRead, CancelTransform,
         CancelFinalize
  <2>3. Text' = Text \/ Text' = Chunks
    <3>1. CASE fin' \in {"no", "running"}
      <4>1. fin \in {"no", "running"}
        BY <1>1, <1>2, <3>1 DEF Begins, Reads, Turns, Answers, Stops, Finishes, Around, Stage
      <4> QED BY <2>2, <3>1, <4>1 DEF Text
    <3>2. CASE fin' = "done"
      <4>1. CASE Finishes
        BY <1>2, <3>2, <4>1 DEF Finishes, Stage, Complete, Text
      <4>2. CASE fin = "done" /\ saved' = saved
        BY <3>2, <4>2 DEF Text
      <4> QED
        BY <1>1, <1>2, <3>2, <4>1, <4>2 DEF Begins, Reads, Turns, Answers, Stops, Around, Stage
    <3>3. CASE fin' \in {"failed", "cut"}
      BY <3>3 DEF Text, Chunks
    <3> QED BY <3>1, <3>2, <3>3 DEF IInv, TypeOK
  <2>4. In(Text)'
    <3>1. In(Chunks)
      BY <1>2, TypeParts
    <3>2. CASE Text' = Text
      BY <1>2, <2>1, <3>2
    <3>3. CASE Text' = Chunks
      BY <2>1, <3>1, <3>3
    <3> QED BY <2>3, <3>2, <3>3
  <2> QED BY <2>4
<1> QED BY <1>3, <1>4

-----------------------------------------------------------------------------
(* The theorems.                                                           *)

LEMMA InitInv == Init => IInv
<1> SUFFICES ASSUME Init PROVE IInv
  OBVIOUS
<1> USE DEF Init
<1>1. N \in Nat /\ 1 \in 1 .. N + 1
  BY StreamAssumption, LenProperties DEF N
<1>2. \A S : <<>> \in Seq(S)
  BY EmptySeq
<1>3. Len(<<>>) = 0 /\ DOMAIN <<>> = {}
  BY EmptySeq
<1>4. \A S : In(S)
  BY <1>2 DEF In
<1>5. Fixed
  <2>1. 1 \in 1 .. MaxRounds /\ 0 \in 0 .. MaxText /\ 0 \in 0 .. MaxRounds
    BY StreamAssumption
  <2>2. <<>> \in Seq(Chunks) /\ <<>> \in Seq(1 .. MaxRounds)
    BY <1>2
  <2> QED BY <2>1, <2>2 DEF Fixed
<1>6. Placed
  BY <1>1 DEF Placed
<1>7. Stage /\ Executed /\ Billed
  BY <1>3 DEF Stage, Executed, Billed
<1> QED BY <1>4, <1>5, <1>6, <1>7, TypeParts DEF IInv

LEMMA NextInv == IInv /\ [Next]_vars => IInv'
<1> SUFFICES ASSUME IInv, [Next]_vars PROVE IInv'
  OBVIOUS
<1>1. CASE UNCHANGED vars
  BY <1>1 DEF IInv, vars, config, provider, loop, wrapper, TypeOK, Stage, Executed, Billed, In, Text, N
<1>2. CASE Next
  <2>1. TypeOK'
    BY <1>2, TypeNext DEF IInv
  <2>2. Stage' /\ Executed' /\ Billed'
    BY <1>2, StageNext, ExecutedNext, BilledNext DEF IInv
  <2> QED BY <1>2, <2>1, <2>2, TextNext DEF IInv
<1> QED BY <1>1, <1>2

LEMMA Invariant == Spec => []IInv
BY InitInv, NextInv, PTL DEF Spec

\* The variables of a response keep their types, whatever the pipelines.
THEOREM TypeCorrect == Spec => []TypeOK
<1>1. IInv => TypeOK
  BY DEF IInv
<1> QED BY <1>1, Invariant, PTL

\* For any number of tool rounds, the tools of each are executed once, in
\* order, and before the stream that answers them is read.
THEOREM ToolsOnce == Spec => []ToolCallsOnce
<1>1. IInv => ToolCallsOnce
  BY DEF IInv, Stage, Executed, ToolCallsOnce
<1> QED BY <1>1, Invariant, PTL

\* A reader who sees the end sees it after the deferred hooks; unless one of
\* them failed, they have billed the usage of every stream that reported one and
\* stored all the text there is, for any number of transformers too.
THEOREM EndSaved == Spec => []EndMeansSaved
<1>1. ASSUME IInv, caller = "done"
      PROVE  fin \in {"done", "failed"} /\ (fin = "done" => saved.usage = reported)
  BY <1>1 DEF IInv, Billed
<1>2. ASSUME IInv, fin = "done", NEW x \in Chunks, Copies(x) > 0
      PROVE  \E i \in DOMAIN saved.content : saved.content[i] = x
  <2>1. Text = Range(saved.content)
    BY <1>2 DEF Text
  <2> SUFFICES x \in Range(saved.content)
    BY DEF Range
  <2> SUFFICES ASSUME x \notin Text PROVE FALSE
    BY <2>1
  <2>2. In(Text)
    BY <1>2 DEF IInv
  <2>3. {i \in DOMAIN out : out[i] = x} = {}
    BY <2>2, ElementOfSeq, LenProperties DEF In
  <2>4. {i \in DOMAIN held : held[i] = x} = {}
    BY <2>2, ElementOfSeq, LenProperties DEF In
  <2>5. {p \in (1 .. N) \X (1 .. Len(content)) :
            p[2] \in DOMAIN acc[p[1]] /\ acc[p[1]][p[2]] = x} = {}
    <3>1. \A n \in 1 .. N : \A i \in DOMAIN acc[n] : acc[n][i] # x
      BY <2>2, ElementOfSeq, LenProperties DEF In
    <3> QED BY <3>1
  <2>6. cur # x
    BY <2>2, StreamAssumption DEF In, Chunks, NoChunk
  <2>7. Copies(x) = 0 + 0 + 0 + 0
    BY <2>3, <2>4, <2>5, <2>6, FS_EmptySet DEF Copies
  <2> QED BY <1>2, <2>7
<1>3. IInv => EndMeansSaved
  BY <1>1, <1>2 DEF EndMeansSaved
<1> QED BY <1>3, Invariant, PTL

\* However it ends, and however often: FINALIZE begins at most once, only for
\* a stream somebody began to read; it alone bills and stores, when it ends.
THEOREM FinalizesOnce == Spec => FinalizedOnce
<1>1. ASSUME IInv, [Next]_vars
      PROVE  [/\ fin # "no" => fin' \notin {"no", "running"} \/ fin' = fin
              /\ fin = "no" /\ fin' # "no" =>
                    at \in {"reading", "calling", "replaying"} /\ fin' = "running"
              /\ fin \notin {"no", "running"} => fin' = fin
              /\ saved' # saved => fin = "running" /\ fin' # "running"]_vars
  <2>1. CASE UNCHANGED vars
    BY <2>1
  <2>2. CASE Next
    <3>1. Begins \/ Reads \/ Turns \/ Answers \/ Stops \/ Finishes \/ Around
      BY <1>1, <2>2, Steps DEF IInv
    <3>2. Stage
      BY <1>1 DEF IInv
    <3> QED
      BY <3>1, <3>2 DEF Begins, Reads, Turns, Answers, Stops, Finishes, Around, Stage, hook
  <2> QED BY <1>1, <2>1, <2>2
<1> QED BY <1>1, Invariant, PTL DEF Spec, FinalizedOnce
-----------------------------------------------------------------------------
(* Where the text is, with at most one transformer: what the caller has,   *)
(* what the accumulator holds, what is on its way and what is kept back    *)
(* make up one sequence, and it holds the chunks of content.               *)

AccText == IF N = 0 THEN <<>> ELSE acc[1]
Way == IF cur # NoChunk /\ idx = 1 THEN <<cur>> ELSE <<>>
Gone == (out \o AccText) \o Way
Whole == Gone \o held

\* The chunks of one provider stream come in the order of their numbers.
Ordered(s) == \A i, j \in DOMAIN s : i < j /\ s[i][1] = s[j][1] => s[i][2] < s[j][2]

\* The provider has sent x.
Old(x) == x[1] <= round /\ (x[1] = round => x[2] <= sent)

Kept ==
    /\ Ordered(Whole) /\ Ordered(content)
    /\ Range(Whole) = Range(content)
    /\ Len(Whole) = Len(content)
    /\ fin = "no" => \A x \in Range(content) : Old(x)
    /\ held # <<>> => withTools /\ \A x \in Range(held) : x[1] = 1

\* Nothing is left behind when deferred_stream has come to its end.
Settled ==
    /\ fin # "no" /\ exc = "none" => held = <<>> /\ cur = NoChunk
    /\ at = "flushing" => fin # "no" /\ exc = "none" /\ N # 0 /\ (idx > N => AccText = <<>>)
    /\ N = 0 => cur = NoChunk
    /\ N # 0 /\ transformers[1] = "pass" => AccText = <<>>

AInv == Kept /\ Settled

\* The indices and the members of a sequence of chunks.
LEMMA Numbered ==
    ASSUME NEW s \in Seq(Chunks)
    PROVE  /\ DOMAIN s = 1 .. Len(s) /\ Len(s) \in Nat
           /\ \A i \in DOMAIN s : s[i] \in Chunks /\ s[i][1] \in Nat /\ s[i][2] \in Nat
           /\ \A x : x \in Range(s) <=> \E i \in DOMAIN s : s[i] = x
<1>1. DOMAIN s = 1 .. Len(s) /\ Len(s) \in Nat /\ \A i \in DOMAIN s : s[i] \in Chunks
  BY LenProperties, ElementOfSeq
<1>2. \A x \in Chunks : x[1] \in Nat /\ x[2] \in Nat
  BY StreamAssumption DEF Chunks
<1> QED BY <1>1, <1>2 DEF Range

\* A sequence in order has no chunk twice.
LEMMA Once ==
    ASSUME NEW s \in Seq(Chunks), Ordered(s), NEW x
    PROVE  Cardinality({i \in DOMAIN s : s[i] = x}) = IF x \in Range(s) THEN 1 ELSE 0
<1>1. CASE x \notin Range(s)
  <2>1. {i \in DOMAIN s : s[i] = x} = {}
    BY <1>1, Numbered
  <2> QED BY <1>1, <2>1, FS_EmptySet
<1>2. CASE x \in Range(s)
  <2>1. PICK i \in DOMAIN s : s[i] = x
    BY <1>2, Numbered
  <2>2. ASSUME NEW j \in DOMAIN s, s[j] = x PROVE j = i
    BY <2>1, <2>2, Numbered DEF Ordered
  <2>3. {j \in DOMAIN s : s[j] = x} = {i}
    BY <2>1, <2>2
  <2> QED BY <1>2, <2>3, FS_Singleton
<1> QED BY <1>1, <1>2

\* The parts of a sequence in order are in order and have nothing in common.
LEMMA Parts ==
    ASSUME NEW s \in Seq(Chunks), NEW t \in Seq(Chunks), Ordered(s \o t)
    PROVE  /\ Ordered(s) /\ Ordered(t)
           /\ Range(s \o t) = Range(s) \cup Range(t)
           /\ Range(s) \cap Range(t) = {}
<1> DEFINE u == s \o t
<1>1. /\ u \in Seq(Chunks) /\ Len(u) = Len(s) + Len(t)
      /\ \A i \in 1 .. Len(s) + Len(t) : u[i] = IF i <= Len(s) THEN s[i] ELSE t[i - Len(s)]
  BY ConcatProperties
<1>2. DOMAIN u = 1 .. Len(u) /\ DOMAIN s = 1 .. Len(s) /\ DOMAIN t = 1 .. Len(t)
      /\ Len(s) \in Nat /\ Len(t) \in Nat
  BY <1>1, Numbered
<1>3. Ordered(u)
  OBVIOUS
<1>4. Range(u) = Range(s) \cup Range(t)
  BY RangeConcatenation
<1> HIDE DEF u
<1>5. \A i \in DOMAIN s : i \in DOMAIN u /\ u[i] = s[i]
  BY <1>1, <1>2
<1>6. \A i \in DOMAIN t : Len(s) + i \in DOMAIN u /\ u[Len(s) + i] = t[i]
  BY <1>1, <1>2
<1>7. Ordered(s)
  BY <1>3, <1>5 DEF Ordered
<1>8. Ordered(t)
  <2> SUFFICES ASSUME NEW i \in DOMAIN t, NEW j \in DOMAIN t, i < j, t[i][1] = t[j][1]
               PROVE  t[i][2] < t[j][2]
    BY DEF Ordered
  <2>1. Len(s) + i < Len(s) + j
    BY <1>2
  <2> QED BY <1>3, <1>6, <2>1 DEF Ordered
<1>9. ASSUME NEW i \in DOMAIN s, NEW j \in DOMAIN t, s[i] = t[j] PROVE FALSE
  <2>1. i < Len(s) + j
    BY <1>2
  <2>2. u[i] = s[i] /\ u[Len(s) + j] = s[i] /\ i \in DOMAIN u /\ Len(s) + j \in DOMAIN u
    BY <1>5, <1>6, <1>9
  <2>3. s[i][2] < s[i][2]
    BY <1>3, <2>1, <2>2 DEF Ordered
  <2> QED BY <2>3, Numbered
<1>10. Range(s) \cap Range(t) = {}
  BY <1>9, Numbered
<1> QED BY <1>4, <1>7, <1>8, <1>10 DEF u

\* A chunk that is new to its stream may be put before those of other streams.
LEMMA Inserted ==
    ASSUME NEW s \in Seq(Chunks), NEW t \in Seq(Chunks), NEW x \in Chunks, Ordered(s \o t),
           \A y \in Range(s) : y[1] = x[1] => y[2] < x[2],
           \A y \in Range(t) : y[1] # x[1]
    PROVE  /\ Ordered(Append(s, x) \o t)
           /\ Len(Append(s, x) \o t) = Len(s \o t) + 1
           /\ Range(Append(s, x) \o t) = Range(s \o t) \cup {x}
<1> DEFINE v == Append(s, x)
           u == v \o t
           n == Len(s)
<1>1. /\ v \in Seq(Chunks) /\ Len(v) = n + 1 /\ v[n + 1] = x
      /\ \A i \in 1 .. n : v[i] = s[i]
  BY AppendProperties
<1>2. /\ u \in Seq(Chunks) /\ Len(u) = n + 1 + Len(t)
      /\ \A i \in 1 .. n + 1 + Len(t) : u[i] = IF i <= n + 1 THEN v[i] ELSE t[i - (n + 1)]
  BY <1>1, ConcatProperties
<1>3. /\ DOMAIN u = 1 .. n + 1 + Len(t) /\ DOMAIN v = 1 .. n + 1 /\ DOMAIN s = 1 .. n
      /\ DOMAIN t = 1 .. Len(t) /\ n \in Nat /\ Len(t) \in Nat
  BY <1>1, <1>2, Numbered
<1>4. /\ Len(s \o t) = n + Len(t) /\ DOMAIN (s \o t) = 1 .. n + Len(t)
      /\ \A i \in 1 .. n + Len(t) : (s \o t)[i] = IF i <= n THEN s[i] ELSE t[i - n]
  BY ConcatProperties, Numbered
<1> DEFINE w == s \o t
<1>5. Ordered(w)
  OBVIOUS
<1>12. Range(w) = Range(s) \cup Range(t)
  BY RangeConcatenation
<1> HIDE DEF v, n
<1>13. Range(u) = Range(v) \cup Range(t)
  BY <1>1, RangeConcatenation
<1>14. Range(v) = Range(s) \cup {x}
  <2>1. ASSUME NEW y \in Range(v) PROVE y \in Range(s) \cup {x}
    <3>1. PICK i \in 1 .. n + 1 : v[i] = y
      BY <1>1, <1>3, Numbered
    <3>2. CASE i \in 1 .. n
      BY <1>1, <1>3, <3>1, <3>2, Numbered
    <3>3. CASE i = n + 1
      BY <1>1, <3>1, <3>3
    <3> QED BY <1>3, <3>2, <3>3
  <2>2. ASSUME NEW y \in Range(s) PROVE y \in Range(v)
    <3>1. PICK i \in 1 .. n : s[i] = y
      BY <1>3, Numbered
    <3>2. i \in DOMAIN v /\ v[i] = y
      BY <1>1, <1>3, <3>1
    <3> QED BY <1>1, <3>2, Numbered
  <2>3. x \in Range(v)
    <3>1. n + 1 \in DOMAIN v
      BY <1>3
    <3> QED BY <1>1, <3>1, Numbered
  <2> QED BY <2>1, <2>2, <2>3
<1>6. Range(u) = Range(w) \cup {x}
  BY <1>12, <1>13, <1>14
<1> HIDE DEF u, w
<1>7. \A i \in 1 .. n : u[i] = s[i] /\ w[i] = s[i] /\ s[i] \in Range(s)
  BY <1>1, <1>2, <1>3, <1>4, Numbered DEF w
<1>8. u[n + 1] = x
  BY <1>1, <1>2, <1>3
<1>9. \A i \in n + 2 .. n + 1 + Len(t) :
        i - 1 \in DOMAIN w /\ u[i] = t[i - (n + 1)] /\ w[i - 1] = t[i - (n + 1)] /\ i - (n + 1) \in DOMAIN t
  BY <1>2, <1>3, <1>4 DEF w
<1>10. \A i \in n + 2 .. n + 1 + Len(t) : u[i] \in Range(t) /\ w[i - 1] = u[i]
  BY <1>9, Numbered
<1>11. Ordered(u)
  <2> SUFFICES ASSUME NEW i \in DOMAIN u, NEW j \in DOMAIN u, i < j, u[i][1] = u[j][1]
               PROVE  u[i][2] < u[j][2]
    BY DEF Ordered
  <2>1. CASE j \in 1 .. n
    <3>1. i \in 1 .. n /\ i \in DOMAIN w /\ j \in DOMAIN w
      BY <1>3, <1>4, <2>1 DEF w
    <3> QED BY <1>5, <1>7, <2>1, <3>1 DEF Ordered
  <2>2. CASE j = n + 1
    <3>1. i \in 1 .. n
      BY <1>3, <2>2
    <3> QED BY <1>7, <1>8, <2>2, <3>1
  <2>3. CASE j \in n + 2 .. n + 1 + Len(t) /\ i \in 1 .. n
    <3>1. i \in DOMAIN w /\ j - 1 \in DOMAIN w /\ i < j - 1
      BY <1>3, <1>4, <2>3 DEF w
    <3>2. w[i] = u[i] /\ w[j - 1] = u[j]
      BY <1>7, <1>10, <2>3
    <3> QED BY <1>5, <3>1, <3>2 DEF Ordered
  <2>4. CASE j \in n + 2 .. n + 1 + Len(t) /\ i = n + 1
    BY <1>8, <1>10, <2>4
  <2>5. CASE j \in n + 2 .. n + 1 + Len(t) /\ i \in n + 2 .. n + 1 + Len(t)
    <3>1. i - 1 \in DOMAIN w /\ j - 1 \in DOMAIN w /\ i - 1 < j - 1
      BY <1>3, <1>4, <2>5 DEF w
    <3>2. w[i - 1] = u[i] /\ w[j - 1] = u[j]
      BY <1>10, <2>5
    <3> QED BY <1>5, <3>1, <3>2 DEF Ordered
  <2> QED BY <1>3, <2>1, <2>2, <2>3, <2>4, <2>5
<1> QED BY <1>2, <1>3, <1>4, <1>6, <1>11 DEF u, v, w, n

\* In particular, it may be put at the end.
LEMMA Extended ==
    ASSUME NEW s \in Seq(Chunks), NEW x \in Chunks, Ordered(s),
           \A y \in Range(s) : y[1] = x[1] => y[2] < x[2]
    PROVE  /\ Ordered(Append(s, x))
           /\ Len(Append(s, x)) = Len(s) + 1
           /\ Range(Append(s, x)) = Range(s) \cup {x}
<1> DEFINE none == <<>>
<1>1. none \in Seq(Chunks) /\ DOMAIN none = {} /\ Range(none) = {}
  BY EmptySeq DEF Range
<1>2. s \o none = s /\ Append(s, x) \in Seq(Chunks) /\ Append(s, x) \o none = Append(s, x)
  BY AppendProperties, ConcatEmptySeq
<1> HIDE DEF none
<1>3. Ordered(s \o none)
  BY <1>2
<1>4. /\ Ordered(Append(s, x) \o none)
      /\ Len(Append(s, x) \o none) = Len(s \o none) + 1
      /\ Range(Append(s, x) \o none) = Range(s \o none) \cup {x}
  <2>1. \A y \in Range(s) : y[1] = x[1] => y[2] < x[2]
    OBVIOUS
  <2>2. \A y \in Range(none) : y[1] # x[1]
    BY <1>1
  <2>3. s \in Seq(Chunks) /\ none \in Seq(Chunks) /\ x \in Chunks
    BY <1>1
  <2> QED BY <1>3, <2>1, <2>2, <2>3, Inserted
<1> QED BY <1>2, <1>4

-----------------------------------------------------------------------------

\* The transformer lists the streaming wrapper handles.
Small == \A p \in Pipelines : Len(p) <= 1

LEMMA Lists ==
    ASSUME TypeOK, Small
    PROVE  /\ N \in {0, 1} /\ idx \in 1 .. N + 1
           /\ out \in Seq(Chunks) /\ held \in Seq(Chunks) /\ content \in Seq(Chunks)
           /\ AccText \in Seq(Chunks) /\ Way \in Seq(Chunks)
           /\ Gone \in Seq(Chunks) /\ Whole \in Seq(Chunks)
           /\ <<>> \in Seq(Chunks) /\ NoChunk \notin Chunks
<1>1. N \in {0, 1}
  <2>1. N \in Nat /\ N <= 1
    BY StreamAssumption, LenProperties DEF TypeOK, Small, N
  <2> QED BY <2>1
<1>2. out \in Seq(Chunks) /\ held \in Seq(Chunks) /\ content \in Seq(Chunks) /\ <<>> \in Seq(Chunks)
  BY EmptySeq DEF TypeOK
<1>3. NoChunk \notin Chunks
  BY StreamAssumption DEF Chunks, NoChunk
<1>4. AccText \in Seq(Chunks)
  BY <1>1, <1>2 DEF TypeOK, AccText
<1>5. Way \in Seq(Chunks)
  <2>1. cur \in Chunks => <<cur>> \in Seq(Chunks)
    BY <1>2, SeqStep
  <2> QED BY <1>2, <2>1 DEF TypeOK, Way
<1>6. out \o AccText \in Seq(Chunks)
  BY <1>2, <1>4, ConcatProperties
<1>7. Gone \in Seq(Chunks)
  BY <1>5, <1>6, ConcatProperties DEF Gone
<1>8. Whole \in Seq(Chunks)
  BY <1>2, <1>7, ConcatProperties DEF Whole
<1> QED BY <1>1, <1>2, <1>3, <1>4, <1>5, <1>7, <1>8 DEF TypeOK

LEMMA Assoc ==
    ASSUME NEW s, NEW t, NEW u, s \in Seq(Chunks), t \in Seq(Chunks), u \in Seq(Chunks)
    PROVE  (s \o t) \o u = s \o (t \o u)
BY ConcatAssociative

\* The head of one sequence moves to the end of the sequence before it.
LEMMA Handed ==
    ASSUME NEW s, NEW t, s \in Seq(Chunks), t \in Seq(Chunks), t # <<>>
    PROVE  Append(s, Head(t)) \o Tail(t) = s \o t
<1> DEFINE h == <<Head(t)>>
           r == Tail(t)
<1>1. Head(t) \in Chunks /\ r \in Seq(Chunks) /\ h \in Seq(Chunks)
  BY HeadTailProperties, SeqStep
<1>2. t = h \o r
  <2>1. Len(t) \in Nat \ {0}
    BY EmptySeq
  <2>2. /\ SubSeq(t, 1, Len(t)) = t /\ Tail(t) = SubSeq(t, 2, Len(t))
        /\ SubSeq(t, 1, Len(t)) = <<t[1]>> \o SubSeq(t, 1 + 1, Len(t))
    BY <2>1, SubSeqFull, TailIsSubSeq, SubSeqRecursiveFirst
  <2>3. Head(t) = t[1]
    BY <2>1
  <2> QED BY <2>2, <2>3
<1>3. Append(s, Head(t)) = s \o h
  BY <1>1, AppendIsConcat
<1> HIDE DEF h, r
<1>4. (s \o h) \o r = s \o (h \o r)
  BY <1>1, Assoc
<1> QED BY <1>2, <1>3, <1>4 DEF r

LEMMA AppendAcross ==
    ASSUME NEW s, NEW t, s \in Seq(Chunks), t \in Seq(Chunks), NEW x \in Chunks
    PROVE  s \o Append(t, x) = Append(s \o t, x)
<1> DEFINE c == <<x>>
<1>1. c \in Seq(Chunks) /\ s \o t \in Seq(Chunks)
  BY SeqStep, ConcatProperties
<1>2. Append(t, x) = t \o c /\ Append(s \o t, x) = (s \o t) \o c
  BY <1>1, AppendIsConcat
<1> HIDE DEF c
<1>3. (s \o t) \o c = s \o (t \o c)
  BY <1>1, Assoc
<1> QED BY <1>2, <1>3

\* deferred_stream yields a chunk: it is the last that is gone.
LEMMA Yielded ==
    ASSUME TypeOK, Small, cur = NoChunk, NEW x \in Chunks, Yield(x), UNCHANGED config
    PROVE  Gone' = Append(Gone, x)
<1> USE Lists
<1>1. N' = N
  BY DEF config, N
<1>2. Way = <<>>
  BY DEF Way
<1>3. Gone = out \o AccText
  <2>1. out \o AccText \in Seq(Chunks)
    BY ConcatProperties
  <2> QED BY <1>2, <2>1, ConcatEmptySeq DEF Gone
<1>4. CASE N = 0
  <2>1. AccText = <<>> /\ AccText' = <<>> /\ Way' = <<>> /\ out' = Append(out, x)
    BY <1>1, <1>4 DEF AccText, Way, Yield, wrapper
  <2>2. Gone = out
    BY <1>3, <2>1, ConcatEmptySeq
  <2>3. out' \in Seq(Chunks)
    BY <2>1, AppendProperties
  <2> QED BY <2>1, <2>2, <2>3, ConcatEmptySeq DEF Gone
<1>5. CASE N # 0
  <2>1. AccText' = AccText /\ out' = out /\ Way' = <<x>>
    BY <1>1, <1>5 DEF AccText, Way, Yield
  <2> QED BY <1>3, <2>1, AppendIsConcat DEF Gone
<1> QED BY <1>4, <1>5

\* The transformer takes its time, and loses and doubles nothing.
LEMMA Transforms ==
    ASSUME TypeOK, Small, Settled, Hold \/ Release \/ Passthrough \/ LoopEnds \/ Flush
    PROVE  Gone' = Gone
<1> USE DEF config
<1> DEFINE A == AccText
<1>1. /\ N \in {0, 1} /\ idx \in 1 .. N + 1
      /\ out \in Seq(Chunks) /\ A \in Seq(Chunks)
      /\ <<>> \in Seq(Chunks) /\ NoChunk \notin Chunks
  BY Lists
<1>2. \A s, t \in Seq(Chunks) : s \o t \in Seq(Chunks) /\ s \o <<>> = s
  BY ConcatProperties, ConcatEmptySeq
<1>3. N' = N
  BY DEF Hold, Release, Passthrough, LoopEnds, Flush, N
<1>4. ASSUME Transforming
      PROVE  /\ N = 1 /\ idx = 1 /\ cur \in Chunks /\ A = acc[1] /\ <<cur>> \in Seq(Chunks)
             /\ Gone = out \o Append(A, cur) /\ Append(A, cur) \in Seq(Chunks)
  <2>1. N = 1 /\ idx = 1 /\ cur \in Chunks /\ cur # NoChunk
    BY <1>1, <1>4 DEF Transforming, TypeOK
  <2>2. Way = <<cur>> /\ A = acc[1]
    BY <2>1 DEF Way, AccText
  <2> DEFINE c == <<cur>>
  <2>3. c \in Seq(Chunks)
    BY <1>1, <2>1, SeqStep
  <2>4. A \o c = Append(A, cur) /\ Append(A, cur) \in Seq(Chunks)
    BY <1>1, <2>1, AppendIsConcat, AppendProperties
  <2>5. Gone = (out \o A) \o c
    BY <2>2 DEF Gone
  <2> HIDE DEF c, A
  <2>6. (out \o A) \o c = out \o (A \o c)
    BY <1>1, <2>3, Assoc
  <2> QED BY <2>1, <2>2, <2>3, <2>4, <2>5, <2>6 DEF c, A
<1>5. CASE Hold
  <2>1. A' = Append(A, cur) /\ Way' = <<>> /\ out' = out
    BY <1>1, <1>3, <1>4, <1>5 DEF Hold, AccText, Way, TypeOK
  <2> QED BY <1>1, <1>2, <1>4, <1>5, <2>1 DEF Hold, Gone
<1>6. CASE Release
  <2> DEFINE all == Append(A, cur)
  <2>1. all \in Seq(Chunks) /\ Gone = out \o all /\ N = 1 /\ idx = 1 /\ all = Append(acc[idx], cur)
    BY <1>1, <1>4, <1>6 DEF Release
  <2> HIDE DEF all
  <2>2. PICK k \in 1 .. Len(all) :
          /\ acc' = [acc EXCEPT ![idx] = SubSeq(all, k + 1, Len(all))]
          /\ out' = out \o SubSeq(all, 1, k)
          /\ cur' = NoChunk \/ idx' = idx + 1
    BY <1>6, <2>1 DEF Release, Emit
  <2> DEFINE p == SubSeq(all, 1, k)
             q == SubSeq(all, k + 1, Len(all))
  <2>4. Len(all) \in Nat
    BY <2>1, LenProperties
  <2>5. p \in Seq(Chunks) /\ q \in Seq(Chunks)
    <3>1. \A i \in 1 .. Len(all) : all[i] \in Chunks
      BY <2>1, ElementOfSeq
    <3> QED BY <2>4, <3>1, SubSeqProperties
  <2>6. p \o q = all
    <3>1. 1 \in 1 .. Len(all) + 1 /\ k \in 1 - 1 .. Len(all) /\ Len(all) \in k .. Len(all)
      BY <2>4
    <3>2. p \o q = SubSeq(all, 1, Len(all))
      BY <2>1, <3>1, ConcatAdjacentSubSeq
    <3> QED BY <2>1, <3>2, SubSeqFull
  <2>7. acc' = [acc EXCEPT ![idx] = q] /\ out' = out \o p
    BY <2>2
  <2> HIDE DEF p, q
  <2>3. A' = q /\ Way' = <<>>
    <3>1. idx \in 1 .. N /\ acc \in [1 .. N -> Seq(Chunks)]
      BY <2>1 DEF TypeOK
    <3>2. acc'[idx] = q
      BY <2>7, <3>1
    <3>3. A' = q
      BY <1>3, <2>1, <3>2 DEF AccText
    <3>4. Way' = <<>>
      BY <2>1, <2>2 DEF Way
    <3> QED BY <3>3, <3>4
  <2>8. (out \o p) \o q = out \o (p \o q)
    <3>1. out \in Seq(Chunks)
      BY <1>1
    <3> QED BY <2>5, <3>1, Assoc
  <2>9. Gone' = Gone
    <3>1. Gone' = ((out \o p) \o q) \o <<>>
      BY <2>3, <2>7 DEF Gone
    <3>2. (out \o p) \o q \in Seq(Chunks)
      BY <1>1, <1>2, <2>5
    <3> QED BY <1>2, <2>1, <2>6, <2>8, <3>1, <3>2
  <2> QED BY <2>9
<1>7. CASE Passthrough
  <2>1. A = <<>> /\ Append(A, cur) = <<cur>>
    <3>1. A = <<>> /\ cur \in Chunks /\ <<cur>> \in Seq(Chunks)
      BY <1>1, <1>4, <1>7 DEF Passthrough, Settled
    <3>2. Append(<<>>, cur) = <<>> \o <<cur>>
      BY <3>1, AppendIsConcat
    <3> QED BY <3>1, <3>2, ConcatEmptySeq
  <2>2. A' = <<>> /\ Way' = <<>> /\ out' = out \o <<cur>>
    BY <1>1, <1>3, <1>4, <1>7, <2>1 DEF Passthrough, Emit, AccText, Way
  <2> QED BY <1>1, <1>2, <1>4, <1>7, <2>1, <2>2 DEF Passthrough, Gone
<1>8. CASE LoopEnds
  <2>1. N = 1 /\ idx = 2
    BY <1>1, <1>8 DEF LoopEnds, Settled
  <2>2. Way = <<>> /\ Way' = <<>> /\ A' = A /\ out' = out
    BY <1>1, <1>3, <1>8, <2>1 DEF LoopEnds, Way, AccText
  <2> QED BY <2>2 DEF Gone
<1>9. CASE Flush
  <2>1. N = 1 /\ idx = 1 /\ cur = NoChunk /\ cur' = cur /\ A = acc[1]
    BY <1>1, <1>9 DEF Flush, Settled, AccText
  <2>2. Way = <<>> /\ Way' = <<>>
    BY <2>1 DEF Way
  <2>3. \/ A' = <<>> /\ out' = out \o A
        \/ A' = A /\ out' = out
    BY <1>1, <1>3, <1>9, <2>1 DEF Flush, Emit, AccText, TypeOK
  <2>4. out' \o A' = out \o A
    BY <1>1, <1>2, <2>3
  <2> QED BY <2>2, <2>4 DEF Gone
<1> QED BY <1>5, <1>6, <1>7, <1>8, <1>9

\* A step sends a chunk, or leaves the text as it is, or renames it.
Sends(x) ==
    /\ ProviderText /\ x = <<round, sent + 1>> /\ content' = Append(content, x)
    /\ \/ Gone' = Append(Gone, x) /\ held' = held /\ (~withTools \/ round # 1)
       \/ Gone' = Gone /\ held' = Append(held, x) /\ withTools /\ round = 1

Keeps == Whole' = Whole /\ content' = content /\ ~ProviderText

LEMMA TextMoves ==
    ASSUME TypeOK, Small, Stage, Settled, Next
    PROVE  \/ Sends(<<round, sent + 1>>)
           \/ Keeps /\ (held' = held \/ (held # <<>> /\ held' = Tail(held)))
           \/ TransformEnds
<1> USE Lists DEF config, provider, loop, wrapper
<1>1. CASE UNCHANGED <<transformers, out, acc, cur, held, content>> /\ (idx' = idx \/ cur = NoChunk) /\ ~ProviderText
  <2>1. AccText' = AccText /\ Way' = Way
    BY <1>1 DEF AccText, Way, N
  <2>2. Gone' = Gone
    BY <1>1, <2>1 DEF Gone
  <2> QED BY <1>1, <2>2 DEF Whole, Keeps
<1>2. CASE ProviderText
  <2> DEFINE x == <<round, sent + 1>>
  <2>1. x \in Chunks
    <3>1. round \in 1 .. MaxRounds /\ sent \in Nat /\ sent < MaxText
      BY <1>2, StreamAssumption DEF ProviderText, TypeOK
    <3> QED BY <3>1, StreamAssumption DEF Chunks
  <2>2. CASE withTools /\ round = 1
    <3>1. held' = Append(held, x) /\ UNCHANGED <<wrapper, out, config>>
      BY <1>2, <2>2 DEF ProviderText
    <3>2. Gone' = Gone
      BY <3>1 DEF Gone, AccText, Way, N
    <3> QED BY <1>2, <2>2, <3>1, <3>2 DEF Sends, ProviderText
  <2>3. CASE ~(withTools /\ round = 1)
    <3>1. Yield(x) /\ held' = held /\ UNCHANGED config /\ cur = NoChunk /\ content' = Append(content, x)
      BY <1>2, <2>3 DEF ProviderText, Reading
    <3> HIDE DEF x
    <3>2. Gone' = Append(Gone, x)
      BY <2>1, <3>1, Yielded
    <3> QED BY <1>2, <2>3, <3>1, <3>2 DEF Sends, x
  <2> QED BY <2>2, <2>3
<1>3. CASE Replay
  <2>1. CASE held # <<>> /\ Yield(Head(held)) /\ held' = Tail(held)
    <3>1. Head(held) \in Chunks /\ Tail(held) \in Seq(Chunks) /\ <<Head(held)>> \in Seq(Chunks)
      BY <2>1, HeadTailProperties, SeqStep
    <3>2. Gone' = Append(Gone, Head(held))
      BY <1>3, <2>1, <3>1, Yielded DEF Replay
    <3>3. Append(Gone, Head(held)) \o Tail(held) = Gone \o held
      BY <2>1, Handed
    <3>6. Whole' = Whole
      BY <2>1, <3>2, <3>3 DEF Whole
    <3>7. content' = content /\ ~ProviderText
      BY <1>3 DEF Replay, ProviderText, Reading
    <3> QED BY <2>1, <3>6, <3>7 DEF Keeps
  <2>2. CASE UNCHANGED <<held, wrapper, out>>
    BY <1>1, <1>3, <2>2 DEF Replay, ProviderText, Reading
  <2> QED BY <1>3, <2>1, <2>2 DEF Replay
<1>4. CASE Hold \/ Release \/ Passthrough \/ LoopEnds \/ Flush
  <2>1. held' = held /\ content' = content
    BY <1>4 DEF Hold, Release, Passthrough, LoopEnds, Flush
  <2>2. ~ProviderText
    BY <1>4 DEF Hold, Release, Passthrough, LoopEnds, Flush, Transforming, ProviderText, Reading
  <2>3. Gone' = Gone
    BY <1>4, Transforms
  <2>4. Whole' = Whole
    BY <2>1, <2>3 DEF Whole
  <2> QED BY <2>1, <2>2, <2>4 DEF Keeps
<1>5. CASE FinalizeEnds
  <2>1. UNCHANGED <<transformers, out, acc, cur, held, content>> /\ at = "resuming"
    BY <1>5 DEF FinalizeEnds
  <2>2. ~ProviderText
    BY <2>1 DEF ProviderText, Reading
  <2>3. idx' = idx \/ exc = "none"
    BY <1>5 DEF FinalizeEnds
  <2>4. fin # "no"
    BY <2>1 DEF Stage
  <2>5. idx' = idx \/ cur = NoChunk
    BY <2>3, <2>4 DEF Settled
  <2> QED BY <1>1, <2>1, <2>2, <2>5
<1>6. CASE \/ Pull \/ Leave \/ Collect \/ Cancel
           \/ ProviderTool \/ ProviderUsage \/ ProviderEnd \/ ProviderFails \/ ToolsAnswered \/ ToolsFail
  <2>1. UNCHANGED <<transformers, out, acc, cur, held, content, idx>>
    BY <1>6 DEF Pull, Leave, Collect, Cancel, CancelRead, CancelTransform, CancelFinalize,
         ProviderTool, ProviderUsage, ProviderEnd, ProviderFails, ToolsAnswered, ToolsFail
  <2>2. ProviderText => content' # content
    <3>1. ASSUME ProviderText, content' = content PROVE FALSE
      <4>1. content \in Seq(Chunks) /\ content' = Append(content, <<round, sent + 1>>)
        BY <3>1 DEF ProviderText
      <4> QED BY <3>1, <4>1, LenProperties
    <3> QED BY <3>1
  <2> QED BY <1>1, <2>1, <2>2
<1> QED
  BY <1>2, <1>3, <1>4, <1>5, <1>6 DEF Next, Provider, Loop, Wrapper

LEMMA SettledNext ==
    ASSUME TypeOK, Small, Stage, Kept, Settled, Next
    PROVE  Settled'
<1> USE DEF config, provider, loop, wrapper
<1>1. /\ N \in {0, 1} /\ idx \in 1 .. N + 1 /\ N' = N
      /\ <<>> \in Seq(Chunks) /\ NoChunk \notin Chunks
  <2>1. UNCHANGED transformers
    BY DEF Next, Pull, Leave, Collect, Provider, Loop, Wrapper, Cancel, CancelRead, CancelTransform,
       CancelFinalize, ProviderText, ProviderTool, ProviderUsage, ProviderEnd, ProviderFails, Replay,
       ToolsAnswered, ToolsFail, FinalizeEnds, Hold, Release, Passthrough, LoopEnds, Flush, TransformEnds
  <2> QED BY <2>1, Lists DEF N
<1>2. ASSUME UNCHANGED <<transformers, acc, held, cur, exc>>, fin = "no" <=> fin' = "no",
             at' # "flushing" \/ UNCHANGED <<at, idx>>
      PROVE  Settled'
  BY <1>1, <1>2 DEF Settled, AccText
<1>3. ASSUME NEW why, Finally(why), UNCHANGED <<transformers, acc, held, cur>>,
             why # "none" \/ (held = <<>> /\ cur = NoChunk)
      PROVE  Settled'
  BY <1>1, <1>3 DEF Settled, AccText, Finally
<1>4. ASSUME NEW x, Yield(x), UNCHANGED <<transformers, at, exc, fin>>, at \in {"reading", "replaying"}
      PROVE  Settled'
  <2>1. fin' = "no" /\ acc' = acc
    BY <1>4 DEF Stage, Yield
  <2> QED BY <1>1, <1>4, <2>1 DEF Settled, AccText, Yield
<1>5. CASE ProviderText
  <2>1. CASE UNCHANGED wrapper
    BY <1>1, <1>5, <2>1 DEF Settled, AccText, ProviderText, Reading, Stage
  <2>2. CASE Yield(<<round, sent + 1>>)
    BY <1>4, <1>5, <2>2 DEF ProviderText, Reading
  <2> QED BY <1>5, <2>1, <2>2 DEF ProviderText
<1>6. CASE Pull
  <2>1. at = "flushing" <=> at' = "flushing"
    BY <1>6 DEF Pull
  <2> QED BY <1>2, <1>6, <2>1 DEF Pull
<1>7. CASE Leave \/ ProviderTool \/ ProviderUsage \/ CancelTransform
  BY <1>2, <1>7 DEF Leave, ProviderTool, ProviderUsage, CancelTransform
<1>8. CASE ToolsAnswered \/ TransformEnds
  BY <1>2, <1>8 DEF ToolsAnswered, TransformEnds
<1>9. CASE CancelFinalize
  BY <1>2, <1>9 DEF CancelFinalize, Stage
<1>10. CASE ProviderFails \/ Collect \/ CancelRead \/ ToolsFail
  BY <1>3, <1>10 DEF ProviderFails, Collect, CancelRead, ToolsFail
<1>11. CASE ProviderEnd
  <2>1. CASE ~withTools /\ Finally("none")
    BY <1>3, <1>11, <2>1 DEF ProviderEnd, Reading, Kept
  <2>2. CASE UNCHANGED <<exc, fin, saved>> /\ at' # "flushing"
    BY <1>2, <1>11, <2>2 DEF ProviderEnd
  <2> QED BY <1>11, <2>1, <2>2 DEF ProviderEnd
<1>12. CASE Replay
  <2>1. CASE Yield(Head(held)) /\ UNCHANGED <<at, exc, fin, saved>>
    BY <1>4, <1>12, <2>1 DEF Replay
  <2>2. CASE held = <<>> /\ Finally("none") /\ UNCHANGED <<held, wrapper, out, caller>>
    BY <1>3, <1>12, <2>2 DEF Replay
  <2> QED BY <1>12, <2>1, <2>2 DEF Replay
<1>13. CASE FinalizeEnds
  BY <1>1, <1>13 DEF FinalizeEnds, Settled, AccText, Stage
<1>14. CASE Hold \/ Release \/ Passthrough
  <2>1. N = 1 /\ idx = 1 /\ cur # NoChunk /\ UNCHANGED <<transformers, at, exc, fin, held>>
    BY <1>1, <1>14 DEF Hold, Release, Passthrough, Transforming
  <2>2. ~(fin # "no" /\ exc = "none") /\ at # "flushing"
    BY <2>1 DEF Settled
  <2>3. transformers[1] = "pass" => UNCHANGED acc
    BY <1>14, <2>1 DEF Hold, Release, Passthrough
  <2> QED BY <1>1, <2>1, <2>2, <2>3 DEF Settled, AccText
<1>15. CASE LoopEnds
  <2>1. cur # NoChunk /\ UNCHANGED <<transformers, at, exc, fin, held, acc>>
    BY <1>15 DEF LoopEnds
  <2>2. ~(fin # "no" /\ exc = "none") /\ at # "flushing"
    BY <2>1 DEF Settled
  <2> QED BY <1>1, <1>15, <2>1, <2>2 DEF LoopEnds, Settled, AccText
<1>16. CASE Flush
  <2>1. at = "flushing" /\ idx = 1 /\ N = 1 /\ UNCHANGED <<transformers, at, exc, fin, held, cur>> /\ idx' = 2
    BY <1>1, <1>16 DEF Flush, Settled
  <2>2. acc'[1] = <<>>
    BY <1>1, <1>16, <2>1 DEF Flush, TypeOK
  <2> QED BY <1>1, <2>1, <2>2 DEF Settled, AccText
<1> QED
  BY <1>5, <1>6, <1>7, <1>8, <1>9, <1>10, <1>11, <1>12, <1>13, <1>14, <1>15, <1>16
  DEF Next, Provider, Loop, Wrapper, Cancel

LEMMA KeptNext ==
    ASSUME TypeOK, Small, Stage, Billed, Kept, Settled, Next
    PROVE  Kept'
<1> USE DEF config, provider, loop, wrapper
<1> DEFINE x == <<round, sent + 1>>
<1>1. /\ out \in Seq(Chunks) /\ held \in Seq(Chunks) /\ content \in Seq(Chunks)
      /\ Gone \in Seq(Chunks) /\ Whole \in Seq(Chunks) /\ <<>> \in Seq(Chunks)
      /\ round \in Nat /\ sent \in Nat
  BY Lists, StreamAssumption DEF TypeOK
<1>2. CASE Sends(x)
  <2>1. /\ x \in Chunks /\ x[1] = round /\ x[2] = sent + 1
        /\ fin = "no" /\ fin' = "no" /\ round' = round /\ sent' = sent + 1 /\ withTools' = withTools
    <3>1. round \in 1 .. MaxRounds /\ sent \in Nat /\ sent < MaxText
      BY <1>2, StreamAssumption DEF Sends, ProviderText, TypeOK
    <3> QED BY <1>2, <3>1, StreamAssumption DEF Sends, ProviderText, Reading, Stage, Chunks
  <2> HIDE DEF x
  <2>2. \A y \in Range(content) : y[1] \in Nat /\ y[2] \in Nat /\ y[1] <= round /\ (y[1] = round => y[2] <= sent)
    BY <1>1, <2>1, Numbered DEF Kept, Old
  <2>3. \A y \in Range(content) : y[1] = x[1] => y[2] < x[2]
    BY <1>1, <2>1, <2>2
  <2>4. held = <<>> => Range(held) = {}
    BY EmptySeq DEF Range
  <2>6. ASSUME NEW u \in Seq(Chunks), Ordered(u), Range(u) = Range(content)
        PROVE  /\ Ordered(Append(u, x))
               /\ Range(Append(u, x)) = Range(u) \cup {x} /\ Len(Append(u, x)) = Len(u) + 1
    <3>2. \A y \in Range(u) : y[1] = x[1] => y[2] < x[2]
      BY <2>3, <2>6
    <3> QED BY <2>1, <2>6, <3>2, Extended
  <2>7. content' = Append(content, x)
    BY <1>2 DEF Sends
  <2>8. /\ Ordered(content') /\ Range(content') = Range(content) \cup {x} /\ Len(content') = Len(content) + 1
    BY <1>1, <2>6, <2>7 DEF Kept
  <2>9. \A y \in Range(content') : Old(y)'
    BY <1>1, <2>1, <2>2, <2>8 DEF Old
  <2>10. /\ Ordered(Whole') /\ Range(Whole') = Range(Whole) \cup {x} /\ Len(Whole') = Len(Whole) + 1
         /\ held' # <<>> => withTools /\ \A y \in Range(held') : y[1] = 1
    <3>1. CASE Gone' = Append(Gone, x) /\ held' = held /\ (~withTools \/ round # 1)
      <4>1. Range(Gone) \subseteq Range(content) /\ Ordered(Gone \o held)
        <5>1. Range(Whole) = Range(Gone) \cup Range(held)
          BY <1>1, RangeConcatenation DEF Whole
        <5> QED BY <5>1 DEF Kept, Whole
      <4>2. \A y \in Range(Gone) : y[1] = x[1] => y[2] < x[2]
        BY <2>3, <4>1
      <4>3. \A y \in Range(held) : y[1] # x[1]
        BY <2>1, <2>4, <3>1 DEF Kept
      <4>4. Whole' = Append(Gone, x) \o held
        BY <3>1 DEF Whole
      <4>5. Ordered(Whole') /\ Range(Whole') = Range(Whole) \cup {x} /\ Len(Whole') = Len(Whole) + 1
        BY <1>1, <2>1, <4>1, <4>2, <4>3, <4>4, Inserted DEF Whole
      <4> QED BY <3>1, <4>5 DEF Kept
    <3>2. CASE Gone' = Gone /\ held' = Append(held, x) /\ withTools /\ round = 1
      <4>1. Whole' = Append(Whole, x)
        BY <1>1, <2>1, <3>2, AppendAcross DEF Whole
      <4>2. Range(held') = Range(held) \cup {x}
        <5> DEFINE c == <<x>>
        <5>1. c \in Seq(Chunks) /\ held' = held \o c /\ Range(c) = {x}
          BY <1>1, <2>1, <3>2, SeqStep, AppendIsConcat DEF Range
        <5> HIDE DEF c
        <5> QED BY <1>1, <5>1, RangeConcatenation
      <4>3. \A y \in Range(held) : y[1] = 1
        BY <2>4 DEF Kept
      <4> QED BY <1>1, <2>1, <2>6, <3>2, <4>1, <4>2, <4>3 DEF Kept
    <3> QED BY <1>2, <3>1, <3>2 DEF Sends, x
  <2> QED BY <2>1, <2>8, <2>9, <2>10 DEF Kept
<1>3. fin' = "no" => fin = "no"
  <2>1. Begins \/ Reads \/ Turns \/ Answers \/ Stops \/ Finishes \/ Around
    BY Steps
  <2> QED BY <2>1 DEF Begins, Reads, Turns, Answers, Stops, Finishes, Around, Stage, hook
<1>4. ~ProviderText => UNCHANGED <<round, sent>> \/ round' = round + 1
  BY DEF Next, Pull, Leave, Collect, Provider, Loop, Wrapper, Cancel, CancelRead, CancelTransform,
     CancelFinalize, ProviderTool, ProviderUsage, ProviderEnd, ProviderFails, Replay, ToolsAnswered,
     ToolsFail, FinalizeEnds, Hold, Release, Passthrough, LoopEnds, Flush, TransformEnds
<1>5. withTools' = withTools
  BY DEF Next, Pull, Leave, Collect, Provider, Loop, Wrapper, Cancel, CancelRead, CancelTransform,
     CancelFinalize, ProviderText, ProviderTool, ProviderUsage, ProviderEnd, ProviderFails, Replay,
     ToolsAnswered, ToolsFail, FinalizeEnds, Hold, Release, Passthrough, LoopEnds, Flush, TransformEnds
<1>6. CASE Keeps /\ (held' = held \/ (held # <<>> /\ held' = Tail(held)))
  <2>1. ASSUME fin' = "no", NEW y \in Range(content) PROVE Old(y)'
    <3>1. Old(y) /\ y[1] \in Nat /\ y[2] \in Nat
      BY <1>1, <1>3, <2>1, Numbered DEF Kept
    <3> QED BY <1>1, <1>4, <1>6, <3>1 DEF Old, Keeps
  <2>2. held' # <<>> => held # <<>> /\ Range(held') \subseteq Range(held)
    <3>1. CASE held # <<>> /\ held' = Tail(held)
      <4>1. /\ Tail(held) \in Seq(Chunks) /\ Len(Tail(held)) = Len(held) - 1
            /\ \A i \in 1 .. Len(Tail(held)) : Tail(held)[i] = held[i + 1]
        BY <1>1, <3>1, HeadTailProperties
      <4>2. Len(held) \in Nat /\ DOMAIN held = 1 .. Len(held) /\ DOMAIN held' = 1 .. Len(held) - 1
        BY <1>1, <3>1, <4>1, Numbered
      <4>3. \A i \in DOMAIN held' : i + 1 \in DOMAIN held /\ held'[i] = held[i + 1]
        BY <3>1, <4>1, <4>2
      <4> QED BY <3>1, <4>3 DEF Range
    <3> QED BY <1>6, <3>1
  <2> QED BY <1>5, <1>6, <2>1, <2>2 DEF Kept, Keeps
<1>7. CASE TransformEnds
  <2>1. held = <<>> /\ cur = NoChunk /\ AccText = <<>> /\ fin # "no"
    BY <1>7 DEF TransformEnds, Settled
  <2>2. Whole = out
    BY <1>1, <2>1, ConcatEmptySeq DEF Whole, Gone, Way
  <2>3. Whole' = Whole /\ held' = held /\ content' = out /\ fin' = fin
    BY <1>7 DEF TransformEnds, Whole, Gone, Way, AccText, N
  <2> QED BY <2>1, <2>2, <2>3 DEF Kept
<1> QED BY <1>2, <1>6, <1>7, TextMoves

LEMMA Accounted ==
    ASSUME TypeOK, Small, Kept
    PROVE  ChunksAccounted
<1>1. /\ N \in {0, 1}
      /\ out \in Seq(Chunks) /\ held \in Seq(Chunks) /\ content \in Seq(Chunks)
      /\ AccText \in Seq(Chunks) /\ Way \in Seq(Chunks) /\ Gone \in Seq(Chunks) /\ Whole \in Seq(Chunks)
      /\ NoChunk \notin Chunks
  BY Lists
<1> DEFINE front == out \o AccText
<1>2. front \in Seq(Chunks) /\ Gone = front \o Way
  BY <1>1, ConcatProperties DEF Gone
<1>3. /\ Ordered(Gone) /\ Ordered(held) /\ Range(Whole) = Range(Gone) \cup Range(held)
      /\ Range(Gone) \cap Range(held) = {}
  BY <1>1, Parts DEF Kept, Whole
<1>4. /\ Ordered(front) /\ Range(Gone) = Range(front) \cup Range(Way)
      /\ Range(front) \cap Range(Way) = {}
  <2> HIDE DEF front
  <2>1. Ordered(front \o Way)
    BY <1>2, <1>3
  <2> QED BY <1>1, <1>2, <2>1, Parts
<1>5. /\ Ordered(out) /\ Ordered(AccText) /\ Range(front) = Range(out) \cup Range(AccText)
      /\ Range(out) \cap Range(AccText) = {}
  BY <1>1, <1>4, Parts
<1>6. Len(AccText) <= Len(content)
  <2>1. Len(front) = Len(out) + Len(AccText)
    BY <1>1, ConcatProperties
  <2> HIDE DEF front
  <2>2. Len(Gone) = Len(front) + Len(Way)
    BY <1>1, <1>2, ConcatProperties
  <2>3. Len(Whole) = Len(Gone) + Len(held)
    BY <1>1, ConcatProperties DEF Whole
  <2>4. Len(out) \in Nat /\ Len(AccText) \in Nat /\ Len(Way) \in Nat /\ Len(held) \in Nat
    BY <1>1, LenProperties
  <2> QED BY <2>1, <2>2, <2>3, <2>4 DEF Kept
<1> HIDE DEF front
<1>7. ASSUME NEW x \in Chunks
      PROVE  Copies(x) = Cardinality({i \in DOMAIN content : content[i] = x})
  <2> DEFINE In1(s) == IF x \in Range(s) THEN 1 ELSE 0
  <2>1. /\ Cardinality({i \in DOMAIN out : out[i] = x}) = In1(out)
        /\ Cardinality({i \in DOMAIN held : held[i] = x}) = In1(held)
        /\ Cardinality({i \in DOMAIN content : content[i] = x}) = In1(content)
    <3>1. Ordered(out) /\ Ordered(held) /\ Ordered(content)
      BY <1>3, <1>5 DEF Kept
    <3>2. \A s \in Seq(Chunks) : Ordered(s) => Cardinality({i \in DOMAIN s : s[i] = x}) = In1(s)
      BY Once
    <3> HIDE DEF In1
    <3> QED BY <1>1, <3>1, <3>2
  <2> DEFINE T == {p \in (1 .. N) \X (1 .. Len(content)) : p[2] \in DOMAIN acc[p[1]] /\ acc[p[1]][p[2]] = x}
  <2>2. Cardinality(T) = In1(AccText)
    <3>1. CASE N = 0
      <4>1. T = {}
        BY <3>1
      <4>2. x \notin Range(AccText)
        BY <3>1, EmptySeq DEF AccText, Range
      <4> QED BY <4>1, <4>2, FS_EmptySet
    <3>2. CASE N = 1
      <4>1. AccText = acc[1]
        BY <3>2 DEF AccText
      <4>2. CASE x \notin Range(AccText)
        <5>1. T = {}
          BY <1>1, <3>2, <4>1, <4>2, Numbered
        <5> QED BY <4>2, <5>1, FS_EmptySet
      <4>3. CASE x \in Range(AccText)
        <5>1. PICK i \in DOMAIN AccText : AccText[i] = x
          BY <1>1, <4>3, Numbered
        <5>2. ASSUME NEW j \in DOMAIN AccText, AccText[j] = x PROVE j = i
          <6>1. i \in Nat /\ j \in Nat /\ x[2] \in Nat
            BY <1>1, <5>1, <5>2, Numbered
          <6>2. i < j \/ j < i => x[2] < x[2]
            BY <1>5, <5>1, <5>2 DEF Ordered
          <6> QED BY <6>1, <6>2
        <5>3. i \in 1 .. Len(content)
          <6>1. Len(content) \in Nat /\ Len(AccText) \in Nat /\ i \in 1 .. Len(AccText)
            BY <1>1, <5>1, LenProperties
          <6> QED BY <1>6, <6>1
        <5>4. T = {<<1, i>>}
          <6>1. \A p \in (1 .. N) \X (1 .. Len(content)) : p[1] = 1 /\ p = <<1, p[2]>>
            BY <3>2
          <6>2. <<1, i>> \in T
            BY <3>2, <4>1, <5>1, <5>3
          <6>3. \A p \in T : p = <<1, i>>
            BY <4>1, <5>2, <6>1
          <6> QED BY <6>2, <6>3
        <5> QED BY <4>3, <5>4, FS_Singleton
      <4> QED BY <4>2, <4>3
    <3> QED BY <1>1, <3>1, <3>2
  <2>3. (IF cur = x /\ idx = 1 THEN 1 ELSE 0) = In1(Way)
    <3>1. CASE cur # NoChunk /\ idx = 1
      BY <3>1 DEF Way, Range
    <3>2. CASE ~(cur # NoChunk /\ idx = 1)
      <4>1. x \notin Range(Way)
        BY <3>2, EmptySeq DEF Way, Range
      <4> QED BY <1>1, <3>2, <4>1
    <3> QED BY <3>1, <3>2
  <2>4. Copies(x) = In1(out) + In1(held) + In1(AccText) + In1(Way)
    <3> HIDE DEF In1
    <3> QED BY <2>1, <2>2, <2>3 DEF Copies
  <2>5. In1(content) = In1(out) + In1(held) + In1(AccText) + In1(Way)
    BY <1>3, <1>4, <1>5 DEF Kept
  <2> QED BY <2>1, <2>4, <2>5
<1>8. \A i, j \in DOMAIN out : i < j /\ out[i][1] = out[j][1] => out[i][2] < out[j][2]
  BY <1>5 DEF Ordered
<1> QED BY <1>7, <1>8 DEF ChunksAccounted

\* With at most one transformer, which is what the streaming wrapper handles,
\* and for any number of streams, chunks and tool rounds: no text is lost or
\* doubled, and the text of one provider stream reaches the caller in order.
THEOREM TextAccounted ==
    ASSUME Small
    PROVE  Spec => []ChunksAccounted
<1>1. Init => Kept /\ Settled
  <2> SUFFICES ASSUME Init PROVE Kept /\ Settled
    OBVIOUS
  <2> DEFINE none == <<>>
  <2>1. none \in Seq(Chunks) /\ DOMAIN none = {} /\ Range(none) = {} /\ none \o none = none
    BY EmptySeq, ConcatEmptySeq DEF Range
  <2>2. N \in Nat
    BY StreamAssumption, LenProperties DEF Init, N
  <2>3. /\ out = none /\ AccText = none /\ Way = none /\ held = none /\ content = none
        /\ fin = "no" /\ at = "fresh" /\ cur = NoChunk
    BY <2>2 DEF Init, AccText, Way
  <2> HIDE DEF none
  <2>4. Whole = none
    BY <2>1, <2>3 DEF Whole, Gone
  <2>5. Ordered(none)
    BY <2>1 DEF Ordered
  <2>6. Kept
    BY <2>1, <2>3, <2>4, <2>5 DEF Kept, none
  <2>7. Settled
    BY <2>3 DEF Settled, none
  <2> QED BY <2>6, <2>7
<1>2. IInv /\ Kept /\ Settled /\ [Next]_vars => (Kept /\ Settled)'
  <2> SUFFICES ASSUME IInv, Kept, Settled, [Next]_vars PROVE Kept' /\ Settled'
    OBVIOUS
  <2>1. CASE UNCHANGED vars
    <3>1. UNCHANGED <<Whole, AccText, N>>
      BY <2>1 DEF vars, config, provider, loop, wrapper, Whole, Gone, AccText, Way, N
    <3> QED
      BY <2>1, <3>1 DEF vars, config, provider, loop, wrapper, Kept, Settled, Old
  <2>2. CASE Next
    BY <2>2, KeptNext, SettledNext DEF IInv
  <2> QED BY <2>1, <2>2
<1>3. IInv /\ Kept => ChunksAccounted
  BY Accounted DEF IInv
<1> QED BY <1>1, <1>2, <1>3, Invariant, PTL DEF Spec

-----------------------------------------------------------------------------
(* Nobody pulls in vain: the safety half of EveryPullReturns, for any      *)
(* transformers, rounds and texts.                                         *)

Active == caller \in {"pulling", "has"}

\* Whoever still pulls has not come to the end.  A chunk that some accumulator
\* has seen was handled, or the last one that saw it holds it.
Reached ==
    /\ caller = "holding" => at = "fresh" /\ cur = NoChunk
    /\ Active => at \notin {"fresh", "closed"}
    /\ caller = "has" => at \in {"reading", "replaying", "flushing"}
    /\ exc = "collected" => ~Active /\ caller # "holding"
    /\ cur # NoChunk => N > 0
    /\ cur # NoChunk /\ Active => at \in {"reading", "replaying"}
    /\ cur # NoChunk /\ idx > 1 => handled \/ acc[idx - 1] # <<>>

\* The last branch of _transform_stream, a chunk that nobody handled and
\* nobody holds, is never taken.
ChunkPlaced ==
    cur # NoChunk /\ idx > N => handled \/ \E i \in 1 .. N : acc[i] # <<>>

\* The guards of Provider, Loop and Wrapper for whoever waits for a chunk.
CanMove ==
    \/ cur = NoChunk /\ at \in {"reading", "replaying"}
    \/ at \in {"calling", "resuming", "flushing"}
    \/ cur # NoChunk /\ idx <= N /\ transformers[idx] \in {"pass", "pattern"}
    \/ cur # NoChunk /\ idx > N /\ (handled \/ \E i \in 1 .. N : acc[i] # <<>>)

PullNotStuck == caller = "pulling" => CanMove

LEMMA YieldReached ==
    ASSUME TypeOK, Reached, caller = "pulling", at \in {"reading", "replaying"},
           NEW x, Yield(x), UNCHANGED <<transformers, at, exc>>
    PROVE  Reached'
<1>1. N' = N /\ N \in Nat
  BY StreamAssumption, LenProperties DEF TypeOK, N
<1>2. CASE N = 0
  BY <1>1, <1>2 DEF Yield, wrapper, Reached, Active
<1>3. CASE N # 0
  BY <1>1, <1>3 DEF Yield, Reached, Active
<1> QED BY <1>2, <1>3

LEMMA ReachedNext ==
    ASSUME IInv, Reached, Next
    PROVE  Reached'
<1> USE DEF config, provider, loop, wrapper
<1>1. TypeOK /\ Stage /\ N \in Nat /\ idx \in 1 .. N + 1
  BY StreamAssumption, LenProperties DEF IInv, TypeOK, N
<1>2. N' = N
  BY DEF Next, Pull, Leave, Collect, Provider, Loop, Wrapper, Cancel, CancelRead, CancelTransform,
     CancelFinalize, ProviderText, ProviderTool, ProviderUsage, ProviderEnd, ProviderFails, Replay,
     ToolsAnswered, ToolsFail, FinalizeEnds, Hold, Release, Passthrough, LoopEnds, Flush,
     TransformEnds, N
<1>3. CASE Pull
  BY <1>2, <1>3 DEF Pull, Reached, Active
<1>4. CASE Leave
  BY <1>2, <1>4 DEF Leave, Reached, Active
<1>5. CASE ProviderText
  <2>1. CASE Yield(<<round, sent + 1>>)
    BY <1>1, <1>5, <2>1, YieldReached DEF ProviderText, Reading
  <2>2. CASE UNCHANGED <<wrapper, out, caller>>
    BY <1>2, <1>5, <2>2 DEF ProviderText, Reached, Active
  <2> QED BY <1>5, <2>1, <2>2 DEF ProviderText
<1>6. CASE ProviderTool \/ ProviderUsage
  BY <1>2, <1>6 DEF ProviderTool, ProviderUsage, Reached, Active
<1>7. CASE ProviderEnd \/ ProviderFails \/ ToolsAnswered \/ ToolsFail \/ CancelRead
  <2>1. /\ at' \in {"calling", "replaying", "resuming", "reading"}
        /\ at \notin {"fresh", "flushing"} /\ exc' \in {exc, "none", "raised"}
        /\ UNCHANGED <<cur, idx, handled, acc, caller>>
        /\ (caller = "pulling" /\ cur = NoChunk) \/ at = "calling"
    BY <1>7 DEF ProviderEnd, ProviderFails, ToolsAnswered, ToolsFail, CancelRead, Reading, Finally
  <2> QED BY <1>2, <2>1 DEF Reached, Active
<1>8. CASE Replay
  <2>1. CASE Yield(Head(held)) /\ UNCHANGED <<at, exc>>
    BY <1>1, <1>8, <2>1, YieldReached DEF Replay
  <2>2. CASE Finally("none") /\ UNCHANGED <<wrapper, caller>>
    BY <1>2, <1>8, <2>2 DEF Replay, Finally, Reached, Active
  <2> QED BY <1>8, <2>1, <2>2 DEF Replay
<1>9. CASE FinalizeEnds
  <2>1. at = "resuming" /\ UNCHANGED <<cur, handled, acc, exc>>
    BY <1>9 DEF FinalizeEnds
  <2>2. exc \in {"none", "raised", "collected"} /\ caller # "has" /\ (Active => cur = NoChunk)
    BY <1>1, <2>1 DEF TypeOK, Reached
  <2>3. CASE exc = "none" /\ N > 0
    BY <1>1, <1>2, <1>9, <2>1, <2>2, <2>3 DEF FinalizeEnds, Reached, Active
  <2>4. CASE exc # "none" \/ N = 0
    BY <1>1, <1>2, <1>9, <2>1, <2>2, <2>4 DEF FinalizeEnds, Reached, Active
  <2> QED BY <1>1, <2>3, <2>4
<1>10. CASE Collect
  BY <1>2, <1>10 DEF Collect, Finally, Reached, Active
<1>11. CASE Hold
  <2>1. acc \in [1 .. N -> Seq(Chunks)] /\ idx \in 1 .. N
    BY <1>1, <1>11 DEF Hold, Transforming, TypeOK
  <2>2. Append(acc[idx], cur) # <<>>
    <3>1. acc[idx] \in Seq(Chunks) /\ cur \in Chunks /\ Len(acc[idx]) \in Nat
      BY <1>1, <1>11, <2>1, LenProperties DEF Hold, Transforming, TypeOK
    <3>2. Len(Append(acc[idx], cur)) = Len(acc[idx]) + 1
      BY <3>1, AppendProperties
    <3>3. Len(<<>>) = 0
      BY EmptySeq
    <3> QED BY <3>1, <3>2, <3>3
  <2>3. acc'[idx] = Append(acc[idx], cur) /\ idx' = idx + 1 /\ idx' - 1 = idx
    BY <1>1, <1>11, <2>1 DEF Hold
  <2> QED BY <1>2, <1>11, <2>2, <2>3 DEF Hold, Transforming, Reached, Active
<1>12. CASE Release \/ Passthrough
  <2>1. /\ caller = "pulling" /\ caller' = "has" /\ cur # NoChunk
        /\ cur' = NoChunk \/ (cur' = cur /\ handled')
        /\ UNCHANGED <<at, exc>>
    BY <1>12 DEF Release, Passthrough, Transforming, Emit
  <2> QED BY <1>2, <2>1 DEF Reached, Active
<1>13. CASE LoopEnds
  BY <1>2, <1>13 DEF LoopEnds, Reached, Active
<1>14. CASE Flush
  <2>1. /\ caller = "pulling" /\ at = "flushing" /\ cur = NoChunk
        /\ caller' \in {"has", "pulling"} /\ UNCHANGED <<at, cur, exc>>
    BY <1>14 DEF Flush, Emit, Reached, Active
  <2> QED BY <1>2, <2>1 DEF Reached, Active
<1>15. CASE TransformEnds
  BY <1>2, <1>15 DEF TransformEnds, Reached, Active
<1>16. CASE CancelTransform \/ CancelFinalize
  BY <1>2, <1>16 DEF CancelTransform, CancelFinalize, Reached, Active
<1> QED
  BY <1>3, <1>4, <1>5, <1>6, <1>7, <1>8, <1>9, <1>10, <1>11, <1>12, <1>13, <1>14, <1>15, <1>16
  DEF Next, Provider, Loop, Wrapper, Cancel

LEMMA ReachedAlways == Spec => [](IInv /\ Reached)
<1>1. Init => Reached
  BY DEF Init, Reached, Active
<1>2. IInv /\ Reached /\ [Next]_vars => Reached'
  <2>1. CASE Next
    BY <2>1, ReachedNext
  <2>2. CASE UNCHANGED vars
    BY <2>2 DEF vars, config, wrapper, Reached, Active, N
  <2> QED BY <2>1, <2>2
<1> QED BY <1>1, <1>2, Invariant, PTL DEF Spec

\* For any list of transformers: a chunk that every accumulator has seen was
\* handled or is held, so the wrapper never passes one on as it is, and never
\* loses one (_transform_stream).
THEOREM NoChunkLeftOver == Spec => []ChunkPlaced
<1>1. IInv /\ Reached => ChunkPlaced
  <2> SUFFICES ASSUME IInv, Reached, cur # NoChunk, idx > N
               PROVE  handled \/ \E i \in 1 .. N : acc[i] # <<>>
    BY DEF ChunkPlaced
  <2>1. N \in Nat /\ N > 0 /\ idx = N + 1
    BY StreamAssumption, LenProperties DEF IInv, TypeOK, N, Reached
  <2>2. idx > 1 /\ idx - 1 \in 1 .. N
    BY <2>1
  <2> QED BY <2>2 DEF Reached
<1> QED BY <1>1, ReachedAlways, PTL

\* Whoever waits for a chunk waits for the provider, a tool, the deferred hooks
\* or a generator that can go on: a stream that has ended, failed or been
\* closed has nobody who pulls.
THEOREM PullsNotStuck == Spec => []PullNotStuck
<1>1. IInv /\ Reached /\ ChunkPlaced => PullNotStuck
  <2> SUFFICES ASSUME IInv, Reached, ChunkPlaced, caller = "pulling" PROVE CanMove
    BY DEF PullNotStuck
  <2>1. /\ at \in {"reading", "replaying", "calling", "resuming", "flushing"}
        /\ N \in Nat /\ idx \in 1 .. N + 1
    BY StreamAssumption, LenProperties DEF IInv, TypeOK, Reached, Active, N
  <2>2. idx <= N => transformers[idx] \in {"pass", "pattern"}
    <3>1. transformers \in Seq({"pass", "pattern"})
      BY StreamAssumption DEF IInv, TypeOK
    <3> QED BY <2>1, <3>1, ElementOfSeq DEF N
  <2>3. idx <= N \/ idx > N
    BY <2>1
  <2> QED BY <2>1, <2>2, <2>3 DEF CanMove, ChunkPlaced
<1> QED BY <1>1, NoChunkLeftOver, ReachedAlways, PTL

\* How far deferred_stream is.
Place ==
    CASE at = "fresh" -> 0
      [] at = "reading" -> 2 * round - 1
      [] at = "calling" -> 2 * round
      [] at = "replaying" -> 2 * MaxRounds + 1
      [] at = "resuming" -> 2 * MaxRounds + 2
      [] at = "flushing" -> 2 * MaxRounds + 3
      [] OTHER -> 2 * MaxRounds + 4

\* More of a provider's stream has been read, or of what was kept back replayed.
More ==
    \/ /\ at = "reading" /\ round' = round
       /\ sent <= sent' /\ usage \subseteq usage' /\ (toolBuffer => toolBuffer')
       /\ <<sent, usage, toolBuffer>>' # <<sent, usage, toolBuffer>>
    \/ at = "replaying" /\ Len(held') < Len(held)

\* The wrapper is further with a chunk, or with its flush, or has done with it.
Passed ==
    /\ UNCHANGED <<provider, loop>>
    /\ \/ cur # NoChunk /\ cur' = NoChunk
       \/ cur' = cur /\ idx' > idx

\* deferred_stream goes forward and never back; where it is, the streams do;
\* and beneath them the wrapper.  All three have an end.
Further ==
    /\ Place' >= Place /\ Place' <= 2 * MaxRounds + 4
    /\ Place' > Place \/ (at' = at /\ (More \/ Passed))

\* The caller asks for the next chunk, or is over.
Asks ==
    /\ UNCHANGED <<provider, loop, content, at, wrapper, out, exc, fin, saved>>
    /\ caller' # caller /\ caller' \in {"pulling", "left", "error"}
    /\ caller \in {"holding", "has", "pulling"}

LEMMA PlaceRange ==
    ASSUME TypeOK
    PROVE  /\ Place \in 0 .. 2 * MaxRounds + 4
           /\ at = "reading" => Place < 2 * round /\ Place >= 1
           /\ at = "calling" => Place = 2 * round /\ Place <= 2 * MaxRounds
           /\ at \notin {"resuming", "flushing", "closed"} => Place < 2 * MaxRounds + 2
           /\ at = "reading" => Place < 2 * MaxRounds
           /\ round \in Nat /\ MaxRounds \in Nat
<1>1. round \in Nat /\ round >= 1 /\ round <= MaxRounds /\ MaxRounds \in Nat
  BY StreamAssumption DEF TypeOK
<1>2. CASE at = "reading"
  BY <1>1, <1>2 DEF Place
<1>3. CASE at = "calling"
  BY <1>1, <1>3 DEF Place
<1>4. CASE at \notin {"reading", "calling"}
  <2>1. at \in {"fresh", "replaying", "resuming", "flushing", "closed"}
    BY <1>4 DEF TypeOK
  <2> QED BY <1>1, <1>4, <2>1 DEF Place
<1> QED BY <1>2, <1>3, <1>4

LEMMA StepFurther ==
    ASSUME IInv, Reached, Next, TypeOK'
    PROVE  Further \/ Asks
<1> USE DEF config, provider, loop, wrapper
<1>1. /\ TypeOK /\ Place \in 0 .. 2 * MaxRounds + 4 /\ Place' \in 0 .. 2 * MaxRounds + 4
      /\ round \in Nat /\ MaxRounds \in Nat /\ round >= 1
      /\ sent \in Nat /\ idx \in Nat
  <2>1. TypeOK
    BY DEF IInv
  <2>2. Place' \in 0 .. 2 * MaxRounds + 4
    <3>1. round' \in Nat /\ round' >= 1 /\ round' <= MaxRounds /\ MaxRounds \in Nat
      BY StreamAssumption DEF TypeOK
    <3>2. at' = "reading" => Place' = 2 * round' - 1
      BY DEF Place
    <3>3. at' = "calling" => Place' = 2 * round'
      BY DEF Place
    <3>4. at' \notin {"reading", "calling"} => Place' \in {0} \cup 2 * MaxRounds + 1 .. 2 * MaxRounds + 4
      BY <3>1 DEF Place
    <3> QED BY <3>1, <3>2, <3>3, <3>4
  <2>3. MaxText \in Nat /\ N \in Nat
    BY <2>1, StreamAssumption, LenProperties DEF TypeOK, N
  <2>4. /\ Place \in 0 .. 2 * MaxRounds + 4 /\ MaxRounds \in Nat
        /\ round \in Nat /\ round >= 1 /\ sent \in Nat /\ idx \in Nat
    <3>1. Place \in 0 .. 2 * MaxRounds + 4 /\ MaxRounds \in Nat
      BY <2>1, PlaceRange
    <3>2. round \in 1 .. MaxRounds /\ sent \in 0 .. MaxText /\ idx \in 1 .. N + 1
      BY <2>1 DEF TypeOK
    <3> QED BY <2>3, <3>1, <3>2
  <2> QED BY <2>1, <2>2, <2>4
<1>2. ASSUME Place' > Place PROVE Further
  BY <1>1, <1>2 DEF Further
<1>3. ASSUME at' = at, round' = round, More \/ Passed PROVE Further
  <2>1. Place' = Place
    BY <1>3 DEF Place
  <2> QED BY <1>1, <1>3, <2>1 DEF Further
<1>4. CASE Pull
  <2>1. CASE at = "fresh"
    <3>1. Place = 0 /\ Place' = 2 * round - 1
      BY <1>4, <2>1 DEF Pull, Place
    <3> QED BY <1>1, <1>2, <3>1
  <2>2. CASE at # "fresh"
    BY <1>4, <2>2 DEF Pull, Asks
  <2> QED BY <2>1, <2>2
<1>5. CASE Leave \/ CancelTransform
  BY <1>5 DEF Leave, CancelTransform, Asks
<1>6. CASE ProviderText
  <2>1. /\ at = "reading" /\ at' = at /\ sent' = sent + 1
        /\ UNCHANGED <<round, usage, toolBuffer>>
    BY <1>6 DEF ProviderText, Reading
  <2>2. sent <= sent' /\ sent # sent'
    BY <1>1, <2>1
  <2> QED BY <1>3, <2>1, <2>2 DEF More
<1>7. CASE ProviderTool \/ ProviderUsage
  <2>1. /\ at = "reading" /\ UNCHANGED <<at, round, sent>> /\ sent <= sent'
        /\ usage \subseteq usage' /\ (toolBuffer => toolBuffer')
        /\ usage' # usage \/ toolBuffer' # toolBuffer
    BY <1>1, <1>7 DEF ProviderTool, ProviderUsage, Reading, IInv, Billed
  <2> QED BY <1>3, <2>1 DEF More
<1>8. ASSUME NEW why, Finally(why), at \in {"reading", "calling", "replaying"} PROVE Further
  <2>1. Place' = 2 * MaxRounds + 2
    BY <1>8 DEF Finally, Place
  <2> QED BY <1>1, <1>2, <1>8, <2>1, PlaceRange
<1>9. CASE ProviderEnd
  <2>1. CASE Finally("none")
    BY <1>8, <1>9, <2>1 DEF ProviderEnd, Reading
  <2>2. CASE at' = IF tools' # 0 THEN "calling" ELSE "replaying"
    <3>1. at = "reading" /\ round' = round /\ at' \in {"calling", "replaying"}
      BY <1>9, <2>2 DEF ProviderEnd, Reading
    <3>2. Place < 2 * round /\ Place < 2 * MaxRounds
      BY <1>1, <3>1, PlaceRange
    <3>3. Place' = 2 * round \/ Place' = 2 * MaxRounds + 1
      BY <3>1 DEF Place
    <3> QED BY <1>1, <1>2, <3>2, <3>3
  <2> QED BY <1>9, <2>1, <2>2 DEF ProviderEnd
<1>10. CASE ProviderFails \/ ToolsFail \/ Collect \/ CancelRead
  BY <1>8, <1>10 DEF ProviderFails, Reading, ToolsFail, Collect, CancelRead
<1>11. CASE Replay
  <2>1. CASE held # <<>> /\ held' = Tail(held) /\ UNCHANGED at
    <3>1. Len(held') < Len(held)
      BY <1>1, <2>1, HeadTailProperties, LenProperties, EmptySeq DEF TypeOK
    <3> QED BY <1>3, <1>11, <2>1, <3>1 DEF Replay, More
  <2>2. CASE Finally("none")
    BY <1>8, <1>11, <2>2 DEF Replay
  <2> QED BY <1>11, <2>1, <2>2 DEF Replay
<1>12. CASE ToolsAnswered
  <2>1. Place = 2 * round /\ Place' = 2 * (round + 1) - 1
    BY <1>12 DEF ToolsAnswered, Place
  <2> QED BY <1>1, <1>2, <2>1
<1>13. CASE FinalizeEnds \/ CancelFinalize
  <2>1. at = "resuming" /\ at' \in {"flushing", "closed"}
    BY <1>13 DEF FinalizeEnds, CancelFinalize
  <2>2. Place = 2 * MaxRounds + 2 /\ Place' >= 2 * MaxRounds + 3
    BY <1>1, <2>1 DEF Place
  <2> QED BY <1>1, <1>2, <2>2
<1>14. CASE Hold \/ LoopEnds \/ Passthrough \/ Flush \/ Release
  <2>1. /\ UNCHANGED <<provider, loop, at>>
        /\ (cur # NoChunk /\ cur' = NoChunk) \/ (cur' = cur /\ idx' > idx)
    BY <1>1, <1>14 DEF Hold, LoopEnds, Passthrough, Flush, Release, Transforming
  <2> QED BY <1>3, <2>1 DEF Passed
<1>15. CASE TransformEnds
  <2>1. Place = 2 * MaxRounds + 3 /\ Place' = 2 * MaxRounds + 4
    BY <1>15 DEF TransformEnds, Place
  <2> QED BY <1>1, <1>2, <2>1
<1> QED
  BY <1>4, <1>5, <1>6, <1>7, <1>9, <1>10, <1>11, <1>12, <1>13, <1>14, <1>15
  DEF Next, Provider, Loop, Wrapper, Cancel

\* Every step but the caller's own takes the stream further, and none takes it
\* back: tool rounds, text and transformers are gone through once
\* (_tool_handler, _transform_stream, deferred_stream).
THEOREM StreamGoesForward == Spec => [][Further \/ Asks]_vars
<1>1. IInv /\ Reached /\ IInv' /\ [Next]_vars => [Further \/ Asks]_vars
  BY StepFurther DEF IInv
<1> QED BY <1>1, ReachedAlways, PTL DEF Spec
=============================================================================
