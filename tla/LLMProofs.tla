----------------------------- MODULE LLMProofs -----------------------------
(***************************************************************************)
(* LLMExchange: for any number of invocations and every choice of the      *)
(* modelled opt-ins, what is returned is stored or cached, tasks end with  *)
(* their invocation, suggestions follow the exchange they are about.        *)
(* LLMPool: for any clients, strategies, tasks, batches and faults, one    *)
(* request per client and the load that is counted, batches that are whole *)
(* and what still runs when its caller has gone; and that whatever is      *)
(* underway can go on, and only forward.                                   *)
(***************************************************************************)
EXTENDS LLMExchange, LLMPool, FiniteSetTheorems, WellFoundedInduction, TLAPS

\* The processors of the default lifecycle run in every invocation: no
\* invocation leaves the context in another substate.
Default == substate = "default"

\* One invocation at a time; those before it are over, those after it have
\* not begun.
Turn ==
    /\ at # 0 => inv \in Invocations /\ outcome[inv] = "none"
    /\ \A k \in Invocations : k > inv => outcome[k] = "none"

\* Only the last stage of an invocation has a task beside it.
Beside == \A k \in Invocations : task[k] \in Unfinished => k = inv /\ at = 20

\* From the message builder on the context ends with a question or a tool's
\* result; from the first call on the response is of this invocation.
Asked ==
    /\ at >= 3 => messages # <<>> /\ messages[Len(messages)] \in {"user", "tool"}
    /\ at >= 7 => response.by = inv

\* Only ResponseCache, at the end of its hook, makes the executor skip; until
\* the first call the response, and until the cache is written what is
\* cached, are not of this invocation.
Skipped ==
    /\ skip => "ResponseCache" \in optin /\ at \in {0, 5}
    /\ response.by \in 0 .. inv \cup {Another}
    /\ at \in 1 .. 6 => response.by # inv
    /\ \A c \in cached : c.response.by \in 0 .. inv \cup {Another} /\ (at \in 1 .. 14 => c.response.by # inv)

\* The exchange of invocation k is stored once, with the text of reply r.
Filed(k, r) ==
    \E i \in DOMAIN stored : Stored(k) = {i} /\ stored[i].asked \in {"user", "tool"} /\ stored[i].text = r.text

\* The exchange is stored at its place in the pipeline, and once.
Kept ==
    /\ \A k \in Invocations : k > inv => Entries(k) = {}
    /\ at \in 1 .. 16 => Entries(inv) = {}
    /\ at >= 17 => Filed(inv, response)

IInv ==
    /\ TypeOK /\ Default /\ Turn /\ Beside /\ Asked /\ Skipped /\ Kept
    /\ ReturnedIsStored /\ SuggestionsFollow

-----------------------------------------------------------------------------

LEMMA Places ==
    /\ Len(Pipeline) = 20
    /\ Pipeline[1] = "HistoryRetrieval" /\ Pipeline[2] = "MessageBuilder"
    /\ Pipeline[3] = "PromptRegistration" /\ Pipeline[4] = "ResponseCache"
    /\ Pipeline[5] = "Wait"
    /\ Pipeline[6] = "LLMInvoke" /\ Pipeline[7] = "ProviderFallback" /\ Pipeline[8] = "Wait"
    /\ Pipeline[9] = "ToolExecutor" /\ Pipeline[10] = "ToolResultCache"
    /\ Pipeline[11] = "ParallelToolExecutor" /\ Pipeline[12] = "Wait"
    /\ Pipeline[13] = "TransformerPipeline" /\ Pipeline[14] = "ResponseCachePersistence"
    /\ Pipeline[15] = "Wait"
    /\ Pipeline[16] = "HistoryPersistence" /\ Pipeline[17] = "CostTracker"
    /\ Pipeline[18] = "UsageLogger" /\ Pipeline[19] = "SuggestionsGenerator"
    /\ Pipeline[20] = "Wait"
BY DEF Pipeline

LEMMA PlacesListed ==
    ASSUME TypeOK
    PROVE  at \in {0, 1, 2, 3, 4, 5, 6, 7, 8, 9, 10, 11, 12, 13, 14, 15, 16, 17, 18, 19, 20}
<1>1. at \in 0 .. 20
  BY Places DEF TypeOK
<1> QED BY <1>1

\* Where each processor stands.
LEMMA PlaceOf ==
    ASSUME TypeOK
    PROVE  /\ Running("HistoryRetrieval") => at = 1
           /\ Running("MessageBuilder") => at = 2
           /\ Running("ResponseCache") => at = 4
           /\ Running("LLMInvoke") => at = 6
           /\ Running("ProviderFallback") => at = 7
           /\ Running("ToolExecutor") => at = 9
           /\ Running("ToolResultCache") => at = 10
           /\ Running("ParallelToolExecutor") => at = 11
           /\ Running("TransformerPipeline") => at = 13
           /\ Running("ResponseCachePersistence") => at = 14
           /\ Running("HistoryPersistence") => at = 16
           /\ Running("SuggestionsGenerator") => at = 19
           /\ Running("Wait") => at \in {5, 8, 12, 15, 20}
<1>1. \A p : Running(p) => at # 0 /\ Pipeline[at] = p
  BY DEF Running
<1> QED BY <1>1, Places, PlacesListed

\* What Pass may skip: an opt-in processor, or one that changes nothing here.
LEMMA PassPlaces ==
    ASSUME TypeOK, Default, Skipped, Pass PROVE at \in {3, 4, 7, 10, 11, 14, 17, 18, 19} /\ ~skip
<1>1. at # 0 /\ Pipeline[at] # "Wait"
  BY DEF Pass, Runs
<1>2. ~skip
  BY <1>1, Places DEF Skipped
<1> QED BY <1>1, <1>2, Places, PlacesListed DEF Pass, Runs, Default, Optional

\* An exchange appended adds to what is stored of its invocation and to
\* nothing else.
LEMMA StoredGrows ==
    ASSUME TypeOK, NEW x, stored' = Append(stored, x), NEW k
    PROVE  /\ x.of # k => Entries(k)' = Entries(k)
           /\ Stored(k)' = IF x.of = k /\ x.by = k THEN Stored(k) \cup {Len(stored) + 1} ELSE Stored(k)
           /\ \A i \in DOMAIN stored : i \in DOMAIN stored' /\ stored'[i] = stored[i]
           /\ Len(stored) + 1 \in DOMAIN stored' /\ stored'[Len(stored) + 1] = x
<1>1. /\ DOMAIN stored = 1 .. Len(stored) /\ DOMAIN stored' = 1 .. Len(stored) + 1
      /\ Len(stored) \in Nat
      /\ \A i \in 1 .. Len(stored) : stored'[i] = stored[i]
      /\ stored'[Len(stored) + 1] = x
  BY DEF TypeOK
<1> QED BY <1>1 DEF Stored, Entries

LEMMA IsRole == {"history", "user", "assistant", "tool"} \subseteq Roles
BY DEF Roles

LEMMA IsResponse == NoResponse \in Responses /\ NoResponse.by = 0
BY DEF NoResponse, Responses

LEMMA InitInv == Init => IInv
<1> SUFFICES ASSUME Init PROVE IInv
  OBVIOUS
<1>1. TypeOK
  <2>1. optin \subseteq Optional /\ tools \in {"none", "kwargs", "both"} /\ reused \in BOOLEAN
    BY ExchangeAssumption DEF Init, Optional
  <2>2. inv \in 0 .. MaxInvocations /\ at \in 0 .. Len(Pipeline) /\ messages \in Seq(Roles) /\ response \in Responses
    BY ExchangeAssumption, Places, IsResponse DEF Init
  <2>3. /\ substate \in {"default", "tool_result"} /\ skip \in BOOLEAN /\ key \in Nat
        /\ cached \subseteq [key : Nat, response : Responses]
    BY DEF Init
  <2>4. /\ outcome \in [Invocations -> {"none", "returned", "raised"}]
        /\ reply \in [Invocations -> Responses]
        /\ task \in [Invocations -> Unfinished \cup {"none", "cancelled", "done"}]
    BY IsResponse DEF Init
  <2>5. stored \in Seq(Exchanges) /\ read \in [Invocations -> Seq(Exchanges)]
    BY DEF Init
  <2> QED BY <2>1, <2>2, <2>3, <2>4, <2>5 DEF TypeOK
<1>2. Default /\ Turn /\ Beside /\ Asked
  BY ExchangeAssumption DEF Init, Default, Turn, Beside, Asked, Unfinished, Invocations
<1>3. Skipped /\ Kept
  BY IsResponse DEF Init, Skipped, Kept, Entries
<1>4. ReturnedIsStored /\ SuggestionsFollow
  BY DEF Init, ReturnedIsStored, SuggestionsFollow
<1> QED BY <1>1, <1>2, <1>3, <1>4 DEF IInv

-----------------------------------------------------------------------------

\* What is stored stays as it is said to be when the store does.
LEMMA SameStore ==
    ASSUME stored' = stored
    PROVE  \A k, r : Entries(k)' = Entries(k) /\ Stored(k)' = Stored(k) /\ (Filed(k, r) => Filed(k, r)')
BY DEF Entries, Stored, Filed

\* An invocation that has returned is in what is stored as before, when what
\* is stored of it stays.
LEMMA ReturnedStays ==
    ASSUME ReturnedIsStored, optin' = optin,
           \A k \in Invocations : outcome'[k] = "returned" =>
               /\ outcome[k] = "returned" /\ reply'[k] = reply[k]
               /\ Entries(k) = {} => Entries(k)' = {}
               /\ \A r : Filed(k, r) => Filed(k, r)'
    PROVE  ReturnedIsStored'
<1> SUFFICES ASSUME NEW k \in Invocations, outcome'[k] = "returned"
             PROVE  IF reply'[k].by = k THEN Filed(k, reply[k])'
                    ELSE "ResponseCache" \in optin' /\ Entries(k)' = {}
  BY DEF ReturnedIsStored, Filed
<1> DEFINE r == reply[k]
<1>1. outcome[k] = "returned" /\ reply'[k] = reply[k]
  OBVIOUS
<1>2. IF reply[k].by = k THEN Filed(k, reply[k]) ELSE "ResponseCache" \in optin /\ Entries(k) = {}
  BY <1>1 DEF ReturnedIsStored, Filed
<1>3. CASE reply[k].by = k
  <2>1. PICK x : x = reply[k]
    OBVIOUS
  <2>2. Filed(k, x)'
    BY <1>2, <1>3, <2>1
  <2>3. Filed(k, reply[k])'
    BY <1>1, <2>1, <2>2 DEF Filed
  <2> QED BY <1>1, <1>3, <2>3
<1>4. CASE reply[k].by # k
  BY <1>1, <1>2, <1>4
<1> QED BY <1>3, <1>4

\* A stage goes on, or raises.
On == at' = at + 1 /\ UNCHANGED ending

\* A stage that is not the last of a hook that skips goes on or raises.
LEMMA Moves ==
    ASSUME at \in 1 .. 19, skip => Pipeline[at] # "Wait", Advance \/ Raises
    PROVE  On \/ Raises
<1>1. Len(Pipeline) = 20
  BY Places
<1> QED BY <1>1 DEF Advance, On

\* An invocation that goes on or raises has not returned.
LEMMA MovesTyped ==
    ASSUME TypeOK, at \in 1 .. 19, inv \in Invocations, On \/ Raises
    PROVE  /\ outcome' \in [Invocations -> {"none", "returned", "raised"}]
           /\ reply' \in [Invocations -> Responses]
           /\ at' \in 0 .. Len(Pipeline)
           /\ outcome'[inv] = outcome[inv] \/ (at' = 0 /\ outcome'[inv] = "raised")
           /\ \A k \in Invocations : k # inv => outcome'[k] = outcome[k]
           /\ \A k \in Invocations : reply'[k] = reply[k]
<1>1. Len(Pipeline) = 20
  BY Places
<1>2. at' \in 0 .. 20
  BY DEF On, Raises
<1>3. reply' = reply
  BY DEF On, Raises, ending
<1>4. outcome' = outcome \/ (at' = 0 /\ outcome' = [outcome EXCEPT ![inv] = "raised"])
  BY DEF On, Raises, ending
<1> QED BY <1>1, <1>2, <1>3, <1>4 DEF TypeOK

\* A stage that does not touch the store keeps what is said of it, if it goes
\* on before or after the place of HistoryPersistence, or raises.
LEMMA KeptAlong ==
    ASSUME IInv, at \in 1 .. 19, at # 16, UNCHANGED <<optin, inv, task, stored, read>>, On \/ Raises,
           at >= 17 => response' = response
    PROVE  Turn' /\ Kept' /\ ReturnedIsStored' /\ SuggestionsFollow' /\ (at # 19 => Beside')
<1>0. TypeOK /\ inv \in Invocations /\ outcome[inv] = "none"
  BY DEF IInv, Turn
<1>1. \A k, r : Entries(k)' = Entries(k) /\ (Filed(k, r) => Filed(k, r)')
  BY SameStore
<1>2. /\ \A k \in Invocations : k # inv => outcome'[k] = outcome[k]
      /\ \A k \in Invocations : reply'[k] = reply[k]
      /\ outcome'[inv] = "none" \/ (at' = 0 /\ outcome'[inv] = "raised")
      /\ at' = at + 1 \/ at' = 0
  BY <1>0, MovesTyped DEF On, Raises
<1>3. Turn'
  BY <1>0, <1>2 DEF IInv, Turn, Invocations
<1>4. Kept'
  <2>1. at' >= 17 => at >= 17
    BY <1>2
  <2>2. at' \in 1 .. 16 => at \in 1 .. 16
    BY <1>2
  <2>3. ASSUME at' >= 17 PROVE Filed(inv, response)'
    <3>1. PICK x : x = response
      OBVIOUS
    <3>2. Filed(inv, x)'
      BY <1>1, <2>1, <2>3, <3>1 DEF IInv, Kept
    <3>3. response' = x
      BY <2>1, <2>3, <3>1
    <3> QED BY <3>2, <3>3 DEF Filed
  <2> QED BY <1>1, <2>2, <2>3 DEF IInv, Kept
<1>5. ReturnedIsStored'
  <2>1. \A k \in Invocations : outcome'[k] = "returned" => outcome[k] = "returned" /\ reply'[k] = reply[k]
    BY <1>2
  <2> QED BY <1>1, <2>1, ReturnedStays DEF IInv
<1>6. SuggestionsFollow'
  <2>1. \A k \in Invocations : task[k] \notin {"asking", "storing"}
    BY DEF IInv, Beside, Unfinished
  <2> QED BY <2>1 DEF SuggestionsFollow
<1>7. Beside'
  BY DEF IInv, Beside, Unfinished
<1> QED BY <1>3, <1>4, <1>5, <1>6, <1>7

\* Only ResponseCache and the first call change what Skipped says.
LEMMA SkippedAlong ==
    ASSUME IInv, at \in 1 .. 19, at # 5, at # 6, UNCHANGED <<optin, inv, response, skip, cached>>, On \/ Raises
    PROVE  Skipped'
<1>1. at' = at + 1 \/ at' = 0
  BY DEF On, Raises
<1>2. ~skip
  BY DEF IInv, Skipped
<1>3. at' \in 1 .. 6 => at \in 1 .. 6
  BY <1>1
<1>4. at' \in 1 .. 14 => at \in 1 .. 14
  BY <1>1
<1> QED BY <1>2, <1>3, <1>4 DEF IInv, Skipped

LEMMA InvokeInv == IInv /\ Invoke => IInv'
<1> SUFFICES ASSUME IInv, Invoke PROVE IInv'
  OBVIOUS
<1> USE DEF context, control, setting, ending, history
<1>0. TypeOK /\ inv \in Nat /\ MaxInvocations \in Nat /\ inv < MaxInvocations
  BY ExchangeAssumption DEF IInv, TypeOK, Invoke
<1>1. at = 0 /\ inv' = inv + 1 /\ inv' \in Invocations /\ inv' # Another /\ ~(inv' \in 0 .. inv)
  BY <1>0 DEF Invoke, Invocations, Another
<1>2. UNCHANGED <<setting, cached, task, history>>
  BY DEF Invoke
<1>3. /\ messages' = <<>> /\ substate' = "default" /\ response' \in Responses
      /\ skip' \in BOOLEAN /\ key' \in Nat
      /\ response' \in {response, NoResponse} /\ (skip' => skip)
  <2>1. response \in Responses /\ skip \in BOOLEAN /\ key \in Nat /\ substate = "default"
    BY <1>0 DEF TypeOK, IInv, Default
  <2>2. messages' = <<>>
    BY DEF Invoke
  <2>3. CASE reused
    <3>1. response' = response /\ substate' = substate /\ skip' = skip /\ key' = key
      BY <2>3, Zenon DEF Invoke
    <3>2. response' \in Responses /\ substate' = "default" /\ skip' \in BOOLEAN /\ key' \in Nat
      BY <2>1, <3>1, Zenon
    <3>3. response' \in {response, NoResponse} /\ (skip' => skip)
      BY <3>1, Zenon
    <3> QED BY <2>2, <3>2, <3>3
  <2>4. CASE ~reused
    <3>1. response' = NoResponse /\ substate' = "default" /\ skip' = FALSE /\ key' = 0
      BY <2>4, Zenon DEF Invoke
    <3> QED BY <2>2, <3>1, IsResponse
  <2> QED BY <2>3, <2>4
<1>4. response'.by \in 0 .. inv \cup {Another} /\ response.by \in 0 .. inv \cup {Another}
  BY <1>0, <1>3, IsResponse DEF IInv, Skipped
<1>5. /\ \A k \in Invocations : k # inv' => outcome'[k] = outcome[k] /\ reply'[k] = reply[k]
      /\ \/ at' = 1 /\ outcome' = outcome /\ reply' = reply /\ ~skip'
         \/ at' = 0 /\ outcome' \in [Invocations -> {"none", "returned", "raised"}]
            /\ reply' = [reply EXCEPT ![inv'] = response] /\ skip
  <2>1. CASE reused /\ skip
    BY <1>0, <1>1, <2>1 DEF Invoke, Returns, TypeOK
  <2>2. CASE ~(reused /\ skip)
    BY <1>0, <1>1, <2>2 DEF Invoke, TypeOK
  <2> QED BY <2>1, <2>2
<1>6. TypeOK'
  <2>1. inv' \in 0 .. MaxInvocations /\ messages' \in Seq(Roles)
    BY <1>0, <1>1, <1>3
  <2>2. at' \in 0 .. Len(Pipeline)
    BY <1>5, Places
  <2>3. outcome' \in [Invocations -> {"none", "returned", "raised"}] /\ reply' \in [Invocations -> Responses]
    BY <1>0, <1>5 DEF TypeOK
  <2> QED BY <1>0, <1>2, <1>3, <2>1, <2>2, <2>3 DEF TypeOK
<1>7. Default' /\ Asked' /\ Beside' /\ SuggestionsFollow'
  <2>1. \A k \in Invocations : task'[k] \notin Unfinished
    BY <1>1, <1>2 DEF IInv, Beside
  <2> QED BY <1>3, <1>5, <2>1 DEF Default, Asked, Beside, SuggestionsFollow, Unfinished
<1>8. Turn'
  <2>1. outcome[inv'] = "none"
    BY <1>0, <1>1 DEF IInv, Turn
  <2>2. \A k \in Invocations : k > inv' => k > inv /\ k # inv'
    BY <1>0, <1>1 DEF Invocations
  <2> QED BY <1>1, <1>5, <2>1, <2>2 DEF IInv, Turn
<1>9. Skipped'
  <2>1. skip' => "ResponseCache" \in optin' /\ at' = 0
    BY <1>2, <1>3, <1>5 DEF IInv, Skipped
  <2>2. response'.by \in 0 .. inv' \cup {Another} /\ response'.by # inv'
    BY <1>0, <1>1, <1>4
  <2>3. \A c \in cached' : c.response.by \in 0 .. inv' \cup {Another} /\ c.response.by # inv'
    BY <1>0, <1>1, <1>2 DEF IInv, Skipped
  <2> QED BY <2>1, <2>2, <2>3 DEF Skipped
<1>10. \A k, r : Entries(k)' = Entries(k) /\ (Filed(k, r) => Filed(k, r)')
  BY <1>2, SameStore
<1>11. Entries(inv') = {}
  BY <1>0, <1>1 DEF IInv, Kept
<1>12. Kept'
  <2>1. \A k \in Invocations : k > inv' => k > inv
    BY <1>0, <1>1 DEF Invocations
  <2>2. PICK n : n = inv'
    OBVIOUS
  <2>3. Entries(n)' = {}
    BY <1>10, <1>11, <2>2
  <2>4. Entries(inv)' = {}
    BY <2>2, <2>3 DEF Entries
  <2>5. ~(at' >= 17)
    BY <1>5
  <2> QED BY <1>10, <2>1, <2>4, <2>5 DEF IInv, Kept
<1>13. ReturnedIsStored'
  <2>1. CASE at' = 1 /\ outcome' = outcome /\ reply' = reply
    BY <1>2, <1>10, <2>1, ReturnedStays DEF IInv
  <2>2. CASE at' = 0 /\ reply' = [reply EXCEPT ![inv'] = response] /\ skip
    <3> SUFFICES ASSUME NEW k \in Invocations, outcome'[k] = "returned"
                 PROVE  IF reply'[k].by = k THEN Filed(k, reply[k])'
                        ELSE "ResponseCache" \in optin' /\ Entries(k)' = {}
      BY DEF ReturnedIsStored, Filed
    <3>1. CASE k = inv'
      <4>1. reply'[k] = response /\ response.by # k
        BY <1>0, <1>1, <1>4, <2>2, <3>1 DEF TypeOK
      <4> QED BY <1>2, <1>10, <1>11, <2>2, <3>1, <4>1 DEF IInv, Skipped
    <3>2. CASE k # inv'
      <4>1. outcome[k] = "returned" /\ reply'[k] = reply[k]
        BY <1>5, <3>2
      <4>2. IF reply[k].by = k THEN Filed(k, reply[k]) ELSE "ResponseCache" \in optin /\ Entries(k) = {}
        BY <4>1 DEF IInv, ReturnedIsStored, Filed
      <4>3. PICK x : x = reply[k]
        OBVIOUS
      <4>4. reply[k].by = k => Filed(k, x)'
        BY <1>10, <4>2, <4>3
      <4>5. reply[k].by = k => Filed(k, reply[k])'
        BY <4>1, <4>3, <4>4 DEF Filed
      <4> QED BY <1>2, <1>10, <4>1, <4>2, <4>5
    <3> QED BY <3>1, <3>2
  <2> QED BY <1>5, <2>1, <2>2
<1> QED BY <1>6, <1>7, <1>8, <1>9, <1>12, <1>13 DEF IInv

\* A stage of a processor before the store keeps the invariant when the
\* response and the messages it leaves are of the invocation's.
LEMMA StageInv ==
    ASSUME IInv, at \in 1 .. 19, at # 5, at # 16, at # 19,
           UNCHANGED <<setting, inv, substate, skip, task, history>>, On \/ Raises,
           key' \in Nat, messages' \in Seq(Roles), response' \in Responses, Skipped',
           cached' \subseteq [key : Nat, response : Responses],
           at' >= 3 => messages' # <<>> /\ messages'[Len(messages')] \in {"user", "tool"},
           at' >= 7 => response'.by = inv,
           at >= 17 => response' = response
    PROVE  IInv'
<1> USE DEF setting, history
<1>1. TypeOK /\ inv \in Invocations
  BY DEF IInv, Turn
<1>2. TypeOK'
  <2>1. /\ outcome' \in [Invocations -> {"none", "returned", "raised"}]
        /\ reply' \in [Invocations -> Responses]
        /\ at' \in 0 .. Len(Pipeline)
    BY <1>1, MovesTyped
  <2> QED BY <1>1, <2>1 DEF TypeOK
<1>3. Turn' /\ Kept' /\ ReturnedIsStored' /\ SuggestionsFollow' /\ Beside'
  BY KeptAlong
<1>4. Default' /\ Asked'
  BY DEF IInv, Default, Asked
<1> QED BY <1>2, <1>3, <1>4 DEF IInv

LEMMA SamePlace == ASSUME IInv, On \/ Raises, at \in 1 .. 19
                   PROVE  (at' = at + 1 /\ at \in 1 .. 19) \/ at' = 0
BY DEF On, Raises

\* The processors that leave the response, the cache and what skips alone.
LEMMA QuietInv ==
    ASSUME IInv, at \in 1 .. 19, at \notin {5, 6, 16, 19},
           UNCHANGED <<setting, inv, response, control, cached, task, history>>, On \/ Raises,
           messages' \in Seq(Roles),
           at' >= 3 => messages' # <<>> /\ messages'[Len(messages')] \in {"user", "tool"}
    PROVE  IInv'
<1> USE DEF setting, control
<1>1. TypeOK
  BY DEF IInv
<1>2. key' \in Nat /\ response' \in Responses /\ cached' \subseteq [key : Nat, response : Responses]
  BY <1>1 DEF TypeOK
<1>3. Skipped'
  BY SkippedAlong
<1>4. at' >= 7 => response'.by = inv
  BY SamePlace DEF IInv, Asked
<1> QED BY <1>2, <1>3, <1>4, StageInv

LEMMA PassInv == IInv /\ Pass => IInv'
<1> SUFFICES ASSUME IInv, Pass PROVE IInv'
  OBVIOUS
<1>1. at \in {3, 4, 7, 10, 11, 14, 17, 18, 19} /\ ~skip
  BY PassPlaces DEF IInv
<1>2. On \/ Raises
  BY <1>1, Moves DEF Pass
<1>3. UNCHANGED <<setting, inv, messages, response, control, cached, task, history>>
  BY DEF Pass, context
<1>4. messages \in Seq(Roles) /\ messages # <<>> /\ messages[Len(messages)] \in {"user", "tool"}
  BY <1>1 DEF IInv, TypeOK, Asked
<1>5. CASE at # 19
  BY <1>1, <1>2, <1>3, <1>4, <1>5, QuietInv
<1>6. CASE at = 19
  <2>1. TypeOK /\ inv \in Invocations
    BY <1>6 DEF IInv, Turn
  <2>2. TypeOK'
    <3>1. /\ outcome' \in [Invocations -> {"none", "returned", "raised"}]
          /\ reply' \in [Invocations -> Responses]
          /\ at' \in 0 .. Len(Pipeline)
      BY <1>2, <1>6, <2>1, MovesTyped
    <3> QED BY <1>3, <2>1, <3>1 DEF TypeOK, setting, control, history
  <2>3. Turn' /\ Kept' /\ ReturnedIsStored' /\ SuggestionsFollow'
    BY <1>2, <1>3, <1>6, KeptAlong DEF setting, history
  <2>4. Beside' /\ Default'
    BY <1>3, <1>6 DEF IInv, Beside, Default, control
  <2>5. Skipped'
    BY <1>2, <1>3, <1>6, SkippedAlong DEF setting, control
  <2>6. Asked'
    BY <1>3, <1>6 DEF IInv, Asked
  <2> QED BY <2>2, <2>3, <2>4, <2>5, <2>6 DEF IInv
<1> QED BY <1>1, <1>5, <1>6

LEMMA RetrievalInv == IInv /\ HistoryRetrieval => IInv'
<1> SUFFICES ASSUME IInv, HistoryRetrieval PROVE IInv'
  OBVIOUS
<1>1. TypeOK /\ at = 1
  BY PlaceOf DEF HistoryRetrieval, IInv
<1>2. On \/ Raises
  BY <1>1, Moves, Places DEF HistoryRetrieval
<1>3. messages' \in Seq(Roles)
  <2>1. [i \in DOMAIN stored |-> "history"] \in Seq(Roles)
    <3>1. stored \in Seq(Exchanges) /\ "history" \in Roles
      BY <1>1 DEF TypeOK, Roles
    <3>2. DOMAIN stored = 1 .. Len(stored) /\ Len(stored) \in Nat
      BY <3>1
    <3> QED BY <3>1, <3>2
  <2>2. messages \in Seq(Roles)
    BY <1>1 DEF TypeOK
  <2>3. [i \in DOMAIN stored |-> "history"] \o messages \in Seq(Roles)
    BY <2>1, <2>2
  <2> QED BY <2>2, <2>3 DEF HistoryRetrieval
<1>4. ~(at' >= 3)
  BY <1>1, <1>2 DEF On, Raises
<1> QED BY <1>1, <1>2, <1>3, <1>4, QuietInv DEF HistoryRetrieval

LEMMA BuilderInv == IInv /\ MessageBuilder => IInv'
<1> SUFFICES ASSUME IInv, MessageBuilder PROVE IInv'
  OBVIOUS
<1>1. TypeOK /\ at = 2
  BY PlaceOf DEF MessageBuilder, IInv
<1>2. On \/ Raises
  BY <1>1, Moves, Places DEF MessageBuilder
<1>3. messages' \in Seq(Roles) /\ messages' # <<>> /\ messages'[Len(messages')] = "user"
  <2>1. messages \in Seq(Roles) /\ "user" \in Roles
    BY <1>1 DEF TypeOK, Roles
  <2>2. messages' = Append(messages, "user")
    BY DEF MessageBuilder
  <2> QED BY <2>1, <2>2
<1> QED BY <1>1, <1>2, <1>3, QuietInv DEF MessageBuilder

LEMMA CacheInv == IInv /\ ResponseCache => IInv'
<1> SUFFICES ASSUME IInv, ResponseCache PROVE IInv'
  OBVIOUS
<1>1. TypeOK /\ at = 4 /\ ~skip
  BY PlaceOf DEF ResponseCache, IInv, Skipped
<1>2. On \/ Raises
  BY <1>1, Moves, Places DEF ResponseCache
<1>3. UNCHANGED <<setting, inv, messages, substate, cached, task, history>>
  BY DEF ResponseCache
<1>4. key' \in Nat /\ messages' \in Seq(Roles) /\ cached' \subseteq [key : Nat, response : Responses]
  <2>1. messages \in Seq(Roles) /\ cached \subseteq [key : Nat, response : Responses]
    BY <1>1 DEF TypeOK
  <2>2. key' = Len(messages)
    BY DEF ResponseCache
  <2> QED BY <1>3, <2>1, <2>2
<1>5. messages' # <<>> /\ messages'[Len(messages')] \in {"user", "tool"}
  BY <1>1, <1>3 DEF IInv, Asked
<1>6. at' = 5 \/ at' = 0
  BY <1>1, <1>2 DEF On, Raises
<1>7. inv \in Invocations /\ inv # Another /\ inv \in Nat
  BY <1>1, ExchangeAssumption DEF IInv, Turn, Invocations, Another
<1>8. /\ response' \in Responses
      /\ response'.by \in 0 .. inv \cup {Another} /\ response'.by # inv
      /\ skip' => "ResponseCache" \in optin
  <2>1. CASE \E r \in Responses :
               /\ r.by = Another \/ [key |-> Len(messages), response |-> r] \in cached
               /\ response' = r
    <3>1. PICK r \in Responses :
               /\ r.by = Another \/ [key |-> Len(messages), response |-> r] \in cached
               /\ response' = r
      BY <2>1
    <3>2. r.by \in 0 .. inv \cup {Another} /\ r.by # inv
      BY <1>1, <1>7, <3>1 DEF IInv, Skipped
    <3>3. "ResponseCache" \in optin
      BY DEF ResponseCache, Running, Runs, Optional
    <3> QED BY <3>1, <3>2, <3>3
  <2>2. CASE UNCHANGED <<response, skip>>
    BY <1>1, <2>2 DEF IInv, TypeOK, Skipped
  <2> QED BY <2>1, <2>2 DEF ResponseCache
<1>9. Skipped'
  <2>1. skip' => "ResponseCache" \in optin' /\ at' \in {0, 5}
    BY <1>3, <1>6, <1>8 DEF setting
  <2>2. \A c \in cached' : c.response.by \in 0 .. inv \cup {Another} /\ c.response.by # inv
    BY <1>1, <1>3 DEF IInv, Skipped
  <2> QED BY <1>3, <1>8, <2>1, <2>2 DEF Skipped
<1>10. TypeOK'
  <2>1. /\ outcome' \in [Invocations -> {"none", "returned", "raised"}]
        /\ reply' \in [Invocations -> Responses]
        /\ at' \in 0 .. Len(Pipeline)
    BY <1>1, <1>2, <1>7, MovesTyped
  <2>2. skip' \in BOOLEAN
    BY <1>1, Zenon DEF ResponseCache, TypeOK
  <2> QED BY <1>1, <1>3, <1>4, <1>8, <2>1, <2>2 DEF TypeOK, setting, history
<1>11. Turn' /\ Kept' /\ ReturnedIsStored' /\ SuggestionsFollow' /\ Beside'
  BY <1>1, <1>2, <1>3, KeptAlong DEF setting, history
<1>12. Default' /\ Asked'
  BY <1>3, <1>5, <1>6 DEF IInv, Default, Asked
<1> QED BY <1>9, <1>10, <1>11, <1>12 DEF IInv

LEMMA CallInv == IInv /\ (LLMInvoke \/ ProviderFallback) => IInv'
<1> SUFFICES ASSUME IInv, LLMInvoke \/ ProviderFallback PROVE IInv'
  OBVIOUS
<1>1. TypeOK /\ at \in {6, 7} /\ ~skip
  BY PlaceOf DEF LLMInvoke, ProviderFallback, IInv, Skipped
<1>2. On \/ Raises
  BY <1>1, Moves DEF LLMInvoke, ProviderFallback
<1>3. UNCHANGED <<setting, inv, messages, control, cached, task, history>>
  BY DEF LLMInvoke, ProviderFallback
<1>4. /\ response' \in Responses /\ response'.by \in {response.by, inv}
      /\ at' = 0 \/ (at' = at + 1 /\ response'.by = inv)
  <2>1. CASE Raises /\ UNCHANGED response
    BY <1>1, <2>1 DEF Raises, TypeOK
  <2>2. CASE \E r \in Responses : Answers(r) /\ response' = r /\ Advance
    <3>1. PICK r \in Responses : Answers(r) /\ response' = r
      BY <2>2
    <3>2. r.by = inv
      BY <3>1 DEF Answers
    <3> QED BY <1>2, <3>1, <3>2 DEF On, Raises
  <2> QED BY <2>1, <2>2 DEF LLMInvoke, ProviderFallback
<1>5. messages \in Seq(Roles) /\ messages # <<>> /\ messages[Len(messages)] \in {"user", "tool"}
  BY <1>1 DEF IInv, TypeOK, Asked
<1>6. Skipped'
  <2>1. inv \in Invocations /\ inv \in 0 .. inv
    BY <1>1 DEF IInv, Turn, Invocations
  <2>2. response'.by \in 0 .. inv \cup {Another}
    BY <1>4, <2>1 DEF IInv, Skipped
  <2>3. at' \notin 1 .. 6 /\ at \in 1 .. 14
    BY <1>1, <1>4
  <2>4. ~skip'
    BY <1>1, <1>3 DEF control
  <2> QED BY <1>3, <2>2, <2>3, <2>4 DEF IInv, Skipped
<1>7. key' \in Nat /\ cached' \subseteq [key : Nat, response : Responses]
  BY <1>1, <1>3 DEF TypeOK, control
<1>8. at' >= 7 => response'.by = inv
  BY <1>4
<1>9. UNCHANGED <<setting, inv, substate, skip, task, history>> /\ messages' = messages
  BY <1>3 DEF control
<1>10. at \in 1 .. 19 /\ at # 5 /\ at # 16 /\ at # 19 /\ ~(at >= 17)
  BY <1>1
<1> QED BY <1>2, <1>4, <1>5, <1>6, <1>7, <1>8, <1>9, <1>10, StageInv

LEMMA ToolsInv == IInv /\ (ToolExecutor \/ ToolResultCache \/ ParallelToolExecutor \/ TransformerPipeline) => IInv'
<1> SUFFICES ASSUME IInv, ToolExecutor \/ ToolResultCache \/ ParallelToolExecutor \/ TransformerPipeline
             PROVE  IInv'
  OBVIOUS
<1>1. TypeOK /\ at \in {9, 10, 11, 13} /\ ~skip
  BY PlaceOf DEF ToolExecutor, ToolResultCache, ParallelToolExecutor, TransformerPipeline, IInv, Skipped
<1>2. On \/ Raises
  BY <1>1, Moves DEF ToolExecutor, ToolResultCache, ParallelToolExecutor, TransformerPipeline
<1>3. UNCHANGED <<setting, inv, response, control, cached, task, history>>
  BY DEF ToolExecutor, ToolResultCache, ParallelToolExecutor, TransformerPipeline, Restores, control, context
<1>4. /\ messages' \in Seq(Roles)
      /\ at' # 0 => messages' # <<>> /\ messages'[Len(messages')] \in {"user", "tool"}
  <2>1. messages' \in {messages, Append(messages, "tool")}
        \/ (messages' = messages \o <<"assistant", "tool">> /\ at' = 0)
    BY DEF ToolExecutor, ToolResultCache, ParallelToolExecutor, TransformerPipeline, Raises, context
  <2>2. messages \in Seq(Roles)
        /\ messages # <<>> /\ messages[Len(messages)] \in {"user", "tool"}
    BY <1>1 DEF IInv, Asked, TypeOK
  <2>3. /\ Append(messages, "tool") \in Seq(Roles)
        /\ Append(messages, "tool") # <<>>
        /\ Append(messages, "tool")[Len(Append(messages, "tool"))] = "tool"
    BY <2>2, IsRole
  <2>4. messages \o <<"assistant", "tool">> \in Seq(Roles)
    BY <2>2, IsRole
  <2> QED BY <2>1, <2>2, <2>3, <2>4
<1>5. at' >= 3 => at' # 0
  OBVIOUS
<1> QED BY <1>1, <1>2, <1>3, <1>4, <1>5, QuietInv

LEMMA CacheWrittenInv == IInv /\ ResponseCachePersistence => IInv'
<1> SUFFICES ASSUME IInv, ResponseCachePersistence PROVE IInv'
  OBVIOUS
<1>1. TypeOK /\ at = 14 /\ ~skip /\ response.by = inv /\ inv \in Invocations
  BY PlaceOf DEF ResponseCachePersistence, IInv, Skipped, Asked, Turn
<1>2. On \/ Raises
  BY <1>1, Moves DEF ResponseCachePersistence
<1>3. UNCHANGED <<setting, inv, messages, response, control, task, history>>
  BY DEF ResponseCachePersistence, context
<1>4. messages \in Seq(Roles) /\ messages # <<>> /\ messages[Len(messages)] \in {"user", "tool"}
  BY <1>1 DEF IInv, TypeOK, Asked
<1>5. cached' = cached \/ cached' = cached \cup {[key |-> key, response |-> response]}
  BY DEF ResponseCachePersistence
<1>6. key \in Nat /\ response \in Responses /\ cached \subseteq [key : Nat, response : Responses]
  BY <1>1 DEF TypeOK
<1>7. cached' \subseteq [key : Nat, response : Responses]
  BY <1>5, <1>6
<1>8. Skipped'
  <2>1. at' \in {0, 15} /\ inv \in 0 .. inv
    BY <1>1, <1>2 DEF On, Raises, Invocations
  <2>2. \A c \in cached' : c.response.by \in 0 .. inv \cup {Another}
    BY <1>1, <1>5, <2>1 DEF IInv, Skipped
  <2>3. ~skip' /\ response'.by \in 0 .. inv \cup {Another}
    BY <1>1, <1>3, <2>1 DEF control
  <2> QED BY <1>3, <2>1, <2>2, <2>3 DEF Skipped
<1>9. UNCHANGED <<setting, inv, substate, skip, task, history>> /\ key' = key
  BY <1>3 DEF control
<1> QED BY <1>1, <1>2, <1>3, <1>4, <1>6, <1>7, <1>8, <1>9, StageInv

LEMMA PersistInv == IInv /\ HistoryPersistence => IInv'
<1> SUFFICES ASSUME IInv, HistoryPersistence PROVE IInv'
  OBVIOUS
<1>1. TypeOK /\ at = 16 /\ ~skip /\ inv \in Invocations /\ response.by = inv /\ Entries(inv) = {}
  BY PlaceOf DEF HistoryPersistence, IInv, Skipped, Turn, Kept, Asked
<1>2. /\ Exchange \in Exchanges
      /\ Exchange.of = inv /\ Exchange.by = inv /\ Exchange.asked \in {"user", "tool"}
      /\ Exchange.text = response.text
  <2>1. response \in Responses /\ messages[Len(messages)] \in {"user", "tool"}
    BY <1>1 DEF IInv, TypeOK, Asked
  <2> QED BY <1>1, <2>1 DEF Exchange, Exchanges, Responses
<1>3. UNCHANGED <<setting, inv, messages, response, control, cached, task, read>>
  BY DEF HistoryPersistence, context
<1>4. (stored' = Append(stored, Exchange) /\ (On \/ Raises)) \/ (stored' = stored /\ Raises)
  BY <1>1, Moves DEF HistoryPersistence
<1>5. On \/ Raises
  BY <1>4
<1>6. /\ outcome' \in [Invocations -> {"none", "returned", "raised"}]
      /\ reply' \in [Invocations -> Responses]
      /\ at' \in 0 .. Len(Pipeline)
      /\ outcome'[inv] = "none" \/ (at' = 0 /\ outcome'[inv] = "raised")
      /\ \A k \in Invocations : k # inv => outcome'[k] = outcome[k]
      /\ \A k \in Invocations : reply'[k] = reply[k]
      /\ at' \in {0, 17}
  <2>1. outcome[inv] = "none"
    BY <1>1 DEF IInv, Turn
  <2> QED BY <1>1, <1>5, <2>1, MovesTyped DEF On, Raises
<1>7. \A k \in Invocations : k # inv =>
          Entries(k)' = Entries(k) /\ \A r : Filed(k, r) => Filed(k, r)'
  <2> SUFFICES ASSUME NEW k \in Invocations, k # inv
               PROVE  Entries(k)' = Entries(k) /\ \A r : Filed(k, r) => Filed(k, r)'
    OBVIOUS
  <2>1. CASE stored' = stored
    BY <2>1, SameStore
  <2>2. CASE stored' = Append(stored, Exchange)
    <3>1. /\ Entries(k)' = Entries(k) /\ Stored(k)' = Stored(k)
          /\ \A i \in DOMAIN stored : i \in DOMAIN stored' /\ stored'[i] = stored[i]
      BY <1>1, <1>2, <2>2, StoredGrows
    <3> QED BY <3>1 DEF Filed
  <2> QED BY <1>4, <2>1, <2>2
<1>8. TypeOK'
  <2>1. stored' \in Seq(Exchanges)
    <3>1. stored \in Seq(Exchanges)
      BY <1>1 DEF TypeOK
    <3>2. stored' = stored \/ stored' = Append(stored, Exchange)
      BY <1>4
    <3> QED BY <1>2, <3>1, <3>2
  <2> QED BY <1>1, <1>3, <1>6, <2>1 DEF TypeOK, setting, control
<1>9. Kept'
  <2>1. ASSUME at' = 17 PROVE Filed(inv, response)'
    <3>1. stored' = Append(stored, Exchange)
      BY <1>4, <2>1 DEF Raises
    <3> DEFINE n == Len(stored) + 1
    <3>2. Stored(inv)' = {n} /\ n \in DOMAIN stored' /\ stored'[n] = Exchange
      <4>1. Stored(inv) = {}
        BY <1>1 DEF Stored
      <4>2. PICK j : j = inv
        OBVIOUS
      <4>3. Stored(j)' = {n} /\ n \in DOMAIN stored' /\ stored'[n] = Exchange
        BY <1>1, <1>2, <3>1, <4>1, <4>2, StoredGrows
      <4> QED BY <1>3, <4>2, <4>3 DEF Stored, Entries
    <3> QED BY <1>2, <1>3, <3>2 DEF Filed
  <2>2. \A k \in Invocations : k > inv' => k # inv /\ k > inv
    BY <1>1, <1>3 DEF Invocations
  <2>3. \A k \in Invocations : k > inv' => Entries(k)' = {}
    BY <1>7, <2>2 DEF IInv, Kept
  <2> QED BY <1>3, <1>6, <2>1, <2>3 DEF Kept
<1>10. ReturnedIsStored'
  <2>1. \A k \in Invocations : outcome'[k] = "returned" =>
            outcome[k] = "returned" /\ reply'[k] = reply[k] /\ k # inv
    BY <1>6
  <2> QED BY <1>3, <1>7, <2>1, ReturnedStays DEF IInv, setting
<1>11. Turn' /\ Default' /\ Asked' /\ Beside' /\ SuggestionsFollow'
  <2>1. \A k \in Invocations : task'[k] \notin Unfinished
    BY <1>1, <1>3 DEF IInv, Beside
  <2>2. Beside' /\ SuggestionsFollow'
    BY <2>1 DEF Beside, SuggestionsFollow, Unfinished
  <2>3. Turn'
    BY <1>1, <1>3, <1>6 DEF IInv, Turn, Invocations
  <2> QED BY <1>1, <1>3, <1>6, <2>2, <2>3 DEF IInv, Default, Asked, control
<1>12. Skipped'
  BY <1>1, <1>3, <1>5, SkippedAlong DEF setting, control
<1> QED BY <1>8, <1>9, <1>10, <1>11, <1>12 DEF IInv

LEMMA SuggestionsInv == IInv /\ SuggestionsGenerator => IInv'
<1> SUFFICES ASSUME IInv, SuggestionsGenerator PROVE IInv'
  OBVIOUS
<1>1. TypeOK /\ at = 19 /\ ~skip /\ inv \in Invocations /\ response.by = inv /\ outcome[inv] = "none"
  BY PlaceOf DEF SuggestionsGenerator, IInv, Skipped, Turn, Asked
<1>2. On
  <2>1. On \/ Raises
    BY <1>1, Moves DEF SuggestionsGenerator
  <2>2. ~(at' = 0)
    BY <1>1, Places DEF SuggestionsGenerator, Advance
  <2> QED BY <2>1, <2>2 DEF Raises
<1>3. UNCHANGED <<setting, inv, messages, response, control, cached, stored, read, outcome, reply>> /\ at' = 20
  BY <1>1, <1>2 DEF SuggestionsGenerator, context, history, On, ending
<1>4. task' = [task EXCEPT ![inv] = "reading"]
  BY DEF SuggestionsGenerator
<1>5. TypeOK'
  <2>1. task' \in [Invocations -> Unfinished \cup {"none", "cancelled", "done"}]
    BY <1>1, <1>4 DEF TypeOK, Unfinished
  <2>2. at' \in 0 .. Len(Pipeline)
    BY <1>3, Places
  <2> QED BY <1>1, <1>3, <2>1, <2>2 DEF TypeOK, setting, control
<1>6. \A k, r : Entries(k)' = Entries(k) /\ (Filed(k, r) => Filed(k, r)')
  BY <1>3, SameStore
<1>7. Kept'
  <2>1. PICK x : x = response
    OBVIOUS
  <2>2. PICK j : j = inv
    OBVIOUS
  <2>3. Filed(j, x)'
    BY <1>1, <1>6, <2>1, <2>2 DEF IInv, Kept
  <2>4. Filed(inv, response)'
    BY <1>3, <2>1, <2>2, <2>3 DEF Filed, Stored, Entries
  <2> QED BY <1>3, <1>6, <2>4 DEF IInv, Kept
<1>8. ReturnedIsStored'
  BY <1>3, <1>6, ReturnedStays DEF IInv, setting
<1>9. Turn' /\ Default' /\ Asked'
  BY <1>1, <1>3 DEF IInv, Turn, Default, Asked, control
<1>10. Skipped'
  BY <1>1, <1>2, <1>3, SkippedAlong DEF setting, control
<1>11. Beside' /\ SuggestionsFollow'
  <2>1. \A k \in Invocations : task'[k] \in Unfinished => k = inv /\ task'[k] = "reading"
    BY <1>1, <1>4 DEF IInv, Beside, TypeOK
  <2> QED BY <1>3, <2>1 DEF Beside, SuggestionsFollow, Unfinished
<1> QED BY <1>5, <1>7, <1>8, <1>9, <1>10, <1>11 DEF IInv

LEMMA WaitInv == IInv /\ Wait => IInv'
<1> SUFFICES ASSUME IInv, Wait PROVE IInv'
  OBVIOUS
<1>1. TypeOK /\ at \in {5, 8, 12, 15, 20} /\ inv \in Invocations /\ outcome[inv] = "none" /\ inv \in Nat
  BY PlaceOf DEF Wait, IInv, Turn, Invocations
<1>2. UNCHANGED <<setting, inv, messages, response, control, cached, stored, read>>
  BY DEF Wait, context, history
<1>3. /\ task' \in [Invocations -> {"none", "cancelled", "done"}]
      /\ \A k \in Invocations : task'[k] \notin Unfinished
  BY <1>1 DEF Wait, TimesOut, TypeOK, Unfinished
<1>4. \/ On /\ at # 20 /\ ~skip
      \/ Returns(inv) /\ (at = 20 \/ (at = 5 /\ skip))
  <2>1. Pipeline[at] = "Wait" /\ Len(Pipeline) = 20
    BY Places DEF Wait, Running
  <2>2. skip => at = 5
    BY <1>1 DEF IInv, Skipped
  <2> QED BY <1>1, <2>1, <2>2 DEF Wait, Advance, On
<1>5. /\ outcome' \in [Invocations -> {"none", "returned", "raised"}]
      /\ reply' \in [Invocations -> Responses]
      /\ at' \in 0 .. Len(Pipeline)
      /\ \A k \in Invocations : k # inv => outcome'[k] = outcome[k] /\ reply'[k] = reply[k]
      /\ \/ at' = at + 1 /\ at # 20 /\ outcome'[inv] = "none"
         \/ at' = 0 /\ reply'[inv] = response /\ (at = 20 \/ (at = 5 /\ skip))
  <2>1. Len(Pipeline) = 20
    BY Places
  <2>2. CASE On /\ at # 20
    BY <1>1, <2>1, <2>2 DEF On, ending, TypeOK
  <2>3. CASE Returns(inv) /\ (at = 20 \/ (at = 5 /\ skip))
    BY <1>1, <2>1, <2>3 DEF Returns, TypeOK
  <2> QED BY <1>4, <2>2, <2>3
<1>6. TypeOK'
  <2>1. task' \in [Invocations -> Unfinished \cup {"none", "cancelled", "done"}]
    BY <1>3
  <2> QED BY <1>1, <1>2, <1>5, <2>1 DEF TypeOK, setting, control
<1>7. Default' /\ Asked' /\ Turn'
  BY <1>1, <1>2, <1>5 DEF IInv, Default, Asked, Turn, control, Invocations
<1>8. Beside' /\ SuggestionsFollow'
  BY <1>3 DEF Beside, SuggestionsFollow, Unfinished
<1>9. Skipped'
  <2>1. skip' => at' = 0
    BY <1>1, <1>2, <1>4, <1>5 DEF control, On, Returns
  <2>2. (at' \in 1 .. 6 => at \in 1 .. 6) /\ (at' \in 1 .. 14 => at \in 1 .. 14)
    BY <1>1, <1>5
  <2> QED BY <1>2, <2>1, <2>2 DEF IInv, Skipped, setting, control
<1>10. \A k, r : Entries(k)' = Entries(k) /\ (Filed(k, r) => Filed(k, r)')
  BY <1>2, SameStore
<1>11. Kept'
  <2>1. at' \notin {17, 18, 19, 20} /\ (at' \in 1 .. 16 => at \in 1 .. 16) /\ ~(at' >= 17)
    BY <1>1, <1>5
  <2> QED BY <1>2, <1>10, <2>1 DEF IInv, Kept
<1>12. ReturnedIsStored'
  <2> SUFFICES ASSUME NEW k \in Invocations, outcome'[k] = "returned"
               PROVE  IF reply'[k].by = k THEN Filed(k, reply[k])'
                      ELSE "ResponseCache" \in optin' /\ Entries(k)' = {}
    BY DEF ReturnedIsStored, Filed
  <2>1. CASE k = inv
    <3>1. reply'[k] = response /\ (at = 20 \/ (at = 5 /\ skip))
      BY <1>5, <2>1
    <3>2. CASE at = 20
      <4>1. response.by = k /\ Filed(k, response)
        BY <2>1, <3>2 DEF IInv, Asked, Kept
      <4>2. PICK x : x = response
        OBVIOUS
      <4>3. Filed(k, x)'
        BY <1>10, <4>1, <4>2
      <4>4. Filed(k, reply[k])'
        BY <3>1, <4>2, <4>3 DEF Filed
      <4> QED BY <3>1, <4>1, <4>4
    <3>3. CASE at = 5 /\ skip
      <4>1. response.by # k /\ Entries(k) = {} /\ "ResponseCache" \in optin
        BY <2>1, <3>3 DEF IInv, Skipped, Kept
      <4> QED BY <1>2, <1>10, <3>1, <4>1 DEF setting
    <3> QED BY <3>1, <3>2, <3>3
  <2>2. CASE k # inv
    <3>1. outcome[k] = "returned" /\ reply'[k] = reply[k]
      BY <1>5, <2>2
    <3>2. IF reply[k].by = k THEN Filed(k, reply[k]) ELSE "ResponseCache" \in optin /\ Entries(k) = {}
      BY <3>1 DEF IInv, ReturnedIsStored, Filed
    <3>3. PICK x : x = reply[k]
      OBVIOUS
    <3>4. reply[k].by = k => Filed(k, x)'
      BY <1>10, <3>2, <3>3
    <3>5. reply[k].by = k => Filed(k, reply[k])'
      BY <3>1, <3>3, <3>4 DEF Filed
    <3> QED BY <1>2, <1>10, <3>1, <3>2, <3>5 DEF setting
  <2> QED BY <2>1, <2>2
<1> QED BY <1>6, <1>7, <1>8, <1>9, <1>11, <1>12 DEF IInv

LEMMA SuggestInv == ASSUME IInv, NEW k \in Invocations, Suggest(k) PROVE IInv'
<1>1. TypeOK /\ k = inv /\ at = 20 /\ task[k] \in Unfinished /\ outcome[k] = "none"
  BY DEF Suggest, IInv, Beside, Turn, Unfinished
<1>2. UNCHANGED <<setting, inv, at, messages, response, control, cached, outcome, reply>>
  BY DEF Suggest, context, ending
<1>3. /\ task' \in [Invocations -> Unfinished \cup {"none", "cancelled", "done"}]
      /\ \A j \in Invocations : j # k => task'[j] = task[j]
  BY <1>1 DEF Suggest, TypeOK, Unfinished
<1>4. Default' /\ Asked' /\ Turn' /\ Beside' /\ Skipped'
  BY <1>1, <1>2, <1>3 DEF IInv, Default, Asked, Turn, Beside, Skipped, setting, control
<1>5. stored' = stored
      \/ \E said \in BOOLEAN :
            stored' = Append(stored, [of |-> k, by |-> 0, asked |-> "suggestions", text |-> said])
  BY DEF Suggest, history
<1>6. stored' \in Seq(Exchanges)
  <2>1. stored \in Seq(Exchanges)
    BY <1>1 DEF TypeOK
  <2>2. \A said \in BOOLEAN : [of |-> k, by |-> 0, asked |-> "suggestions", text |-> said] \in Exchanges
    BY DEF Exchanges
  <2>3. \E x \in Exchanges : stored' = stored \/ stored' = Append(stored, x)
    BY <1>5, <2>2
  <2>4. PICK x \in Exchanges : stored' = stored \/ stored' = Append(stored, x)
    BY <2>3
  <2> QED BY <2>1, <2>4
<1>7. TypeOK'
  <2>1. read' \in [Invocations -> Seq(Exchanges)]
    BY <1>1 DEF Suggest, history, TypeOK
  <2> QED BY <1>1, <1>2, <1>3, <1>6, <2>1 DEF TypeOK, setting, control
<1>8. \A j \in Invocations : /\ j # k => Entries(j)' = Entries(j)
                             /\ \A r : Filed(j, r) => Filed(j, r)'
  <2>1. CASE stored' = stored
    BY <2>1, SameStore
  <2>2. CASE stored' # stored
    <3>1. PICK said \in BOOLEAN :
            stored' = Append(stored, [of |-> k, by |-> 0, asked |-> "suggestions", text |-> said])
      BY <1>5, <2>2
    <3> DEFINE x == [of |-> k, by |-> 0, asked |-> "suggestions", text |-> said]
    <3>2. x.of = k /\ x.by = 0 /\ stored' = Append(stored, x)
      BY <3>1
    <3> HIDE DEF x
    <3> SUFFICES ASSUME NEW j \in Invocations
                 PROVE  /\ j # k => Entries(j)' = Entries(j)
                        /\ \A r : Filed(j, r) => Filed(j, r)'
      OBVIOUS
    <3>3. x.by # j
      BY <3>2 DEF Invocations
    <3>4. /\ j # k => Entries(j)' = Entries(j)
          /\ Stored(j)' = Stored(j)
          /\ \A i \in DOMAIN stored : i \in DOMAIN stored' /\ stored'[i] = stored[i]
      BY <1>1, <3>2, <3>3, StoredGrows
    <3> QED BY <3>4 DEF Filed
  <2> QED BY <2>1, <2>2
<1>9. Filed(k, response)
  BY <1>1 DEF IInv, Kept
<1>10. Kept'
  <2>1. PICK x : x = response
    OBVIOUS
  <2>2. Filed(k, x)'
    BY <1>8, <1>9, <2>1
  <2>3. Filed(inv, response)'
    BY <1>1, <1>2, <2>1, <2>2 DEF Filed, Stored, Entries
  <2>4. \A j \in Invocations : j > inv' => j # k /\ j > inv
    BY <1>1, <1>2 DEF Invocations
  <2>5. \A j \in Invocations : j > inv' => Entries(j)' = {}
    BY <1>8, <2>4 DEF IInv, Kept
  <2> QED BY <1>1, <1>2, <2>3, <2>5 DEF Kept
<1>11. ReturnedIsStored'
  <2>1. \A j \in Invocations : outcome'[j] = "returned" =>
            outcome[j] = "returned" /\ reply'[j] = reply[j] /\ j # k
    BY <1>1, <1>2
  <2> QED BY <1>2, <1>8, <2>1, ReturnedStays DEF IInv, setting
<1>12. SuggestionsFollow'
  <2>1. PICK i \in DOMAIN stored : Stored(k) = {i} /\ stored[i].text = response.text
    BY <1>9 DEF Filed
  <2>2. stored[i].of = k /\ stored[i].by = k
    BY <2>1 DEF Stored, Entries
  <2>3. CASE task[k] = "reading" /\ read' = [read EXCEPT ![k] = stored]
    <3>1. \A j \in Invocations : task'[j] \in {"asking", "storing"} => j = k
      BY <1>1, <1>3 DEF IInv, Beside, Unfinished
    <3>2. read'[k] = stored
      BY <1>1, <2>3 DEF TypeOK
    <3> QED BY <1>2, <2>1, <2>2, <3>1, <3>2 DEF SuggestionsFollow
  <2>4. CASE read' = read /\ (task[k] \in {"asking", "storing"} \/ task' = [task EXCEPT ![k] = "done"])
    <3>1. SuggestionsFollow
      BY DEF IInv
    <3>2. ASSUME NEW j \in Invocations, task'[j] \in {"asking", "storing"}
          PROVE  task[j] \in {"asking", "storing"}
      <4>1. CASE j = k
        <5>1. task' = [task EXCEPT ![k] = "done"] => task'[k] = "done"
          BY <1>1 DEF TypeOK
        <5> QED BY <2>4, <3>2, <4>1, <5>1
      <4>2. CASE j # k
        BY <1>3, <3>2, <4>2
      <4> QED BY <4>1, <4>2
    <3> QED BY <1>2, <2>4, <3>1, <3>2 DEF SuggestionsFollow
  <2> QED BY <2>3, <2>4 DEF Suggest, history
<1> QED BY <1>4, <1>7, <1>10, <1>11, <1>12 DEF IInv

LEMMA NextInv == IInv /\ [Next]_vars => IInv'
<1> SUFFICES ASSUME IInv, [Next]_vars PROVE IInv'
  OBVIOUS
<1>1. CASE UNCHANGED vars
  <2> USE DEF vars, setting, context, control, ending, history
  <2>1. TypeOK' /\ Default' /\ Turn' /\ Beside' /\ Asked' /\ Skipped' /\ SuggestionsFollow'
    BY <1>1 DEF IInv, TypeOK, Default, Turn, Beside, Asked, Skipped, SuggestionsFollow
  <2>2. Kept'
    BY <1>1 DEF IInv, Kept, Filed, Stored, Entries
  <2>3. ReturnedIsStored'
    BY <1>1 DEF IInv, ReturnedIsStored, Stored, Entries
  <2> QED BY <2>1, <2>2, <2>3 DEF IInv
<1> QED BY <1>1, InvokeInv, PassInv, RetrievalInv, BuilderInv, CacheInv, CallInv, ToolsInv,
           CacheWrittenInv, PersistInv, SuggestionsInv, WaitInv, SuggestInv DEF Next, Stage

LEMMA Invariant == Spec => []IInv
BY InitInv, NextInv, PTL DEF Spec

\* The type invariant of the exchange.
THEOREM TypeCorrect == Spec => []TypeOK
<1>1. IInv => TypeOK
  BY DEF IInv
<1> QED BY Invariant, <1>1, PTL

\* A reply made for the invocation that returns it is in the history once,
\* with its text; any other one is a cached one, and the history has nothing
\* of that invocation (executor.execute, HistoryPersistence, ResponseCache).
THEOREM RepliesAreStored == Spec => []ReturnedIsStored
<1>1. IInv => ReturnedIsStored
  BY DEF IInv
<1> QED BY Invariant, <1>1, PTL

\* No background task outlives its invocation (wait_for_pending_tasks).
THEOREM TasksAreOver == Spec => []TasksEnd
<1>1. IInv => TasksEnd
  BY DEF IInv, Beside, Turn, TasksEnd
<1> QED BY Invariant, <1>1, PTL

\* Suggestions are made from a history that has their exchange, the reply
\* included if it says anything (suggestions_generator.py).
THEOREM SuggestionsInOrder == Spec => []SuggestionsFollow
<1>1. IInv => SuggestionsFollow
  BY DEF IInv
<1> QED BY Invariant, <1>1, PTL

-----------------------------------------------------------------------------
(* LLMPool: the lines and the load of the clients, and the requests of     *)
(* each caller.                                                            *)

RequestType ==
    [pc : {"none", "ready", "waiting", "calling", "ok", "failed", "cancelled"},
     on : Clients, dying : BOOLEAN]

CallerType ==
    [pc : {"idle", "running", "asleep", "cancelling", "ok", "failed", "cancelled"},
     op : {"invoke", "sequential", "parallel", "throttled", "direct", "raw"},
     size : 1 .. MaxBatch, from : 1 .. MaxBatch]

Weights == [c \in Callers |-> Weight(c)]

\* The requests in their calls at client k that count w, when rq are the
\* requests and wt the weights of the callers.
CallsAt(rq, wt, w, k) ==
    {r \in Requests : rq[r].pc = "calling" /\ rq[r].on = k /\ wt[r[1]] = w}

\* A line is of requests that wait or call through the pool, in an order;
\* those that call through the pool are the first.
LinesHold(ln, ah, rq, wt) ==
    /\ \A k \in Clients : \A r \in ln[k] :
          /\ rq[r].on = k /\ rq[r].pc \in {"waiting", "calling"}
          /\ \A q \in ln[k] : r # q => r \in ah[q] \/ q \in ah[r]
    /\ \A r \in Requests :
          /\ ah[r] \subseteq UNION {ln[k] : k \in Clients}
          /\ rq[r].pc \in {"ready", "waiting"} => wt[r[1]] = 2
          /\ rq[r].pc = "calling" /\ wt[r[1]] = 2 => r \in ln[rq[r].on] /\ ah[r] = {}
          /\ rq[r].pc = "calling" => wt[r[1]] \in {0, 1, 2}

\* The load of a client is that of the calls it is in.
LoadHolds(ld, rq, wt) ==
    \A k \in Clients :
        /\ IsFiniteSet(CallsAt(rq, wt, 2, k)) /\ IsFiniteSet(CallsAt(rq, wt, 1, k))
        /\ ld[k] = 2 * Cardinality(CallsAt(rq, wt, 2, k)) + Cardinality(CallsAt(rq, wt, 1, k))

Pooled(ln, ah, ld, rq, wt) ==
    /\ ln \in [Clients -> SUBSET Requests] /\ ah \in [Requests -> SUBSET Requests]
    /\ ld \in [Clients -> Int]
    /\ rq \in [Requests -> RequestType]
    /\ LinesHold(ln, ah, rq, wt) /\ LoadHolds(ld, rq, wt)

\* Where the caller of message j is, and where the message.
MessageHolds(c, j) ==
    LET d == doing[c]  m == req[<<c, j>>] IN
    /\ m.pc = "none" <=> d.pc = "idle" \/ (j >= d.from /\ j \notin Current(c))
    /\ d.pc # "idle" /\ j < d.from => m.pc = "ok"
    /\ m.pc = "ready" => Gathers(c)
    /\ m.dying => Live(<<c, j>>) /\ d.pc \in {"cancelling", "cancelled"}
    /\ Live(<<c, j>>) =>
          \/ d.pc = "running"
          \/ d.pc = "cancelling" /\ m.dying
          \/ d.pc = "cancelled" /\ m.dying /\ Gathers(c) /\ Broken(c)
          \/ d.pc \in {"failed", "cancelling", "cancelled"} /\ Gathers(c) /\ Raised(c)

CallerHolds(c) ==
    LET d == doing[c] IN
    /\ d \in CallerType /\ d.from <= d.size
    /\ d.op \in {"invoke", "direct", "raw"} \/ d.pc = "idle" => d.size = 1
    /\ d.pc = "asleep" => d.op = "throttled" /\ AllAnswered(c) /\ d.size \notin Current(c)
    /\ d.pc = "ok" => AllAnswered(c) /\ d.size \in Current(c)
    /\ d.pc = "failed" => Raised(c)

Batch(c) == CallerHolds(c) /\ \A j \in 1 .. MaxBatch : MessageHolds(c, j)

PoolTypeOK ==
    /\ strategy \in DOMAIN Wheels \cup {"least_busy"} /\ index \in Nat /\ faults \in Nat
    /\ doing \in [Callers -> CallerType]

PoolInv ==
    /\ PoolTypeOK
    /\ Pooled(line, ahead, active, req, Weights)
    /\ \A c \in Callers : Batch(c)

-----------------------------------------------------------------------------
(* Selection                                                               *)

LEMMA SmallestOf ==
    ASSUME NEW S \in SUBSET Nat, S # {}
    PROVE  \E n \in S : \A m \in S : n <= m
<1> DEFINE T == {1 .. n : n \in S}
<1>1. T \subseteq FiniteSubsetsOf(Nat)
  <2>1. ASSUME NEW n \in Nat PROVE 1 .. n \in FiniteSubsetsOf(Nat)
    <3>1. IsFiniteSet(1 .. n)
      BY FS_Interval
    <3>2. 1 .. n \in SUBSET Nat
      OBVIOUS
    <3> QED BY <3>1, <3>2 DEF FiniteSubsetsOf
  <2> QED BY <2>1
<1>2. PICK x \in T : \A y \in T : ~(<<y, x>> \in StrictSubsetOrdering(Nat))
  <2>1. T # {}
    OBVIOUS
  <2> HIDE DEF T
  <2> QED BY <1>1, <2>1, WFMin, FS_StrictSubsetOrderingWellFounded
<1>3. PICK n \in S : x = 1 .. n
  OBVIOUS
<1>4. ASSUME NEW m \in S, m < n PROVE FALSE
  <2>1. 1 .. m \in SUBSET Nat /\ x \in SUBSET Nat
    BY <1>3
  <2>2. 1 .. m \subseteq x /\ n \in x /\ n \notin 1 .. m
    BY <1>3, <1>4
  <2>3. <<1 .. m, x>> \in StrictSubsetOrdering(Nat)
    BY <2>1, <2>2 DEF StrictSubsetOrdering
  <2> QED BY <1>2, <2>3
<1> QED BY <1>4

LEMMA LeastBusyExists ==
    ASSUME NEW load \in [Clients -> Nat]
    PROVE  LeastBusy(load) \in Clients
<1> DEFINE Loads == {load[k] : k \in Clients}
<1>1. 1 \in Clients /\ Clients \subseteq Nat
  BY PoolAssumption DEF Clients
<1>0. Loads \in SUBSET Nat /\ Loads # {}
  BY <1>1
<1>2. PICK m \in Loads : \A n \in Loads : m <= n
  <2> HIDE DEF Loads
  <2> QED BY <1>0, SmallestOf
<1> DEFINE Least == {k \in Clients : load[k] = m}
<1>5. Least \in SUBSET Nat /\ Least # {}
  BY <1>1
<1>3. PICK k \in Least : \A j \in Least : k <= j
  <2> HIDE DEF Least
  <2> QED BY <1>5, SmallestOf
<1>4. k \in Clients /\ \A j \in Clients : load[k] < load[j] \/ (load[k] = load[j] /\ k <= j)
  BY <1>1, <1>2, <1>3
<1> QED BY <1>4 DEF LeastBusy

LEMMA SelectedExists ==
    ASSUME PoolTypeOK, NEW i \in Nat, NEW load \in [Clients -> Nat]
    PROVE  Selected(i, load) \in Clients
<1>1. CASE strategy = "least_busy"
  BY <1>1, LeastBusyExists DEF Selected
<1>2. CASE strategy # "least_busy"
  <2> DEFINE w == Wheels[strategy]
  <2>1. w \in Seq(Clients) /\ Len(w) \in Nat \ {0}
    BY <1>2, PoolAssumption DEF PoolTypeOK
  <2>2. 1 + (i % Len(w)) \in 1 .. Len(w)
    <3> HIDE DEF w
    <3> QED BY <2>1
  <2> QED BY <1>2, <2>1, <2>2 DEF Selected
<1> QED BY <1>1, <1>2

LEMMA IndexTyped ==
    ASSUME PoolTypeOK, NEW n \in Nat, Advances(n)
    PROVE  index' \in Nat
<1>1. CASE strategy = "least_busy"
  BY <1>1 DEF Advances
<1>2. CASE strategy # "least_busy"
  <2> DEFINE l == Len(Wheels[strategy])
  <2>1. l \in Nat \ {0} /\ index + n \in Nat /\ index' = (index + n) % l
    BY <1>2, PoolAssumption DEF PoolTypeOK, Advances
  <2> HIDE DEF l
  <2> QED BY <2>1
<1> QED BY <1>1, <1>2

-----------------------------------------------------------------------------
(* The load of the clients, as requests begin and end their calls.         *)

\* Who is in a call at which client.
SameCalls(rq, r2) ==
    \A r \in Requests :
        /\ r2[r].pc = "calling" <=> rq[r].pc = "calling"
        /\ rq[r].pc = "calling" => r2[r].on = rq[r].on

\* Only r's entry differs.
Only(r, rq, r2) == \A q \in Requests \ {r} : r2[q].pc = rq[q].pc /\ r2[q].on = rq[q].on

LEMMA LoadKept ==
    ASSUME NEW ld, NEW rq, NEW r2, NEW wt, LoadHolds(ld, rq, wt), SameCalls(rq, r2)
    PROVE  LoadHolds(ld, r2, wt)
<1>1. \A k \in Clients, w \in {1, 2} : CallsAt(r2, wt, w, k) = CallsAt(rq, wt, w, k)
  BY DEF SameCalls, CallsAt
<1> QED BY <1>1 DEF LoadHolds

LEMMA LoadNat ==
    ASSUME NEW ld \in [Clients -> Int], NEW rq, NEW wt, LoadHolds(ld, rq, wt)
    PROVE  ld \in [Clients -> Nat]
<1>1. ASSUME NEW k \in Clients PROVE ld[k] \in Nat
  <2>1. Cardinality(CallsAt(rq, wt, 1, k)) \in Nat /\ Cardinality(CallsAt(rq, wt, 2, k)) \in Nat
    BY FS_CardinalityType DEF LoadHolds
  <2> QED BY <2>1 DEF LoadHolds
<1> QED BY <1>1

\* r begins its call at k.
LEMMA LoadAdds ==
    ASSUME NEW ld \in [Clients -> Int], NEW rq, NEW r2, NEW wt, NEW l2, NEW r \in Requests,
           LoadHolds(ld, rq, wt), Only(r, rq, r2), rq[r].pc # "calling",
           NEW k \in Clients, r2[r].pc = "calling", r2[r].on = k,
           wt[r[1]] \in {0, 1, 2},
           l2 = [ld EXCEPT ![k] = @ + wt[r[1]]]
    PROVE  LoadHolds(l2, r2, wt)
<1>1. ASSUME NEW j \in Clients, NEW w \in {1, 2}, w # wt[r[1]] \/ j # k
      PROVE  CallsAt(r2, wt, w, j) = CallsAt(rq, wt, w, j)
  BY <1>1 DEF CallsAt, Only
<1>2. ASSUME NEW w \in {1, 2}, w = wt[r[1]]
      PROVE  /\ CallsAt(r2, wt, w, k) = CallsAt(rq, wt, w, k) \cup {r}
             /\ r \notin CallsAt(rq, wt, w, k)
  BY <1>2 DEF CallsAt, Only
<1>3. ASSUME NEW w \in {1, 2}
      PROVE  /\ IsFiniteSet(CallsAt(r2, wt, w, k))
             /\ Cardinality(CallsAt(r2, wt, w, k)) =
                    Cardinality(CallsAt(rq, wt, w, k)) + IF w = wt[r[1]] THEN 1 ELSE 0
             /\ Cardinality(CallsAt(rq, wt, w, k)) \in Nat
  <2>1. IsFiniteSet(CallsAt(rq, wt, w, k)) /\ Cardinality(CallsAt(rq, wt, w, k)) \in Nat
    BY FS_CardinalityType DEF LoadHolds
  <2>2. CASE w = wt[r[1]]
    BY <1>2, <2>1, <2>2, FS_AddElement
  <2>3. CASE w # wt[r[1]]
    BY <1>1, <2>1, <2>3
  <2> QED BY <2>2, <2>3
<1>4. ASSUME NEW j \in Clients
      PROVE  /\ IsFiniteSet(CallsAt(r2, wt, 2, j)) /\ IsFiniteSet(CallsAt(r2, wt, 1, j))
             /\ l2[j] = 2 * Cardinality(CallsAt(r2, wt, 2, j)) + Cardinality(CallsAt(r2, wt, 1, j))
  <2>1. CASE j # k
    BY <1>1, <2>1 DEF LoadHolds
  <2>2. CASE j = k
    <3>1. ld[k] = 2 * Cardinality(CallsAt(rq, wt, 2, k)) + Cardinality(CallsAt(rq, wt, 1, k))
      BY DEF LoadHolds
    <3>2. l2[k] = ld[k] + wt[r[1]]
      OBVIOUS
    <3> QED BY <1>3, <2>2, <3>1, <3>2
  <2> QED BY <2>1, <2>2
<1> QED BY <1>4 DEF LoadHolds

\* r ends its call.
LEMMA LoadDrops ==
    ASSUME NEW ld \in [Clients -> Int], NEW rq, NEW r2, NEW wt, NEW l2, NEW r \in Requests,
           LoadHolds(ld, rq, wt), Only(r, rq, r2), rq[r].pc = "calling",
           NEW k \in Clients, rq[r].on = k, r2[r].pc # "calling",
           wt[r[1]] \in {0, 1, 2},
           l2 = [ld EXCEPT ![k] = @ - wt[r[1]]]
    PROVE  LoadHolds(l2, r2, wt)
<1>1. ASSUME NEW j \in Clients, NEW w \in {1, 2}, w # wt[r[1]] \/ j # k
      PROVE  CallsAt(r2, wt, w, j) = CallsAt(rq, wt, w, j)
  BY <1>1 DEF CallsAt, Only
<1>2. ASSUME NEW w \in {1, 2}, w = wt[r[1]]
      PROVE  /\ CallsAt(r2, wt, w, k) = CallsAt(rq, wt, w, k) \ {r}
             /\ r \in CallsAt(rq, wt, w, k)
  BY <1>2 DEF CallsAt, Only
<1>3. ASSUME NEW w \in {1, 2}
      PROVE  /\ IsFiniteSet(CallsAt(r2, wt, w, k))
             /\ Cardinality(CallsAt(r2, wt, w, k)) =
                    Cardinality(CallsAt(rq, wt, w, k)) - IF w = wt[r[1]] THEN 1 ELSE 0
             /\ Cardinality(CallsAt(rq, wt, w, k)) \in Nat
  <2>1. IsFiniteSet(CallsAt(rq, wt, w, k)) /\ Cardinality(CallsAt(rq, wt, w, k)) \in Nat
    BY FS_CardinalityType DEF LoadHolds
  <2>2. CASE w = wt[r[1]]
    BY <1>2, <2>1, <2>2, FS_RemoveElement
  <2>3. CASE w # wt[r[1]]
    BY <1>1, <2>1, <2>3
  <2> QED BY <2>2, <2>3
<1>4. ASSUME NEW j \in Clients
      PROVE  /\ IsFiniteSet(CallsAt(r2, wt, 2, j)) /\ IsFiniteSet(CallsAt(r2, wt, 1, j))
             /\ l2[j] = 2 * Cardinality(CallsAt(r2, wt, 2, j)) + Cardinality(CallsAt(r2, wt, 1, j))
  <2>1. CASE j # k
    BY <1>1, <2>1 DEF LoadHolds
  <2>2. CASE j = k
    <3>1. ld[k] = 2 * Cardinality(CallsAt(rq, wt, 2, k)) + Cardinality(CallsAt(rq, wt, 1, k))
      BY DEF LoadHolds
    <3>2. l2[k] = ld[k] - wt[r[1]]
      OBVIOUS
    <3> QED BY <1>3, <2>2, <3>1, <3>2
  <2> QED BY <2>1, <2>2
<1> QED BY <1>4 DEF LoadHolds

-----------------------------------------------------------------------------
(* The lines, as requests leave and enter them.                            *)

\* Some leave, in whatever way.
LEMMA LinesThin ==
    ASSUME NEW wt, LinesHold(line, ahead, req, wt),
           NEW ln \in [Clients -> SUBSET Requests], NEW r2,
           \A k \in Clients : ln[k] \subseteq line[k],
           \A k \in Clients : \A q \in ln[k] : r2[q].pc = req[q].pc /\ r2[q].on = req[q].on,
           \A q \in Requests :
              /\ r2[q].pc \in {"ready", "waiting"} => req[q].pc \in {"ready", "waiting"}
              /\ r2[q].pc = "calling" => req[q].pc = "calling" /\ r2[q].on = req[q].on
              /\ r2[q].pc = "calling" /\ wt[q[1]] = 2 => q \in ln[req[q].on]
    PROVE  LinesHold(ln, Order(ln), r2, wt)
<1> DEFINE in == UNION {ln[k] : k \in Clients}
           ah == Order(ln)
<1>1. \A r \in Requests : ah[r] = IF r \in in THEN ahead[r] \cap in ELSE {}
  BY DEF Order
<1>2. \A k \in Clients : \A r \in ln[k] : r \in Requests /\ r \in in
  OBVIOUS
<1> HIDE DEF in, ah
<1>3. ASSUME NEW k \in Clients, NEW r \in ln[k]
      PROVE  /\ r2[r].on = k /\ r2[r].pc \in {"waiting", "calling"}
             /\ \A q \in ln[k] : r # q => r \in ah[q] \/ q \in ah[r]
  <2>1. r2[r].on = k /\ r2[r].pc \in {"waiting", "calling"}
    BY DEF LinesHold
  <2>2. ASSUME NEW q \in ln[k], r # q PROVE r \in ah[q] \/ q \in ah[r]
    <3>1. r \in ahead[q] \/ q \in ahead[r]
      BY <2>2 DEF LinesHold
    <3> QED BY <1>1, <1>2, <3>1
  <2> QED BY <2>1, <2>2
<1>4. ASSUME NEW r \in Requests
      PROVE  /\ ah[r] \subseteq in
             /\ r2[r].pc \in {"ready", "waiting"} => wt[r[1]] = 2
             /\ r2[r].pc = "calling" /\ wt[r[1]] = 2 => r \in ln[r2[r].on] /\ ah[r] = {}
             /\ r2[r].pc = "calling" => wt[r[1]] \in {0, 1, 2}
  <2>1. ah[r] \subseteq in /\ (ahead[r] = {} => ah[r] = {})
    BY <1>1
  <2>2. r2[r].pc \in {"ready", "waiting"} => wt[r[1]] = 2
    BY DEF LinesHold
  <2>3. r2[r].pc = "calling" => wt[r[1]] \in {0, 1, 2}
    BY DEF LinesHold
  <2>4. r2[r].pc = "calling" /\ wt[r[1]] = 2 => r \in ln[r2[r].on] /\ ah[r] = {}
    BY <2>1 DEF LinesHold
  <2> QED BY <2>1, <2>2, <2>3, <2>4
<1> QED BY <1>3, <1>4 DEF LinesHold, in, ah

\* One comes to the line of k.
LEMMA LinesEnter ==
    ASSUME NEW ln \in [Clients -> SUBSET Requests], NEW ah \in [Requests -> SUBSET Requests],
           NEW rq \in [Requests -> RequestType], NEW wt, LinesHold(ln, ah, rq, wt),
           NEW r \in Requests, NEW k \in Clients,
           rq[r].pc \notin {"waiting", "calling"}, wt[r[1]] = 2,
           NEW l2, NEW a2, NEW r2,
           l2 = [ln EXCEPT ![k] = @ \cup {r}], a2 = [ah EXCEPT ![r] = ln[k]],
           r2 = [rq EXCEPT ![r].on = k, ![r].pc = IF ln[k] = {} THEN "calling" ELSE "waiting"]
    PROVE  LinesHold(l2, a2, r2, wt)
<1> DEFINE in == UNION {ln[j] : j \in Clients}
           in2 == UNION {l2[j] : j \in Clients}
<1>1. /\ \A j \in Clients : l2[j] = IF j = k THEN ln[k] \cup {r} ELSE ln[j]
      /\ \A q \in Requests : a2[q] = IF q = r THEN ln[k] ELSE ah[q]
      /\ \A q \in Requests \ {r} : r2[q] = rq[q]
      /\ r2[r].on = k /\ r2[r].pc = IF ln[k] = {} THEN "calling" ELSE "waiting"
  BY DEF RequestType
<1>2. /\ \A j \in Clients : ln[j] \subseteq Requests \ {r}
      /\ in \subseteq in2 /\ ln[k] \subseteq in2 /\ r \notin in
  <2>1. \A j \in Clients : ln[j] \subseteq Requests \ {r}
    BY DEF LinesHold
  <2> QED BY <1>1, <2>1
<1>3. \A q \in Requests : r \notin ah[q] /\ ah[q] \subseteq in
  BY <1>2 DEF LinesHold
<1>4. ASSUME NEW j \in Clients, NEW p \in l2[j]
      PROVE  /\ r2[p].on = j /\ r2[p].pc \in {"waiting", "calling"}
             /\ \A q \in l2[j] : p # q => p \in a2[q] \/ q \in a2[p]
  <2>1. CASE p = r
    BY <1>1, <1>2, <2>1
  <2>2. CASE p # r
    <3>1. p \in ln[j] /\ p \in Requests
      BY <1>1, <1>2, <2>2
    <3>2. r2[p].on = j /\ r2[p].pc \in {"waiting", "calling"}
      BY <1>1, <2>2, <3>1 DEF LinesHold
    <3>3. ASSUME NEW q \in l2[j], p # q PROVE p \in a2[q] \/ q \in a2[p]
      <4>1. CASE q = r
        BY <1>1, <1>2, <2>2, <3>1, <4>1
      <4>2. CASE q # r
        <5>1. q \in ln[j] /\ q \in Requests
          BY <1>1, <1>2, <4>2
        <5>2. p \in ah[q] \/ q \in ah[p]
          BY <3>1, <3>3, <5>1 DEF LinesHold
        <5> QED BY <1>1, <2>2, <3>1, <4>2, <5>1, <5>2
      <4> QED BY <4>1, <4>2
    <3> QED BY <3>2, <3>3
  <2> QED BY <2>1, <2>2
<1>5. ASSUME NEW q \in Requests
      PROVE  /\ a2[q] \subseteq in2
             /\ r2[q].pc \in {"ready", "waiting"} => wt[q[1]] = 2
             /\ r2[q].pc = "calling" /\ wt[q[1]] = 2 => q \in l2[r2[q].on] /\ a2[q] = {}
             /\ r2[q].pc = "calling" => wt[q[1]] \in {0, 1, 2}
  <2> HIDE DEF in, in2
  <2>1. CASE q = r
    BY <1>1, <1>2, <2>1
  <2>2. CASE q # r
    <3>1. /\ r2[q].pc \in {"ready", "waiting"} => wt[q[1]] = 2
          /\ r2[q].pc = "calling" => wt[q[1]] \in {0, 1, 2}
      BY <1>1, <2>2 DEF LinesHold
    <3>2. ASSUME r2[q].pc = "calling", wt[q[1]] = 2
          PROVE  q \in l2[r2[q].on] /\ a2[q] = {}
      <4>1. q \in ln[rq[q].on] /\ ah[q] = {} /\ rq[q].on \in Clients
        BY <1>1, <2>2, <3>2 DEF LinesHold, RequestType
      <4> QED BY <1>1, <2>2, <4>1
    <3>3. a2[q] \subseteq in2
      BY <1>1, <1>2, <1>3, <2>2
    <3> QED BY <3>1, <3>2, <3>3
  <2> QED BY <2>1, <2>2
<1> QED BY <1>4, <1>5 DEF LinesHold, in2

\* One is handed the slot.
LEMMA LinesResume ==
    ASSUME NEW ln \in [Clients -> SUBSET Requests], NEW ah,
           NEW rq \in [Requests -> RequestType], NEW wt, LinesHold(ln, ah, rq, wt),
           NEW r \in Requests, r \in ln[rq[r].on], ah[r] = {}, rq[r].pc = "waiting",
           NEW r2, r2 = [rq EXCEPT ![r].pc = "calling"]
    PROVE  LinesHold(ln, ah, r2, wt)
<1>1. /\ \A q \in Requests \ {r} : r2[q] = rq[q]
      /\ r2[r].on = rq[r].on /\ r2[r].pc = "calling"
  BY DEF RequestType
<1>2. wt[r[1]] = 2
  BY DEF LinesHold
<1>3. \A k \in Clients : \A q \in ln[k] :
          r2[q].on = k /\ r2[q].pc \in {"waiting", "calling"}
  BY <1>1 DEF LinesHold
<1> QED BY <1>1, <1>2, <1>3 DEF LinesHold

\* Others change, none of whom is in a line or comes to be.
LEMMA LinesBeside ==
    ASSUME NEW ln \in [Clients -> SUBSET Requests], NEW ah, NEW rq, NEW wt, LinesHold(ln, ah, rq, wt),
           NEW r2, NEW w2,
           \A q \in Requests :
              \/ r2[q].pc = rq[q].pc /\ r2[q].on = rq[q].on /\ w2[q[1]] = wt[q[1]]
              \/ /\ rq[q].pc \notin {"waiting", "calling"}
                 /\ r2[q].pc \notin {"waiting", "calling"} \/ (r2[q].pc = "calling" /\ w2[q[1]] \in {0, 1})
                 /\ r2[q].pc = "ready" => w2[q[1]] = 2
    PROVE  LinesHold(ln, ah, r2, w2)
<1>1. ASSUME NEW k \in Clients, NEW r \in ln[k]
      PROVE  /\ r2[r].on = k /\ r2[r].pc \in {"waiting", "calling"}
             /\ \A q \in ln[k] : r # q => r \in ah[q] \/ q \in ah[r]
  BY DEF LinesHold
<1>2. ASSUME NEW r \in Requests
      PROVE  /\ ah[r] \subseteq UNION {ln[k] : k \in Clients}
             /\ r2[r].pc \in {"ready", "waiting"} => w2[r[1]] = 2
             /\ r2[r].pc = "calling" /\ w2[r[1]] = 2 => r \in ln[r2[r].on] /\ ah[r] = {}
             /\ r2[r].pc = "calling" => w2[r[1]] \in {0, 1, 2}
  <2>1. ah[r] \subseteq UNION {ln[k] : k \in Clients}
    BY DEF LinesHold
  <2>2. CASE r2[r].pc = rq[r].pc /\ r2[r].on = rq[r].on /\ w2[r[1]] = wt[r[1]]
    BY <2>1, <2>2 DEF LinesHold
  <2>3. CASE /\ r2[r].pc \notin {"waiting", "calling"} \/ (r2[r].pc = "calling" /\ w2[r[1]] \in {0, 1})
             /\ r2[r].pc = "ready" => w2[r[1]] = 2
    BY <2>1, <2>3
  <2> QED BY <2>2, <2>3
<1> QED BY <1>1, <1>2 DEF LinesHold

\* The weights of callers without calls do not matter.
LEMMA LoadReweighed ==
    ASSUME NEW ld, NEW rq, NEW wt, NEW w2, LoadHolds(ld, rq, wt),
           \A r \in Requests : rq[r].pc = "calling" => w2[r[1]] = wt[r[1]]
    PROVE  LoadHolds(ld, rq, w2)
<1>1. \A k \in Clients, w \in {1, 2} : CallsAt(rq, w2, w, k) = CallsAt(rq, wt, w, k)
  BY DEF CallsAt
<1> QED BY <1>1 DEF LoadHolds

-----------------------------------------------------------------------------
(* What the steps of a request do to lines and load.                       *)

LEMMA PooledEnters ==
    ASSUME NEW ln, NEW ld, NEW rq, NEW wt,
           Pooled(ln, Order(ln), ld, rq, wt),
           NEW r \in Requests, NEW k \in Clients,
           rq[r].pc \notin {"waiting", "calling"}, wt[r[1]] = 2,
           Enters(r, k, ln, ld, rq)
    PROVE  Pooled(line', ahead', active', req', wt)
<1> USE DEF Pooled
<1>1. /\ line' = [ln EXCEPT ![k] = @ \cup {r}]
      /\ ahead' = [Order(ln) EXCEPT ![r] = ln[k]]
      /\ active' = [ld EXCEPT ![k] = IF ln[k] = {} THEN @ + 2 ELSE @]
      /\ req' = [rq EXCEPT ![r].on = k, ![r].pc = IF ln[k] = {} THEN "calling" ELSE "waiting"]
  BY DEF Enters
<1>2. LinesHold(line', ahead', req', wt)
  BY <1>1, LinesEnter
<1>3. /\ line' \in [Clients -> SUBSET Requests] /\ ahead' \in [Requests -> SUBSET Requests]
      /\ active' \in [Clients -> Int]
  BY <1>1
<1>4. req' \in [Requests -> RequestType]
  BY <1>1 DEF RequestType
<1>5. /\ Only(r, rq, req') /\ req'[r].on = k
      /\ req'[r].pc = IF ln[k] = {} THEN "calling" ELSE "waiting"
  BY <1>1 DEF RequestType, Only
<1>6. LoadHolds(active', req', wt)
  <2>1. CASE ln[k] = {}
    <3>1. active' = [ld EXCEPT ![k] = @ + wt[r[1]]] /\ wt[r[1]] \in {0, 1, 2}
      BY <1>1, <2>1
    <3>2. req'[r].pc = "calling" /\ rq[r].pc # "calling"
      BY <1>5, <2>1
    <3> HIDE DEF Pooled
    <3>3. ld \in [Clients -> Int] /\ LoadHolds(ld, rq, wt)
      BY DEF Pooled
    <3> QED BY <1>5, <3>1, <3>2, <3>3, LoadAdds
  <2>2. CASE ln[k] # {}
    <3>1. active' = ld /\ SameCalls(rq, req')
      BY <1>1, <1>5, <2>2 DEF Only, SameCalls
    <3> QED BY <3>1, LoadKept
  <2> QED BY <2>1, <2>2
<1> QED BY <1>2, <1>3, <1>4, <1>6

LEMMA PooledOrdered ==
    ASSUME NEW wt, Pooled(line, ahead, active, req, wt)
    PROVE  Pooled(line, Order(line), active, req, wt)
<1>1. LinesHold(line, Order(line), req, wt)
  <2>1. /\ line \in [Clients -> SUBSET Requests]
        /\ \A k \in Clients : line[k] \subseteq line[k]
    BY DEF Pooled
  <2>2. \A q \in Requests :
            req[q].pc = "calling" /\ wt[q[1]] = 2 => q \in line[req[q].on]
    BY DEF Pooled, LinesHold
  <2>3. LinesHold(line, ahead, req, wt)
    BY DEF Pooled
  <2> QED BY <2>1, <2>2, <2>3, LinesThin
<1>2. Order(line) \in [Requests -> SUBSET Requests]
  BY DEF Order, Pooled
<1> QED BY <1>1, <1>2 DEF Pooled

LEMMA PooledLeaves ==
    ASSUME Pooled(line, ahead, active, req, Weights),
           NEW r \in Requests, req[r].pc \in {"ready", "waiting", "calling"},
           NEW r2 \in [Requests -> RequestType], Only(r, req, r2),
           r2[r].pc \in {"ok", "failed", "cancelled"}
    PROVE  Pooled(Without(r), Order(Without(r)), Lightened(r), r2, Weights)
<1> DEFINE ln == Without(r)  ld == Lightened(r)
<1>1. r[1] \in Callers /\ Weights[r[1]] = Weight(r[1]) /\ Weight(r[1]) \in {0, 1, 2}
  BY DEF Requests, Weights, Weight
<1>2. req[r].on \in Clients
  BY DEF Pooled, RequestType
<1>3. /\ ln \in [Clients -> SUBSET Requests] /\ \A k \in Clients : ln[k] = line[k] \ {r}
      /\ Order(ln) \in [Requests -> SUBSET Requests]
  BY DEF Pooled, Without, Order
<1>4. ld = [active EXCEPT ![req[r].on] = IF req[r].pc = "calling" THEN @ - Weights[r[1]] ELSE @]
      /\ ld \in [Clients -> Int]
  BY <1>1, <1>2 DEF Pooled, Lightened
<1> HIDE DEF ln, ld
<1>5. LinesHold(ln, Order(ln), r2, Weights)
  <2>1. \A k \in Clients : ln[k] \subseteq line[k]
    BY <1>3
  <2>2. \A k \in Clients : \A q \in ln[k] : r2[q].pc = req[q].pc /\ r2[q].on = req[q].on
    BY <1>3 DEF Only
  <2>3. \A q \in Requests :
              /\ r2[q].pc \in {"ready", "waiting"} => req[q].pc \in {"ready", "waiting"}
              /\ r2[q].pc = "calling" => req[q].pc = "calling" /\ r2[q].on = req[q].on
              /\ r2[q].pc = "calling" /\ Weights[q[1]] = 2 => q \in ln[req[q].on]
    <3>1. \A q \in Requests : req[q].on \in Clients
      BY DEF Pooled, RequestType
    <3> QED BY <1>3, <3>1 DEF Only, Pooled, LinesHold
  <2> QED BY <1>3, <2>1, <2>2, <2>3, LinesThin DEF Pooled
<1>6. LoadHolds(ld, r2, Weights)
  <2>1. CASE req[r].pc = "calling"
    BY <1>1, <1>2, <1>4, <2>1, LoadDrops DEF Pooled
  <2>2. CASE req[r].pc # "calling"
    <3>1. ld = active /\ SameCalls(req, r2)
      BY <1>4, <2>2 DEF Only, SameCalls, Pooled
    <3> QED BY <3>1, LoadKept DEF Pooled
  <2> QED BY <2>1, <2>2
<1> QED BY <1>3, <1>4, <1>5, <1>6 DEF Pooled, ln, ld

LEMMA SameWeights ==
    ASSUME \A c \in Callers : doing'[c].op = doing[c].op
    PROVE  Weights' = Weights
BY DEF Weights, Weight

LEMMA WeightsOf ==
    ASSUME NEW r \in Requests
    PROVE  /\ r[1] \in Callers /\ r[2] \in 1 .. MaxBatch /\ r = <<r[1], r[2]>>
           /\ Weights[r[1]] = Weight(r[1]) /\ Weight(r[1]) \in {0, 1, 2}
           /\ Weights'[r[1]] = Weight(r[1])' /\ Weight(r[1])' \in {0, 1, 2}
<1>1. r[1] \in Callers /\ r[2] \in 1 .. MaxBatch /\ r = <<r[1], r[2]>>
  BY DEF Requests
<1> QED BY <1>1 DEF Weights, Weight

\* The requests of a message, by name.
LEMMA RequestOf ==
    ASSUME NEW c \in Callers, NEW j \in 1 .. MaxBatch
    PROVE  <<c, j>> \in Requests /\ <<c, j>>[1] = c /\ <<c, j>>[2] = j
BY DEF Requests

\* A task is created for each message of the wave, for one of the clients.
LEMMA CreatesTyped ==
    ASSUME NEW c \in Callers, NEW op, NEW i \in Int, NEW size,
           Creates(c, op, i, size), req \in [Requests -> RequestType]
    PROVE  /\ req' \in [Requests -> RequestType]
           /\ \A r \in Requests :
                 IF r[1] = c /\ r[2] \in Wave(op, i, size)
                 THEN req'[r].pc = "ready" /\ req'[r].dying = req[r].dying
                 ELSE req'[r] = req[r]
<1>1. ASSUME NEW r \in Requests PROVE 1 + ((r[2] - i) % N) \in Clients
  <2>1. r[2] - i \in Int
    BY WeightsOf, PoolAssumption
  <2>2. N \in Nat \ {0}
    BY PoolAssumption
  <2>3. (r[2] - i) % N \in 0 .. N - 1
    BY <2>1, <2>2
  <2> QED BY <2>2, <2>3 DEF Clients
<1> QED BY <1>1 DEF Creates, RequestType

-----------------------------------------------------------------------------
(* Lines and load, step by step.                                           *)

PooledNow == Pooled(line, ahead, active, req, Weights)

LEMMA BeginPooled ==
    ASSUME PoolInv, NEW c \in Callers, Begin(c)
    PROVE  PooledNow'
<1> DEFINE wt == Weights'
<1>1. \A r \in Requests : r[1] = c => req[r].pc = "none"
  BY WeightsOf DEF PoolInv, Batch, MessageHolds, Begin
<1>2. PICK op \in {"invoke", "sequential", "parallel", "throttled"}, size \in 1 .. MaxBatch :
          /\ doing' = [doing EXCEPT ![c] = [pc |-> "running", op |-> op, size |-> size, from |-> 1]]
          /\ \/ /\ Enters(<<c, 1>>, Selected(index, active), line, active, req)
             \/ /\ op \in {"parallel", "throttled"}
                /\ Creates(c, op, 1, size)
                /\ UNCHANGED <<index, line, ahead, active>>
  BY DEF Begin
<1>3. /\ wt[c] = 2
      /\ \A r \in Requests : r[1] # c => wt[r[1]] = Weights[r[1]]
  BY <1>2, WeightsOf DEF PoolInv, PoolTypeOK, Weights, Weight
<1> HIDE DEF wt
<1>4. Pooled(line, ahead, active, req, wt)
  <2>1. LinesHold(line, ahead, req, wt)
    <3>1. \A q \in Requests :
              \/ req[q].pc = req[q].pc /\ req[q].on = req[q].on /\ wt[q[1]] = Weights[q[1]]
              \/ req[q].pc = "none"
      BY <1>1, <1>3
    <3> QED BY <3>1, LinesBeside DEF PoolInv, Pooled
  <2>2. LoadHolds(active, req, wt)
    BY <1>1, <1>3, LoadReweighed DEF PoolInv, Pooled
  <2> QED BY <2>1, <2>2 DEF PoolInv, Pooled
<1>5. CASE Enters(<<c, 1>>, Selected(index, active), line, active, req)
  <2>1. Selected(index, active) \in Clients
    BY SelectedExists, LoadNat DEF PoolInv, Pooled, PoolTypeOK
  <2>2. <<c, 1>> \in Requests /\ <<c, 1>>[1] = c
    BY RequestOf, PoolAssumption
  <2>3. Pooled(line, Order(line), active, req, wt)
    BY <1>4, PooledOrdered
  <2>4. req[<<c, 1>>].pc \notin {"waiting", "calling"} /\ wt[<<c, 1>>[1]] = 2
    BY <1>1, <1>3, <2>2
  <2>5. Pooled(line', ahead', active', req', wt)
    BY <1>5, <2>1, <2>2, <2>3, <2>4, PooledEnters
  <2> QED BY <2>5 DEF PooledNow, wt
<1>6. CASE Creates(c, op, 1, size) /\ UNCHANGED <<index, line, ahead, active>>
  <2>1. /\ req' \in [Requests -> RequestType]
        /\ \A r \in Requests :
              IF r[1] = c /\ r[2] \in Wave(op, 1, size)
              THEN req'[r].pc = "ready" /\ req'[r].dying = req[r].dying
              ELSE req'[r] = req[r]
    BY <1>6, CreatesTyped DEF PoolInv, Pooled
  <2>2. LinesHold(line, ahead, req', wt)
    <3>1. \A q \in Requests :
              \/ req'[q].pc = req[q].pc /\ req'[q].on = req[q].on /\ wt[q[1]] = wt[q[1]]
              \/ req[q].pc = "none" /\ req'[q].pc = "ready" /\ wt[q[1]] = 2
      BY <1>1, <1>3, <2>1
    <3> QED BY <1>4, <3>1, LinesBeside DEF Pooled
  <2>3. LoadHolds(active, req', wt)
    <3>1. SameCalls(req, req')
      BY <1>1, <2>1 DEF SameCalls
    <3> QED BY <1>4, <3>1, LoadKept DEF Pooled
  <2>4. Pooled(line, ahead, active, req', wt)
    BY <1>4, <2>1, <2>2, <2>3 DEF Pooled
  <2> QED BY <1>6, <2>4 DEF PooledNow, wt
<1> QED BY <1>2, <1>5, <1>6

\* A call that takes no slot.
LEMMA PooledBeside ==
    ASSUME NEW ln, NEW ah, NEW ld, NEW rq, NEW wt, Pooled(ln, ah, ld, rq, wt),
           NEW r \in Requests, NEW k \in Clients, NEW w2, w2[r[1]] \in {0, 1}, rq[r].pc = "none",
           \A q \in Requests : rq[q].pc = "none" \/ w2[q[1]] = wt[q[1]],
           NEW r2 \in [Requests -> RequestType], Only(r, rq, r2),
           r2[r].pc = "calling", r2[r].on = k
    PROVE  Pooled(ln, ah, [ld EXCEPT ![k] = @ + w2[r[1]]], r2, w2)
<1> DEFINE l2 == [ld EXCEPT ![k] = @ + w2[r[1]]]
<1>1. l2 \in [Clients -> Int]
  BY DEF Pooled
<1>2. LinesHold(ln, ah, r2, w2)
  <2>1. \A q \in Requests :
            \/ r2[q].pc = rq[q].pc /\ r2[q].on = rq[q].on /\ w2[q[1]] = wt[q[1]]
            \/ /\ rq[q].pc \notin {"waiting", "calling"}
               /\ r2[q].pc \notin {"waiting", "calling"}
                     \/ (r2[q].pc = "calling" /\ w2[q[1]] \in {0, 1})
               /\ r2[q].pc = "ready" => w2[q[1]] = 2
    BY DEF Only
  <2> QED BY <2>1, LinesBeside DEF Pooled
<1>3. LoadHolds(ld, rq, w2)
  BY LoadReweighed DEF Pooled
<1>4. LoadHolds(l2, r2, w2)
  <2>1. ld \in [Clients -> Int] /\ w2[r[1]] \in {0, 1, 2} /\ rq[r].pc # "calling"
    BY DEF Pooled
  <2> QED BY <1>3, <2>1, LoadAdds
<1> HIDE DEF l2
<1>5. Pooled(ln, ah, l2, r2, w2)
  BY <1>1, <1>2, <1>4 DEF Pooled
<1> QED BY <1>5 DEF l2

LEMMA BesidePooled ==
    ASSUME PoolInv, NEW c \in Callers, doing[c].pc = "idle",
           NEW op \in {"direct", "raw"},
           doing' = [doing EXCEPT ![c].pc = "running", ![c].op = op],
           NEW k \in Clients,
           req' = [req EXCEPT ![<<c, 1>>].pc = "calling", ![<<c, 1>>].on = k],
           active' = [active EXCEPT ![k] = @ + IF op = "direct" THEN 1 ELSE 0],
           UNCHANGED <<line, ahead>>
    PROVE  PooledNow'
<1> DEFINE wt == Weights'  r == <<c, 1>>
<1>1. r \in Requests /\ r[1] = c /\ \A q \in Requests : q[1] = c => req[q].pc = "none"
  BY RequestOf, WeightsOf, PoolAssumption DEF PoolInv, Batch, MessageHolds
<1>2. /\ wt[c] = IF op = "direct" THEN 1 ELSE 0
      /\ \A q \in Requests : q[1] # c => wt[q[1]] = Weights[q[1]]
  <2>1. doing'[c].op = op /\ \A d \in Callers \ {c} : doing'[d] = doing[d]
    BY DEF PoolInv, PoolTypeOK, CallerType
  <2> QED BY <2>1, WeightsOf DEF Weights, Weight
<1>3. /\ Only(r, req, req') /\ req'[r].on = k /\ req'[r].pc = "calling"
      /\ req' \in [Requests -> RequestType]
  <2>1. req \in [Requests -> RequestType]
    BY DEF PoolInv, Pooled
  <2> HIDE DEF r
  <2>2. req' = [req EXCEPT ![r].pc = "calling", ![r].on = k]
    BY DEF r
  <2> DEFINE v == [req[r] EXCEPT !.pc = "calling", !.on = k]
  <2>3. v \in RequestType /\ v.pc = "calling" /\ v.on = k
    BY <1>1, <2>1 DEF RequestType
  <2>4. req' = [req EXCEPT ![r] = v]
    BY <2>2
  <2> HIDE DEF v
  <2> QED BY <1>1, <2>1, <2>3, <2>4 DEF Only
<1>4. active' = [active EXCEPT ![k] = @ + wt[r[1]]]
  BY <1>1, <1>2
<1> HIDE DEF wt, r
<1>5. /\ Pooled(line, ahead, active, req, Weights)
      /\ wt[r[1]] \in {0, 1} /\ req[r].pc = "none"
      /\ \A q \in Requests : req[q].pc = "none" \/ wt[q[1]] = Weights[q[1]]
  BY <1>1, <1>2 DEF PoolInv
<1>6. Pooled(line, ahead, [active EXCEPT ![k] = @ + wt[r[1]]], req', wt)
  BY ONLY <1>1, <1>3, <1>5, PooledBeside
<1> QED BY <1>4, <1>6 DEF PooledNow, wt

\* The slot is handed over.
LEMMA PooledResumes ==
    ASSUME NEW ln, NEW ah, NEW ld, NEW rq, NEW wt, Pooled(ln, ah, ld, rq, wt),
           NEW r \in Requests, r \in ln[rq[r].on], ah[r] = {}, rq[r].pc = "waiting"
    PROVE  Pooled(ln, ah, [ld EXCEPT ![rq[r].on] = @ + 2], [rq EXCEPT ![r].pc = "calling"], wt)
<1> DEFINE l2 == [ld EXCEPT ![rq[r].on] = @ + 2]  r2 == [rq EXCEPT ![r].pc = "calling"]
<1>1. rq[r].on \in Clients /\ wt[r[1]] = 2
  BY DEF Pooled, LinesHold, RequestType
<1>2. /\ r2 \in [Requests -> RequestType] /\ Only(r, rq, r2)
      /\ r2[r].pc = "calling" /\ r2[r].on = rq[r].on
  BY DEF Pooled, RequestType, Only
<1>3. l2 \in [Clients -> Int] /\ l2 = [ld EXCEPT ![rq[r].on] = @ + wt[r[1]]]
  BY <1>1 DEF Pooled
<1>4. LinesHold(ln, ah, r2, wt)
  BY LinesResume DEF Pooled
<1> HIDE DEF l2, r2
<1>5. LoadHolds(l2, r2, wt)
  <2>1. ld \in [Clients -> Int] /\ LoadHolds(ld, rq, wt)
    BY DEF Pooled
  <2> QED BY <1>1, <1>2, <1>3, <2>1, LoadAdds
<1>6. Pooled(ln, ah, l2, r2, wt)
  BY <1>2, <1>3, <1>4, <1>5 DEF Pooled
<1> QED BY <1>6 DEF l2, r2

LEMMA RunPooled ==
    ASSUME PoolInv, NEW r \in Requests, Run(r)
    PROVE  PooledNow'
<1>1. Weights' = Weights
  BY SameWeights DEF Run
<1>2. Pooled(line, Order(line), active, req, Weights)
  BY PooledOrdered DEF PoolInv
<1>3. req[r].pc = "ready" /\ req[r].on \in Clients /\ Weights[r[1]] = 2
  BY DEF Run, PoolInv, Pooled, LinesHold, RequestType
<1>4. Enters(r, req[r].on, line, active, req)
  BY DEF Run
<1>5. Pooled(line', ahead', active', req', Weights)
  BY <1>2, <1>3, <1>4, PooledEnters
<1> QED BY <1>1, <1>5 DEF PooledNow

LEMMA ResumePooled ==
    ASSUME PoolInv, NEW r \in Requests, Resume(r)
    PROVE  PooledNow'
<1>1. Weights' = Weights
  BY SameWeights DEF Resume
<1>2. r \in line[req[r].on] /\ ahead[r] = {} /\ req[r].pc = "waiting"
  BY DEF Resume, First
<1>3. Pooled(line, ahead, active, req, Weights)
  BY DEF PoolInv
<1>4. Pooled(line, ahead, [active EXCEPT ![req[r].on] = @ + 2], [req EXCEPT ![r].pc = "calling"], Weights)
  BY ONLY <1>2, <1>3, PooledResumes
<1> QED BY <1>1, <1>4 DEF PooledNow, Resume

\* A request is over, and nothing else begins.
LEMMA LeavesPooled ==
    ASSUME PoolInv, NEW r \in Requests, NEW how \in {"ok", "failed", "cancelled"},
           Leaves(r, how), Live(r), Weights' = Weights
    PROVE  PooledNow'
<1>1. req[r].pc \in {"ready", "waiting", "calling"} /\ Pooled(line, ahead, active, req, Weights)
  BY DEF Live, PoolInv
<1>2. /\ req' \in [Requests -> RequestType] /\ Only(r, req, req')
      /\ req'[r].pc \in {"ok", "failed", "cancelled"}
  BY <1>1 DEF Leaves, Pooled, RequestType, Only
<1>3. Pooled(Without(r), Order(Without(r)), Lightened(r), req', Weights)
  BY ONLY <1>1, <1>2, PooledLeaves
<1> QED BY <1>3 DEF PooledNow, Leaves

LEMMA AnswerPooled ==
    ASSUME PoolInv, NEW r \in Requests, Answer(r)
    PROVE  PooledNow'
<1>1. Live(r) /\ r[1] \in Callers /\ r[2] \in 1 .. MaxBatch
  BY WeightsOf DEF Answer, Live
<1>2. Weights' = Weights
  <2>1. \A c \in Callers : doing'[c].op = doing[c].op
    BY DEF Answer, PoolInv, PoolTypeOK, CallerType
  <2> QED BY <2>1, SameWeights
<1>3. CASE Leaves(r, "ok")
  BY <1>1, <1>2, <1>3, LeavesPooled
<1>4. CASE /\ ~Gathers(r[1]) /\ r[2] < doing[r[1]].size
           /\ Enters(<<r[1], r[2] + 1>>, Selected(index, Lightened(r)), Without(r),
                     Lightened(r), [req EXCEPT ![r].pc = "ok"])
  <2> DEFINE q == <<r[1], r[2] + 1>>  r2 == [req EXCEPT ![r].pc = "ok"]
  <2>1. /\ r2 \in [Requests -> RequestType] /\ Only(r, req, r2) /\ r2[r].pc \in {"ok", "failed", "cancelled"}
        /\ req[r].pc \in {"ready", "waiting", "calling"} /\ Pooled(line, ahead, active, req, Weights)
    BY DEF PoolInv, Pooled, RequestType, Only, Answer
  <2>2. Pooled(Without(r), Order(Without(r)), Lightened(r), r2, Weights)
    <3> HIDE DEF r2
    <3> QED BY ONLY <2>1, PooledLeaves
  <2>3. Selected(index, Lightened(r)) \in Clients
    BY <2>2, SelectedExists, LoadNat DEF PoolInv, Pooled, PoolTypeOK
  <2>4. q \in Requests /\ q # r /\ q[1] = r[1] /\ q[2] = r[2] + 1
    <3>1. r[2] + 1 \in 1 .. MaxBatch
      BY <1>1, <1>4, PoolAssumption DEF PoolInv, Batch, CallerHolds, CallerType
    <3> QED BY <1>1, <3>1, RequestOf
  <2>5. r2[q].pc = "none"
    <3>1. doing[r[1]].pc # "idle" /\ req[r].pc = "calling" /\ r = <<r[1], r[2]>>
      BY <1>1, WeightsOf DEF Answer, PoolInv, Batch, MessageHolds
    <3>2. r[2] \in Current(r[1]) /\ r[2] >= doing[r[1]].from
      BY <1>1, <3>1, PoolAssumption DEF PoolInv, Batch, MessageHolds, CallerHolds, CallerType
    <3>3. Current(r[1]) = {r[2]} /\ doing[r[1]].from = r[2]
      BY <1>4, <3>2 DEF Current, Wave, Gathers
    <3>4. q[2] \notin Current(r[1]) /\ q[2] >= doing[r[1]].from
      BY <1>1, <2>4, <3>3
    <3>5. req[q].pc = "none"
      BY <1>1, <2>4, <3>4, WeightsOf DEF PoolInv, Batch, MessageHolds
    <3> QED BY <2>4, <3>5 DEF PoolInv, Pooled
  <2>6. Weights[q[1]] = 2
    <3>1. doing[r[1]].op \notin {"direct", "raw"}
      BY <1>1, <1>4 DEF PoolInv, Batch, CallerHolds
    <3> QED BY <1>1, <2>4, <3>1 DEF Weights, Weight
  <2> HIDE DEF q, r2
  <2>7. Enters(q, Selected(index, Lightened(r)), Without(r), Lightened(r), r2)
    BY <1>4 DEF q, r2
  <2>8. Pooled(line', ahead', active', req', Weights)
    BY ONLY <2>2, <2>3, <2>4, <2>5, <2>6, <2>7, PooledEnters
  <2> QED BY <1>2, <2>8 DEF PooledNow
<1> QED BY <1>3, <1>4 DEF Answer

LEMMA FailPooled ==
    ASSUME PoolInv, NEW r \in Requests, Fail(r)
    PROVE  PooledNow'
<1>1. \A c \in Callers : doing'[c].op = doing[c].op
  BY DEF Fail, PoolInv, PoolTypeOK, CallerType
<1>2. Leaves(r, "failed") /\ Live(r)
  BY DEF Fail, Live
<1> QED BY <1>1, <1>2, SameWeights, LeavesPooled

LEMMA UnwindPooled ==
    ASSUME PoolInv, NEW r \in Requests, Unwind(r)
    PROVE  PooledNow'
<1>1. Leaves(r, "cancelled") /\ doing' = doing
  BY DEF Unwind
<1>2. Live(r)
  BY WeightsOf DEF Unwind, PoolInv, Batch, MessageHolds
<1> QED BY <1>1, <1>2, SameWeights, LeavesPooled

LEMMA CancelPooled ==
    ASSUME PoolInv, NEW c \in Callers, Cancel(c)
    PROVE  PooledNow'
<1>1. Weights' = Weights
  <2>1. \A d \in Callers : doing'[d].op = doing[d].op
    BY DEF Cancel, PoolInv, PoolTypeOK, CallerType
  <2> QED BY <2>1, SameWeights
<1>2. /\ req' \in [Requests -> RequestType]
      /\ \A q \in Requests : req'[q].pc = req[q].pc /\ req'[q].on = req[q].on
  BY DEF Cancel, PoolInv, Pooled, RequestType
<1>3. /\ line' \in [Clients -> SUBSET Requests] /\ ahead' \in [Requests -> SUBSET Requests]
      /\ ahead' = Order(line') /\ \A k \in Clients : line'[k] \subseteq line[k]
      /\ active' = active
  BY DEF Cancel, Stays, Order, PoolInv, Pooled
<1>4. LinesHold(line', Order(line'), req', Weights)
  <2>1. ASSUME NEW q \in Requests, req'[q].pc = "calling", Weights[q[1]] = 2
        PROVE  q \in line'[req[q].on]
    <3>1. q \in line[req[q].on] /\ ahead[q] = {} /\ req[q].on \in Clients
      BY <1>2, <2>1 DEF PoolInv, Pooled, LinesHold, RequestType
    <3> QED BY <3>1 DEF Cancel, Stays, First
  <2>2. LinesHold(line, ahead, req, Weights)
    BY DEF PoolInv, Pooled
  <2>3. \A k \in Clients : \A q \in line'[k] : req'[q].pc = req[q].pc /\ req'[q].on = req[q].on
    BY <1>2, <1>3
  <2> QED BY ONLY <1>2, <1>3, <2>1, <2>2, <2>3, LinesThin
<1>5. LoadHolds(active, req', Weights)
  <2>1. SameCalls(req, req')
    BY <1>2 DEF SameCalls
  <2> QED BY <2>1, LoadKept DEF PoolInv, Pooled
<1> QED BY <1>1, <1>2, <1>3, <1>4, <1>5 DEF PoolInv, Pooled, PooledNow

LEMMA NextWavePooled ==
    ASSUME PoolInv, NEW c \in Callers, NextWave(c)
    PROVE  PooledNow'
<1> DEFINE i == doing[c].from + N
<1>1. Weights' = Weights
  <2>1. \A d \in Callers : doing'[d].op = doing[d].op
    BY DEF NextWave, PoolInv, PoolTypeOK, CallerType
  <2> QED BY <2>1, SameWeights
<1>2. doing[c].op = "throttled" /\ i \in Int
  BY PoolAssumption DEF NextWave, PoolInv, Batch, CallerHolds, CallerType
<1>3. /\ req' \in [Requests -> RequestType]
      /\ \A r \in Requests :
            IF r[1] = c /\ r[2] \in Wave(doing[c].op, i, doing[c].size)
            THEN req'[r].pc = "ready" /\ req'[r].dying = req[r].dying
            ELSE req'[r] = req[r]
  <2>1. Creates(c, doing[c].op, i, doing[c].size) /\ req \in [Requests -> RequestType]
    BY DEF NextWave, PoolInv, Pooled
  <2> QED BY ONLY <1>2, <2>1, CreatesTyped
<1>4. \A j \in Wave(doing[c].op, i, doing[c].size) :
         doing[c].pc # "idle" /\ j >= doing[c].from /\ j \notin Current(c)
  <2>1. doing[c].pc # "idle" /\ doing[c].from \in Nat /\ N \in Nat \ {0}
    BY PoolAssumption DEF NextWave, PoolInv, Batch, CallerHolds, CallerType
  <2>2. \A op, size : op = "throttled" =>
           /\ Wave(op, i, size) = {j \in i .. i + N - 1 : j <= size}
           /\ Wave(op, doing[c].from, size) = {j \in doing[c].from .. doing[c].from + N - 1 : j <= size}
    BY DEF Wave
  <2> QED BY <1>2, <2>1, <2>2 DEF Current
<1>5. \A r \in Requests :
         r[1] = c /\ r[2] \in Wave(doing[c].op, i, doing[c].size) => req[r].pc = "none"
  BY <1>4, WeightsOf DEF PoolInv, Batch, MessageHolds
<1>6. \A r \in Requests : r[1] = c => Weights[r[1]] = 2
  BY <1>2, WeightsOf DEF Weight
<1>7. LinesHold(line, ahead, req', Weights)
  <2>1. \A q \in Requests :
            \/ req'[q].pc = req[q].pc /\ req'[q].on = req[q].on /\ Weights[q[1]] = Weights[q[1]]
            \/ /\ req[q].pc \notin {"waiting", "calling"}
               /\ req'[q].pc \notin {"waiting", "calling"}
                     \/ (req'[q].pc = "calling" /\ Weights[q[1]] \in {0, 1})
               /\ req'[q].pc = "ready" => Weights[q[1]] = 2
    BY <1>3, <1>5, <1>6
  <2>2. line \in [Clients -> SUBSET Requests] /\ LinesHold(line, ahead, req, Weights)
    BY DEF PoolInv, Pooled
  <2> QED BY ONLY <2>1, <2>2, LinesBeside
<1>8. LoadHolds(active, req', Weights)
  <2>1. SameCalls(req, req')
    BY <1>3, <1>5 DEF SameCalls
  <2> QED BY <2>1, LoadKept DEF PoolInv, Pooled
<1> QED BY <1>1, <1>3, <1>7, <1>8 DEF PoolInv, Pooled, PooledNow, NextWave

LEMMA PooledNext ==
    ASSUME PoolInv, PoolNext
    PROVE  PooledNow'
<1>1. ASSUME NEW r \in Requests, Run(r) \/ Resume(r) \/ Answer(r) \/ Unwind(r) \/ Fail(r)
      PROVE  PooledNow'
  BY <1>1, RunPooled, ResumePooled, AnswerPooled, UnwindPooled, FailPooled
<1>2. ASSUME NEW c \in Callers, Cancelled(c) \/ WaveOver(c)
      PROVE  PooledNow'
  <2>1. \A d \in Callers : doing'[d].op = doing[d].op
    BY <1>2 DEF Cancelled, WaveOver, PoolInv, PoolTypeOK, CallerType
  <2>2. UNCHANGED <<line, ahead, active, req>>
    BY <1>2 DEF Cancelled, WaveOver
  <2> QED BY <2>1, <2>2, SameWeights DEF PoolInv, PooledNow
<1>3. ASSUME NEW c \in Callers, BeginDirect(c)
      PROVE  PooledNow'
  <2>1. PICK k \in Clients :
          /\ active' = [active EXCEPT ![k] = @ + 1]
          /\ req' = [req EXCEPT ![<<c, 1>>].pc = "calling", ![<<c, 1>>].on = k]
    BY <1>3 DEF BeginDirect
  <2> QED BY <1>3, <2>1, BesidePooled DEF BeginDirect
<1>4. ASSUME NEW c \in Callers, BeginRaw(c)
      PROVE  PooledNow'
  <2> DEFINE k == Selected(index + 1, active)
  <2>1. k \in Clients
    BY SelectedExists, LoadNat DEF PoolInv, Pooled, PoolTypeOK
  <2> HIDE DEF k
  <2>2. active' = [active EXCEPT ![k] = @ + IF "raw" = "direct" THEN 1 ELSE 0]
    BY <1>4 DEF BeginRaw, PoolInv, Pooled
  <2>3. req' = [req EXCEPT ![<<c, 1>>].pc = "calling", ![<<c, 1>>].on = k]
    BY <1>4 DEF BeginRaw, k
  <2> QED BY <1>4, <2>1, <2>2, <2>3, BesidePooled DEF BeginRaw
<1> QED BY <1>1, <1>2, <1>3, <1>4, BeginPooled, CancelPooled, NextWavePooled DEF PoolNext, Progress

-----------------------------------------------------------------------------
(* The callers and their messages.                                         *)

LEMMA WaveIn ==
    ASSUME NEW op, NEW size \in 1 .. MaxBatch, NEW i \in 1 .. size
    PROVE  i \in Wave(op, i, size) /\ Wave(op, i, size) \subseteq 1 .. size
           /\ (op \notin {"parallel", "throttled"} => Wave(op, i, size) = {i})
<1>1. N \in Nat \ {0} /\ MaxBatch \in Nat
  BY PoolAssumption
<1>2. CASE op = "parallel"
  BY <1>1, <1>2 DEF Wave
<1>3. CASE op = "throttled"
  BY <1>1, <1>3 DEF Wave
<1>4. CASE op \notin {"parallel", "throttled"}
  BY <1>1, <1>4 DEF Wave
<1> QED BY <1>2, <1>3, <1>4

LEMMA CurrentIn ==
    ASSUME NEW c \in Callers, CallerHolds(c)
    PROVE  /\ doing[c].from \in Current(c) /\ Current(c) \subseteq 1 .. MaxBatch
           /\ doing[c].from \in 1 .. doing[c].size /\ doing[c].size \in 1 .. MaxBatch
           /\ ~Gathers(c) => Current(c) = {doing[c].from}
<1>1. doing[c].size \in 1 .. MaxBatch /\ doing[c].from \in 1 .. doing[c].size /\ MaxBatch \in Nat
  BY PoolAssumption DEF CallerHolds, CallerType
<1>2. 1 .. doing[c].size \subseteq 1 .. MaxBatch
  BY <1>1
<1> QED BY <1>1, <1>2, WaveIn DEF Current, Gathers

\* Nothing changes for the callers but c.
BesidesOnly(c) ==
    \A d \in Callers \ {c} :
        doing'[d] = doing[d] /\ \A j \in 1 .. MaxBatch : req'[<<d, j>>] = req[<<d, j>>]

LEMMA BesidesHold ==
    ASSUME NEW c \in Callers, BesidesOnly(c), NEW d \in Callers \ {c}, Batch(d)
    PROVE  Batch(d)'
<1>1. /\ doing'[d] = doing[d] /\ Current(d)' = Current(d) /\ (Gathers(d)' <=> Gathers(d))
      /\ \A j \in 1 .. MaxBatch : req'[<<d, j>>] = req[<<d, j>>]
  BY DEF BesidesOnly, Current, Gathers
<1>2. Current(d) \subseteq 1 .. MaxBatch
  BY CurrentIn DEF Batch
<1>3. (Raised(d)' <=> Raised(d)) /\ (AllAnswered(d)' <=> AllAnswered(d)) /\ (Broken(d)' <=> Broken(d))
  BY <1>1, <1>2 DEF Raised, AllAnswered, Broken
<1>4. \A j \in 1 .. MaxBatch : Live(<<d, j>>)' <=> Live(<<d, j>>)
  BY <1>1 DEF Live
<1>5. CallerHolds(d)'
  BY <1>1, <1>3 DEF Batch, CallerHolds
<1>6. ASSUME NEW j \in 1 .. MaxBatch PROVE MessageHolds(d, j)'
  BY <1>1, <1>3, <1>4 DEF Batch, MessageHolds
<1> QED BY <1>5, <1>6 DEF Batch

\* What a caller's message says of its caller.
LEMMA LiveIsCurrent ==
    ASSUME NEW c \in Callers, Batch(c), NEW i \in 1 .. MaxBatch, Live(<<c, i>>)
    PROVE  /\ i \in Current(c) /\ i >= doing[c].from
           /\ doing[c].pc \in {"running", "cancelling", "failed", "cancelled"}
           /\ ~Gathers(c) => /\ doing[c].from = i
                             /\ \A j \in 1 .. MaxBatch \ {i} : ~Live(<<c, j>>)
                             /\ ~req[<<c, i>>].dying => doing[c].pc = "running"
<1>1. doing[c].pc # "idle" /\ req[<<c, i>>].pc # "none" /\ req[<<c, i>>].pc # "ok"
      /\ doing[c].pc \in {"running", "cancelling", "failed", "cancelled"}
  BY DEF Batch, MessageHolds, Live
<1>2. ~(i < doing[c].from) /\ doing[c].from \in Nat
  BY <1>1, CurrentIn DEF Batch, MessageHolds
<1>3. i \in Current(c) /\ i >= doing[c].from
  BY <1>1, <1>2 DEF Batch, MessageHolds
<1>4. ASSUME ~Gathers(c)
      PROVE  /\ doing[c].from = i
             /\ \A j \in 1 .. MaxBatch \ {i} : ~Live(<<c, j>>)
             /\ ~req[<<c, i>>].dying => doing[c].pc = "running"
  <2>1. Current(c) = {i} /\ doing[c].from = i
    BY <1>3, <1>4, CurrentIn DEF Batch
  <2>2. ASSUME NEW j \in 1 .. MaxBatch \ {i} PROVE ~Live(<<c, j>>)
    <3>1. j < i => req[<<c, j>>].pc = "ok"
      BY <1>1, <2>1 DEF Batch, MessageHolds
    <3>2. j >= i => req[<<c, j>>].pc = "none"
      BY <2>1 DEF Batch, MessageHolds
    <3> QED BY <3>1, <3>2 DEF Live
  <2>3. ~req[<<c, i>>].dying => doing[c].pc = "running"
    BY <1>4 DEF Batch, MessageHolds
  <2> QED BY <2>1, <2>2, <2>3
<1> QED BY <1>1, <1>3, <1>4

\* A message goes on or is over, and its caller with it.
LEMMA MessageMoves ==
    ASSUME NEW c \in Callers, Batch(c), NEW i \in 1 .. MaxBatch, Live(<<c, i>>),
           \A j \in 1 .. MaxBatch \ {i} : req'[<<c, j>>] = req[<<c, j>>],
           ~req'[<<c, i>>].dying,
           \/ req'[<<c, i>>].pc \in {"waiting", "calling"} /\ ~req[<<c, i>>].dying
           \/ req'[<<c, i>>].pc \in {"ok", "failed", "cancelled"},
           doing'[c] = doing[c]
    PROVE  Batch(c)'
<1>1. Current(c)' = Current(c) /\ (Gathers(c)' <=> Gathers(c))
  BY DEF Current, Gathers
<1>2. Current(c) \subseteq 1 .. MaxBatch
  BY CurrentIn DEF Batch
<1>3. (Raised(c) => Raised(c)') /\ (Broken(c) => Broken(c)')
  BY <1>1, <1>2 DEF Raised, Broken, Live
<1>4. i \in Current(c) /\ i >= doing[c].from /\ doing[c].from \in Nat
      /\ doing[c].pc \in {"running", "cancelling", "failed", "cancelled"}
  BY LiveIsCurrent, CurrentIn DEF Batch
<1>5. CallerHolds(c)'
  BY <1>1, <1>3, <1>4 DEF Batch, CallerHolds
<1>6. ASSUME NEW j \in 1 .. MaxBatch PROVE MessageHolds(c, j)'
  <2>1. CASE j # i
    BY <1>1, <1>3, <2>1 DEF Batch, MessageHolds, Live
  <2>2. CASE j = i
    <3>1. Live(<<c, i>>)' => ~req[<<c, i>>].dying
      BY DEF Live
    <3>2. \/ doing[c].pc = "running"
          \/ doing[c].pc \in {"cancelling", "cancelled"} /\ req[<<c, i>>].dying
          \/ doing[c].pc \in {"failed", "cancelling", "cancelled"} /\ Gathers(c) /\ Raised(c)
      BY DEF Batch, MessageHolds
    <3> QED BY <1>1, <1>3, <1>4, <2>2, <3>1, <3>2 DEF MessageHolds
  <2> QED BY <2>1, <2>2
<1> QED BY <1>5, <1>6 DEF Batch

\* A single message is over, and its caller knows.
LEMMA CallerOver ==
    ASSUME NEW c \in Callers, Batch(c), NEW i \in 1 .. MaxBatch, Live(<<c, i>>), ~Gathers(c),
           \A j \in 1 .. MaxBatch \ {i} : req'[<<c, j>>] = req[<<c, j>>],
           ~req'[<<c, i>>].dying,
           NEW how \in {"ok", "failed"}, req'[<<c, i>>].pc = how,
           how = "ok" => i = doing[c].size,
           doing'[c] = [doing[c] EXCEPT !.pc = how]
    PROVE  Batch(c)'
<1>1. doing[c] \in CallerType
  BY DEF Batch, CallerHolds
<1>2. /\ doing'[c].pc = how /\ doing'[c].op = doing[c].op
      /\ doing'[c].size = doing[c].size /\ doing'[c].from = doing[c].from
      /\ doing'[c] \in CallerType
  BY <1>1 DEF CallerType
<1>3. Current(c)' = Current(c) /\ ~Gathers(c)'
  BY <1>2 DEF Current, Gathers
<1>4. doing[c].from = i /\ Current(c) = {i} /\ i \in Nat /\ doing[c].pc # "idle"
      /\ \A j \in 1 .. MaxBatch \ {i} : ~Live(<<c, j>>)
  BY LiveIsCurrent, CurrentIn DEF Batch
<1>5. (how = "ok" => AllAnswered(c)') /\ (how = "failed" => Raised(c)')
  BY <1>3, <1>4 DEF AllAnswered, Raised
<1>6. CallerHolds(c)'
  BY <1>2, <1>3, <1>4, <1>5 DEF Batch, CallerHolds
<1>7. ASSUME NEW j \in 1 .. MaxBatch PROVE MessageHolds(c, j)'
  <2>1. CASE j # i
    <3>1. ~Live(<<c, j>>) /\ req'[<<c, j>>] = req[<<c, j>>] /\ ~Live(<<c, j>>)'
      BY <1>4, <2>1 DEF Live
    <3> QED BY <1>2, <1>3, <1>4, <3>1 DEF Batch, MessageHolds, Live
  <2>2. CASE j = i
    BY <1>2, <1>3, <1>4, <2>2 DEF MessageHolds, Live
  <2> QED BY <2>1, <2>2
<1> QED BY <1>6, <1>7 DEF Batch

\* Only r's entry changes: the other callers' messages do not.
LEMMA OneChanges ==
    ASSUME NEW r \in Requests, \A q \in Requests \ {r} : req'[q] = req[q]
    PROVE  /\ \A d \in Callers \ {r[1]}, j \in 1 .. MaxBatch : req'[<<d, j>>] = req[<<d, j>>]
           /\ \A j \in 1 .. MaxBatch \ {r[2]} : req'[<<r[1], j>>] = req[<<r[1], j>>]
<1>1. \A d \in Callers, j \in 1 .. MaxBatch : <<d, j>> \in Requests
  BY RequestOf
<1> QED BY <1>1, WeightsOf

\* A step of a message that leaves its caller where it is.
LEMMA MessageStep ==
    ASSUME \A c \in Callers : Batch(c), NEW r \in Requests, Live(r),
           \A q \in Requests \ {r} : req'[q] = req[q],
           ~req'[r].dying,
           \/ req'[r].pc \in {"waiting", "calling"} /\ ~req[r].dying
           \/ req'[r].pc \in {"ok", "failed", "cancelled"},
           doing' = doing
    PROVE  \A c \in Callers : Batch(c)'
<1> DEFINE c == r[1]  i == r[2]
<1>1. c \in Callers /\ i \in 1 .. MaxBatch /\ r = <<c, i>>
  BY WeightsOf
<1>2. BesidesOnly(c)
  BY OneChanges DEF BesidesOnly
<1>3. \A j \in 1 .. MaxBatch \ {i} : req'[<<c, j>>] = req[<<c, j>>]
  BY OneChanges
<1>4. Live(<<c, i>>) /\ Batch(c) /\ ~req'[<<c, i>>].dying
      /\ \/ req'[<<c, i>>].pc \in {"waiting", "calling"} /\ ~req[<<c, i>>].dying
         \/ req'[<<c, i>>].pc \in {"ok", "failed", "cancelled"}
  BY <1>1
<1> HIDE DEF c, i
<1>5. Batch(c)'
  BY <1>1, <1>3, <1>4, MessageMoves
<1> QED BY <1>1, <1>2, <1>5, BesidesHold

\* A step of the caller of r that ends both.
LEMMA OverStep ==
    ASSUME \A c \in Callers : Batch(c), doing \in [Callers -> CallerType],
           NEW r \in Requests, Live(r), ~Gathers(r[1]),
           \A q \in Requests \ {r} : req'[q] = req[q],
           ~req'[r].dying,
           NEW how \in {"ok", "failed"}, req'[r].pc = how,
           how = "ok" => r[2] = doing[r[1]].size,
           doing' = [doing EXCEPT ![r[1]].pc = how]
    PROVE  \A c \in Callers : Batch(c)'
<1> DEFINE c == r[1]  i == r[2]
<1>1. c \in Callers /\ i \in 1 .. MaxBatch /\ r = <<c, i>>
  BY WeightsOf
<1>2. BesidesOnly(c)
  BY <1>1, OneChanges DEF BesidesOnly
<1>3. /\ \A j \in 1 .. MaxBatch \ {i} : req'[<<c, j>>] = req[<<c, j>>]
      /\ doing'[c] = [doing[c] EXCEPT !.pc = how]
  BY <1>1, OneChanges
<1>4. /\ Live(<<c, i>>) /\ Batch(c) /\ ~Gathers(c) /\ ~req'[<<c, i>>].dying
      /\ req'[<<c, i>>].pc = how /\ (how = "ok" => i = doing[c].size)
  BY <1>1
<1> HIDE DEF c, i
<1>5. Batch(c)'
  BY ONLY <1>1, <1>3, <1>4, CallerOver
<1> QED BY <1>1, <1>2, <1>5, BesidesHold

\* The next message of a sequential batch.
LEMMA NextMessage ==
    ASSUME NEW c \in Callers, Batch(c), NEW i \in 1 .. MaxBatch, Live(<<c, i>>),
           ~req[<<c, i>>].dying, ~Gathers(c), i < doing[c].size,
           req'[<<c, i>>].pc = "ok", ~req'[<<c, i>>].dying,
           req'[<<c, i + 1>>].pc \in {"waiting", "calling"}, ~req'[<<c, i + 1>>].dying,
           \A j \in 1 .. MaxBatch \ {i, i + 1} : req'[<<c, j>>] = req[<<c, j>>],
           doing'[c] = [doing[c] EXCEPT !.from = @ + 1]
    PROVE  Batch(c)'
<1>1. /\ doing[c].from = i /\ Current(c) = {i} /\ i \in Nat /\ doing[c].pc = "running"
      /\ doing[c] \in CallerType /\ doing[c].size \in 1 .. MaxBatch /\ MaxBatch \in Nat
      /\ \A j \in 1 .. MaxBatch \ {i} : ~Live(<<c, j>>)
      /\ doing[c].op \notin {"parallel", "throttled", "invoke", "direct", "raw"}
  BY LiveIsCurrent, CurrentIn, PoolAssumption DEF Batch, CallerHolds, Gathers
<1>2. i + 1 \in 1 .. doing[c].size /\ i + 1 \in 1 .. MaxBatch
  BY <1>1
<1>3. /\ doing'[c].pc = "running" /\ doing'[c].op = doing[c].op
      /\ doing'[c].size = doing[c].size /\ doing'[c].from = i + 1
      /\ doing'[c] \in CallerType
  BY <1>1, <1>2 DEF CallerType
<1>4. Current(c)' = {i + 1} /\ ~Gathers(c)'
  BY <1>1, <1>2, <1>3, WaveIn DEF Current, Gathers
<1>5. CallerHolds(c)'
  BY <1>1, <1>2, <1>3 DEF CallerHolds
<1>6. ASSUME NEW j \in 1 .. MaxBatch PROVE MessageHolds(c, j)'
  <2>1. CASE j < i
    <3>1. req[<<c, j>>].pc = "ok" /\ ~Live(<<c, j>>) /\ ~req[<<c, j>>].dying
      BY <1>1, <2>1 DEF Batch, MessageHolds, Live
    <3> QED BY <1>1, <1>3, <1>4, <2>1, <3>1 DEF MessageHolds, Live
  <2>2. CASE j = i
    BY <1>1, <1>3, <1>4, <2>2 DEF MessageHolds, Live
  <2>3. CASE j = i + 1
    BY <1>1, <1>3, <1>4, <2>3 DEF MessageHolds, Live
  <2>4. CASE j > i + 1
    <3>1. req[<<c, j>>].pc = "none" /\ ~Live(<<c, j>>) /\ ~req[<<c, j>>].dying
      BY <1>1, <2>4 DEF Batch, MessageHolds, Live
    <3> QED BY <1>1, <1>3, <1>4, <2>4, <3>1 DEF MessageHolds, Live
  <2> QED BY <1>1, <2>1, <2>2, <2>3, <2>4
<1> QED BY <1>5, <1>6 DEF Batch

LEMMA LeavesOne ==
    ASSUME PoolInv, NEW r \in Requests, NEW how, Leaves(r, how)
    PROVE  /\ \A q \in Requests \ {r} : req'[q] = req[q]
           /\ req'[r].pc = how /\ ~req'[r].dying
BY DEF Leaves, PoolInv, Pooled, RequestType

LEMMA EntersOne ==
    ASSUME NEW r \in Requests, NEW k, NEW ln, NEW ld, NEW rq \in [Requests -> RequestType],
           Enters(r, k, ln, ld, rq)
    PROVE  /\ \A q \in Requests \ {r} : req'[q] = rq[q]
           /\ req'[r].pc \in {"waiting", "calling"} /\ req'[r].dying = rq[r].dying
BY DEF Enters, RequestType

LEMMA AnswerBatch ==
    ASSUME PoolInv, NEW r \in Requests, Answer(r)
    PROVE  \A c \in Callers : Batch(c)'
<1> DEFINE c == r[1]  i == r[2]  r2 == [req EXCEPT ![r].pc = "ok"]
<1>1. c \in Callers /\ i \in 1 .. MaxBatch /\ r = <<c, i>> /\ i \in Nat
  BY WeightsOf
<1>2. /\ Live(r) /\ ~req[r].dying /\ \A d \in Callers : Batch(d)
      /\ doing \in [Callers -> CallerType] /\ req \in [Requests -> RequestType]
  BY DEF Answer, Live, PoolInv, PoolTypeOK, Pooled
<1>3. CASE Gathers(c) /\ Leaves(r, "ok") /\ doing' = doing
  BY <1>2, <1>3, LeavesOne, MessageStep
<1>4. CASE ~Gathers(c) /\ i = doing[c].size /\ Leaves(r, "ok") /\ doing' = [doing EXCEPT ![c].pc = "ok"]
  <2>1. /\ \A q \in Requests \ {r} : req'[q] = req[q]
        /\ req'[r].pc = "ok" /\ ~req'[r].dying
    BY <1>4, LeavesOne
  <2> QED BY ONLY <1>2, <1>4, <2>1, OverStep
<1>5. CASE /\ ~Gathers(c) /\ i < doing[c].size
           /\ doing' = [doing EXCEPT ![c].from = @ + 1]
           /\ Enters(<<c, i + 1>>, Selected(index, Lightened(r)), Without(r), Lightened(r), r2)
  <2> DEFINE q == <<c, i + 1>>
  <2>1. /\ doing[c].from = i /\ Current(c) = {i} /\ doing[c].size \in 1 .. MaxBatch /\ MaxBatch \in Nat
    BY <1>1, <1>2, <1>5, LiveIsCurrent, CurrentIn, PoolAssumption DEF Batch
  <2>2. i + 1 \in 1 .. MaxBatch /\ q \in Requests /\ q # r
    <3>1. i + 1 \in 1 .. MaxBatch
      BY <1>1, <1>5, <2>1
    <3> QED BY <1>1, <3>1, RequestOf
  <2>3. /\ r2 \in [Requests -> RequestType] /\ r2[r].pc = "ok" /\ ~r2[r].dying
        /\ \A p \in Requests \ {r} : r2[p] = req[p]
    BY <1>2 DEF RequestType
  <2>4. req[q].pc = "none" /\ ~req[q].dying
    BY <1>1, <1>2, <2>1, <2>2 DEF Batch, MessageHolds, Live
  <2> HIDE DEF r2
  <2>5. /\ \A p \in Requests \ {q} : req'[p] = r2[p]
        /\ req'[q].pc \in {"waiting", "calling"} /\ req'[q].dying = r2[q].dying
    <3>1. Enters(q, Selected(index, Lightened(r)), Without(r), Lightened(r), r2)
      BY <1>5
    <3> HIDE DEF q
    <3> QED BY ONLY <2>2, <2>3, <3>1, EntersOne
  <2>6. /\ req'[<<c, i>>].pc = "ok" /\ ~req'[<<c, i>>].dying
        /\ req'[<<c, i + 1>>].pc \in {"waiting", "calling"} /\ ~req'[<<c, i + 1>>].dying
    BY <1>1, <2>2, <2>3, <2>4, <2>5
  <2>7. \A j \in 1 .. MaxBatch \ {i, i + 1} : req'[<<c, j>>] = req[<<c, j>>]
    <3>1. \A j \in 1 .. MaxBatch \ {i, i + 1} : <<c, j>> \in Requests /\ <<c, j>> # r /\ <<c, j>> # q
      BY <1>1, RequestOf
    <3> QED BY <2>3, <2>5, <3>1
  <2>8. BesidesOnly(c)
    <3>1. ASSUME NEW d \in Callers \ {c}, NEW j \in 1 .. MaxBatch
          PROVE  req'[<<d, j>>] = req[<<d, j>>]
      <4>1. <<d, j>> \in Requests /\ <<d, j>> # r /\ <<d, j>> # q
        BY <1>1, <3>1, RequestOf
      <4> QED BY <2>3, <2>5, <4>1
    <3> QED BY <1>5, <3>1 DEF BesidesOnly
  <2>9. doing'[c] = [doing[c] EXCEPT !.from = @ + 1]
    BY <1>1, <1>2, <1>5
  <2>10. Batch(c) /\ Live(<<c, i>>) /\ ~req[<<c, i>>].dying /\ ~Gathers(c) /\ i < doing[c].size
    BY <1>1, <1>2, <1>5
  <2> HIDE DEF c, i
  <2>11. Batch(c)'
    BY ONLY <1>1, <2>6, <2>7, <2>9, <2>10, NextMessage
  <2> QED BY <1>1, <1>2, <2>8, <2>11, BesidesHold
<1> QED BY <1>3, <1>4, <1>5 DEF Answer

LEMMA FailBatch ==
    ASSUME PoolInv, NEW r \in Requests, Fail(r)
    PROVE  \A c \in Callers : Batch(c)'
<1>1. /\ Live(r) /\ \A d \in Callers : Batch(d)
      /\ doing \in [Callers -> CallerType]
  BY DEF Fail, Live, PoolInv, PoolTypeOK
<1>2. /\ \A q \in Requests \ {r} : req'[q] = req[q]
      /\ req'[r].pc = "failed" /\ ~req'[r].dying
  BY LeavesOne DEF Fail
<1>3. CASE Gathers(r[1])
  BY <1>1, <1>2, <1>3, MessageStep DEF Fail
<1>4. CASE ~Gathers(r[1])
  <2>1. doing' = [doing EXCEPT ![r[1]].pc = "failed"]
    BY <1>4 DEF Fail
  <2> QED BY ONLY <1>1, <1>2, <1>4, <2>1, OverStep
<1> QED BY <1>3, <1>4

LEMMA UnwindBatch ==
    ASSUME PoolInv, NEW r \in Requests, Unwind(r)
    PROVE  \A c \in Callers : Batch(c)'
<1>1. Live(r) /\ \A d \in Callers : Batch(d)
  BY WeightsOf DEF Unwind, PoolInv, Batch, MessageHolds
<1>2. /\ \A q \in Requests \ {r} : req'[q] = req[q]
      /\ req'[r].pc = "cancelled" /\ ~req'[r].dying
  BY LeavesOne DEF Unwind
<1> QED BY <1>1, <1>2, MessageStep DEF Unwind

LEMMA RunBatch ==
    ASSUME PoolInv, NEW r \in Requests, Run(r) \/ Resume(r)
    PROVE  \A c \in Callers : Batch(c)'
<1>1. /\ Live(r) /\ ~req[r].dying /\ \A d \in Callers : Batch(d)
      /\ req \in [Requests -> RequestType] /\ doing' = doing
  BY DEF Run, Resume, Live, PoolInv, Pooled
<1>2. /\ \A q \in Requests \ {r} : req'[q] = req[q]
      /\ req'[r].pc \in {"waiting", "calling"} /\ ~req'[r].dying
  <2>1. CASE Run(r)
    BY <1>1, <2>1, EntersOne DEF Run
  <2>2. CASE Resume(r)
    BY <1>1, <2>2 DEF Resume, RequestType
  <2> QED BY <2>1, <2>2
<1> QED BY <1>1, <1>2, MessageStep

LEMMA CancelBatch ==
    ASSUME PoolInv, NEW c \in Callers, Cancel(c)
    PROVE  \A d \in Callers : Batch(d)'
<1>1. Batch(c) /\ doing[c].pc \in {"running", "asleep"} /\ doing \in [Callers -> CallerType]
      /\ req \in [Requests -> RequestType]
  BY DEF Cancel, PoolInv, PoolTypeOK, Pooled
<1>2. /\ \A d \in Callers \ {c} : doing'[d] = doing[d]
      /\ doing'[c] = [doing[c] EXCEPT !.pc = "cancelling"]
      /\ \A q \in Requests : req'[q] = IF q \in Reaches(c) THEN [req[q] EXCEPT !.dying = TRUE] ELSE req[q]
  BY <1>1 DEF Cancel
<1>3. \A q \in Reaches(c) : q[1] = c /\ q[2] \in Current(c) /\ Live(q)
  BY DEF Reaches
<1>4. /\ doing'[c].pc = "cancelling" /\ doing'[c].op = doing[c].op
      /\ doing'[c].size = doing[c].size /\ doing'[c].from = doing[c].from
      /\ doing'[c] \in CallerType
  BY <1>1, <1>2 DEF CallerType
<1>5. Current(c)' = Current(c) /\ (Gathers(c)' <=> Gathers(c)) /\ Current(c) \subseteq 1 .. MaxBatch
  BY <1>1, <1>4, CurrentIn DEF Current, Gathers, Batch
<1>6. \A q \in Requests :
         /\ req'[q].pc = req[q].pc /\ (Live(q)' <=> Live(q))
         /\ req'[q].dying <=> q \in Reaches(c) \/ req[q].dying
  BY <1>1, <1>2 DEF RequestType, Live
<1>7. Raised(c)' <=> Raised(c)
  BY <1>1, <1>5, <1>6, RequestOf DEF Raised
<1>8. BesidesOnly(c)
  BY <1>2, <1>3, RequestOf DEF BesidesOnly
<1>9. CallerHolds(c)'
  BY <1>1, <1>4 DEF Batch, CallerHolds
<1>10. ASSUME NEW j \in 1 .. MaxBatch PROVE MessageHolds(c, j)'
  <2> DEFINE q == <<c, j>>
  <2>1. q \in Requests /\ q[1] = c /\ q[2] = j
    BY RequestOf
  <2>2. /\ req'[q].pc = req[q].pc /\ (Live(q)' <=> Live(q))
        /\ req'[q].dying <=> q \in Reaches(c) \/ req[q].dying
    BY <1>6, <2>1
  <2>3. q \in Reaches(c) => Live(q)
    BY <1>3
  <2>4. MessageHolds(c, j) /\ doing[c].pc # "idle"
    BY <1>1 DEF Batch
  <2>5. Live(q) => req'[q].dying \/ (Gathers(c) /\ Raised(c))
    <3>1. Live(q) => doing[c].pc = "running" /\ j \in Current(c)
      BY <1>1, LiveIsCurrent DEF Batch, MessageHolds
    <3> QED BY <2>1, <2>2, <3>1 DEF Reaches
  <2> QED BY <1>1, <1>4, <1>5, <1>7, <2>2, <2>3, <2>4, <2>5 DEF MessageHolds
<1>11. Batch(c)'
  BY <1>9, <1>10 DEF Batch
<1> QED BY <1>8, <1>11, BesidesHold DEF PoolInv

\* The caller goes on, and no message does.
LEMMA CallerMoves ==
    ASSUME PoolInv, NEW c \in Callers, UNCHANGED req, doing[c].pc # "idle",
           NEW p \in {"ok", "failed", "asleep", "cancelled"},
           doing' = [doing EXCEPT ![c].pc = p],
           p = "ok" => AllAnswered(c) /\ doing[c].size \in Current(c),
           p = "failed" => Gathers(c) /\ Raised(c) /\ doing[c].pc = "running",
           p = "asleep" => Gathers(c) /\ AllAnswered(c) /\ doing[c].size \notin Current(c),
           p = "cancelled" =>
              /\ doing[c].pc = "cancelling"
              /\ \A j \in Current(c) : Live(<<c, j>>) => Gathers(c) /\ Broken(c)
    PROVE  \A d \in Callers : Batch(d)'
<1>1. Batch(c) /\ doing \in [Callers -> CallerType]
  BY DEF PoolInv, PoolTypeOK
<1>2. /\ doing'[c].pc = p /\ doing'[c].op = doing[c].op
      /\ doing'[c].size = doing[c].size /\ doing'[c].from = doing[c].from
      /\ doing'[c] \in CallerType /\ \A d \in Callers \ {c} : doing'[d] = doing[d]
  BY <1>1 DEF CallerType
<1>3. /\ Current(c)' = Current(c) /\ (Gathers(c)' <=> Gathers(c))
      /\ \A j : Live(<<c, j>>)' <=> Live(<<c, j>>)
  BY <1>2 DEF Current, Gathers, Live
<1>4. (Raised(c)' <=> Raised(c)) /\ (AllAnswered(c)' <=> AllAnswered(c)) /\ (Broken(c)' <=> Broken(c))
  BY <1>3 DEF Raised, AllAnswered, Broken
<1>5. doing[c].size \notin Current(c) /\ Gathers(c) => doing[c].op = "throttled"
  <2>1. doing[c].size \in 1 .. MaxBatch /\ MaxBatch \in Nat
    BY <1>1, CurrentIn, PoolAssumption DEF Batch
  <2>2. doing[c].op = "parallel" => Current(c) = 1 .. doing[c].size
    BY DEF Current, Wave
  <2> QED BY <2>1, <2>2 DEF Gathers
<1>6. CallerHolds(c)'
  BY <1>1, <1>2, <1>3, <1>4, <1>5 DEF Batch, CallerHolds
<1>7. ASSUME NEW j \in 1 .. MaxBatch PROVE MessageHolds(c, j)'
  <2>1. MessageHolds(c, j)
    BY <1>1 DEF Batch
  <2>2. Live(<<c, j>>) => j \in Current(c) /\ req[<<c, j>>].pc # "ok"
    BY <1>1, LiveIsCurrent DEF Live
  <2>3. Live(<<c, j>>) => p \notin {"ok", "asleep"}
    BY <2>2 DEF AllAnswered
  <2>4. req[<<c, j>>].dying => p = "cancelled"
    BY <2>1, <2>2, <2>3 DEF MessageHolds
  <2> QED BY <1>2, <1>3, <1>4, <2>1, <2>2, <2>3, <2>4 DEF MessageHolds
<1>8. BesidesOnly(c) /\ Batch(c)'
  BY <1>2, <1>6, <1>7 DEF BesidesOnly, Batch
<1> QED BY <1>8, BesidesHold DEF PoolInv

LEMMA NextWaveBatch ==
    ASSUME PoolInv, NEW c \in Callers, NextWave(c)
    PROVE  \A d \in Callers : Batch(d)'
<1> DEFINE i == doing[c].from + N  size == doing[c].size
<1>1. /\ Batch(c) /\ doing \in [Callers -> CallerType] /\ doing[c].pc = "asleep"
      /\ doing[c].op = "throttled" /\ size \notin Current(c) /\ AllAnswered(c)
      /\ N \in Nat \ {0} /\ MaxBatch \in Nat
  BY PoolAssumption DEF NextWave, PoolInv, PoolTypeOK, Batch, CallerHolds
<1>2. doing[c].from \in 1 .. size /\ size \in 1 .. MaxBatch /\ Current(c) \subseteq 1 .. MaxBatch
  BY <1>1, CurrentIn DEF Batch
<1>3. Current(c) = {j \in doing[c].from .. i - 1 : j <= size}
  BY <1>1, <1>2 DEF Current, Wave
<1>4. i \in 1 .. size /\ i \in 1 .. MaxBatch /\ i \in Int
  BY <1>1, <1>2, <1>3
<1>5. /\ doing'[c].pc = "running" /\ doing'[c].op = "throttled"
      /\ doing'[c].size = size /\ doing'[c].from = i
      /\ doing'[c] \in CallerType /\ \A d \in Callers \ {c} : doing'[d] = doing[d]
  BY <1>1, <1>2, <1>4 DEF NextWave, CallerType
<1>6. Current(c)' = Wave("throttled", i, size) /\ Gathers(c)'
      /\ Current(c)' = {j \in i .. i + N - 1 : j <= size}
  BY <1>5 DEF Current, Gathers, Wave
<1>7. \A r \in Requests :
         IF r[1] = c /\ r[2] \in Current(c)'
         THEN req'[r].pc = "ready" /\ req'[r].dying = req[r].dying
         ELSE req'[r] = req[r]
  <2>1. Creates(c, "throttled", i, size) /\ req \in [Requests -> RequestType]
    BY <1>1 DEF NextWave, PoolInv, Pooled
  <2> QED BY ONLY <1>4, <1>6, <2>1, CreatesTyped
<1> HIDE DEF i, size
<1>8. BesidesOnly(c)
  <2>1. \A d \in Callers \ {c}, j \in 1 .. MaxBatch : req'[<<d, j>>] = req[<<d, j>>]
    BY <1>7, RequestOf
  <2> QED BY <1>5, <2>1 DEF BesidesOnly
<1>9. CallerHolds(c)'
  BY <1>2, <1>4, <1>5 DEF CallerHolds
<1>10. ASSUME NEW j \in 1 .. MaxBatch PROVE MessageHolds(c, j)'
  <2>1. /\ <<c, j>> \in Requests /\ <<c, j>>[1] = c /\ <<c, j>>[2] = j /\ j \in Nat
        /\ MessageHolds(c, j)
    BY <1>1, RequestOf DEF Batch
  <2>2. ~req[<<c, j>>].dying
    BY <1>1, <2>1 DEF MessageHolds
  <2>3. CASE j \in Current(c)'
    <3>1. req'[<<c, j>>].pc = "ready" /\ ~req'[<<c, j>>].dying /\ ~(j < i)
      BY <1>4, <1>6, <1>7, <2>1, <2>2, <2>3
    <3> QED BY <1>5, <1>6, <2>3, <3>1 DEF MessageHolds
  <2>4. CASE j \notin Current(c)' /\ j < i
    <3>1. req'[<<c, j>>] = req[<<c, j>>]
      BY <1>7, <2>1, <2>4
    <3>2. req[<<c, j>>].pc = "ok"
      <4>1. j < doing[c].from => req[<<c, j>>].pc = "ok"
        BY <1>1, <2>1 DEF MessageHolds
      <4>2. j >= doing[c].from /\ j <= size => j \in Current(c)
        BY <1>1, <1>2, <1>3, <1>4, <2>1, <2>4
      <4>3. j <= size
        BY <1>2, <1>4, <2>1, <2>4
      <4> QED BY <1>1, <1>2, <2>1, <4>1, <4>2, <4>3 DEF AllAnswered
    <3> QED BY <1>4, <1>5, <2>1, <2>2, <2>4, <3>1, <3>2 DEF MessageHolds, Live
  <2>5. CASE j \notin Current(c)' /\ j >= i
    <3>1. req'[<<c, j>>] = req[<<c, j>>]
      BY <1>7, <2>1, <2>5
    <3>2. req[<<c, j>>].pc = "none"
      <4>1. j >= doing[c].from /\ j \notin Current(c)
        BY <1>1, <1>2, <1>3, <1>4, <2>1, <2>5 DEF i
      <4> QED BY <2>1, <4>1 DEF MessageHolds
    <3> QED BY <1>4, <1>5, <2>1, <2>2, <2>5, <3>1, <3>2 DEF MessageHolds, Live
  <2> QED BY <1>4, <2>1, <2>3, <2>4, <2>5
<1>11. Batch(c)'
  BY <1>9, <1>10 DEF Batch
<1> QED BY <1>8, <1>11, BesidesHold DEF PoolInv

\* A caller begins with the messages of its first wave.
LEMMA CallerBegins ==
    ASSUME PoolInv, NEW c \in Callers, doing[c].pc = "idle", BesidesOnly(c),
           doing'[c] \in CallerType, doing'[c].pc = "running", doing'[c].from = 1,
           doing'[c].op \in {"invoke", "direct", "raw"} => doing'[c].size = 1,
           \A j \in 1 .. MaxBatch :
              IF j \in Current(c)'
              THEN /\ req'[<<c, j>>].pc \in {"ready", "waiting", "calling"} /\ ~req'[<<c, j>>].dying
                   /\ req'[<<c, j>>].pc = "ready" => Gathers(c)'
              ELSE req'[<<c, j>>] = req[<<c, j>>]
    PROVE  \A d \in Callers : Batch(d)'
<1>1. Batch(c) /\ MaxBatch \in Nat
  BY PoolAssumption DEF PoolInv
<1>2. CallerHolds(c)'
  BY <1>1 DEF CallerHolds, CallerType
<1>3. ASSUME NEW j \in 1 .. MaxBatch PROVE MessageHolds(c, j)'
  <2>1. req[<<c, j>>].pc = "none" /\ ~req[<<c, j>>].dying /\ j >= 1 /\ ~(j < 1)
    BY <1>1 DEF Batch, MessageHolds, Live
  <2>2. CASE j \in Current(c)'
    BY <2>1, <2>2 DEF MessageHolds
  <2>3. CASE j \notin Current(c)'
    BY <2>1, <2>3 DEF MessageHolds, Live
  <2> QED BY <2>2, <2>3
<1>4. Batch(c)'
  BY <1>2, <1>3 DEF Batch
<1> QED BY <1>4, BesidesHold DEF PoolInv

\* It begins with one.
LEMMA OneBegins ==
    ASSUME PoolInv, NEW c \in Callers, doing[c].pc = "idle",
           \A d \in Callers \ {c} : doing'[d] = doing[d],
           doing'[c] \in CallerType, doing'[c].pc = "running", doing'[c].from = 1,
           doing'[c].op # "sequential" => doing'[c].size = 1,
           doing'[c].op \notin {"parallel", "throttled"},
           \A q \in Requests \ {<<c, 1>>} : req'[q] = req[q],
           req'[<<c, 1>>].pc \in {"waiting", "calling"}, ~req'[<<c, 1>>].dying
    PROVE  \A d \in Callers : Batch(d)'
<1>1. Current(c)' = {1} /\ MaxBatch \in Nat \ {0}
  BY PoolAssumption DEF Current, Wave
<1>2. BesidesOnly(c)
  BY RequestOf DEF BesidesOnly
<1>3. \A j \in 1 .. MaxBatch :
         IF j \in Current(c)'
         THEN /\ req'[<<c, j>>].pc \in {"ready", "waiting", "calling"} /\ ~req'[<<c, j>>].dying
              /\ req'[<<c, j>>].pc = "ready" => Gathers(c)'
         ELSE req'[<<c, j>>] = req[<<c, j>>]
  BY <1>1, RequestOf
<1> QED BY <1>2, <1>3, CallerBegins

LEMMA BeginBatch ==
    ASSUME PoolInv, NEW c \in Callers, Begin(c)
    PROVE  \A d \in Callers : Batch(d)'
<1>1. /\ doing[c].pc = "idle" /\ doing \in [Callers -> CallerType] /\ Batch(c)
      /\ req \in [Requests -> RequestType] /\ MaxBatch \in Nat \ {0}
      /\ <<c, 1>> \in Requests /\ ~req[<<c, 1>>].dying
  <2>1. MaxBatch \in Nat \ {0} /\ 1 \in 1 .. MaxBatch
    BY PoolAssumption
  <2> QED BY <2>1, RequestOf DEF Begin, PoolInv, PoolTypeOK, Pooled, Batch, MessageHolds, Live
<1>2. PICK op \in {"invoke", "sequential", "parallel", "throttled"}, size \in 1 .. MaxBatch :
          /\ IF op = "invoke" THEN size = 1 ELSE op \in Modes(size)
          /\ doing' = [doing EXCEPT ![c] = [pc |-> "running", op |-> op, size |-> size, from |-> 1]]
          /\ \/ /\ op \in {"invoke", "sequential"}
                /\ Enters(<<c, 1>>, Selected(index, active), line, active, req)
             \/ /\ op \in {"parallel", "throttled"}
                /\ Creates(c, op, 1, size)
  BY DEF Begin
<1>3. /\ doing'[c] = [pc |-> "running", op |-> op, size |-> size, from |-> 1]
      /\ \A d \in Callers \ {c} : doing'[d] = doing[d]
  BY <1>1, <1>2
<1>4. doing'[c] \in CallerType
  BY <1>1, <1>3 DEF CallerType
<1>5. CASE op \in {"invoke", "sequential"} /\ Enters(<<c, 1>>, Selected(index, active), line, active, req)
  <2>1. /\ \A q \in Requests \ {<<c, 1>>} : req'[q] = req[q]
        /\ req'[<<c, 1>>].pc \in {"waiting", "calling"} /\ ~req'[<<c, 1>>].dying
    BY <1>1, <1>5, EntersOne
  <2> QED BY <1>1, <1>2, <1>3, <1>4, <1>5, <2>1, OneBegins
<1>6. CASE op \in {"parallel", "throttled"} /\ Creates(c, op, 1, size)
  <2>1. Current(c)' = Wave(op, 1, size) /\ Gathers(c)'
    BY <1>3, <1>6 DEF Current, Gathers
  <2>2. \A r \in Requests :
           IF r[1] = c /\ r[2] \in Wave(op, 1, size)
           THEN req'[r].pc = "ready" /\ req'[r].dying = req[r].dying
           ELSE req'[r] = req[r]
    BY ONLY <1>1, <1>6, CreatesTyped
  <2>3. BesidesOnly(c)
    BY <1>3, <2>2, RequestOf DEF BesidesOnly
  <2>4. ASSUME NEW j \in 1 .. MaxBatch
        PROVE  IF j \in Current(c)'
               THEN /\ req'[<<c, j>>].pc \in {"ready", "waiting", "calling"} /\ ~req'[<<c, j>>].dying
                    /\ req'[<<c, j>>].pc = "ready" => Gathers(c)'
               ELSE req'[<<c, j>>] = req[<<c, j>>]
    <3>1. ~req[<<c, j>>].dying /\ <<c, j>> \in Requests /\ <<c, j>>[1] = c /\ <<c, j>>[2] = j
      BY <1>1, RequestOf DEF Batch, MessageHolds, Live
    <3> QED BY <2>1, <2>2, <3>1
  <2> QED BY <1>1, <1>3, <1>4, <1>6, <2>3, <2>4, CallerBegins
<1> QED BY <1>2, <1>5, <1>6

LEMMA BesideBatch ==
    ASSUME PoolInv, NEW c \in Callers, BeginDirect(c) \/ BeginRaw(c)
    PROVE  \A d \in Callers : Batch(d)'
<1>1. /\ doing[c].pc = "idle" /\ doing \in [Callers -> CallerType] /\ Batch(c)
      /\ req \in [Requests -> RequestType]
      /\ <<c, 1>> \in Requests /\ ~req[<<c, 1>>].dying
  <2>1. 1 \in 1 .. MaxBatch
    BY PoolAssumption
  <2> QED BY <2>1, RequestOf DEF BeginDirect, BeginRaw, PoolInv, PoolTypeOK, Pooled, Batch, MessageHolds, Live
<1>2. doing[c].size = 1 /\ doing[c].from = 1
  BY <1>1 DEF Batch, CallerHolds, CallerType
<1>3. /\ doing'[c].pc = "running" /\ doing'[c].op \in {"direct", "raw"}
      /\ doing'[c].size = 1 /\ doing'[c].from = 1 /\ doing'[c] \in CallerType
      /\ \A d \in Callers \ {c} : doing'[d] = doing[d]
  <2>1. PICK op \in {"direct", "raw"} : doing' = [doing EXCEPT ![c].pc = "running", ![c].op = op]
    BY DEF BeginDirect, BeginRaw
  <2> QED BY <1>1, <1>2, <2>1 DEF CallerType
<1>4. /\ \A q \in Requests \ {<<c, 1>>} : req'[q] = req[q]
      /\ req'[<<c, 1>>].pc \in {"waiting", "calling"} /\ ~req'[<<c, 1>>].dying
  <2>1. PICK k : req' = [req EXCEPT ![<<c, 1>>].pc = "calling", ![<<c, 1>>].on = k]
    BY DEF BeginDirect, BeginRaw
  <2> QED BY <1>1, <2>1 DEF RequestType
<1> QED BY <1>1, <1>3, <1>4, OneBegins

LEMMA BatchNext ==
    ASSUME PoolInv, PoolNext
    PROVE  \A d \in Callers : Batch(d)'
<1>1. ASSUME NEW c \in Callers, Cancelled(c)
      PROVE  \A d \in Callers : Batch(d)'
  <2>1. /\ UNCHANGED req /\ doing' = [doing EXCEPT ![c].pc = "cancelled"]
        /\ doing[c].pc = "cancelling"
        /\ \A j \in Current(c) : Live(<<c, j>>) => Gathers(c) /\ Broken(c)
    BY <1>1 DEF Cancelled
  <2> QED BY <2>1, CallerMoves
<1>2. ASSUME NEW c \in Callers, WaveOver(c)
      PROVE  \A d \in Callers : Batch(d)'
  <2>1. UNCHANGED req /\ doing[c].pc = "running" /\ Gathers(c)
    BY <1>2 DEF WaveOver
  <2>2. CASE Raised(c) /\ doing' = [doing EXCEPT ![c].pc = "failed"]
    BY <2>1, <2>2, CallerMoves
  <2>3. CASE AllAnswered(c) /\ doing[c].size \in Current(c) /\ doing' = [doing EXCEPT ![c].pc = "ok"]
    BY <2>1, <2>3, CallerMoves
  <2>4. CASE AllAnswered(c) /\ doing[c].size \notin Current(c) /\ doing' = [doing EXCEPT ![c].pc = "asleep"]
    BY <2>1, <2>4, CallerMoves
  <2> QED BY <1>2, <2>2, <2>3, <2>4 DEF WaveOver
<1> QED
  BY <1>1, <1>2, RunBatch, AnswerBatch, UnwindBatch, FailBatch, CancelBatch, NextWaveBatch,
     BeginBatch, BesideBatch
  DEF PoolNext, Progress

-----------------------------------------------------------------------------

LEMMA PoolInitInv ==
    ASSUME PoolInit
    PROVE  PoolInv
<1>1. 1 \in Clients /\ MaxBatch \in Nat \ {0} /\ N \in Nat \ {0} /\ 1 \in 1 .. MaxBatch
  BY PoolAssumption DEF Clients
<1>2. PoolTypeOK
  BY <1>1 DEF PoolInit, PoolTypeOK, CallerType
<1>3. req \in [Requests -> RequestType]
  BY <1>1 DEF PoolInit, RequestType
<1>4. LinesHold(line, ahead, req, Weights)
  BY DEF PoolInit, LinesHold
<1>5. LoadHolds(active, req, Weights)
  <2>1. \A k \in Clients, w \in {1, 2} : CallsAt(req, Weights, w, k) = {}
    BY DEF PoolInit, CallsAt
  <2>2. IsFiniteSet({}) /\ Cardinality({}) = 0
    BY FS_EmptySet
  <2>3. \A k \in Clients : active[k] = 0
    BY DEF PoolInit
  <2>4. 0 = 2 * 0 + 0
    OBVIOUS
  <2> QED BY <2>1, <2>2, <2>3, <2>4 DEF LoadHolds
<1>6. Pooled(line, ahead, active, req, Weights)
  BY <1>3, <1>4, <1>5 DEF PoolInit, Pooled
<1>7. ASSUME NEW c \in Callers PROVE Batch(c)
  <2>1. doing[c] = [pc |-> "idle", op |-> "invoke", size |-> 1, from |-> 1]
    BY DEF PoolInit
  <2>2. CallerHolds(c)
    BY <1>1, <1>2, <2>1 DEF CallerHolds, PoolTypeOK
  <2>3. ASSUME NEW j \in 1 .. MaxBatch PROVE MessageHolds(c, j)
    <3>1. req[<<c, j>>].pc = "none" /\ ~req[<<c, j>>].dying
      BY RequestOf DEF PoolInit
    <3> QED BY <2>1, <3>1 DEF MessageHolds, Live
  <2> QED BY <2>2, <2>3 DEF Batch
<1> QED BY <1>2, <1>6, <1>7 DEF PoolInv

\* What the steps do to the rest.
LEMMA Bookkeeping ==
    ASSUME PoolInv, PoolNext
    PROVE  /\ \E f : doing' = [c \in Callers |-> f[c]]
           /\ strategy' = strategy /\ faults' \in Nat
           /\ index' = index \/ Advances(1) \/ Advances(2)
<1> DEFINE Stayed == \E f : doing' = [c \in Callers |-> f[c]]
<1>1. doing \in [Callers -> CallerType] /\ faults \in Nat
  BY DEF PoolInv, PoolTypeOK
<1>2. doing' = doing => Stayed
  <2>1. doing = [c \in Callers |-> doing[c]]
    BY <1>1
  <2> QED BY <2>1
<1>3. ASSUME NEW d, NEW v, doing' = [doing EXCEPT ![d] = v] PROVE Stayed
  <2>1. doing' = [c \in Callers |-> IF c = d THEN v ELSE doing[c]]
    BY <1>1, <1>3
  <2>2. doing' = [c \in Callers |-> doing'[c]]
    BY <2>1
  <2> QED BY <2>2
<1>4. (\E d, v : doing' = [doing EXCEPT ![d] = v]) => Stayed
  BY <1>3
<1>5. ASSUME NEW r \in Requests, Run(r) \/ Resume(r) \/ Unwind(r)
      PROVE  doing' = doing /\ strategy' = strategy /\ faults' = faults /\ index' = index
  BY <1>5 DEF Run, Resume, Unwind
<1>6. ASSUME NEW r \in Requests, Answer(r)
      PROVE  /\ doing' = doing \/ \E d, v : doing' = [doing EXCEPT ![d] = v]
             /\ strategy' = strategy /\ faults' = faults /\ (index' = index \/ Advances(1))
  BY <1>6 DEF Answer
<1>7. ASSUME NEW r \in Requests, Fail(r)
      PROVE  /\ doing' = doing \/ \E d, v : doing' = [doing EXCEPT ![d] = v]
             /\ strategy' = strategy /\ faults' = faults + 1 /\ index' = index
  BY <1>7 DEF Fail
<1>8. ASSUME NEW c \in Callers, Cancelled(c) \/ WaveOver(c)
      PROVE  /\ \E d, v : doing' = [doing EXCEPT ![d] = v]
             /\ strategy' = strategy /\ faults' = faults /\ index' = index
  BY <1>8 DEF Cancelled, WaveOver
<1>9. ASSUME NEW c \in Callers, NextWave(c)
      PROVE  /\ \E d, v : doing' = [doing EXCEPT ![d] = v]
             /\ strategy' = strategy /\ faults' = faults /\ index' = index
  <2> DEFINE v == [doing[c] EXCEPT !.pc = "running", !.from = @ + N]
  <2>1. doing' = [doing EXCEPT ![c] = v]
    BY <1>9 DEF NextWave
  <2> QED BY <1>9, <2>1 DEF NextWave
<1>10. ASSUME NEW c \in Callers, Cancel(c)
      PROVE  /\ \E d, v : doing' = [doing EXCEPT ![d] = v]
             /\ strategy' = strategy /\ faults' = faults + 1 /\ index' = index
  BY <1>10 DEF Cancel
<1>11. ASSUME NEW c \in Callers, Begin(c)
      PROVE  /\ \E d, v : doing' = [doing EXCEPT ![d] = v]
             /\ strategy' = strategy /\ faults' = faults /\ (index' = index \/ Advances(1))
  BY <1>11 DEF Begin
<1>12. ASSUME NEW c \in Callers, BeginDirect(c) \/ BeginRaw(c)
      PROVE  /\ \E d, v : doing' = [doing EXCEPT ![d] = v]
             /\ strategy' = strategy /\ faults' = faults /\ (index' = index \/ Advances(2))
  BY <1>12 DEF BeginDirect, BeginRaw
<1> QED
  BY <1>1, <1>2, <1>4, <1>5, <1>6, <1>7, <1>8, <1>9, <1>10, <1>11, <1>12 DEF PoolNext, Progress

LEMMA PoolNextInv ==
    ASSUME PoolInv, [PoolNext]_poolVars
    PROVE  PoolInv'
<1>1. CASE PoolNext
  <2>1. (\A c \in Callers : Batch(c)') /\ PooledNow'
    BY <1>1, BatchNext, PooledNext
  <2>2. \A c \in Callers : doing'[c] \in CallerType
    BY <2>1 DEF Batch, CallerHolds
  <2>3. /\ \E f : doing' = [c \in Callers |-> f[c]]
        /\ strategy' = strategy /\ faults' \in Nat
        /\ index' = index \/ Advances(1) \/ Advances(2)
    BY <1>1, Bookkeeping
  <2>6. index' \in Nat
    BY <2>3, IndexTyped DEF PoolInv, PoolTypeOK
  <2> QED BY <2>1, <2>2, <2>3, <2>6 DEF PoolInv, PoolTypeOK, PooledNow
<1>2. CASE UNCHANGED poolVars
  <2>1. /\ UNCHANGED <<strategy, index, line, ahead, active, req, doing, faults>>
        /\ Weights' = Weights
    BY <1>2 DEF poolVars, Weights, Weight
  <2>2. \A c \in Callers : BesidesOnly(c)
    BY <2>1 DEF BesidesOnly
  <2>3. ASSUME NEW c \in Callers PROVE Batch(c)'
    <3>1. Batch(c)' <=> Batch(c)
      <4>1. CallerHolds(c)' <=> CallerHolds(c)
        BY <2>1 DEF CallerHolds, Current, Raised, AllAnswered
      <4>2. ASSUME NEW j \in 1 .. MaxBatch
            PROVE  MessageHolds(c, j)' <=> MessageHolds(c, j)
        BY <2>1 DEF MessageHolds, Current, Gathers, Raised, Broken, Live
      <4> QED BY <4>1, <4>2 DEF Batch
    <3> QED BY <3>1 DEF PoolInv
  <2> QED BY <2>1, <2>3 DEF PoolInv, PoolTypeOK
<1> QED BY <1>1, <1>2

THEOREM PoolInvariance == PoolSpec => []PoolInv
BY PoolInitInv, PoolNextInv, PTL DEF PoolSpec

LEMMA LoadFollows ==
    ASSUME PoolInv
    PROVE  LoadCounted
<1>1. /\ LinesHold(line, ahead, req, Weights) /\ LoadHolds(active, req, Weights)
  BY DEF PoolInv, Pooled
<1>2. ASSUME NEW k \in Clients
      PROVE  /\ Cardinality(InSlot(k)) <= 1
             /\ active[k] = 2 * Cardinality(InSlot(k)) + Cardinality(ByName(k))
  <2>1. InSlot(k) = CallsAt(req, Weights, 2, k) /\ ByName(k) = CallsAt(req, Weights, 1, k)
    BY WeightsOf DEF InSlot, ByName, CallsAt
  <2>2. \A p, q \in InSlot(k) : p = q
    <3>1. \A q \in InSlot(k) : q \in line[k] /\ ahead[q] = {}
      BY <1>1, <2>1 DEF LinesHold, CallsAt
    <3> QED BY <1>1, <3>1 DEF LinesHold
  <2>3. InSlot(k) = {} \/ \E q : InSlot(k) = {q}
    BY <2>2
  <2>4. Cardinality(InSlot(k)) <= 1
    <3>1. CASE InSlot(k) = {}
      BY <3>1, FS_EmptySet
    <3>2. CASE \E q : InSlot(k) = {q}
      <4>1. PICK q : InSlot(k) = {q}
        BY <3>2
      <4>2. Cardinality({q}) = 1
        BY FS_Singleton
      <4> QED BY <4>1, <4>2
    <3> QED BY <2>3, <3>1, <3>2
  <2> QED BY <1>1, <2>1, <2>4 DEF LoadHolds
<1> QED BY <1>2 DEF LoadCounted

LEMMA BatchFollows ==
    ASSUME PoolInv
    PROVE  BatchAccounted
<1> SUFFICES ASSUME NEW c \in Callers
             PROVE  /\ doing[c].pc = "ok" => \A j \in 1 .. doing[c].size : req[<<c, j>>].pc = "ok"
                    /\ doing[c].pc = "failed" =>
                          /\ \E j \in Current(c) : req[<<c, j>>].pc = "failed"
                          /\ \A j \in 1 .. MaxBatch :
                                (\A i \in Current(c) : i < j) => req[<<c, j>>].pc = "none"
  BY DEF BatchAccounted
<1>1. /\ Batch(c) /\ doing[c].from \in Current(c) /\ Current(c) \subseteq 1 .. MaxBatch
      /\ doing[c].from \in 1 .. doing[c].size /\ doing[c].size \in 1 .. MaxBatch
      /\ (~Gathers(c) => Current(c) = {doing[c].from}) /\ MaxBatch \in Nat /\ N \in Nat
  BY CurrentIn, PoolAssumption DEF PoolInv, Batch
<1>2. ASSUME doing[c].pc = "ok", NEW j \in 1 .. doing[c].size
      PROVE  req[<<c, j>>].pc = "ok"
  <2>1. j \in 1 .. MaxBatch /\ j \in Nat /\ doing[c].from \in Nat /\ doing[c].size \in Nat
    BY <1>1
  <2>2. CASE j < doing[c].from
    BY <1>1, <1>2, <2>1, <2>2 DEF Batch, MessageHolds
  <2>3. CASE j >= doing[c].from
    <3>1. AllAnswered(c) /\ doing[c].size \in Current(c)
      BY <1>1, <1>2 DEF Batch, CallerHolds
    <3>2. j \in Current(c)
      <4>1. CASE ~Gathers(c)
        BY <1>1, <2>1, <2>3, <3>1, <4>1
      <4>2. CASE doing[c].op = "parallel"
        BY <1>1, <2>1, <4>2 DEF Current, Wave
      <4>3. CASE doing[c].op = "throttled"
        <5>1. Current(c) = {i \in doing[c].from .. doing[c].from + N - 1 : i <= doing[c].size}
          BY <4>3 DEF Current, Wave
        <5> QED BY <1>1, <2>1, <2>3, <3>1, <5>1
      <4> QED BY <4>1, <4>2, <4>3 DEF Gathers
    <3> QED BY <3>1, <3>2 DEF AllAnswered
  <2> QED BY <2>1, <2>2, <2>3
<1>3. ASSUME doing[c].pc = "failed", NEW j \in 1 .. MaxBatch, \A i \in Current(c) : i < j
      PROVE  req[<<c, j>>].pc = "none"
  <2>1. j \notin Current(c) /\ j >= doing[c].from
    BY <1>1, <1>3
  <2> QED BY <1>1, <2>1 DEF Batch, MessageHolds
<1>4. doing[c].pc = "failed" => \E j \in Current(c) : req[<<c, j>>].pc = "failed"
  BY <1>1 DEF Batch, CallerHolds, Raised
<1> QED BY <1>2, <1>3, <1>4

LEMMA RunningFollows ==
    ASSUME PoolInv
    PROVE  LeftRunning
<1> SUFFICES ASSUME NEW r \in Requests, Live(r), doing[r[1]].pc \in {"ok", "failed", "cancelled"}
             PROVE  /\ Gathers(r[1]) /\ r[2] \in Current(r[1]) /\ doing[r[1]].pc # "ok"
                    /\ IF req[r].dying THEN doing[r[1]].pc = "cancelled" /\ Broken(r[1]) ELSE Raised(r[1])
  BY DEF LeftRunning
<1>1. r[1] \in Callers /\ r[2] \in 1 .. MaxBatch /\ Live(<<r[1], r[2]>>) /\ Batch(r[1])
  BY WeightsOf DEF PoolInv
<1>2. r[2] \in Current(r[1])
  BY <1>1, LiveIsCurrent
<1>3. Raised(r[1]) => Broken(r[1])
  BY DEF Raised, Broken
<1> DEFINE c == r[1]  j == r[2]
<1>4. req[<<c, j>>] = req[r] /\ MessageHolds(c, j)
  BY <1>1, WeightsOf DEF Batch
<1>5. req[r].dying => doing[c].pc = "cancelled"
  BY <1>4 DEF MessageHolds
<1>6. \/ doing[c].pc = "cancelled" /\ req[r].dying /\ Gathers(c) /\ Broken(c)
      \/ doing[c].pc \in {"failed", "cancelled"} /\ Gathers(c) /\ Raised(c)
  BY <1>1, <1>4 DEF MessageHolds
<1> QED BY <1>2, <1>3, <1>5, <1>6

\* Each client of the pool is in at most one of its requests, and
\* active_requests counts it twice and the calls past the pool once, for any
\* number of clients and tasks, whatever fails or is cancelled (LLMPool.invoke,
\* LLMPool.astream).
THEOREM LoadIsCounted == PoolSpec => []LoadCounted
BY PoolInvariance, LoadFollows, PTL

\* A batch of any size returns with all of its answers, or raises for one that
\* failed and has begun nothing after its wave (LLMPool.invoke_batch).
THEOREM BatchesAccounted == PoolSpec => []BatchAccounted
BY PoolInvariance, BatchFollows, PTL

\* Only the other messages of a wave that one of them ended run on after their
\* caller has gone: to their answers when one failed, on their way out when
\* the caller was cancelled (LLMPool._invoke_parallel, asyncio.gather).
THEOREM RunningExplained == PoolSpec => []LeftRunning
BY PoolInvariance, RunningFollows, PTL

-----------------------------------------------------------------------------
(* Nobody is stuck: whatever is unfinished, something can go on.           *)

\* Who is ahead of a request is in its line, and ahead of it are those who
\* are ahead of them: the lines are finite orders.
Ordered(ln, ah) ==
    \A k \in Clients :
        /\ IsFiniteSet(ln[k])
        /\ \A r \in ln[k] :
              /\ ah[r] \subseteq ln[k] /\ r \notin ah[r]
              /\ \A q \in ah[r] : ah[q] \subseteq ah[r]

\* Who waits is in a line, unless he was cancelled.
Queues(r) == req[r].pc = "waiting" /\ ~req[r].dying => r \in line[req[r].on]

\* A caller that has no gather is in a message; only the messages of one that
\* was cancelled are.
Going(c) ==
    /\ doing[c].pc = "running" /\ ~Gathers(c) => Live(<<c, doing[c].from>>)
    /\ \A j \in 1 .. MaxBatch :
          req[<<c, j>>].pc = "cancelled" => doing[c].pc \in {"cancelling", "cancelled"}

PoolIInv ==
    /\ PoolInv
    /\ Ordered(line, ahead)
    /\ \A r \in Requests : Queues(r)
    /\ \A c \in Callers : Going(c)

Underway ==
    \/ \E r \in Requests : Live(r)
    \/ \E c \in Callers : doing[c].pc \in {"running", "asleep", "cancelling"}

\* The guards of the steps of Progress.
CanMove ==
    \/ \E r \in Requests :
          \/ req[r].pc \in {"ready", "calling"}
          \/ req[r].pc = "waiting" /\ First(r)
          \/ req[r].dying
    \/ \E c \in Callers :
          \/ doing[c].pc = "asleep"
          \/ doing[c].pc = "running" /\ Gathers(c) /\ (Raised(c) \/ AllAnswered(c))
          \/ doing[c].pc = "cancelling" /\ \A j \in Current(c) : Live(<<c, j>>) => Gathers(c) /\ Broken(c)

NobodyStuck == Underway => CanMove

\* Somebody is the first of a line.
LEMMA FirstOfLine ==
    ASSUME NEW L \in SUBSET Requests, IsFiniteSet(L), L # {}, NEW ah,
           \A r \in L : /\ ah[r] \subseteq L /\ r \notin ah[r]
                        /\ \A q \in ah[r] : ah[q] \subseteq ah[r]
    PROVE  \E r \in L : ah[r] = {}
<1> DEFINE T == {ah[r] : r \in L}
<1>1. T \subseteq FiniteSubsetsOf(Requests)
  <2>1. ASSUME NEW r \in L PROVE ah[r] \in FiniteSubsetsOf(Requests)
    <3>1. ah[r] \subseteq L
      OBVIOUS
    <3>2. IsFiniteSet(ah[r])
      BY <3>1, FS_Subset
    <3> QED BY <3>1, <3>2 DEF FiniteSubsetsOf
  <2> QED BY <2>1
<1>2. T # {}
  OBVIOUS
<1>3. PICK x \in T : \A y \in T : ~(<<y, x>> \in StrictSubsetOrdering(Requests))
  <2> HIDE DEF T
  <2> QED BY <1>1, <1>2, WFMin, FS_StrictSubsetOrderingWellFounded
<1>4. PICK r \in L : x = ah[r]
  OBVIOUS
<1>5. ASSUME NEW q \in ah[r] PROVE FALSE
  <2>1. q \in L /\ ah[q] \subseteq ah[r] /\ q \notin ah[q]
    BY <1>5
  <2>2. ah[q] \in SUBSET Requests /\ ah[r] \in SUBSET Requests
    BY <2>1
  <2>3. <<ah[q], ah[r]>> \in StrictSubsetOrdering(Requests)
    BY <1>5, <2>1, <2>2 DEF StrictSubsetOrdering
  <2>4. ah[q] \in T
    BY <2>1
  <2> QED BY <1>3, <1>4, <2>3, <2>4
<1> QED BY <1>5

\* Some leave the lines.
LEMMA OrderedThin ==
    ASSUME NEW wt, LinesHold(line, ahead, req, wt), Ordered(line, ahead),
           line \in [Clients -> SUBSET Requests],
           NEW ln \in [Clients -> SUBSET Requests], \A k \in Clients : ln[k] \subseteq line[k]
    PROVE  Ordered(ln, Order(ln))
<1> DEFINE in == UNION {ln[k] : k \in Clients}
           ah == Order(ln)
<1>1. \A r \in Requests : ah[r] = IF r \in in THEN ahead[r] \cap in ELSE {}
  BY DEF Order
<1>2. \A k \in Clients : \A r \in ln[k] : r \in in /\ r \in Requests /\ r \in line[k]
  OBVIOUS
<1>3. \A r \in in : \E k \in Clients : r \in ln[k]
  OBVIOUS
<1> HIDE DEF in, ah
<1>4. ASSUME NEW k \in Clients PROVE IsFiniteSet(ln[k])
  BY FS_Subset DEF Ordered
<1>5. ASSUME NEW k \in Clients, NEW r \in ln[k]
      PROVE  /\ ah[r] \subseteq ln[k] /\ r \notin ah[r]
             /\ \A q \in ah[r] : ah[q] \subseteq ah[r]
  <2>1. /\ r \in line[k] /\ ah[r] = ahead[r] \cap in /\ ahead[r] \subseteq line[k]
        /\ r \notin ahead[r] /\ \A q \in ahead[r] : ahead[q] \subseteq ahead[r]
    BY <1>1, <1>2 DEF Ordered
  <2>2. ASSUME NEW q \in ah[r] PROVE q \in ln[k]
    <3>1. q \in line[k] /\ q \in in
      BY <2>1
    <3>2. PICK j \in Clients : q \in ln[j]
      BY <1>3, <3>1
    <3>3. j = k
      BY <1>2, <3>1, <3>2 DEF LinesHold
    <3> QED BY <3>2, <3>3
  <2>3. ASSUME NEW q \in ah[r] PROVE ah[q] \subseteq ah[r]
    <3>1. ah[q] = ahead[q] \cap in /\ q \in ahead[r]
      BY <1>1, <1>2, <2>1, <2>2
    <3> QED BY <2>1, <3>1
  <2> QED BY <2>1, <2>2, <2>3
<1> QED BY <1>4, <1>5 DEF Ordered, ah

\* One comes to a line.
LEMMA OrderedEnters ==
    ASSUME NEW wt, LinesHold(line, ahead, req, wt), Ordered(line, ahead),
           line \in [Clients -> SUBSET Requests],
           NEW ln \in [Clients -> SUBSET Requests], \A k \in Clients : ln[k] \subseteq line[k],
           NEW r \in Requests, NEW k \in Clients, req[r].pc \notin {"waiting", "calling"},
           NEW ld, NEW rq, Enters(r, k, ln, ld, rq)
    PROVE  Ordered(line', ahead')
<1> DEFINE ah == Order(ln)
<1>1. Ordered(ln, ah)
  BY OrderedThin
<1>2. ah \in [Requests -> SUBSET Requests]
  BY DEF Order
<1>3. line' = [ln EXCEPT ![k] = @ \cup {r}] /\ ahead' = [ah EXCEPT ![r] = ln[k]]
  BY DEF Enters
<1>4. \A j \in Clients : r \notin ln[j]
  BY DEF LinesHold
<1> HIDE DEF ah
<1>5. /\ \A j \in Clients : line'[j] = IF j = k THEN ln[k] \cup {r} ELSE ln[j]
      /\ \A q \in Requests : ahead'[q] = IF q = r THEN ln[k] ELSE ah[q]
  BY <1>2, <1>3
<1>6. ASSUME NEW j \in Clients PROVE IsFiniteSet(line'[j])
  <2>1. IsFiniteSet(ln[j]) /\ IsFiniteSet(ln[k])
    BY <1>1 DEF Ordered
  <2>2. IsFiniteSet(ln[k] \cup {r})
    BY <2>1, FS_AddElement
  <2>3. line'[j] = ln[k] \cup {r} \/ line'[j] = ln[j]
    BY <1>5
  <2> QED BY <2>1, <2>2, <2>3
<1>7. ASSUME NEW j \in Clients, NEW p \in line'[j]
      PROVE  /\ ahead'[p] \subseteq line'[j] /\ p \notin ahead'[p]
             /\ \A q \in ahead'[p] : ahead'[q] \subseteq ahead'[p]
  <2>1. CASE p = r
    <3>1. j = k /\ ahead'[p] = ln[k]
      BY <1>4, <1>5, <2>1
    <3>2. ASSUME NEW q \in ln[k] PROVE ahead'[q] \subseteq ln[k]
      <4>1. q # r /\ q \in Requests
        BY <1>4
      <4> QED BY <1>1, <1>5, <4>1 DEF Ordered
    <3> QED BY <1>4, <1>5, <2>1, <3>1, <3>2
  <2>2. CASE p # r
    <3>1. p \in ln[j] /\ p \in Requests /\ ahead'[p] = ah[p] /\ ln[j] \subseteq line'[j]
      BY <1>5, <2>2
    <3>2. ah[p] \subseteq ln[j] /\ p \notin ah[p] /\ \A q \in ah[p] : ah[q] \subseteq ah[p]
      BY <1>1, <3>1 DEF Ordered
    <3>3. \A q \in ah[p] : q # r /\ q \in Requests /\ ahead'[q] = ah[q]
      BY <1>4, <1>5, <3>2
    <3> QED BY <3>1, <3>2, <3>3
  <2> QED BY <2>1, <2>2
<1> QED BY <1>6, <1>7 DEF Ordered

LEMMA PoolFacts ==
    ASSUME PoolInv
    PROVE  /\ LinesHold(line, ahead, req, Weights)
           /\ line \in [Clients -> SUBSET Requests] /\ ahead \in [Requests -> SUBSET Requests]
           /\ active \in [Clients -> Nat] /\ req \in [Requests -> RequestType]
           /\ doing \in [Callers -> CallerType]
           /\ \A r \in Requests : req[r].on \in Clients
           /\ \A c \in Callers : Batch(c)
BY LoadNat DEF PoolInv, Pooled, PoolTypeOK, RequestType

\* The message a sequential batch goes on to has not begun.
LEMMA NextIsNew ==
    ASSUME PoolInv, NEW r \in Requests, Live(r), ~Gathers(r[1]), r[2] < doing[r[1]].size
    PROVE  /\ <<r[1], r[2] + 1>> \in Requests /\ <<r[1], r[2] + 1>> # r
           /\ req[<<r[1], r[2] + 1>>].pc = "none" /\ ~req[<<r[1], r[2] + 1>>].dying
           /\ doing[r[1]].from = r[2] /\ r[2] + 1 \in 1 .. MaxBatch
<1> DEFINE c == r[1]  i == r[2]
<1>1. c \in Callers /\ i \in 1 .. MaxBatch /\ r = <<c, i>> /\ Batch(c) /\ MaxBatch \in Nat
  BY WeightsOf, PoolAssumption DEF PoolInv
<1>2. doing[c].from = i /\ Current(c) = {i} /\ doing[c].size \in 1 .. MaxBatch
  BY <1>1, LiveIsCurrent, CurrentIn DEF Batch
<1>3. i + 1 \in 1 .. MaxBatch
  BY <1>1, <1>2
<1>4. <<c, i + 1>> \in Requests /\ <<c, i + 1>> # r
  BY <1>1, <1>3, RequestOf
<1>5. req[<<c, i + 1>>].pc = "none" /\ ~req[<<c, i + 1>>].dying
  BY <1>1, <1>2, <1>3 DEF Batch, MessageHolds, Live
<1> QED BY <1>1, <1>2, <1>3, <1>4, <1>5

LEMMA LightenedNat ==
    ASSUME PoolInv, NEW r \in Requests, Live(r)
    PROVE  Lightened(r) \in [Clients -> Nat]
<1> DEFINE r2 == [req EXCEPT ![r].pc = "ok"]
<1>1. /\ r2 \in [Requests -> RequestType] /\ Only(r, req, r2) /\ r2[r].pc \in {"ok", "failed", "cancelled"}
      /\ req[r].pc \in {"ready", "waiting", "calling"} /\ Pooled(line, ahead, active, req, Weights)
  BY DEF PoolInv, Pooled, RequestType, Only, Live
<1>2. Pooled(Without(r), Order(Without(r)), Lightened(r), r2, Weights)
  <2> HIDE DEF r2
  <2> QED BY ONLY <1>1, PooledLeaves
<1> QED BY <1>2, LoadNat DEF Pooled

\* What a step does to the lines.
LEMMA OrderedNext ==
    ASSUME PoolInv, Ordered(line, ahead), PoolNext
    PROVE  Ordered(line', ahead')
<1>0. /\ LinesHold(line, ahead, req, Weights) /\ Ordered(line, ahead)
      /\ line \in [Clients -> SUBSET Requests] /\ req \in [Requests -> RequestType]
      /\ \A k \in Clients : line[k] \subseteq line[k]
      /\ \A r \in Requests : req[r].on \in Clients
  BY PoolFacts
<1>1. ASSUME NEW r \in Requests
      PROVE  /\ Without(r) \in [Clients -> SUBSET Requests]
             /\ \A k \in Clients : Without(r)[k] \subseteq line[k]
  BY <1>0 DEF Without
<1>2. ASSUME NEW r \in Requests, NEW how, Leaves(r, how)
      PROVE  Ordered(line', ahead')
  <2>1. Ordered(Without(r), Order(Without(r)))
    BY <1>0, <1>1, OrderedThin
  <2> QED BY <1>2, <2>1 DEF Leaves
<1>3. ASSUME NEW r \in Requests, Run(r)
      PROVE  Ordered(line', ahead')
  <2>1. Enters(r, req[r].on, line, active, req) /\ req[r].pc \notin {"waiting", "calling"}
        /\ req[r].on \in Clients
    BY <1>0, <1>3 DEF Run
  <2> QED BY ONLY <1>0, <2>1, OrderedEnters
<1>4. ASSUME NEW r \in Requests, Answer(r)
      PROVE  Ordered(line', ahead')
  <2>1. CASE Leaves(r, "ok")
    BY <1>2, <2>1
  <2>2. CASE /\ ~Gathers(r[1]) /\ r[2] < doing[r[1]].size
             /\ Enters(<<r[1], r[2] + 1>>, Selected(index, Lightened(r)), Without(r),
                       Lightened(r), [req EXCEPT ![r].pc = "ok"])
    <3> DEFINE q == <<r[1], r[2] + 1>>  k == Selected(index, Lightened(r))
    <3>1. Live(r)
      BY <1>4 DEF Answer, Live
    <3>2. q \in Requests /\ req[q].pc \notin {"waiting", "calling"}
      BY <2>2, <3>1, NextIsNew
    <3>3. k \in Clients
      BY <3>1, LightenedNat, SelectedExists DEF PoolInv, PoolTypeOK
    <3>4. Enters(q, k, Without(r), Lightened(r), [req EXCEPT ![r].pc = "ok"])
      BY <2>2
    <3> HIDE DEF q, k
    <3> QED BY ONLY <1>0, <1>1, <3>2, <3>3, <3>4, OrderedEnters
  <2> QED BY <1>4, <2>1, <2>2 DEF Answer
<1>5. ASSUME NEW c \in Callers, Begin(c)
      PROVE  Ordered(line', ahead')
  <2> DEFINE q == <<c, 1>>  k == Selected(index, active)
  <2>1. CASE Enters(q, k, line, active, req)
    <3>1. 1 \in 1 .. MaxBatch /\ doing[c].pc = "idle" /\ Batch(c)
      BY <1>5, PoolAssumption DEF Begin, PoolInv
    <3>2. q \in Requests /\ req[q].pc \notin {"waiting", "calling"}
      BY <3>1, RequestOf DEF Batch, MessageHolds
    <3>3. k \in Clients
      BY PoolFacts, SelectedExists DEF PoolInv, PoolTypeOK
    <3> HIDE DEF q, k
    <3> QED BY ONLY <1>0, <2>1, <3>2, <3>3, OrderedEnters
  <2>2. CASE UNCHANGED <<line, ahead>>
    BY <1>0, <2>2
  <2> QED BY <1>5, <2>1, <2>2 DEF Begin
<1>6. ASSUME NEW c \in Callers, Cancel(c)
      PROVE  Ordered(line', ahead')
  <2>1. /\ Stays(c) \in [Clients -> SUBSET Requests]
        /\ \A k \in Clients : Stays(c)[k] \subseteq line[k]
    BY <1>0 DEF Stays
  <2>2. Ordered(Stays(c), Order(Stays(c)))
    BY <1>0, <2>1, OrderedThin
  <2> QED BY <1>6, <2>2 DEF Cancel
<1>7. ASSUME NEW r \in Requests, Fail(r) \/ Unwind(r)
      PROVE  Ordered(line', ahead')
  BY <1>2, <1>7 DEF Fail, Unwind
<1>8. ASSUME UNCHANGED <<line, ahead>>
      PROVE  Ordered(line', ahead')
  BY <1>0, <1>8
<1>9. ASSUME NEW r \in Requests, Resume(r)
      PROVE  Ordered(line', ahead')
  BY <1>8, <1>9 DEF Resume
<1>10. ASSUME NEW c \in Callers, Cancelled(c) \/ WaveOver(c) \/ NextWave(c) \/ BeginDirect(c) \/ BeginRaw(c)
       PROVE  Ordered(line', ahead')
  BY <1>8, <1>10 DEF Cancelled, WaveOver, NextWave, BeginDirect, BeginRaw
<1> QED
  BY <1>3, <1>4, <1>5, <1>6, <1>7, <1>9, <1>10 DEF PoolNext, Progress

\* Who comes to wait comes to a line, and who leaves one waits no more.
LEMMA QueuesNext ==
    ASSUME PoolInv, \A r \in Requests : Queues(r), PoolNext
    PROVE  \A r \in Requests : Queues(r)'
<1>0. /\ line \in [Clients -> SUBSET Requests] /\ req \in [Requests -> RequestType]
      /\ \A r \in Requests : req[r].on \in Clients
      /\ \A q \in Requests : req[q].pc = "waiting" /\ ~req[q].dying => q \in line[req[q].on]
  BY PoolFacts DEF Queues
<1>1. ASSUME NEW r \in Requests, NEW k \in Clients, NEW ln \in [Clients -> SUBSET Requests],
             NEW ld, NEW rq \in [Requests -> RequestType], Enters(r, k, ln, ld, rq),
             \A q \in Requests \ {r} : rq[q].pc = "waiting" /\ ~rq[q].dying => q \in ln[rq[q].on]
      PROVE  \A q \in Requests : Queues(q)'
  <2>1. line' = [ln EXCEPT ![k] = @ \cup {r}]
        /\ req' = [rq EXCEPT ![r].on = k, ![r].pc = IF ln[k] = {} THEN "calling" ELSE "waiting"]
    BY <1>1 DEF Enters
  <2>2. /\ \A j \in Clients : ln[j] \subseteq line'[j]
        /\ r \in line'[k] /\ req'[r].on = k
        /\ \A q \in Requests \ {r} : req'[q] = rq[q] /\ rq[q].on \in Clients
    BY <2>1 DEF RequestType
  <2> QED BY <1>1, <2>2 DEF Queues
<1>2. ASSUME NEW r \in Requests, NEW how \in {"ok", "failed", "cancelled"}, Leaves(r, how)
      PROVE  \A q \in Requests : Queues(q)'
  <2>1. /\ line' = [k \in Clients |-> line[k] \ {r}]
        /\ req'[r].pc = how /\ \A q \in Requests \ {r} : req'[q] = req[q]
    BY <1>2, LeavesOne DEF Leaves, Without
  <2>2. \A q \in Requests \ {r} : req[q].on \in Clients => (q \in line[req[q].on] => q \in line'[req[q].on])
    BY <2>1
  <2> QED BY <1>0, <1>2, <2>1, <2>2 DEF Queues
<1>3. ASSUME NEW r \in Requests, Run(r)
      PROVE  \A q \in Requests : Queues(q)'
  BY <1>0, <1>1, <1>3 DEF Run
<1>4. ASSUME NEW r \in Requests, Answer(r)
      PROVE  \A q \in Requests : Queues(q)'
  <2>1. CASE Leaves(r, "ok")
    BY <1>2, <2>1
  <2>2. CASE /\ ~Gathers(r[1]) /\ r[2] < doing[r[1]].size
             /\ Enters(<<r[1], r[2] + 1>>, Selected(index, Lightened(r)), Without(r),
                       Lightened(r), [req EXCEPT ![r].pc = "ok"])
    <3> DEFINE p == <<r[1], r[2] + 1>>  k == Selected(index, Lightened(r))
               rq == [req EXCEPT ![r].pc = "ok"]
    <3>1. Live(r)
      BY <1>4 DEF Answer, Live
    <3>2. p \in Requests
      BY <2>2, <3>1, NextIsNew
    <3>3. k \in Clients
      BY <3>1, LightenedNat, SelectedExists DEF PoolInv, PoolTypeOK
    <3>4. Without(r) \in [Clients -> SUBSET Requests]
          /\ \A j \in Clients : Without(r)[j] = line[j] \ {r}
      BY <1>0 DEF Without
    <3>5. rq \in [Requests -> RequestType] /\ rq[r].pc = "ok"
          /\ \A q \in Requests \ {r} : rq[q] = req[q]
      BY <1>0 DEF RequestType
    <3>6. Enters(p, k, Without(r), Lightened(r), rq)
      BY <2>2
    <3> HIDE DEF p, k, rq
    <3>7. ASSUME NEW q \in Requests, rq[q].pc = "waiting", ~rq[q].dying
          PROVE  q \in Without(r)[rq[q].on]
      BY <1>0, <3>4, <3>5, <3>7
    <3> QED BY ONLY <1>1, <3>2, <3>3, <3>4, <3>5, <3>6, <3>7
  <2> QED BY <1>4, <2>1, <2>2 DEF Answer
<1>5. ASSUME NEW c \in Callers, NEW op, NEW i \in Int, NEW size,
             Creates(c, op, i, size), line' = line
      PROVE  \A q \in Requests : Queues(q)'
  <2>1. \A q \in Requests : req'[q] = req[q] \/ req'[q].pc = "ready"
    BY <1>0, <1>5, CreatesTyped
  <2> QED BY <1>0, <1>5, <2>1 DEF Queues
<1>6. ASSUME NEW c \in Callers, Begin(c)
      PROVE  \A q \in Requests : Queues(q)'
  <2>1. PICK op \in {"invoke", "sequential", "parallel", "throttled"}, size \in 1 .. MaxBatch :
            \/ Enters(<<c, 1>>, Selected(index, active), line, active, req)
            \/ Creates(c, op, 1, size) /\ line' = line
    BY <1>6 DEF Begin
  <2>2. CASE Enters(<<c, 1>>, Selected(index, active), line, active, req)
    <3> DEFINE p == <<c, 1>>  k == Selected(index, active)
    <3>1. 1 \in 1 .. MaxBatch
      BY PoolAssumption
    <3>2. p \in Requests
      BY <3>1, RequestOf
    <3>3. k \in Clients
      BY PoolFacts, SelectedExists DEF PoolInv, PoolTypeOK
    <3> HIDE DEF p, k
    <3> QED BY ONLY <1>0, <1>1, <2>2, <3>2, <3>3 DEF p, k
  <2>3. CASE Creates(c, op, 1, size) /\ line' = line
    BY <1>5, <2>3
  <2> QED BY <2>1, <2>2, <2>3
<1>7. ASSUME NEW c \in Callers, NextWave(c)
      PROVE  \A q \in Requests : Queues(q)'
  <2>1. doing[c].from + N \in Int
    BY <1>7, PoolAssumption DEF PoolInv, PoolTypeOK, CallerType
  <2> QED BY <1>5, <1>7, <2>1 DEF NextWave
<1>8. ASSUME NEW c \in Callers, Cancel(c)
      PROVE  \A q \in Requests : Queues(q)'
  <2>1. /\ \A q \in Requests : req'[q] = IF q \in Reaches(c) THEN [req[q] EXCEPT !.dying = TRUE] ELSE req[q]
        /\ \A k \in Clients : line'[k] = {r \in line[k] : r \notin Reaches(c) \/ First(r)}
    BY <1>8 DEF Cancel, Stays
  <2>2. ASSUME NEW q \in Requests, req'[q].pc = "waiting", ~req'[q].dying
        PROVE  q \in line'[req'[q].on]
    <3>1. q \notin Reaches(c)
      <4>1. q \in Reaches(c) => req'[q] = [req[q] EXCEPT !.dying = TRUE]
        BY <2>1
      <4>2. req[q] \in RequestType
        BY <1>0
      <4>3. [req[q] EXCEPT !.dying = TRUE].dying
        BY <4>2 DEF RequestType
      <4> QED BY <2>2, <4>1, <4>3
    <3>2. req'[q] = req[q]
      BY <2>1, <3>1
    <3> QED BY <1>0, <2>1, <2>2, <3>1, <3>2
  <2> QED BY <2>2 DEF Queues
<1>9. ASSUME NEW r \in Requests, Fail(r) \/ Unwind(r)
      PROVE  \A q \in Requests : Queues(q)'
  BY <1>2, <1>9 DEF Fail, Unwind
<1>10. ASSUME NEW r \in Requests, NEW p, p # "waiting", line' = line,
              \/ \E k : req' = [req EXCEPT ![r].pc = p, ![r].on = k]
              \/ req' = [req EXCEPT ![r].pc = p]
       PROVE  \A q \in Requests : Queues(q)'
  <2>1. req'[r].pc = p /\ \A q \in Requests \ {r} : req'[q] = req[q]
    BY <1>0, <1>10 DEF RequestType
  <2> QED BY <1>0, <1>10, <2>1 DEF Queues
<1>11. ASSUME NEW r \in Requests, Resume(r)
       PROVE  \A q \in Requests : Queues(q)'
  BY <1>10, <1>11 DEF Resume
<1>12. ASSUME NEW c \in Callers, BeginDirect(c) \/ BeginRaw(c)
       PROVE  \A q \in Requests : Queues(q)'
  <2>1. 1 \in 1 .. MaxBatch
    BY PoolAssumption
  <2>2. <<c, 1>> \in Requests
    BY <2>1, RequestOf
  <2>3. line' = line /\ \E k : req' = [req EXCEPT ![<<c, 1>>].pc = "calling", ![<<c, 1>>].on = k]
    BY <1>12 DEF BeginDirect, BeginRaw
  <2> QED BY <1>10, <2>2, <2>3
<1>13. ASSUME NEW c \in Callers, Cancelled(c) \/ WaveOver(c)
       PROVE  \A q \in Requests : Queues(q)'
  <2>1. req' = req /\ line' = line
    BY <1>13 DEF Cancelled, WaveOver
  <2> QED BY <1>0, <2>1 DEF Queues
<1> QED
  BY <1>3, <1>4, <1>6, <1>7, <1>8, <1>9, <1>11, <1>12, <1>13 DEF PoolNext, Progress

LEMMA GoingBeside ==
    ASSUME PoolInv, NEW c \in Callers, BesidesOnly(c), NEW d \in Callers \ {c}, Going(d)
    PROVE  Going(d)'
<1>1. /\ doing'[d] = doing[d] /\ (Gathers(d)' <=> Gathers(d))
      /\ \A j \in 1 .. MaxBatch : req'[<<d, j>>] = req[<<d, j>>]
  BY DEF BesidesOnly, Gathers
<1>2. doing[d].from \in 1 .. MaxBatch
  BY DEF PoolInv, PoolTypeOK, CallerType
<1> QED BY <1>1, <1>2 DEF Going, Live

\* A step of one of the caller's messages.
LEMMA GoingMessage ==
    ASSUME PoolInv, NEW r \in Requests, Live(r), \A c \in Callers : Going(c),
           \A q \in Requests \ {r} : req'[q] = req[q],
           \A d \in Callers \ {r[1]} : doing'[d] = doing[d],
           doing'[r[1]].op = doing[r[1]].op,
           \/ doing'[r[1]] = doing[r[1]] /\ (Live(r)' \/ Gathers(r[1]) \/ doing[r[1]].pc # "running")
           \/ doing'[r[1]].pc \in {"ok", "failed"} /\ doing[r[1]].pc = "running",
           req'[r].pc = "cancelled" => doing[r[1]].pc \in {"cancelling", "cancelled"}
    PROVE  \A c \in Callers : Going(c)'
<1> DEFINE c == r[1]  i == r[2]
<1>1. c \in Callers /\ i \in 1 .. MaxBatch /\ r = <<c, i>> /\ Going(c) /\ Batch(c)
  BY WeightsOf DEF PoolInv
<1>2. BesidesOnly(c)
  BY OneChanges DEF BesidesOnly
<1>3. \A j \in 1 .. MaxBatch \ {i} : req'[<<c, j>>] = req[<<c, j>>]
  BY OneChanges
<1>4. /\ Gathers(c)' <=> Gathers(c)
      /\ Live(<<c, i>>) /\ (Live(r)' => Live(<<c, i>>)')
      /\ \/ doing'[c] = doing[c] /\ (Live(r)' \/ Gathers(c) \/ doing[c].pc # "running")
         \/ doing'[c].pc \in {"ok", "failed"} /\ doing[c].pc = "running"
      /\ req'[<<c, i>>].pc = "cancelled" => doing[c].pc \in {"cancelling", "cancelled"}
  BY <1>1 DEF Gathers
<1> HIDE DEF c, i
<1>5. ASSUME NEW j \in 1 .. MaxBatch, req'[<<c, j>>].pc = "cancelled"
      PROVE  doing'[c].pc \in {"cancelling", "cancelled"}
  <2>1. doing[c].pc \in {"cancelling", "cancelled"}
    BY <1>1, <1>3, <1>4, <1>5 DEF Going
  <2> QED BY <1>4, <2>1
<1>6. ASSUME doing'[c].pc = "running", ~Gathers(c)'
      PROVE  Live(<<c, doing[c].from>>)'
  <2>1. doing'[c] = doing[c] /\ Live(<<c, i>>)'
    BY <1>4, <1>6
  <2>2. doing[c].from = i
    BY <1>1, <1>4, <1>6, LiveIsCurrent
  <2> QED BY <2>1, <2>2 DEF Live
<1>7. Going(c)'
  BY <1>5, <1>6 DEF Going
<1>8. ASSUME NEW d \in Callers \ {c} PROVE Going(d)'
  BY <1>1, <1>2, GoingBeside
<1> QED BY <1>1, <1>7, <1>8

LEMMA GoingNext ==
    ASSUME PoolInv, \A c \in Callers : Going(c), PoolNext
    PROVE  \A c \in Callers : Going(c)'
<1>0. /\ req \in [Requests -> RequestType] /\ doing \in [Callers -> CallerType]
      /\ MaxBatch \in Nat \ {0} /\ 1 \in 1 .. MaxBatch
      /\ \A c \in Callers : Batch(c) /\ Going(c) /\ doing[c].from \in 1 .. MaxBatch
  <2>1. MaxBatch \in Nat \ {0} /\ 1 \in 1 .. MaxBatch
    BY PoolAssumption
  <2> QED BY <2>1, PoolFacts DEF CallerType
<1>1. ASSUME NEW r \in Requests, Run(r) \/ Resume(r)
      PROVE  \A c \in Callers : Going(c)'
  <2>1. /\ \A q \in Requests \ {r} : req'[q] = req[q]
        /\ req'[r].pc \in {"waiting", "calling"} /\ Live(r) /\ doing' = doing
    <3>1. CASE Run(r)
      BY <1>0, <3>1, EntersOne DEF Run, Live
    <3>2. CASE Resume(r)
      BY <1>0, <3>2 DEF Resume, RequestType, Live
    <3> QED BY <1>1, <3>1, <3>2
  <2>2. Live(r)'
    BY <2>1 DEF Live
  <2> QED BY <1>0, <2>1, <2>2, GoingMessage
<1>2. ASSUME NEW r \in Requests, Live(r), NEW how \in {"ok", "failed"}, Leaves(r, how),
             \/ Gathers(r[1]) /\ doing' = doing
             \/ /\ ~Gathers(r[1]) /\ ~req[r].dying
                /\ doing' = [doing EXCEPT ![r[1]].pc = how]
      PROVE  \A c \in Callers : Going(c)'
  <2>1. /\ \A q \in Requests \ {r} : req'[q] = req[q]
        /\ req'[r].pc = how
    BY <1>2, LeavesOne
  <2>2. /\ r[1] \in Callers /\ \A d \in Callers \ {r[1]} : doing'[d] = doing[d]
        /\ doing'[r[1]].op = doing[r[1]].op
    BY <1>0, <1>2, WeightsOf DEF CallerType
  <2>3. \/ doing'[r[1]] = doing[r[1]] /\ Gathers(r[1])
        \/ doing'[r[1]].pc \in {"ok", "failed"} /\ doing[r[1]].pc = "running"
    <3>1. CASE Gathers(r[1]) /\ doing' = doing
      BY <3>1
    <3>2. CASE ~Gathers(r[1]) /\ ~req[r].dying /\ doing' = [doing EXCEPT ![r[1]].pc = how]
      <4>1. doing[r[1]].pc = "running"
        BY <1>0, <1>2, <3>2, LiveIsCurrent, WeightsOf
      <4>2. doing'[r[1]].pc = how
        BY <1>0, <2>2, <3>2 DEF CallerType
      <4> QED BY <4>1, <4>2
    <3> QED BY <1>2, <3>1, <3>2
  <2>4. req'[r].pc # "cancelled"
    BY <1>2, <2>1
  <2> QED BY ONLY PoolInv, <1>0, <1>2, <2>1, <2>2, <2>3, <2>4, GoingMessage
<1>3. ASSUME NEW r \in Requests, Fail(r)
      PROVE  \A c \in Callers : Going(c)'
  <2>1. Live(r) /\ Leaves(r, "failed") /\ ~req[r].dying
    BY <1>3 DEF Fail, Live
  <2>2. \/ Gathers(r[1]) /\ doing' = doing
        \/ ~Gathers(r[1]) /\ doing' = [doing EXCEPT ![r[1]].pc = "failed"]
    BY <1>3 DEF Fail
  <2> QED BY <1>2, <2>1, <2>2
<1>4. ASSUME NEW r \in Requests, Answer(r)
      PROVE  \A c \in Callers : Going(c)'
  <2> DEFINE c == r[1]  i == r[2]
  <2>1. Live(r) /\ ~req[r].dying /\ c \in Callers /\ i \in 1 .. MaxBatch /\ r = <<c, i>>
    BY <1>4, WeightsOf DEF Answer, Live
  <2>2. CASE Leaves(r, "ok") /\ Gathers(c) /\ doing' = doing
    BY <1>2, <2>1, <2>2
  <2>3. CASE Leaves(r, "ok") /\ ~Gathers(c) /\ doing' = [doing EXCEPT ![c].pc = "ok"]
    BY <1>2, <2>1, <2>3
  <2>4. CASE /\ ~Gathers(c) /\ i < doing[c].size
             /\ doing' = [doing EXCEPT ![c].from = @ + 1]
             /\ Enters(<<c, i + 1>>, Selected(index, Lightened(r)), Without(r), Lightened(r),
                       [req EXCEPT ![r].pc = "ok"])
    <3> DEFINE p == <<c, i + 1>>  rq == [req EXCEPT ![r].pc = "ok"]
    <3>1. /\ p \in Requests /\ p # r /\ doing[c].from = i /\ i + 1 \in 1 .. MaxBatch
          /\ doing[c].pc = "running"
      BY <1>0, <2>1, <2>4, NextIsNew, LiveIsCurrent
    <3>2. rq \in [Requests -> RequestType] /\ rq[r].pc = "ok"
          /\ \A q \in Requests \ {r} : rq[q] = req[q]
      BY <1>0 DEF RequestType
    <3>3. Enters(p, Selected(index, Lightened(r)), Without(r), Lightened(r), rq)
      BY <2>4
    <3> HIDE DEF p, rq
    <3>4. /\ \A q \in Requests \ {p} : req'[q] = rq[q]
          /\ req'[p].pc \in {"waiting", "calling"}
      BY ONLY <3>1, <3>2, <3>3, EntersOne
    <3>5. /\ \A d \in Callers \ {c} : doing'[d] = doing[d]
          /\ doing'[c].from = i + 1 /\ doing'[c].pc = "running"
      BY <1>0, <2>1, <2>4, <3>1 DEF CallerType
    <3>6. BesidesOnly(c)
      <4>1. ASSUME NEW d \in Callers \ {c}, NEW j \in 1 .. MaxBatch
            PROVE  req'[<<d, j>>] = req[<<d, j>>]
        <5>1. <<d, j>> \in Requests /\ <<d, j>> # r /\ <<d, j>> # p
          BY <2>1, <4>1, RequestOf DEF p
        <5> QED BY <3>2, <3>4, <5>1
      <4> QED BY <3>5, <4>1 DEF BesidesOnly
    <3>7. Live(<<c, doing[c].from>>)'
      <4>1. <<c, doing'[c].from>> = p
        BY <3>5 DEF p
      <4>2. req'[<<c, doing'[c].from>>].pc \in {"waiting", "calling"}
        BY <3>4, <4>1
      <4> QED BY <4>2 DEF Live
    <3>8. ASSUME NEW j \in 1 .. MaxBatch PROVE req'[<<c, j>>].pc # "cancelled"
      <4>1. <<c, j>> \in Requests /\ req[<<c, j>>].pc # "cancelled"
        BY <1>0, <2>1, <3>1, RequestOf DEF Going
      <4>2. rq[<<c, j>>].pc # "cancelled"
        BY <3>2, <4>1
      <4> QED BY <3>4, <4>1, <4>2
    <3>9. Going(c)'
      BY <3>7, <3>8 DEF Going
    <3> HIDE DEF c, i
    <3> QED BY <1>0, <2>1, <3>6, <3>9, GoingBeside
  <2> QED BY <1>4, <2>1, <2>2, <2>3, <2>4 DEF Answer
<1>5. ASSUME NEW r \in Requests, Unwind(r)
      PROVE  \A c \in Callers : Going(c)'
  <2>1. Live(r) /\ doing[r[1]].pc \in {"cancelling", "cancelled"}
    BY <1>0, <1>5, WeightsOf DEF Unwind, Batch, MessageHolds
  <2>2. \A q \in Requests \ {r} : req'[q] = req[q]
    BY <1>5, LeavesOne DEF Unwind
  <2> QED BY <1>0, <1>5, <2>1, <2>2, GoingMessage DEF Unwind
\* The steps of a caller.
<1>6. ASSUME NEW c \in Callers, BesidesOnly(c), Going(c)'
      PROVE  \A d \in Callers : Going(d)'
  BY <1>0, <1>6, GoingBeside
<1>7. ASSUME NEW c \in Callers, doing[c].pc = "idle", NEW j \in 1 .. MaxBatch
      PROVE  req[<<c, j>>].pc = "none"
  BY <1>0, <1>7 DEF Batch, MessageHolds
<1>8. ASSUME NEW c \in Callers, NEW p, doing' = [doing EXCEPT ![c].pc = p],
             p \in {"ok", "failed", "asleep", "cancelling", "cancelled"},
             \A q \in Requests : req'[q].pc = req[q].pc /\ (q[1] # c => req'[q] = req[q]),
             \/ p \in {"cancelling", "cancelled"}
             \/ doing[c].pc \in {"running", "asleep"}
      PROVE  \A d \in Callers : Going(d)'
  <2>1. doing'[c].pc = p /\ \A d \in Callers \ {c} : doing'[d] = doing[d]
    BY <1>0, <1>8 DEF CallerType
  <2>2. BesidesOnly(c)
    BY <1>8, <2>1, RequestOf DEF BesidesOnly
  <2>3. Going(c)'
    <3>1. \A j \in 1 .. MaxBatch : req'[<<c, j>>].pc = req[<<c, j>>].pc
      BY <1>8, RequestOf
    <3> QED BY <1>0, <1>8, <2>1, <3>1 DEF Going
  <2> QED BY <1>6, <2>2, <2>3
<1>9. ASSUME NEW c \in Callers, Cancel(c)
      PROVE  \A d \in Callers : Going(d)'
  <2>1. \A q \in Requests : req'[q] = IF q \in Reaches(c) THEN [req[q] EXCEPT !.dying = TRUE] ELSE req[q]
    BY <1>9 DEF Cancel
  <2>2. \A q \in Reaches(c) : q[1] = c
    BY DEF Reaches
  <2>3. \A q \in Requests : req'[q].pc = req[q].pc /\ (q[1] # c => req'[q] = req[q])
    BY <1>0, <2>1, <2>2 DEF RequestType
  <2> QED BY <1>8, <1>9, <2>3 DEF Cancel
<1>10. ASSUME NEW c \in Callers, Cancelled(c) \/ WaveOver(c)
       PROVE  \A d \in Callers : Going(d)'
  <2>1. \A q \in Requests : req'[q].pc = req[q].pc /\ (q[1] # c => req'[q] = req[q])
    BY <1>10 DEF Cancelled, WaveOver
  <2>2. \E p \in {"ok", "failed", "asleep", "cancelled"} :
           doing' = [doing EXCEPT ![c].pc = p] /\ (p = "cancelled" \/ doing[c].pc = "running")
    BY <1>10 DEF Cancelled, WaveOver
  <2> QED BY <1>8, <2>1, <2>2
<1>11. ASSUME NEW c \in Callers, NEW op, NEW i \in Int, NEW size, Creates(c, op, i, size),
              \A d \in Callers \ {c} : doing'[d] = doing[d],
              doing[c].pc \in {"idle", "asleep"}, Gathers(c)'
       PROVE  \A d \in Callers : Going(d)'
  <2>1. \A r \in Requests : IF r[1] = c /\ r[2] \in Wave(op, i, size)
                            THEN req'[r].pc = "ready" ELSE req'[r] = req[r]
    BY <1>0, <1>11, CreatesTyped
  <2>2. BesidesOnly(c)
    BY <1>11, <2>1, RequestOf DEF BesidesOnly
  <2>3. \A j \in 1 .. MaxBatch : req'[<<c, j>>].pc # "cancelled"
    BY <1>0, <1>11, <2>1, RequestOf DEF Going
  <2>4. Going(c)'
    BY <1>11, <2>3 DEF Going
  <2> QED BY <1>6, <2>2, <2>4
<1>12. ASSUME NEW c \in Callers, NextWave(c)
       PROVE  \A d \in Callers : Going(d)'
  <2>1. /\ doing'[c].op = "throttled" /\ \A d \in Callers \ {c} : doing'[d] = doing[d]
        /\ doing[c].from + N \in Int
    BY <1>0, <1>12, PoolAssumption DEF NextWave, Batch, CallerHolds, CallerType
  <2>2. Gathers(c)'
    BY <2>1 DEF Gathers
  <2> QED BY <1>11, <1>12, <2>1, <2>2 DEF NextWave
<1>13. ASSUME NEW c \in Callers, doing[c].pc = "idle",
              \A d \in Callers \ {c} : doing'[d] = doing[d], doing'[c].from = 1,
              \A q \in Requests \ {<<c, 1>>} : req'[q] = req[q],
              req'[<<c, 1>>].pc \in {"waiting", "calling"}
       PROVE  \A d \in Callers : Going(d)'
  <2>1. BesidesOnly(c)
    BY <1>13, RequestOf DEF BesidesOnly
  <2>2. \A j \in 1 .. MaxBatch : req'[<<c, j>>].pc # "cancelled"
    <3>1. ASSUME NEW j \in 1 .. MaxBatch PROVE req'[<<c, j>>].pc # "cancelled"
      <4>1. <<c, j>> \in Requests /\ (j # 1 => <<c, j>> # <<c, 1>>)
        BY RequestOf
      <4> QED BY <1>7, <1>13, <4>1
    <3> QED BY <3>1
  <2>3. Going(c)'
    BY <1>13, <2>2 DEF Going, Live
  <2> QED BY <1>6, <2>1, <2>3
<1>14. ASSUME NEW c \in Callers, Begin(c)
       PROVE  \A d \in Callers : Going(d)'
  <2>1. PICK op \in {"invoke", "sequential", "parallel", "throttled"}, size \in 1 .. MaxBatch :
          /\ doing' = [doing EXCEPT ![c] = [pc |-> "running", op |-> op, size |-> size, from |-> 1]]
          /\ \/ Enters(<<c, 1>>, Selected(index, active), line, active, req)
             \/ op \in {"parallel", "throttled"} /\ Creates(c, op, 1, size)
    BY <1>14 DEF Begin
  <2>2. /\ doing'[c].op = op /\ doing'[c].from = 1 /\ doing[c].pc = "idle"
        /\ \A d \in Callers \ {c} : doing'[d] = doing[d]
    BY <1>0, <1>14, <2>1 DEF Begin
  <2>3. CASE Enters(<<c, 1>>, Selected(index, active), line, active, req)
    <3>1. <<c, 1>> \in Requests
      BY <1>0, RequestOf
    <3>2. /\ \A q \in Requests \ {<<c, 1>>} : req'[q] = req[q]
          /\ req'[<<c, 1>>].pc \in {"waiting", "calling"}
      BY <1>0, <2>3, <3>1, EntersOne
    <3> QED BY <1>13, <2>2, <3>2
  <2>4. CASE op \in {"parallel", "throttled"} /\ Creates(c, op, 1, size)
    <3>1. Gathers(c)'
      BY <2>2, <2>4 DEF Gathers
    <3> QED BY <1>11, <2>2, <2>4, <3>1
  <2> QED BY <2>1, <2>3, <2>4
<1>15. ASSUME NEW c \in Callers, BeginDirect(c) \/ BeginRaw(c)
       PROVE  \A d \in Callers : Going(d)'
  <2>1. PICK op \in {"direct", "raw"} : doing' = [doing EXCEPT ![c].pc = "running", ![c].op = op]
    BY <1>15 DEF BeginDirect, BeginRaw
  <2>2. PICK k : req' = [req EXCEPT ![<<c, 1>>].pc = "calling", ![<<c, 1>>].on = k]
    BY <1>15 DEF BeginDirect, BeginRaw
  <2>3. doing[c].pc = "idle" /\ doing[c].from = 1
    BY <1>0, <1>15 DEF BeginDirect, BeginRaw, Batch, CallerHolds, CallerType
  <2>4. doing'[c].from = 1 /\ \A d \in Callers \ {c} : doing'[d] = doing[d]
    BY <1>0, <2>1, <2>3 DEF CallerType
  <2>5. /\ \A q \in Requests \ {<<c, 1>>} : req'[q] = req[q]
        /\ req'[<<c, 1>>].pc \in {"waiting", "calling"}
    <3>1. <<c, 1>> \in Requests
      BY <1>0, RequestOf
    <3> QED BY <1>0, <2>2, <3>1 DEF RequestType
  <2> QED BY <1>13, <2>3, <2>4, <2>5
<1> QED
  BY <1>1, <1>3, <1>4, <1>5, <1>9, <1>10, <1>12, <1>14, <1>15 DEF PoolNext, Progress

LEMMA PoolIInvariance == PoolSpec => []PoolIInv
<1>1. PoolInit => PoolIInv
  <2> SUFFICES ASSUME PoolInit PROVE PoolIInv
    OBVIOUS
  <2>1. Ordered(line, ahead)
    <3>1. \A k \in Clients : line[k] = {}
      BY DEF PoolInit
    <3> QED BY <3>1, FS_EmptySet DEF Ordered
  <2>2. \A r \in Requests : Queues(r)
    BY DEF PoolInit, Queues
  <2>3. \A c \in Callers : Going(c)
    BY RequestOf DEF PoolInit, Going
  <2> QED BY <2>1, <2>2, <2>3, PoolInitInv DEF PoolIInv
<1>2. PoolIInv /\ [PoolNext]_poolVars => PoolIInv'
  <2> SUFFICES ASSUME PoolIInv, [PoolNext]_poolVars PROVE PoolIInv'
    OBVIOUS
  <2>1. PoolInv'
    BY PoolNextInv DEF PoolIInv
  <2>2. CASE PoolNext
    BY <2>1, <2>2, OrderedNext, QueuesNext, GoingNext DEF PoolIInv
  <2>3. CASE UNCHANGED poolVars
    <3>1. UNCHANGED <<line, ahead, req, doing>>
      BY <2>3 DEF poolVars
    <3>2. Ordered(line, ahead)' /\ (\A r \in Requests : Queues(r)')
      BY <3>1 DEF PoolIInv, Ordered, Queues
    <3>3. \A c \in Callers : Going(c)'
      BY <3>1 DEF PoolIInv, Going, Live, Gathers
    <3> QED BY <2>1, <3>2, <3>3 DEF PoolIInv
  <2> QED BY <2>2, <2>3
<1> QED BY <1>1, <1>2, PTL DEF PoolSpec

\* While a request is underway somebody can take a step: it, or who is the
\* first of the line it waits in.
LEMMA LiveMoves ==
    ASSUME PoolIInv, NEW r \in Requests, Live(r)
    PROVE  CanMove
<1>1. CASE req[r].pc \in {"ready", "calling"} \/ req[r].dying
  BY <1>1 DEF CanMove
<1>2. CASE req[r].pc = "waiting" /\ ~req[r].dying
  <2> DEFINE k == req[r].on
  <2>1. /\ LinesHold(line, ahead, req, Weights) /\ k \in Clients /\ line[k] \in SUBSET Requests
    BY PoolFacts DEF PoolIInv
  <2>2. r \in line[k] /\ Ordered(line, ahead)
    BY <1>2 DEF PoolIInv, Queues
  <2>3. PICK q \in line[k] : ahead[q] = {}
    <3> HIDE DEF k
    <3>1. IsFiniteSet(line[k]) /\ line[k] # {}
          /\ \A p \in line[k] : /\ ahead[p] \subseteq line[k] /\ p \notin ahead[p]
                                /\ \A q \in ahead[p] : ahead[q] \subseteq ahead[p]
      BY <2>1, <2>2 DEF Ordered
    <3> QED BY ONLY <2>1, <3>1, FirstOfLine
  <2>4. q \in Requests /\ req[q].on = k /\ req[q].pc \in {"waiting", "calling"}
    BY <2>1, <2>3 DEF LinesHold
  <2> QED BY <2>3, <2>4 DEF CanMove, First
<1> QED BY <1>1, <1>2 DEF Live

LEMMA StuckFollows ==
    ASSUME PoolIInv
    PROVE  NobodyStuck
<1> SUFFICES ASSUME NEW c \in Callers, doing[c].pc \in {"running", "asleep", "cancelling"},
                    \A r \in Requests : ~Live(r)
             PROVE  CanMove
  BY LiveMoves DEF NobodyStuck, Underway
<1>1. /\ Batch(c) /\ Going(c) /\ Current(c) \subseteq 1 .. MaxBatch
      /\ doing[c].from \in Current(c)
  BY CurrentIn DEF PoolIInv, PoolInv, Batch
<1>2. \A j \in Current(c) : ~Live(<<c, j>>)
  BY <1>1, RequestOf
<1>3. CASE doing[c].pc \in {"asleep", "cancelling"}
  BY <1>2, <1>3 DEF CanMove
<1>4. CASE doing[c].pc = "running"
  <2>1. Gathers(c)
    BY <1>1, <1>2, <1>4 DEF Going
  <2>2. ASSUME NEW j \in Current(c) PROVE req[<<c, j>>].pc \in {"ok", "failed"}
    <3>1. j \in 1 .. MaxBatch /\ req[<<c, j>>].pc # "none" /\ req[<<c, j>>].pc # "cancelled"
      BY <1>1, <1>4 DEF Batch, MessageHolds, Going
    <3>2. req[<<c, j>>] \in RequestType
      BY <3>1, RequestOf, PoolFacts DEF PoolIInv
    <3> QED BY <1>2, <3>1, <3>2 DEF Live, RequestType
  <2>3. Raised(c) \/ AllAnswered(c)
    BY <2>2 DEF Raised, AllAnswered
  <2> QED BY <1>4, <2>1, <2>3 DEF CanMove
<1> QED BY <1>3, <1>4

\* How far a request is, and its caller.
RequestRank(r) ==
    CASE req[r].pc = "none" -> 0 [] req[r].pc = "ready" -> 1
      [] req[r].pc = "waiting" -> 2 [] req[r].pc = "calling" -> 3 [] OTHER -> 4

CallerRank(c) ==
    CASE doing[c].pc = "idle" -> 0
      [] doing[c].pc = "running" -> 2 * doing[c].from
      [] doing[c].pc = "asleep" -> 2 * doing[c].from + 1
      [] doing[c].pc = "cancelling" -> 2 * MaxBatch + 2
      [] OTHER -> 2 * MaxBatch + 3

\* Each step takes somebody further, and nobody back.
Forward ==
    /\ \A r \in Requests : RequestRank(r)' >= RequestRank(r) /\ RequestRank(r)' <= 4
    /\ \A c \in Callers : CallerRank(c)' >= CallerRank(c) /\ CallerRank(c)' <= 2 * MaxBatch + 3
    /\ \/ \E r \in Requests : RequestRank(r)' > RequestRank(r)
       \/ \E c \in Callers : CallerRank(c)' > CallerRank(c)

LEMMA RanksTyped ==
    /\ \A r \in Requests : RequestRank(r) \in 0 .. 4 /\ RequestRank(r)' \in 0 .. 4
    /\ (\A c \in Callers : doing[c].from \in 1 .. MaxBatch) =>
          \A c \in Callers : CallerRank(c) \in 0 .. 2 * MaxBatch + 3
<1>1. MaxBatch \in Nat
  BY PoolAssumption
<1>2. \A r \in Requests : RequestRank(r) \in 0 .. 4 /\ RequestRank(r)' \in 0 .. 4
  BY DEF RequestRank
<1>3. ASSUME \A c \in Callers : doing[c].from \in 1 .. MaxBatch, NEW c \in Callers
      PROVE  CallerRank(c) \in 0 .. 2 * MaxBatch + 3
  <2>1. doing[c].from \in Int /\ 1 <= doing[c].from /\ doing[c].from <= MaxBatch
    BY <1>1, <1>3
  <2> QED BY <1>1, <2>1 DEF CallerRank
<1> QED BY <1>2, <1>3

\* Nobody goes back, and somebody goes on.
Furthers ==
    /\ \A r \in Requests : req'[r].pc = req[r].pc \/ RequestRank(r)' > RequestRank(r)
    /\ \A c \in Callers : CallerRank(c)' >= CallerRank(c)
    /\ \/ \E r \in Requests : RequestRank(r)' > RequestRank(r)
       \/ \E c \in Callers : CallerRank(c)' > CallerRank(c)

LEMMA RequestFurthers ==
    ASSUME PoolInv, PoolNext,
           NEW r \in Requests, Run(r) \/ Resume(r) \/ Answer(r) \/ Unwind(r) \/ Fail(r)
    PROVE  Furthers
<1>0. /\ req \in [Requests -> RequestType] /\ doing \in [Callers -> CallerType]
      /\ \A c \in Callers : Batch(c) /\ CallerRank(c) \in Nat
      /\ MaxBatch \in Nat /\ r[1] \in Callers /\ r = <<r[1], r[2]>>
      /\ r[2] \in 1 .. MaxBatch
  <2>1. \A c \in Callers : doing[c].from \in 1 .. MaxBatch
    BY PoolFacts DEF CallerType
  <2>2. MaxBatch \in Nat
    BY PoolAssumption
  <2> QED BY <2>1, <2>2, RanksTyped, PoolFacts, WeightsOf
<1>1. CASE Run(r) \/ Resume(r)
  <2>1. /\ \A q \in Requests \ {r} : req'[q] = req[q]
        /\ doing' = doing
        /\ \/ req[r].pc = "ready" /\ req'[r].pc \in {"waiting", "calling"}
           \/ req[r].pc = "waiting" /\ req'[r].pc = "calling"
    <3>1. CASE Run(r)
      BY <1>0, <3>1, EntersOne DEF Run
    <3>2. CASE Resume(r)
      BY <1>0, <3>2 DEF Resume, RequestType
    <3> QED BY <1>1, <3>1, <3>2
  <2>2. RequestRank(r)' > RequestRank(r)
    BY <2>1 DEF RequestRank
  <2>3. \A c \in Callers : CallerRank(c)' = CallerRank(c)
    BY <2>1 DEF CallerRank
  <2> QED BY <1>0, <2>1, <2>2, <2>3 DEF Furthers
<1>2. ASSUME Live(r), NEW how \in {"ok", "failed", "cancelled"}, Leaves(r, how),
             \/ doing' = doing
             \/ /\ doing' = [doing EXCEPT ![r[1]].pc = how] /\ how # "cancelled"
                /\ doing[r[1]].pc = "running"
      PROVE  Furthers
  <2>1. /\ \A q \in Requests \ {r} : req'[q] = req[q]
        /\ req'[r].pc = how
    BY <1>2, LeavesOne
  <2>2. RequestRank(r)' > RequestRank(r)
    BY <1>2, <2>1 DEF RequestRank, Live
  <2>3. ASSUME NEW c \in Callers PROVE CallerRank(c)' >= CallerRank(c)
    <3>1. CASE doing'[c] = doing[c]
      BY <1>0, <3>1 DEF CallerRank
    <3>2. CASE doing[c].pc = "running" /\ doing'[c].pc \in {"ok", "failed"}
      <4>1. CallerRank(c)' = 2 * MaxBatch + 3 /\ CallerRank(c) = 2 * doing[c].from
        BY <3>2 DEF CallerRank
      <4>2. doing[c].from <= MaxBatch /\ doing[c].from \in Nat
        BY <1>0 DEF CallerType
      <4> QED BY <1>0, <4>1, <4>2
    <3> QED BY <1>0, <1>2, <3>1, <3>2 DEF CallerType
  <2> QED BY <2>1, <2>2, <2>3 DEF Furthers
<1>3. ASSUME Live(r), ~Gathers(r[1]), ~req[r].dying
      PROVE  doing[r[1]].pc = "running" /\ doing[r[1]].from = r[2]
  BY <1>0, <1>3, LiveIsCurrent
<1>4. CASE Fail(r)
  <2>1. Live(r) /\ Leaves(r, "failed") /\ ~req[r].dying
    BY <1>4 DEF Fail, Live
  <2>2. \/ doing' = doing
        \/ ~Gathers(r[1]) /\ doing' = [doing EXCEPT ![r[1]].pc = "failed"]
    BY <1>4 DEF Fail
  <2> QED BY <1>2, <1>3, <2>1, <2>2
<1>5. CASE Unwind(r)
  <2>1. Live(r)
    BY <1>0, <1>5 DEF Unwind, Batch, MessageHolds
  <2> QED BY <1>2, <1>5, <2>1 DEF Unwind
<1>6. CASE Answer(r)
  <2>1. Live(r) /\ ~req[r].dying /\ req[r].pc = "calling"
    BY <1>6 DEF Answer, Live
  <2>2. CASE /\ Leaves(r, "ok")
             /\ \/ doing' = doing
                \/ ~Gathers(r[1]) /\ doing' = [doing EXCEPT ![r[1]].pc = "ok"]
    BY <1>2, <1>3, <2>1, <2>2
  <2>3. CASE /\ ~Gathers(r[1]) /\ r[2] < doing[r[1]].size
             /\ doing' = [doing EXCEPT ![r[1]].from = @ + 1]
             /\ Enters(<<r[1], r[2] + 1>>, Selected(index, Lightened(r)), Without(r),
                       Lightened(r), [req EXCEPT ![r].pc = "ok"])
    <3> DEFINE p == <<r[1], r[2] + 1>>  rq == [req EXCEPT ![r].pc = "ok"]
    <3>1. p \in Requests /\ p # r /\ req[p].pc = "none"
      BY <2>1, <2>3, NextIsNew
    <3>2. rq \in [Requests -> RequestType] /\ rq[r].pc = "ok"
          /\ \A q \in Requests \ {r} : rq[q] = req[q]
      BY <1>0 DEF RequestType
    <3>3. Enters(p, Selected(index, Lightened(r)), Without(r), Lightened(r), rq)
      BY <2>3
    <3> HIDE DEF p, rq
    <3>4. /\ \A q \in Requests \ {p} : req'[q] = rq[q]
          /\ req'[p].pc \in {"waiting", "calling"}
      BY ONLY <3>1, <3>2, <3>3, EntersOne
    <3>5. /\ RequestRank(r)' > RequestRank(r) /\ RequestRank(p)' > RequestRank(p)
          /\ \A q \in Requests \ {p, r} : req'[q] = req[q]
      BY <2>1, <3>1, <3>2, <3>4 DEF RequestRank
    <3>6. ASSUME NEW c \in Callers PROVE CallerRank(c)' >= CallerRank(c)
      <4>1. CASE c # r[1]
        <5>1. doing'[c] = doing[c]
          BY <1>0, <2>3, <4>1
        <5> QED BY <1>0, <5>1 DEF CallerRank
      <4>2. CASE c = r[1]
        <5>1. /\ doing[c].pc = "running" /\ doing[c].from \in Nat
              /\ doing'[c].pc = "running" /\ doing'[c].from = doing[c].from + 1
          BY <1>0, <1>3, <2>1, <2>3, <4>2 DEF CallerType
        <5>2. CallerRank(c)' = 2 * doing'[c].from /\ CallerRank(c) = 2 * doing[c].from
          BY <5>1 DEF CallerRank
        <5> QED BY <5>1, <5>2
      <4> QED BY <4>1, <4>2
    <3> QED BY <3>5, <3>6 DEF Furthers
  <2> QED BY <1>6, <2>2, <2>3 DEF Answer
<1> QED BY <1>1, <1>4, <1>5, <1>6

LEMMA CallerFurthers ==
    ASSUME PoolInv, PoolInv', NEW c \in Callers,
           \/ Cancelled(c) \/ WaveOver(c) \/ NextWave(c)
           \/ Begin(c) \/ BeginDirect(c) \/ BeginRaw(c) \/ Cancel(c)
    PROVE  Furthers
<1>0. /\ req \in [Requests -> RequestType] /\ doing \in [Callers -> CallerType]
      /\ doing' \in [Callers -> CallerType]
      /\ \A d \in Callers : Batch(d) /\ CallerRank(d) \in Nat
      /\ MaxBatch \in Nat \ {0} /\ 1 \in 1 .. MaxBatch /\ N \in Nat \ {0}
  <2>1. \A d \in Callers : doing[d].from \in 1 .. MaxBatch
    BY PoolFacts DEF CallerType
  <2>2. MaxBatch \in Nat \ {0} /\ 1 \in 1 .. MaxBatch /\ N \in Nat \ {0}
    BY PoolAssumption
  <2>3. doing' \in [Callers -> CallerType]
    BY DEF PoolInv, PoolTypeOK
  <2> QED BY <2>1, <2>2, <2>3, RanksTyped, PoolFacts
<1>1. doing[c].from \in 1 .. MaxBatch /\ doing'[c].from \in 1 .. MaxBatch
  BY <1>0 DEF CallerType
<1>2. ASSUME \A d \in Callers \ {c} : doing'[d] = doing[d],
             CallerRank(c)' > CallerRank(c),
             \A r \in Requests : req'[r].pc = req[r].pc \/ RequestRank(r)' > RequestRank(r)
      PROVE  Furthers
  <2>1. \A d \in Callers \ {c} : CallerRank(d)' = CallerRank(d)
    BY <1>2 DEF CallerRank
  <2>2. CallerRank(c)' >= CallerRank(c)
    <3>1. CallerRank(c)' \in Nat /\ CallerRank(c) \in Nat
      BY <1>0, <1>1 DEF CallerRank
    <3> QED BY <1>2, <3>1
  <2>3. \A d \in Callers : CallerRank(d)' >= CallerRank(d)
    BY <1>0, <2>1, <2>2
  <2> QED BY <1>2, <2>3 DEF Furthers
<1>3. ASSUME NEW p \in {"ok", "failed", "asleep", "cancelling", "cancelled"},
             doing' = [doing EXCEPT ![c].pc = p],
             \/ doing[c].pc = "running"
             \/ doing[c].pc = "asleep" /\ p = "cancelling"
             \/ doing[c].pc = "cancelling" /\ p = "cancelled",
             \A r \in Requests : req'[r].pc = req[r].pc
      PROVE  Furthers
  <2>1. /\ doing'[c].pc = p /\ doing'[c].from = doing[c].from
        /\ \A d \in Callers \ {c} : doing'[d] = doing[d]
    BY <1>0, <1>3 DEF CallerType
  <2>2. doing[c].from \in Nat /\ doing[c].from <= MaxBatch
    BY <1>0, <1>1
  <2>3. CallerRank(c)' > CallerRank(c)
    BY <1>0, <1>3, <2>1, <2>2 DEF CallerRank
  <2> QED BY <1>2, <1>3, <2>1, <2>3
<1>4. CASE Cancel(c)
  <2>1. \A q \in Requests : req'[q].pc = req[q].pc
    BY <1>0, <1>4 DEF Cancel, RequestType
  <2> QED BY <1>3, <1>4, <2>1 DEF Cancel
<1>5. CASE Cancelled(c)
  BY <1>3, <1>5 DEF Cancelled
<1>6. CASE WaveOver(c)
  <2>1. \E p \in {"ok", "failed", "asleep"} : doing' = [doing EXCEPT ![c].pc = p]
    BY <1>6 DEF WaveOver
  <2> QED BY <1>3, <1>6, <2>1 DEF WaveOver
<1>7. ASSUME NEW op, NEW i \in Int, NEW size, Creates(c, op, i, size),
             \A j \in 1 .. MaxBatch : j \in Wave(op, i, size) => req[<<c, j>>].pc = "none"
      PROVE  \A r \in Requests : req'[r].pc = req[r].pc \/ RequestRank(r)' > RequestRank(r)
  <2>1. ASSUME NEW r \in Requests PROVE req'[r].pc = req[r].pc \/ RequestRank(r)' > RequestRank(r)
    <3>1. IF r[1] = c /\ r[2] \in Wave(op, i, size) THEN req'[r].pc = "ready" ELSE req'[r] = req[r]
      BY <1>0, <1>7, CreatesTyped
    <3>2. r[1] = c /\ r[2] \in Wave(op, i, size) => req[r].pc = "none"
      BY <1>7, WeightsOf
    <3> QED BY <3>1, <3>2 DEF RequestRank
  <2> QED BY <2>1
<1>8. CASE NextWave(c)
  <2>1. /\ doing[c].op = "throttled" /\ doing[c].pc = "asleep" /\ doing[c].from \in Nat
        /\ doing[c].size \in Nat /\ doing[c].from <= doing[c].size
    BY <1>0, <1>8 DEF NextWave, Batch, CallerHolds, CallerType
  <2>2. /\ doing'[c].pc = "running" /\ doing'[c].from = doing[c].from + N
        /\ \A d \in Callers \ {c} : doing'[d] = doing[d]
    BY <1>0, <1>8 DEF NextWave, CallerType
  <2>3. CallerRank(c)' > CallerRank(c)
    <3>1. CallerRank(c)' = 2 * doing'[c].from /\ CallerRank(c) = 2 * doing[c].from + 1
      BY <2>1, <2>2 DEF CallerRank
    <3> QED BY <1>0, <2>1, <2>2, <3>1
  <2>4. Creates(c, "throttled", doing[c].from + N, doing[c].size)
    BY <1>8, <2>1 DEF NextWave
  <2>5. ASSUME NEW j \in 1 .. MaxBatch, j \in Wave("throttled", doing[c].from + N, doing[c].size)
        PROVE  req[<<c, j>>].pc = "none"
    <3>1. j >= doing[c].from + N /\ j \in Nat
      BY <1>0, <2>1, <2>5 DEF Wave
    <3>2. j \notin Current(c)
      BY <1>0, <2>1, <3>1 DEF Current, Wave
    <3> QED BY <1>0, <2>1, <3>1, <3>2 DEF Batch, MessageHolds
  <2>6. \A r \in Requests : req'[r].pc = req[r].pc \/ RequestRank(r)' > RequestRank(r)
    <3>1. doing[c].from + N \in Int
      BY <1>0, <2>1
    <3> QED BY <1>7, <2>4, <2>5, <3>1
  <2> QED BY <1>2, <2>2, <2>3, <2>6
<1>9. ASSUME doing[c].pc = "idle", doing'[c].pc = "running",
             \A d \in Callers \ {c} : doing'[d] = doing[d],
             \A r \in Requests : req'[r].pc = req[r].pc \/ RequestRank(r)' > RequestRank(r)
      PROVE  Furthers
  <2>1. CallerRank(c)' = 2 * doing'[c].from /\ CallerRank(c) = 0
    BY <1>9 DEF CallerRank
  <2>2. CallerRank(c)' > CallerRank(c)
    BY <1>0, <1>1, <2>1
  <2> QED BY <1>2, <1>9, <2>2
<1>10. ASSUME doing[c].pc = "idle", \A q \in Requests \ {<<c, 1>>} : req'[q] = req[q],
              req'[<<c, 1>>].pc \in {"waiting", "calling"}
       PROVE  \A r \in Requests : req'[r].pc = req[r].pc \/ RequestRank(r)' > RequestRank(r)
  <2>1. <<c, 1>> \in Requests /\ req[<<c, 1>>].pc = "none"
    BY <1>0, <1>10, RequestOf DEF Batch, MessageHolds
  <2>2. RequestRank(<<c, 1>>)' > RequestRank(<<c, 1>>)
    BY <1>10, <2>1 DEF RequestRank
  <2> QED BY <1>10, <2>2
<1>11. CASE BeginDirect(c) \/ BeginRaw(c)
  <2>1. PICK op : doing' = [doing EXCEPT ![c].pc = "running", ![c].op = op]
    BY <1>11 DEF BeginDirect, BeginRaw
  <2>2. PICK k : req' = [req EXCEPT ![<<c, 1>>].pc = "calling", ![<<c, 1>>].on = k]
    BY <1>11 DEF BeginDirect, BeginRaw
  <2>3. /\ doing[c].pc = "idle" /\ doing'[c].pc = "running"
        /\ \A d \in Callers \ {c} : doing'[d] = doing[d]
    BY <1>0, <1>11, <2>1 DEF BeginDirect, BeginRaw, CallerType
  <2>4. /\ \A q \in Requests \ {<<c, 1>>} : req'[q] = req[q]
        /\ req'[<<c, 1>>].pc \in {"waiting", "calling"}
    <3>1. <<c, 1>> \in Requests
      BY <1>0, RequestOf
    <3> QED BY <1>0, <2>2, <3>1 DEF RequestType
  <2> QED BY <1>9, <1>10, <2>3, <2>4
<1>12. CASE Begin(c)
  <2>1. PICK op \in {"invoke", "sequential", "parallel", "throttled"}, size \in 1 .. MaxBatch :
          /\ doing' = [doing EXCEPT ![c] = [pc |-> "running", op |-> op, size |-> size, from |-> 1]]
          /\ \/ Enters(<<c, 1>>, Selected(index, active), line, active, req)
             \/ Creates(c, op, 1, size)
    BY <1>12 DEF Begin
  <2>2. /\ doing[c].pc = "idle" /\ doing'[c].pc = "running"
        /\ \A d \in Callers \ {c} : doing'[d] = doing[d]
    BY <1>0, <1>12, <2>1 DEF Begin
  <2>3. CASE Enters(<<c, 1>>, Selected(index, active), line, active, req)
    <3>1. <<c, 1>> \in Requests
      BY <1>0, RequestOf
    <3>2. /\ \A q \in Requests \ {<<c, 1>>} : req'[q] = req[q]
          /\ req'[<<c, 1>>].pc \in {"waiting", "calling"}
      BY <1>0, <2>3, <3>1, EntersOne
    <3> QED BY <1>9, <1>10, <2>2, <3>2
  <2>4. CASE Creates(c, op, 1, size)
    <3>1. \A j \in 1 .. MaxBatch : req[<<c, j>>].pc = "none"
      BY <1>0, <2>2 DEF Batch, MessageHolds
    <3> QED BY <1>7, <1>9, <2>2, <2>4, <3>1
  <2> QED BY <2>1, <2>3, <2>4
<1> QED BY <1>4, <1>5, <1>6, <1>8, <1>11, <1>12

LEMMA FurthersForward ==
    ASSUME PoolInv', Furthers
    PROVE  Forward
<1>1. \A r \in Requests : RequestRank(r)' >= RequestRank(r) /\ RequestRank(r)' <= 4
  <2>1. ASSUME NEW r \in Requests PROVE RequestRank(r)' >= RequestRank(r)
    <3>1. req'[r].pc = req[r].pc => RequestRank(r)' = RequestRank(r)
      BY DEF RequestRank
    <3>2. RequestRank(r)' \in 0 .. 4 /\ RequestRank(r) \in 0 .. 4
      BY RanksTyped
    <3> QED BY <3>1, <3>2 DEF Furthers
  <2> QED BY <2>1, RanksTyped
<1>2. ASSUME NEW c \in Callers PROVE CallerRank(c)' <= 2 * MaxBatch + 3
  <2>1. MaxBatch \in Nat
    BY PoolAssumption
  <2>2. doing'[c].from \in Nat /\ doing'[c].from <= MaxBatch
    BY <2>1 DEF PoolInv, PoolTypeOK, CallerType
  <2> QED BY <2>1, <2>2 DEF CallerRank
<1> QED BY <1>1, <1>2 DEF Furthers, Forward

-----------------------------------------------------------------------------
(* The safety half of EverythingEnds, for any clients, tasks and batches:  *)
(* a finite number of ranks, each below a bound, can only go up, and as    *)
(* long as a request or a caller is underway somebody can raise one.       *)

\* No request waits for a slot that nobody will give back, and no gather for
\* a task that is gone: while anything is underway, a task can go on or a
\* client owes an answer (LLMPool.invoke, LLMPool.invoke_batch).
THEOREM PoolNobodyStuck == PoolSpec => []NobodyStuck
BY PoolIInvariance, StuckFollows, PTL

\* Every step takes a request or a caller further and none back: each has
\* finitely many (LLMPool.invoke, LLMPool.invoke_batch).
THEOREM PoolGoesForward == PoolSpec => [][Forward]_poolVars
<1>1. PoolInv /\ [PoolNext]_poolVars => [Forward]_poolVars
  <2> SUFFICES ASSUME PoolInv, PoolNext PROVE Forward
    OBVIOUS
  <2>1. PoolInv'
    BY PoolNextInv
  <2>2. Furthers
    <3>1. ASSUME NEW r \in Requests, Run(r) \/ Resume(r) \/ Answer(r) \/ Unwind(r) \/ Fail(r)
          PROVE  Furthers
      BY <3>1, RequestFurthers
    <3>2. ASSUME NEW c \in Callers,
                 \/ Cancelled(c) \/ WaveOver(c) \/ NextWave(c)
                 \/ Begin(c) \/ BeginDirect(c) \/ BeginRaw(c) \/ Cancel(c)
          PROVE  Furthers
      BY <2>1, <3>2, CallerFurthers
    <3> QED BY <3>1, <3>2 DEF PoolNext, Progress
  <2> QED BY <2>1, <2>2, FurthersForward
<1> QED BY <1>1, PoolInvariance, PTL DEF PoolSpec
=============================================================================
