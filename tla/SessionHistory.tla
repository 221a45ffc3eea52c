--------------------------- MODULE SessionHistory ---------------------------
(***************************************************************************)
(* One session's data and the copies made of it: the backend's dictionary  *)
(* (session/), the cached history (history/manager.py), and the stored     *)
(* conversation (storage/listeners/conversation_listener.py) from which    *)
(* history/conversation_history.py restores the dictionary.  Turns of the  *)
(* same session may overlap: every step ends at an await.  An item is a    *)
(* turn's question, its reply if that has text, or the key its node        *)
(* persists.                                                               *)
(***************************************************************************)
EXTENDS Integers, FiniteSets

CONSTANTS
    Turns,              \* calls of Estrator.run, numbered as they begin
    Keepers,            \* turns whose node calls BaseNode.persist
    Silent,             \* turns whose reply has no text (it asks for tools)
    Restorer,           \* the task of restore_to_session
    MaxBusy,            \* bound: turns and restores under way at a time
    MaxFaults           \* bound: crashes, expiries, failing queries

ASSUME SessionAssumption ==
    /\ Turns \subseteq Nat /\ IsFiniteSet(Turns)
    /\ Keepers \subseteq Turns /\ Silent \subseteq Turns
    /\ Restorer \notin Turns
    /\ MaxBusy \in Nat
    /\ MaxFaults \in Nat

Items == {"question", "reply", "key"} \X Turns
Messages == {"question", "reply"} \X Turns
Keys == {"key"} \X Turns
Question(t) == <<"question", t>>
Reply(t) == <<"reply", t>>
Key(t) == <<"key", t>>

\* What HistoryPersistence makes of an exchange: an empty reply is left out.
Exchange(t) == {Question(t)} \cup (IF t \in Silent THEN {} ELSE {Reply(t)})

VARIABLES
    copying,            \* the backend hands out copies (Redis, Postgres)
    session,            \* the items of the session's dictionary
    cache,              \* the messages under "history:<session id>"
    pc,                 \* turn or restorer -> the call it is about to make
    got,                \* turn or restorer -> what it has read
    seen,               \* turn -> the history its LLM call is given
    filing,             \* turn -> where the listener's task is
    bag,                \* turn -> the keys the listener has read
    number,             \* turn -> its turn_number, 0 before it has one
    filed,              \* the messages in the table
    skipping,           \* the breaker of the events' backend is open
    conversation,       \* [turns, keys]: the conversation's row
    saved,              \* history: the items written and not expired
    before,             \* history: turn -> messages finished when it began
    after,              \* history: turn -> turns filed when it was saved
    exposed,            \* history: items a held copy did not contain
    raced,              \* history: messages whose invalidation was overtaken
    rushed,             \* history: turns upserted over before they counted
    faults              \* history: faults so far

actors == <<pc, got, seen>>
listener == <<filing, bag, number, filed, after, conversation, rushed>>
data == <<session, saved, exposed>>
given == <<copying, skipping>>
vars == <<given, data, cache, raced, actors, listener, before, faults>>

Init ==
    /\ copying \in BOOLEAN
    /\ session = {} /\ cache = {} /\ saved = {}
    /\ pc = [a \in Turns \cup {Restorer} |-> "idle"]
    /\ got = [a \in Turns \cup {Restorer} |-> {}]
    /\ seen = [t \in Turns |-> {}]
    /\ filing = [t \in Turns |-> "none"]
    /\ bag = [t \in Turns |-> {}]
    /\ number = [t \in Turns |-> 0]
    /\ filed = {}
    /\ skipping = FALSE
    /\ conversation = [turns |-> 0, keys |-> {}]
    /\ before = [t \in Turns |-> {}]
    /\ after = [t \in Turns |-> {}]
    /\ exposed = {} /\ raced = {} /\ rushed = {}
    /\ faults = 0

-----------------------------------------------------------------------------

\* The states in which an actor holds a copy it will write back.
Holding == {"saving", "persisting", "restoring", "restore"}

Goes(a, to) == pc' = [pc EXCEPT ![a] = to]

Forgets(a) == got' = [got EXCEPT ![a] = {}]

Busy ==
    {a \in Turns \cup {Restorer} : pc[a] \notin {"idle", "done", "failed"}}
      \cup {t \in Turns : filing[t] \notin {"none", "skipped", "done", "failed"}}

RoomForMore == Cardinality(Busy) < MaxBusy

Fault == faults < MaxFaults /\ faults' = faults + 1

\* a replaces the dictionary; what is new in it is exposed to the others that
\* hold a copy.
Put(a, items) ==
    /\ session' = items
    /\ saved' = saved \cup items
    /\ exposed' = IF \E b \in (Turns \cup {Restorer}) \ {a} : pc[b] \in Holding
                  THEN exposed \cup (items \ session) ELSE exposed

\* What a copy read before the session expired brings back with it.
Revived(t) == (got[t] \ saved) \cap Messages

\* Only a history read before the write and cached after it is stale.
Overtakes(items) ==
    IF \E t \in Turns : pc[t] = "fill" THEN raced \cup items ELSE raced

\* Estrator.run: hydrate reads the bag, then the node is dispatched.
Hydrate(t) ==
    /\ pc[t] = "idle" /\ \A u \in Turns : u < t => pc[u] # "idle"
    /\ RoomForMore
    /\ before' = [before EXCEPT ![t] =
           {m \in Messages \cap saved : filing[m[2]] # "none"}]
    /\ Goes(t, "retrieve")
    /\ UNCHANGED <<given, data, cache, raced, got, seen, listener, faults>>

\* History.context: a cached history is used unless it is missing or empty.
Retrieve(t) ==
    /\ pc[t] = "retrieve"
    /\ seen' = [seen EXCEPT ![t] = cache]
    /\ Goes(t, IF cache = {} THEN "load" ELSE "answer")
    /\ UNCHANGED <<given, data, cache, raced, got, listener, before, faults>>

\* SessionMessageSource.get: what the dictionary has under "messages".
Loaded == session \cap Messages

Load(t) ==
    /\ pc[t] = "load"
    /\ got' = [got EXCEPT ![t] = Loaded]
    /\ Goes(t, "fill")
    /\ UNCHANGED <<given, data, cache, raced, seen, listener, before, faults>>

Fill(t) ==
    /\ pc[t] = "fill"
    /\ cache' = got[t]
    /\ seen' = [seen EXCEPT ![t] = got[t]]
    /\ Forgets(t)
    /\ Goes(t, "answer")
    /\ UNCHANGED <<given, data, raced, listener, before, faults>>

\* The provider answers.
Answer(t) ==
    /\ pc[t] = "answer"
    /\ Goes(t, "save")
    /\ seen' = [seen EXCEPT ![t] = {}]
    /\ before' = [before EXCEPT ![t] = {}]
    /\ UNCHANGED <<given, data, cache, raced, got, listener, faults>>

\* SessionMessageSource.save: get_data ...
ReadToSave(t) ==
    /\ pc[t] = "save" /\ copying
    /\ got' = [got EXCEPT ![t] = session]
    /\ Goes(t, "saving")
    /\ UNCHANGED <<given, data, cache, raced, seen, listener, before, faults>>

\* ... and set_data; the memory backend awaits nothing in between.
Save(t) ==
    /\ \/ pc[t] = "saving" /\ Put(t, got[t] \cup Exchange(t))
       \/ pc[t] = "save" /\ ~copying /\ Put(t, session \cup Exchange(t))
    /\ raced' = Overtakes(Exchange(t)) \cup Revived(t)
    /\ Forgets(t)
    /\ Goes(t, "invalidate")
    /\ UNCHANGED <<given, cache, seen, listener, before, faults>>

\* Mutant: the history is saved and its cached copy left alone.
InvalidateKeeps == UNCHANGED cache

\* History.save: the cached history is deleted.
Invalidated == cache' = {}

\* Mutant: the turn ends without its event.
EmitsNothing(t) == UNCHANGED <<filing, after>>

\* session.updated: on_event starts the listener's task, unless the breaker of
\* the events' backend is open: then notify leaves the event out.
Emits(t) ==
    /\ filing' = [filing EXCEPT ![t] = IF skipping THEN "skipped" ELSE "bag"]
    /\ after' = [after EXCEPT ![t] = {s \in Turns : filing[s] = "done"}]

\* History.save ends, and the turn's last processor with it.
Invalidate(t) ==
    /\ pc[t] = "invalidate"
    /\ Invalidated
    /\ Emits(t)
    /\ Goes(t, IF t \in Keepers THEN "persist" ELSE "done")
    /\ UNCHANGED <<given, data, raced, got, seen, bag, number, filed,
                   conversation, rushed, before, faults>>

\* PersistenceHelper.save, called by the node: get_data ...
ReadToPersist(t) ==
    /\ pc[t] = "persist" /\ copying
    /\ got' = [got EXCEPT ![t] = session]
    /\ Goes(t, "persisting")
    /\ UNCHANGED <<given, data, cache, raced, seen, listener, before, faults>>

\* ... and set_data.
Persist(t) ==
    /\ \/ pc[t] = "persisting" /\ Put(t, got[t] \cup {Key(t)})
       \/ pc[t] = "persist" /\ ~copying /\ Put(t, session \cup {Key(t)})
    /\ raced' = raced \cup Revived(t)
    /\ Forgets(t)
    /\ Goes(t, "done")
    /\ UNCHANGED <<given, cache, seen, listener, before, faults>>

\* Any of these calls raises and ends the turn; when it is the deletion of the
\* cached history, the messages are saved, but no event is emitted.
Fails(t) ==
    /\ pc[t] \notin {"idle", "done", "failed"} /\ Fault
    /\ Forgets(t)
    /\ seen' = [seen EXCEPT ![t] = {}]
    /\ before' = [before EXCEPT ![t] = {}]
    /\ Goes(t, "failed")
    /\ UNCHANGED <<given, data, cache, raced, listener>>

-----------------------------------------------------------------------------
(* ConversationListener._async_write, a task of its own for every turn.    *)

Files(t, to) == filing' = [filing EXCEPT ![t] = to]

\* A bag that cannot be read is taken for none.
ReadBag(t) ==
    /\ filing[t] = "bag"
    /\ \/ bag' = [bag EXCEPT ![t] = session \cap Keys] /\ UNCHANGED faults
       \/ bag' = [bag EXCEPT ![t] = {}] /\ Fault
    /\ Files(t, "upsert")
    /\ UNCHANGED <<given, data, cache, raced, actors, number, filed, after,
                   conversation, rushed, before>>

\* Mutant: a conflict leaves the count as it is.
CountOnce == IF conversation.turns = 0 THEN 1 ELSE conversation.turns

\* Inserted with 1, counted up on conflict.
CountUp == conversation.turns + 1

\* save_conversation, first statement; COALESCE keeps the keys of old.
Upsert(t) ==
    /\ filing[t] = "upsert"
    /\ conversation' = [turns |-> CountUp,
                        keys |-> IF bag[t] = {} THEN conversation.keys ELSE bag[t]]
    /\ rushed' = rushed \cup {s \in Turns : filing[s] = "number"}
    /\ bag' = [bag EXCEPT ![t] = {}]
    /\ Files(t, "number")
    /\ UNCHANGED <<given, data, cache, raced, actors, number, filed, after,
                   before, faults>>

\* save_conversation, second statement: SELECT turn_count.
Number(t) ==
    /\ filing[t] = "number"
    /\ number' = [number EXCEPT ![t] = conversation.turns]
    /\ Files(t, "messages")
    /\ UNCHANGED <<given, data, cache, raced, actors, bag, filed, after,
                   conversation, rushed, before, faults>>

\* save_messages: a statement of its own for each message, the question first.
InsertMessages(t) ==
    /\ \/ /\ filing[t] = "messages"
          /\ filed' = filed \cup {Question(t)}
          /\ Files(t, IF t \in Silent THEN "context" ELSE "reply")
       \/ /\ filing[t] = "reply"
          /\ filed' = filed \cup {Reply(t)}
          /\ Files(t, "context")
    /\ UNCHANGED <<given, data, cache, raced, actors, bag, number, after,
                   conversation, rushed, before, faults>>

\* save_llm_context: what it stores is read by nobody here.
InsertContext(t) ==
    /\ filing[t] = "context"
    /\ Files(t, "done")
    /\ UNCHANGED <<given, data, cache, raced, actors, bag, number, filed, after, conversation, rushed, before, faults>>

\* A failing query is logged and ends the task; nothing tries again.
FilingFails(t) ==
    /\ filing[t] \in {"upsert", "number", "messages", "reply", "context"} /\ Fault
    /\ bag' = [bag EXCEPT ![t] = {}]
    /\ Files(t, "failed")
    /\ UNCHANGED <<given, data, cache, raced, actors, number, filed, after, conversation, rushed, before>>

-----------------------------------------------------------------------------

\* Mutant: the session is restored whatever it holds.
RestorableAlways == TRUE

\* Only a session without messages is restored.
Restorable == session \cap Messages = {}

\* restore_to_session looks at the session; the keys it finds are forgotten.
CheckToRestore ==
    /\ pc[Restorer] = "idle" /\ RoomForMore
    /\ Restorable
    /\ exposed' = exposed \cup (session \cap Keys)
    /\ Goes(Restorer, "restoring")
    /\ UNCHANGED <<given, session, saved, cache, raced, got, seen, listener, before, faults>>

\* The conversation and its rows; without rows there is nothing to restore.
ReadToRestore ==
    /\ pc[Restorer] = "restoring"
    /\ got' = [got EXCEPT ![Restorer] =
           IF filed = {} THEN {} ELSE filed \cup conversation.keys]
    /\ Goes(Restorer, IF filed = {} THEN "idle" ELSE "restore")
    /\ UNCHANGED <<given, data, cache, raced, seen, listener, before, faults>>

\* set_data replaces the dictionary; the cached history is left as it is.
Restore ==
    /\ pc[Restorer] = "restore"
    /\ Put(Restorer, got[Restorer])
    /\ raced' = IF cache = {} THEN Overtakes(got[Restorer] \cap Messages)
                ELSE raced \cup (got[Restorer] \cap Messages)
    /\ Forgets(Restorer)
    /\ Goes(Restorer, "idle")
    /\ UNCHANGED <<given, cache, seen, listener, before, faults>>

-----------------------------------------------------------------------------
(* The surroundings.                                                       *)

\* Other events of this process fail in the backend until its breaker opens;
\* sixty seconds later it is closed again.
Trips ==
    /\ ~skipping /\ Fault
    /\ skipping' = TRUE
    /\ UNCHANGED <<copying, data, cache, raced, actors, listener, before>>

Resets ==
    /\ skipping
    /\ skipping' = FALSE
    /\ UNCHANGED <<copying, data, cache, raced, actors, listener, before, faults>>

\* Redis forgets the session; the cached history stays.
Expire ==
    /\ copying /\ Fault /\ session # {}
    /\ session' = {} /\ saved' = {}
    /\ before' = [t \in Turns |-> {}]
    /\ UNCHANGED <<given, exposed, cache, raced, actors, listener>>

CacheExpires ==
    /\ cache # {} /\ Fault
    /\ cache' = {}
    /\ UNCHANGED <<given, data, raced, actors, listener, before>>

\* The process dies.  With the memory backends its session and cache die too.
Crash ==
    /\ Fault
    /\ pc' = [a \in Turns \cup {Restorer} |->
                IF a = Restorer THEN "idle"
                ELSE IF pc[a] \in {"idle", "done"} THEN pc[a] ELSE "failed"]
    /\ filing' = [t \in Turns |->
                IF filing[t] \in {"none", "skipped", "done"} THEN filing[t] ELSE "failed"]
    /\ skipping' = FALSE
    /\ IF copying THEN UNCHANGED <<session, saved, cache>>
       ELSE session' = {} /\ saved' = {} /\ cache' = {}
    /\ before' = [t \in Turns |-> {}]
    /\ got' = [a \in Turns \cup {Restorer} |-> {}]
    /\ seen' = [t \in Turns |-> {}]
    /\ bag' = [t \in Turns |-> {}]
    /\ UNCHANGED <<copying, exposed, raced, number, filed, after,
                   conversation, rushed>>

Turn(t) ==
    \/ Retrieve(t) \/ Load(t) \/ Fill(t) \/ Answer(t) \/ ReadToSave(t) \/ Save(t)
    \/ Invalidate(t) \/ ReadToPersist(t) \/ Persist(t) \/ Fails(t)

Listen(t) ==
    \/ ReadBag(t) \/ Upsert(t) \/ Number(t) \/ InsertMessages(t)
    \/ InsertContext(t) \/ FilingFails(t)

Next ==
    \/ \E t \in Turns : Hydrate(t) \/ Turn(t) \/ Listen(t)
    \/ CheckToRestore \/ ReadToRestore \/ Restore
    \/ Trips \/ Resets \/ Expire \/ CacheExpires \/ Crash

Spec == Init /\ [][Next]_vars

-----------------------------------------------------------------------------

\* What was written into a session stays there until the session expires,
\* unless it was written while somebody else held a copy to write back (a turn
\* between get_data and set_data, a restore in progress), or it is a key that
\* a restore found in a session without messages: no turn by itself, no
\* restore and no crash loses what another turn has saved.
LossNeedsOverlap == saved \subseteq session \cup exposed

\* The history a turn's LLM call is given has the messages of every turn that
\* had finished when it began, whether it comes from the cache or from the
\* session, unless they were lost, or written while a turn was between loading
\* the history and caching it, or brought back behind the cache: by a restore, or
\* by a turn that held its copy while the session expired.
TurnsSeeFinished ==
    \A t \in Turns :
        pc[t] = "answer" => before[t] \subseteq seen[t] \cup exposed \cup raced

\* The stored conversation keeps its turns apart and in order: two turns share
\* a number only when one was upserted between the other's two statements, and
\* a turn saved after another was filed has the greater number.
TurnsNumbered ==
    \A s, t \in Turns :
        number[t] # 0 =>
            /\ s # t /\ number[s] = number[t] => {s, t} \cap rushed # {}
            /\ s \in after[t] => number[s] < number[t]

\* The stored conversation is complete but for what was reported: once a turn
\* is done and its listener's task too, its question is in the table, and its
\* reply if it has text, unless a statement of its filing failed, the process
\* died, or its event met an open breaker and was left out with a warning.
DoneIsFiled ==
    \A t \in Turns :
        pc[t] = "done" /\ t \notin Busy =>
            Exchange(t) \subseteq filed \/ filing[t] \in {"failed", "skipped"}
=============================================================================
