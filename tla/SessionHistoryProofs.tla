------------------------ MODULE SessionHistoryProofs ------------------------
(***************************************************************************)
(* For any turns, any number of them under way at a time, any faults, and  *)
(* both kinds of backend: what a session loses, what a turn's LLM call is  *)
(* given, and how the stored conversation is numbered and filled.          *)
(***************************************************************************)
EXTENDS SessionHistory, TLAPS

Places ==
    {"idle", "retrieve", "load", "fill", "answer", "save", "saving",
     "invalidate", "persist", "persisting", "done", "failed"}

RestorePlaces == {"idle", "restoring", "restore"}

FilingPlaces ==
    {"none", "skipped", "bag", "upsert", "number", "messages", "reply", "context",
     "done", "failed"}

TypeOK ==
    /\ copying \in BOOLEAN /\ skipping \in BOOLEAN
    /\ session \subseteq Items /\ cache \subseteq Messages /\ saved \subseteq Items
    /\ pc \in [Turns \cup {Restorer} -> Places \cup RestorePlaces]
    /\ \A t \in Turns : pc[t] \in Places
    /\ pc[Restorer] \in RestorePlaces
    /\ got \in [Turns \cup {Restorer} -> SUBSET Items]
    /\ \A t \in Turns : pc[t] = "fill" => got[t] \subseteq Messages
    /\ seen \in [Turns -> SUBSET Messages]
    /\ filing \in [Turns -> FilingPlaces]
    /\ bag \in [Turns -> SUBSET Keys]
    /\ number \in [Turns -> Nat]
    /\ filed \subseteq Messages
    /\ conversation \in [turns : Nat, keys : SUBSET Keys]
    /\ before \in [Turns -> SUBSET Messages]
    /\ after \in [Turns -> SUBSET Turns]
    /\ exposed \subseteq Items /\ raced \subseteq Messages
    /\ rushed \subseteq Turns
    /\ faults \in Nat

-----------------------------------------------------------------------------
(* The strengthening.                                                      *)

\* A turn that will write its copy back has what the session has, and a restore
\* found a session without messages: what came in since is exposed.
CopiesCurrent ==
    /\ session \subseteq saved
    /\ \A t \in Turns :
          pc[t] \in {"saving", "persisting"} => session \subseteq got[t] \cup exposed
    /\ pc[Restorer] # "idle" => session \subseteq exposed

\* The messages in the session of turns whose history was saved to the end.
Finished == {m \in Messages \cap saved : filing[m[2]] # "none"}

Excused == exposed \cup raced

\* A history in the cache has the finished messages; one that is about to be
\* put there has all, those included whose turn will still delete it.
CacheCurrent ==
    /\ cache # {} => Finished \subseteq cache \cup Excused
    /\ \A t \in Turns : pc[t] = "fill" => saved \cap Messages \subseteq got[t] \cup Excused
    /\ \A t \in Turns : before[t] \subseteq Finished

\* The listener's task begins when its turn has deleted the cached history.
FilingFollows ==
    \A t \in Turns :
        /\ pc[t] \in {"persist", "persisting", "done"} => filing[t] # "none"
        /\ pc[t] \in {"idle", "retrieve", "load", "fill", "answer", "save",
                      "saving", "invalidate"} => filing[t] = "none"
        /\ filing[t] \in {"reply", "context", "done"} => Question(t) \in filed
        /\ filing[t] \in {"context", "done"} => Exchange(t) \subseteq filed

\* The number a turn has, or will read if nobody counts up before.
Due(t) == IF filing[t] = "number" THEN conversation.turns ELSE number[t]

\* Numbers are read off a count that only grows.
CountsGrow ==
    \A t \in Turns :
        /\ number[t] <= conversation.turns
        /\ filing[t] \in {"none", "skipped", "bag", "upsert", "number"} => number[t] = 0
        /\ filing[t] \in {"messages", "reply", "context", "done"} => number[t] # 0
        /\ filing[t] = "number" => conversation.turns # 0

\* Two turns are due the same number only when one counted up before the other
\* had read; those filed before a turn was saved are below it.
DueApart ==
    \A s, t \in Turns :
        /\ s # t /\ Due(s) = Due(t) /\ Due(t) # 0 => {s, t} \cap rushed # {}
        /\ s \in after[t] =>
              /\ filing[s] = "done"
              /\ filing[t] = "number" => number[s] < conversation.turns
              /\ number[t] # 0 => number[s] < number[t]

IInv ==
    /\ TypeOK
    /\ LossNeedsOverlap
    /\ CopiesCurrent
    /\ CacheCurrent
    /\ TurnsSeeFinished
    /\ FilingFollows
    /\ CountsGrow
    /\ DueApart

-----------------------------------------------------------------------------

LEMMA ItemFacts ==
    /\ Messages \subseteq Items /\ Keys \subseteq Items
    /\ \A t \in Turns : Question(t) \in Messages /\ Reply(t) \in Messages /\ Key(t) \in Keys
    /\ \A t \in Turns : Exchange(t) \subseteq Messages /\ Question(t) \in Exchange(t)
    /\ \A t \in Turns : \A m \in Exchange(t) : m[2] = t
    /\ \A m \in Messages : m[2] \in Turns
    /\ Messages \cap Keys = {}
    /\ Items = Messages \cup Keys
  BY DEF Items, Messages, Keys, Question, Reply, Key, Exchange

LEMMA InitIInv == Init => IInv
<1> SUFFICES ASSUME Init PROVE IInv
    OBVIOUS
<1> USE SessionAssumption
<1>1. TypeOK
      BY DEF Init, TypeOK, Places, RestorePlaces, FilingPlaces
<1>2. LossNeedsOverlap /\ CopiesCurrent /\ CacheCurrent /\ TurnsSeeFinished
      BY DEF Init, LossNeedsOverlap, CopiesCurrent, CacheCurrent, TurnsSeeFinished,
             Finished
<1>3. FilingFollows /\ CountsGrow /\ DueApart
      BY DEF Init, FilingFollows, CountsGrow, DueApart, Due
<1> QED BY <1>1, <1>2, <1>3 DEF IInv

\* Every variable keeps its type.
LEMMA TypeStep == TypeOK /\ [Next]_vars => TypeOK'
<1> SUFFICES ASSUME TypeOK, [Next]_vars PROVE TypeOK'
    OBVIOUS
<1> USE SessionAssumption, ItemFacts
<1> USE DEF TypeOK, Places, RestorePlaces, FilingPlaces, Goes, Forgets, Fault,
            data, actors, listener, given
<1>1. ASSUME NEW t \in Turns, Hydrate(t) PROVE TypeOK'
  <2>1. {m \in Messages \cap saved : filing[m[2]] # "none"} \subseteq Messages
        OBVIOUS
  <2> QED BY <1>1, <2>1 DEF Hydrate
<1>2. ASSUME NEW t \in Turns, Retrieve(t) PROVE TypeOK'
      BY <1>2 DEF Retrieve
<1>3. ASSUME NEW t \in Turns, Load(t) PROVE TypeOK'
      BY <1>3 DEF Load, Loaded
<1>4. ASSUME NEW t \in Turns, Fill(t) PROVE TypeOK'
      BY <1>4 DEF Fill
<1>5. ASSUME NEW t \in Turns, Answer(t) PROVE TypeOK'
      BY <1>5 DEF Answer
<1>6. ASSUME NEW t \in Turns, ReadToSave(t) \/ ReadToPersist(t) PROVE TypeOK'
  <2>1. CASE ReadToSave(t)
        BY <2>1 DEF ReadToSave
  <2>2. CASE ReadToPersist(t)
        BY <2>2 DEF ReadToPersist
  <2> QED BY <1>6, <2>1, <2>2
<1>7. ASSUME NEW t \in Turns, Save(t) PROVE TypeOK'
  <2>1. /\ session' \subseteq Items /\ saved' \subseteq Items /\ exposed' \subseteq Items
        /\ raced' \subseteq Messages
        BY <1>7 DEF Save, Put, Overtakes, Revived
  <2> QED BY <1>7, <2>1 DEF Save
<1>8. ASSUME NEW t \in Turns, Invalidate(t) PROVE TypeOK'
      BY <1>8 DEF Invalidate, Invalidated, Emits
<1>9. ASSUME NEW t \in Turns, Persist(t) PROVE TypeOK'
  <2>1. /\ session' \subseteq Items /\ saved' \subseteq Items /\ exposed' \subseteq Items
        /\ raced' \subseteq Messages
        BY <1>9 DEF Persist, Put, Revived
  <2> QED BY <1>9, <2>1 DEF Persist
<1>10. ASSUME NEW t \in Turns, Fails(t) PROVE TypeOK'
       BY <1>10 DEF Fails
<1>11. ASSUME NEW t \in Turns, Listen(t) PROVE TypeOK'
  <2>1. CASE ReadBag(t) BY <2>1 DEF ReadBag, Files
  <2>2. CASE Upsert(t)
    <3>1. conversation' \in [turns : Nat, keys : SUBSET Keys]
          BY <2>2 DEF Upsert, CountUp
    <3>2. bag' \in [Turns -> SUBSET Keys] /\ rushed' \subseteq Turns
          BY <2>2 DEF Upsert
    <3> QED BY <2>2, <3>1, <3>2 DEF Upsert, Files
  <2>3. CASE Number(t) BY <2>3 DEF Number, Files
  <2>4. CASE InsertMessages(t)
    <3>1. filed' \subseteq Messages
          BY <2>4 DEF InsertMessages
    <3>2. filing' \in [Turns -> FilingPlaces]
          BY <2>4 DEF InsertMessages, Files
    <3> QED BY <2>4, <3>1, <3>2 DEF InsertMessages
  <2>5. CASE InsertContext(t) BY <2>5 DEF InsertContext, Files
  <2>6. CASE FilingFails(t) BY <2>6 DEF FilingFails, Files
  <2> QED BY <1>11, <2>1, <2>2, <2>3, <2>4, <2>5, <2>6 DEF Listen
<1>12. CASE CheckToRestore
       BY <1>12 DEF CheckToRestore
<1>13. CASE ReadToRestore
  <2>1. filed \cup conversation.keys \subseteq Items
        OBVIOUS
  <2> QED BY <1>13, <2>1 DEF ReadToRestore
<1>14. CASE Restore
  <2>1. /\ session' \subseteq Items /\ saved' \subseteq Items /\ exposed' \subseteq Items
        /\ raced' \subseteq Messages
        BY <1>14 DEF Restore, Put, Overtakes
  <2> QED BY <1>14, <2>1 DEF Restore
<1>15. CASE Expire \/ CacheExpires
  <2>1. CASE Expire
    <3>1. before' \in [Turns -> SUBSET Messages] /\ session' = {} /\ saved' = {} /\ faults' \in Nat
          BY <2>1 DEF Expire
    <3> QED BY <2>1, <3>1 DEF Expire
  <2>2. CASE CacheExpires BY <2>2 DEF CacheExpires
  <2> QED BY <1>15, <2>1, <2>2
<1>16. CASE Crash
  <2>1. session' \subseteq Items /\ saved' \subseteq Items /\ cache' \subseteq Messages
        BY <1>16 DEF Crash
  <2>2. /\ pc' \in [Turns \cup {Restorer} -> Places \cup RestorePlaces]
        /\ \A t \in Turns : pc'[t] \in {"idle", "done", "failed"}
        /\ pc'[Restorer] = "idle"
        BY <1>16 DEF Crash
  <2>3. /\ filing' \in [Turns -> FilingPlaces] /\ skipping' \in BOOLEAN
        BY <1>16 DEF Crash
  <2>4. /\ got' \in [Turns \cup {Restorer} -> SUBSET Items]
        /\ seen' \in [Turns -> SUBSET Messages] /\ bag' \in [Turns -> SUBSET Keys]
        /\ before' \in [Turns -> SUBSET Messages] /\ faults' \in Nat
        BY <1>16 DEF Crash
  <2>5. UNCHANGED <<copying, exposed, raced, number, filed, after, conversation, rushed>>
        BY <1>16 DEF Crash
  <2> QED BY <2>1, <2>2, <2>3, <2>4, <2>5
<1>17. CASE Trips \/ Resets
  <2>1. skipping' \in BOOLEAN
        BY <1>17, Zenon DEF Trips, Resets
  <2>3. faults' \in Nat
        BY <1>17 DEF Trips, Resets
  <2>2. UNCHANGED <<copying, data, cache, raced, actors, listener, before>>
        BY <1>17 DEF Trips, Resets
  <2> QED BY <2>1, <2>2, <2>3
<1>18. CASE UNCHANGED vars
       BY <1>18 DEF vars
<1> QED BY <1>1, <1>2, <1>3, <1>4, <1>5, <1>6, <1>7, <1>8, <1>9, <1>10, <1>11,
           <1>12, <1>13, <1>14, <1>15, <1>16, <1>17, <1>18 DEF Next, Turn

-----------------------------------------------------------------------------
(* What a session loses.                                                   *)

\* Who writes a copy that has what the session has loses nothing, and what he
\* adds is exposed when somebody else holds a copy.
LEMMA PutLosesNothing ==
    ASSUME LossNeedsOverlap,
           NEW a \in Turns \cup {Restorer}, NEW items, Put(a, items),
           session \subseteq items \cup exposed
    PROVE  /\ LossNeedsOverlap'
           /\ session' = items /\ exposed \subseteq exposed'
           /\ \A b \in (Turns \cup {Restorer}) \ {a} :
                 pc[b] \in Holding => session' \subseteq session \cup exposed'
  BY DEF Put, LossNeedsOverlap

LEMMA CopiesStep ==
    ASSUME TypeOK, LossNeedsOverlap, CopiesCurrent, [Next]_vars
    PROVE  LossNeedsOverlap' /\ CopiesCurrent'
<1> USE SessionAssumption, ItemFacts
<1> USE DEF TypeOK, Goes, Forgets, data, actors, listener, Holding, Places, RestorePlaces
<1>1. ASSUME NEW t \in Turns,
             \/ Hydrate(t) \/ Retrieve(t) \/ Load(t) \/ Fill(t) \/ Answer(t)
             \/ Invalidate(t) \/ Fails(t)
      PROVE  LossNeedsOverlap' /\ CopiesCurrent'
  <2>1. /\ UNCHANGED data
        /\ \E p \in Places \ {"saving", "persisting"} : Goes(t, p)
        BY <1>1 DEF Hydrate, Retrieve, Load, Fill, Answer, Invalidate, Fails
  <2>2. \A b \in (Turns \cup {Restorer}) \ {t} : got'[b] = got[b]
        BY <1>1 DEF Hydrate, Retrieve, Load, Fill, Answer, Invalidate, Fails
  <2> QED BY <2>1, <2>2 DEF LossNeedsOverlap, CopiesCurrent
<1>2. ASSUME NEW t \in Turns, ReadToSave(t) \/ ReadToPersist(t)
      PROVE  LossNeedsOverlap' /\ CopiesCurrent'
  <2>1. /\ UNCHANGED data
        /\ got' = [got EXCEPT ![t] = session]
        /\ \E p \in {"saving", "persisting"} : pc' = [pc EXCEPT ![t] = p]
        BY <1>2 DEF ReadToSave, ReadToPersist
  <2>2. LossNeedsOverlap'
        BY <2>1 DEF LossNeedsOverlap
  <2>3. /\ pc'[Restorer] = pc[Restorer] /\ session \subseteq got'[t]
        /\ \A u \in Turns \ {t} : pc'[u] = pc[u] /\ got'[u] = got[u]
        BY <2>1
  <2> QED BY <2>1, <2>2, <2>3 DEF CopiesCurrent
<1>3. ASSUME NEW t \in Turns, Save(t) \/ Persist(t)
      PROVE  LossNeedsOverlap' /\ CopiesCurrent'
  <2>1. PICK items : Put(t, items) /\ session \subseteq items \cup exposed
        BY <1>3 DEF Save, Persist, CopiesCurrent
  <2>2. /\ \E p \in {"invalidate", "done"} : Goes(t, p)
        /\ Forgets(t)
        BY <1>3 DEF Save, Persist
  <2>3. /\ LossNeedsOverlap'
        /\ session' = items /\ exposed \subseteq exposed'
        /\ \A b \in (Turns \cup {Restorer}) \ {t} :
              pc[b] \in Holding => session' \subseteq session \cup exposed'
        BY <2>1, PutLosesNothing
  <2>4. ASSUME NEW b \in Turns, pc'[b] \in {"saving", "persisting"}
        PROVE  session' \subseteq got'[b] \cup exposed'
    <3>1. b # t /\ pc[b] = pc'[b] /\ got'[b] = got[b]
          BY <2>2, <2>4
    <3> QED BY <2>3, <2>4, <3>1 DEF CopiesCurrent
  <2>5. ASSUME pc'[Restorer] # "idle" PROVE session' \subseteq exposed'
    <3>1. pc[Restorer] = pc'[Restorer] /\ pc[Restorer] \in Holding
          BY <2>2, <2>5
    <3> QED BY <2>3, <2>5, <3>1 DEF CopiesCurrent
  <2>6. session' \subseteq saved'
        BY <2>1 DEF Put
  <2> QED BY <2>3, <2>4, <2>5, <2>6 DEF CopiesCurrent
<1>4. CASE Restore
  <2>1. Put(Restorer, got[Restorer]) /\ session \subseteq got[Restorer] \cup exposed
        BY <1>4 DEF Restore, CopiesCurrent
  <2>2. /\ LossNeedsOverlap'
        /\ exposed \subseteq exposed'
        /\ \A b \in (Turns \cup {Restorer}) \ {Restorer} :
              pc[b] \in Holding => session' \subseteq session \cup exposed'
        BY <2>1, PutLosesNothing
  <2>3. session' \subseteq saved'
        BY <2>1 DEF Put
  <2> QED BY <1>4, <2>2, <2>3 DEF CopiesCurrent, Restore
<1>5. ASSUME NEW t \in Turns, Listen(t)
      PROVE  LossNeedsOverlap' /\ CopiesCurrent'
  <2>1. UNCHANGED <<data, pc, got>>
        BY <1>5 DEF Listen, ReadBag, Upsert, Number, InsertMessages,
                    InsertContext, FilingFails
  <2> QED BY <2>1 DEF LossNeedsOverlap, CopiesCurrent
<1>6. CASE CheckToRestore
      BY <1>6 DEF CheckToRestore, Restorable, LossNeedsOverlap, CopiesCurrent
<1>7. CASE ReadToRestore
      BY <1>7 DEF ReadToRestore, LossNeedsOverlap, CopiesCurrent
<1>8. CASE Expire \/ Crash
  <2>1. CASE Expire
        BY <2>1 DEF Expire, LossNeedsOverlap, CopiesCurrent
  <2>2. CASE Crash
    <3>1. /\ \A t \in Turns : pc'[t] \in {"idle", "done", "failed"}
          /\ pc'[Restorer] = "idle"
      <4>1. pc' = [a \in Turns \cup {Restorer} |->
                      IF a = Restorer THEN "idle"
                      ELSE IF pc[a] \in {"idle", "done"} THEN pc[a] ELSE "failed"]
            BY <2>2 DEF Crash
      <4> QED BY <4>1
    <3>2. \/ UNCHANGED <<session, saved, exposed>>
          \/ session' = {} /\ saved' = {}
      <4>1. CASE copying BY <2>2, <4>1 DEF Crash
      <4>2. CASE ~copying BY <2>2, <4>2 DEF Crash
      <4> QED BY <4>1, <4>2
    <3> QED BY <3>1, <3>2 DEF LossNeedsOverlap, CopiesCurrent
  <2> QED BY <1>8, <2>1, <2>2
<1>9. CASE CacheExpires \/ Trips \/ Resets \/ UNCHANGED vars
      BY <1>9 DEF CacheExpires, Trips, Resets, vars, LossNeedsOverlap, CopiesCurrent
<1> QED BY <1>1, <1>2, <1>3, <1>4, <1>5, <1>6, <1>7, <1>8, <1>9 DEF Next, Turn

-----------------------------------------------------------------------------
(* What a turn is given.                                                   *)

\* A write of new messages behind the cache, or over the history of a turn that
\* is about to cache it, is in raced.
LEMMA CacheStep ==
    ASSUME IInv, [Next]_vars
    PROVE  CacheCurrent' /\ TurnsSeeFinished'
<1> USE SessionAssumption, ItemFacts
<1> USE DEF IInv, TypeOK, Goes, Forgets, data, actors, listener, Excused
<1>1. ASSUME NEW t \in Turns, Hydrate(t) PROVE CacheCurrent' /\ TurnsSeeFinished'
  <2>1. before' = [before EXCEPT ![t] = Finished] /\ Finished' = Finished
        BY <1>1 DEF Hydrate, Finished
  <2> QED BY <1>1, <2>1 DEF Hydrate, CacheCurrent, TurnsSeeFinished
<1>2. ASSUME NEW t \in Turns, Retrieve(t) PROVE CacheCurrent' /\ TurnsSeeFinished'
  <2>1. Finished' = Finished
        BY <1>2 DEF Retrieve, Finished
  <2> QED BY <1>2, <2>1 DEF Retrieve, CacheCurrent, TurnsSeeFinished
<1>3. ASSUME NEW t \in Turns, Load(t) PROVE CacheCurrent' /\ TurnsSeeFinished'
  <2>1. Finished' = Finished
        BY <1>3 DEF Load, Finished
  <2>2. saved \cap Messages \subseteq Loaded \cup exposed
        BY DEF LossNeedsOverlap, Loaded
  <2> QED BY <1>3, <2>1, <2>2 DEF Load, CacheCurrent, TurnsSeeFinished
<1>4. ASSUME NEW t \in Turns, Fill(t) PROVE CacheCurrent' /\ TurnsSeeFinished'
  <2>1. Finished' = Finished /\ Finished \subseteq saved \cap Messages
        BY <1>4 DEF Fill, Finished
  <2>2. Finished \subseteq got[t] \cup Excused
        BY <1>4, <2>1 DEF Fill, CacheCurrent
  <2> QED BY <1>4, <2>1, <2>2 DEF Fill, CacheCurrent, TurnsSeeFinished
<1>5. ASSUME NEW t \in Turns,
             Answer(t) \/ ReadToSave(t) \/ ReadToPersist(t) \/ Fails(t)
      PROVE  CacheCurrent' /\ TurnsSeeFinished'
  <2>1. Finished' = Finished
        BY <1>5 DEF Answer, ReadToSave, ReadToPersist, Fails, Finished
  <2> QED BY <1>5, <2>1 DEF Answer, ReadToSave, ReadToPersist, Fails, Fault,
                            CacheCurrent, TurnsSeeFinished
<1>6. ASSUME NEW t \in Turns, Save(t) PROVE CacheCurrent' /\ TurnsSeeFinished'
  <2>1. /\ filing[t] = "none"
        /\ saved \subseteq saved' /\ exposed \subseteq exposed' /\ raced \subseteq raced'
        /\ UNCHANGED <<filing, cache, before, seen>>
        BY <1>6 DEF Save, Put, Overtakes, FilingFollows
  <2>2. saved' \cap Messages \subseteq saved \cup Exchange(t) \cup raced'
        BY <1>6, <2>1 DEF Save, Put, Revived, CopiesCurrent
  <2>3. Finished \subseteq Finished' /\ Finished' \subseteq Finished \cup raced'
        BY <2>1, <2>2 DEF Finished
  <2>4. ASSUME NEW u \in Turns, pc'[u] = "fill"
        PROVE  saved' \cap Messages \subseteq got'[u] \cup Excused'
    <3>1. u # t /\ pc[u] = "fill" /\ got'[u] = got[u] /\ Exchange(t) \subseteq raced'
          BY <1>6, <2>4 DEF Save, Overtakes
    <3> QED BY <2>1, <2>2, <3>1 DEF CacheCurrent
  <2>5. CacheCurrent'
        BY <2>1, <2>3, <2>4 DEF CacheCurrent
  <2> QED BY <1>6, <2>1, <2>5 DEF Save, TurnsSeeFinished
<1>7. ASSUME NEW t \in Turns, Persist(t) PROVE CacheCurrent' /\ TurnsSeeFinished'
  <2>1. /\ saved \subseteq saved' /\ exposed \subseteq exposed' /\ raced \subseteq raced'
        /\ UNCHANGED <<filing, cache, before, seen>>
        BY <1>7 DEF Persist, Put
  <2>2. saved' \cap Messages \subseteq saved \cup raced'
        BY <1>7, <2>1 DEF Persist, Put, Revived, CopiesCurrent
  <2>3. Finished \subseteq Finished' /\ Finished' \subseteq Finished \cup raced'
        BY <2>1, <2>2 DEF Finished
  <2>4. ASSUME NEW u \in Turns, pc'[u] = "fill"
        PROVE  saved' \cap Messages \subseteq got'[u] \cup Excused'
    <3>1. u # t /\ pc[u] = "fill" /\ got'[u] = got[u]
          BY <1>7, <2>4 DEF Persist
    <3> QED BY <2>1, <2>2, <3>1 DEF CacheCurrent
  <2>5. CacheCurrent'
        BY <2>1, <2>3, <2>4 DEF CacheCurrent
  <2> QED BY <1>7, <2>1, <2>5 DEF Persist, TurnsSeeFinished
<1>8. ASSUME NEW t \in Turns, Invalidate(t) PROVE CacheCurrent' /\ TurnsSeeFinished'
  <2>1. Finished \subseteq Finished' /\ cache' = {}
        BY <1>8 DEF Invalidate, Invalidated, Emits, Finished
  <2> QED BY <1>8, <2>1 DEF Invalidate, CacheCurrent, TurnsSeeFinished
<1>9. ASSUME NEW t \in Turns, Listen(t) PROVE CacheCurrent' /\ TurnsSeeFinished'
  <2>1. /\ UNCHANGED <<data, cache, raced, pc, got, seen, before>>
        /\ filing[t] # "none"
        /\ \E f \in FilingPlaces \ {"none"} : filing' = [filing EXCEPT ![t] = f]
        BY <1>9 DEF Listen, ReadBag, Upsert, Number, InsertMessages, InsertContext,
                    FilingFails, Files, FilingPlaces
  <2>2. Finished' = Finished
        BY <2>1 DEF Finished
  <2> QED BY <2>1, <2>2 DEF CacheCurrent, TurnsSeeFinished
<1>10. CASE CheckToRestore \/ ReadToRestore
  <2>1. Finished' = Finished /\ exposed \subseteq exposed'
        BY <1>10 DEF CheckToRestore, ReadToRestore, Finished
  <2> QED BY <1>10, <2>1 DEF CheckToRestore, ReadToRestore, CacheCurrent, TurnsSeeFinished
<1>11. CASE Restore
  <2>1. /\ saved \subseteq saved' /\ exposed \subseteq exposed' /\ raced \subseteq raced'
        /\ saved' = saved \cup got[Restorer]
        /\ UNCHANGED <<filing, cache, before, seen>>
        /\ \A u \in Turns : pc'[u] = pc[u] /\ got'[u] = got[u]
        BY <1>11 DEF Restore, Put, Overtakes
  <2>2. cache # {} => saved' \cap Messages \subseteq saved \cup raced'
        BY <1>11, <2>1 DEF Restore
  <2>3. ASSUME NEW u \in Turns, pc[u] = "fill"
        PROVE  saved' \cap Messages \subseteq saved \cup raced'
        BY <1>11, <2>1, <2>2, <2>3 DEF Restore, Overtakes
  <2>4. Finished \subseteq Finished'
        BY <2>1 DEF Finished
  <2>5. cache # {} => Finished' \subseteq Finished \cup raced'
        BY <2>1, <2>2 DEF Finished
  <2>6. CacheCurrent'
        BY <2>1, <2>3, <2>4, <2>5 DEF CacheCurrent
  <2> QED BY <2>1, <2>6 DEF TurnsSeeFinished
<1>12. CASE Expire
       BY <1>12 DEF Expire, CacheCurrent, TurnsSeeFinished, Finished
<1>13. CASE CacheExpires \/ Trips \/ Resets
  <2>1. Finished' = Finished
        BY <1>13 DEF CacheExpires, Trips, Resets, Finished
  <2> QED BY <1>13, <2>1 DEF CacheExpires, Trips, Resets, CacheCurrent, TurnsSeeFinished
<1>14. CASE Crash
  <2>1. cache' # {} => Finished' = Finished /\ cache' = cache
        BY <1>14 DEF Crash, Finished, FilingPlaces
  <2> QED BY <1>14, <2>1 DEF Crash, CacheCurrent, TurnsSeeFinished
<1>15. CASE UNCHANGED vars
  <2>1. Finished' = Finished
        BY <1>15 DEF vars, Finished
  <2> QED BY <1>15, <2>1 DEF vars, CacheCurrent, TurnsSeeFinished
<1> QED BY <1>1, <1>2, <1>3, <1>4, <1>5, <1>6, <1>7, <1>8, <1>9, <1>10, <1>11,
           <1>12, <1>13, <1>14, <1>15 DEF Next, Turn

-----------------------------------------------------------------------------
(* What is stored.                                                         *)

LEMMA FilingStep ==
    ASSUME TypeOK, FilingFollows, [Next]_vars
    PROVE  FilingFollows'
<1> USE SessionAssumption
<1> USE DEF TypeOK, Goes, Forgets, data, actors, listener, FilingPlaces, Places,
            RestorePlaces
<1>1. ASSUME NEW t \in Turns,
             \/ Hydrate(t) \/ Retrieve(t) \/ Load(t) \/ Fill(t) \/ Answer(t)
             \/ ReadToSave(t) \/ Save(t) \/ ReadToPersist(t) \/ Persist(t) \/ Fails(t)
      PROVE  FilingFollows'
      BY <1>1 DEF Hydrate, Retrieve, Load, Fill, Answer, ReadToSave, Save,
                  ReadToPersist, Persist, Fails, FilingFollows
<1>2. ASSUME NEW t \in Turns, Invalidate(t) PROVE FilingFollows'
      BY <1>2 DEF Invalidate, Emits, FilingFollows
<1>3. ASSUME NEW t \in Turns, Listen(t) PROVE FilingFollows'
  <2> USE DEF FilingFollows, Files
  <2>1. CASE ReadBag(t) BY <2>1 DEF ReadBag
  <2>2. CASE Upsert(t) BY <2>2 DEF Upsert
  <2>3. CASE Number(t) BY <2>3 DEF Number
  <2>4. CASE InsertMessages(t)
    <3>1. filed \subseteq filed' /\ UNCHANGED pc
          BY <2>4 DEF InsertMessages
    <3>2. filing[t] \in {"messages", "reply"} /\ \A u \in Turns \ {t} : filing'[u] = filing[u]
          BY <2>4 DEF InsertMessages
    <3>3. filing'[t] \in {"reply", "context"}
          BY <2>4 DEF InsertMessages
    <3>4. Question(t) \in filed' /\ (filing'[t] = "context" => Exchange(t) \subseteq filed')
      <4>1. CASE filing[t] = "messages"
            BY <2>4, <4>1 DEF InsertMessages, Exchange
      <4>2. CASE filing[t] = "reply"
            BY <2>4, <4>2 DEF InsertMessages, Exchange
      <4> QED BY <3>2, <4>1, <4>2
    <3> QED BY <3>1, <3>2, <3>3, <3>4
  <2>5. CASE InsertContext(t) BY <2>5 DEF InsertContext
  <2>6. CASE FilingFails(t) BY <2>6 DEF FilingFails
  <2> QED BY <1>3, <2>1, <2>2, <2>3, <2>4, <2>5, <2>6 DEF Listen
<1>4. CASE CheckToRestore \/ ReadToRestore \/ Restore
      BY <1>4 DEF CheckToRestore, ReadToRestore, Restore, FilingFollows
<1>5. CASE Crash
      BY <1>5 DEF Crash, FilingFollows
<1>6. CASE Expire \/ CacheExpires \/ Trips \/ Resets \/ UNCHANGED vars
      BY <1>6 DEF Expire, CacheExpires, Trips, Resets, vars, FilingFollows
<1> QED BY <1>1, <1>2, <1>3, <1>4, <1>5, <1>6 DEF Next, Turn

\* The steps that change nothing the numbers depend on.
LEMMA NumbersUntouched ==
    ASSUME NEW t \in Turns,
           \/ Hydrate(t) \/ Retrieve(t) \/ Load(t) \/ Fill(t) \/ Answer(t)
           \/ ReadToSave(t) \/ Save(t) \/ ReadToPersist(t) \/ Persist(t) \/ Fails(t)
           \/ CheckToRestore \/ ReadToRestore \/ Restore \/ Expire \/ CacheExpires
           \/ Trips \/ Resets
           \/ UNCHANGED vars
    PROVE  UNCHANGED <<filing, number, conversation, after, rushed>>
  BY DEF Hydrate, Retrieve, Load, Fill, Answer, ReadToSave, Save, ReadToPersist,
         Persist, Fails, CheckToRestore, ReadToRestore, Restore, Expire,
         CacheExpires, Trips, Resets, vars, data, actors, listener

LEMMA NumberStep ==
    ASSUME TypeOK, FilingFollows, CountsGrow, DueApart, [Next]_vars
    PROVE  CountsGrow' /\ DueApart'
<1> USE DEF TypeOK, CountsGrow, DueApart, Due, Files, FilingPlaces
<1>1. ASSUME NEW t \in Turns, Invalidate(t) PROVE CountsGrow' /\ DueApart'
  <2>1. /\ filing[t] = "none"
        /\ UNCHANGED <<number, conversation, rushed>>
        /\ filing' = [filing EXCEPT ![t] = IF skipping THEN "skipped" ELSE "bag"]
        /\ after' = [after EXCEPT ![t] = {s \in Turns : filing[s] = "done"}]
        BY <1>1 DEF Invalidate, Emits, FilingFollows
  <2> QED BY <2>1
<1>2. ASSUME NEW t \in Turns, ReadBag(t) PROVE CountsGrow' /\ DueApart'
      BY <1>2 DEF ReadBag, data, actors
<1>3. ASSUME NEW t \in Turns, Upsert(t) PROVE CountsGrow' /\ DueApart'
  <2>1. /\ filing[t] = "upsert" /\ number[t] = 0
        /\ filing' = [filing EXCEPT ![t] = "number"]
        /\ conversation'.turns = conversation.turns + 1
        /\ rushed' = rushed \cup {s \in Turns : filing[s] = "number"}
        /\ UNCHANGED <<number, after>>
        BY <1>3 DEF Upsert, CountUp
  <2> QED BY <2>1
<1>4. ASSUME NEW t \in Turns, Number(t) PROVE CountsGrow' /\ DueApart'
  <2>1. /\ filing[t] = "number"
        /\ filing' = [filing EXCEPT ![t] = "messages"]
        /\ number' = [number EXCEPT ![t] = conversation.turns]
        /\ UNCHANGED <<conversation, rushed, after>>
        BY <1>4 DEF Number
  <2> QED BY <2>1
<1>5. ASSUME NEW t \in Turns,
             InsertMessages(t) \/ InsertContext(t) \/ FilingFails(t)
      PROVE  CountsGrow' /\ DueApart'
      BY <1>5 DEF InsertMessages, InsertContext, FilingFails
<1>6. CASE Crash
      BY <1>6 DEF Crash
<1>7. ASSUME UNCHANGED <<filing, number, conversation, after, rushed>>
      PROVE  CountsGrow' /\ DueApart'
      BY <1>7
<1> QED BY <1>1, <1>2, <1>3, <1>4, <1>5, <1>6, <1>7, NumbersUntouched
        DEF Next, Turn, Listen

-----------------------------------------------------------------------------

LEMMA NextIInv == IInv /\ [Next]_vars => IInv'
  BY TypeStep, CopiesStep, CacheStep, FilingStep, NumberStep DEF IInv

\* The inductive invariant holds in every behaviour.
THEOREM Invariance == Spec => []IInv
  BY InitIInv, NextIInv, PTL DEF Spec

\* The variables of the session, its copies and its conversation keep their
\* types.
THEOREM TypeCorrect == Spec => []TypeOK
  BY Invariance, PTL DEF IInv

\* For any turns, however many overlap, and any faults: what was written into
\* a session is lost only to somebody who held a copy, or a key to a restore.
THEOREM LossesExplained == Spec => []LossNeedsOverlap
  BY Invariance, PTL DEF IInv

\* A turn's LLM call is given the turns that had finished when it began, but
\* for what overlapped with the caching of the history or came back behind it.
THEOREM HistoryGiven == Spec => []TurnsSeeFinished
  BY Invariance, PTL DEF IInv

\* Two turns share a number only when one counted up between the other's two
\* statements; turns saved in order are numbered in order.
THEOREM NumbersApart == Spec => []TurnsNumbered
<1>1. IInv => TurnsNumbered
      BY DEF IInv, TurnsNumbered, DueApart, Due, CountsGrow
<1> QED BY <1>1, Invariance, PTL

\* A turn that is done is in the conversation with its question and its reply,
\* or its listener's task failed, or an open breaker kept its event back.
THEOREM DoneFiled == Spec => []DoneIsFiled
<1>1. IInv => DoneIsFiled
      BY DEF IInv, TypeOK, FilingPlaces, DoneIsFiled, FilingFollows, Busy
<1> QED BY <1>1, Invariance, PTL

=============================================================================
