-------------------------- MODULE KeyRotationProofs --------------------------
(***************************************************************************)
(* For any tasks, periods and bounds: the keys that tokens depend on are   *)
(* lost only in the ways LossExplained names.  Numbered, that is issued in *)
(* order, keys let the proof tell a row that is being replaced from the    *)
(* one replacing it.                                                       *)
(***************************************************************************)
EXTENDS KeyRotation, TLAPS

IsSaving(t) == pc[t] \in {"deleting", "inserting"}

\* A dictionary the code can hold: empty, or with a current key; every key in
\* it has been made.
Formed(keys) ==
    /\ keys = NoKeys \/ keys.current # 0
    /\ keys.current <= made
    /\ \A k \in keys.archived : k <= made

\* Holds whatever goes wrong.
Sound ==
    /\ Formed(cache)
    /\ \A r \in table : Formed(r) /\ r # NoKeys
    /\ \A t \in Tasks : Formed(got[t])
    /\ \A t \in Tasks : IsSaving(t) =>
          /\ Formed(pending[t])
          /\ pending[t].current # 0
          /\ issued[pending[t].current] = now
    /\ \A k \in KeyIds : handed[k] # Never =>
          k <= made /\ handed[k] < issued[k] + RotationDays

\* Holds while nothing has gone wrong: one save at a time, of what is cached,
\* over older rows; and loads that will fill an empty cache with what is stored.
Clean ==
    /\ \A t, u \in Tasks : IsSaving(t) /\ IsSaving(u) => t = u
    /\ \A t \in Tasks : IsSaving(t) =>
          /\ pending[t] = cache
          /\ \A r \in table : r.current < cache.current
          /\ \A u \in Tasks : pc[u] = "read" => got[u].current < cache.current
    /\ \A t \in Tasks : pc[t] = "inserting" => table = {}
    /\ \A q, r \in table : q = r
    /\ ~Saving => cache \in {NoKeys} \cup Stored
    /\ \A t \in Tasks : pc[t] = "read" /\ cache = NoKeys => got[t] \in Stored
    /\ SignedVerifies

IInv == TypeOK /\ Sound /\ (blame = {} => Clean)

\* What the code sets while it has keys in hand, typed.
InHand ==
    /\ cache \in KeyDicts
    /\ made \in 0 .. MaxKeys
    /\ issued \in [KeyIds -> 0 .. MaxTime]
    /\ pc \in [Tasks -> {"idle", "reading", "read", "deleting", "inserting"}]
    /\ op \in [Tasks -> {"get", "rotate", "verify"}]
    /\ got \in [Tasks -> KeyDicts]
    /\ pending \in [Tasks -> KeyDicts]
    /\ handed \in [KeyIds -> {Never} \cup 0 .. MaxTime]

LEMMA InitIInv == Init => IInv
  BY RotationAssumption
  DEF Init, IInv, TypeOK, Sound, Clean, Formed, IsSaving, Saving, SignedVerifies, Live,
      Stored, NoKeys, KeyDicts, KeyIds, Never

\* A task that starts a query, or returns, holds no keys; the others keep theirs.
LEMMA WaitFacts ==
    ASSUME TypeOK, NEW t \in Tasks, NEW query \in {"idle", "reading"},
           NEW method \in {"get", "rotate", "verify"}, Wait(t, query, method)
    PROVE  /\ pc' \in [Tasks -> {"idle", "reading", "read", "deleting", "inserting"}]
           /\ op' \in [Tasks -> {"get", "rotate", "verify"}]
           /\ got' \in [Tasks -> KeyDicts]
           /\ pending' \in [Tasks -> KeyDicts]
           /\ pc'[t] = query /\ got'[t] = NoKeys
           /\ \A u \in Tasks \ {t} :
                 pc'[u] = pc[u] /\ got'[u] = got[u] /\ pending'[u] = pending[u]
<1>1. NoKeys \in KeyDicts
      BY RotationAssumption DEF NoKeys, KeyDicts
<1> QED
  BY <1>1 DEF Wait, TypeOK

\* While no key is made, what is well formed stays so.
LEMMA FormedKept ==
    ASSUME TypeOK, made' = made
    PROVE  /\ \A d : Formed(d) <=> Formed(d)'
           /\ Formed(NoKeys)'
  BY DEF TypeOK, Formed, NoKeys

\* rotate_key keeps the dictionaries well formed; the new key is newer than
\* all that were, and no key made before changes.
LEMMA RotateSound ==
    ASSUME TypeOK, Sound, NEW t \in Tasks, NEW keys \in KeyDicts, Formed(keys),
           Rotate(t, keys), UNCHANGED <<table, now>>
    PROVE  /\ InHand'
           /\ Sound'
           /\ made' = made + 1
           /\ \A k \in KeyIds : k <= made => issued'[k] = issued[k]
<1> USE RotationAssumption
<1> USE DEF TypeOK, KeyDicts, KeyIds
<1>1. /\ made' = made + 1
      /\ made + 1 \in KeyIds
      /\ issued' = [issued EXCEPT ![made + 1] = now]
      /\ cache' = [current |-> made + 1, archived |-> Archived(keys)]
      /\ pending' = [pending EXCEPT ![t] = cache']
      BY DEF Rotate
<1>2. /\ Archived(keys) \subseteq KeyIds
      /\ \A k \in Archived(keys) : k <= made
      BY DEF Archived, Formed, NoKeys
<1>3. InHand'
      BY <1>1, <1>2 DEF InHand, Rotate, NoKeys
<1>4. /\ \A d \in KeyDicts : Formed(d) => Formed(d)'
      /\ Formed(NoKeys)'
      BY <1>1 DEF Formed, NoKeys
<1>5. Formed(cache)' /\ cache'.current # 0 /\ issued'[cache'.current] = now
      BY <1>1, <1>2 DEF Formed
<1>6. \A k \in KeyIds : k <= made => issued'[k] = issued[k]
      BY <1>1
<1>7. (\A r \in table : Formed(r) /\ r # NoKeys)'
      BY <1>4 DEF Sound
<1>8. (\A u \in Tasks : Formed(got[u]))'
      BY <1>4 DEF Sound, Rotate
<1>9. ASSUME NEW u \in Tasks, IsSaving(u)'
      PROVE  (Formed(pending[u]) /\ pending[u].current # 0 /\ issued[pending[u].current] = now)'
  <2>1. CASE u = t
        BY <2>1, <1>1, <1>5
  <2>2. CASE u # t
    <3>1. IsSaving(u) /\ pending'[u] = pending[u]
          BY <2>2, <1>1, <1>9 DEF Rotate, IsSaving
    <3>2. Formed(pending[u]) /\ pending[u].current # 0 /\ issued[pending[u].current] = now
          BY <3>1 DEF Sound
    <3>3. pending[u] \in KeyDicts /\ pending[u].current <= made
          BY <3>2 DEF Formed
    <3> QED BY <3>1, <3>2, <3>3, <1>4, <1>6
  <2> QED BY <2>1, <2>2
<1>10. (\A k \in KeyIds : handed[k] # Never =>
           k <= made /\ handed[k] < issued[k] + RotationDays)'
      BY <1>1, <1>6 DEF Sound, Rotate
<1> QED BY <1>1, <1>3, <1>5, <1>6, <1>7, <1>8, <1>9, <1>10 DEF Sound

\* So do the methods that load the keys, up to their next await.
LEMMA WithKeysSound ==
    ASSUME TypeOK, Sound, NEW t \in Tasks, NEW method \in {"get", "rotate", "verify"},
           NEW keys \in KeyDicts, NEW cached \in KeyDicts, Formed(keys), Formed(cached),
           WithKeys(t, method, keys, cached), UNCHANGED <<table, now>>
    PROVE  InHand' /\ Sound'
<1>1. CASE Rotate(t, keys)
      BY <1>1, RotateSound
<1>2. CASE Rotate(t, cached)
      BY <1>2, RotateSound
<1>3. ASSUME cache' = cached,
             Wait(t, "reading", "rotate") \/ Returns(t),
             \/ UNCHANGED handed
             \/ keys.current # 0 /\ ~Aged(keys) /\ Hands(t, keys.current),
             UNCHANGED keydata
      PROVE  InHand' /\ Sound'
  <2>1. PICK query \in {"idle", "reading"}, m \in {"get", "rotate", "verify"} : Wait(t, query, m)
        BY <1>3 DEF Returns
  <2>2. made' = made /\ issued' = issued
        BY <1>3 DEF keydata
  <2>3. \/ handed' = handed
        \/ keys.current \in KeyIds /\ handed' \in {handed, [handed EXCEPT ![keys.current] = now]}
        BY <1>3, RotationAssumption DEF Hands, KeyDicts, KeyIds
  <2>4. InHand'
        BY <1>3, <2>1, <2>2, <2>3, WaitFacts DEF InHand, TypeOK
  <2>5. (Formed(cache) /\ \A d \in table : Formed(d) /\ d # NoKeys)'
        BY <1>3, <2>2, FormedKept DEF Sound
  <2>6. (\A u \in Tasks : Formed(got[u]))'
        BY <2>1, <2>2, FormedKept, WaitFacts DEF Sound
  <2>7. ASSUME NEW u \in Tasks, IsSaving(u)'
        PROVE  (Formed(pending[u]) /\ pending[u].current # 0 /\ issued[pending[u].current] = now)'
    <3>1. u # t /\ IsSaving(u) /\ pending'[u] = pending[u]
          BY <2>1, <2>7, WaitFacts DEF IsSaving
    <3> QED BY <3>1, <2>2, FormedKept DEF Sound
  <2>8. ASSUME NEW k \in KeyIds, handed'[k] # Never
        PROVE  k <= made' /\ handed'[k] < issued'[k] + RotationDays
    <3>1. CASE handed'[k] = handed[k]
          BY <3>1, <2>2, <2>8 DEF Sound
    <3>2. CASE handed'[k] # handed[k]
      <4>1. k = keys.current /\ handed'[k] = now /\ ~Aged(keys) /\ keys.current # 0
            BY <3>2, <1>3, <2>3 DEF TypeOK, Hands
      <4>2. issued[k] \in Nat /\ now \in Nat
            BY DEF TypeOK
      <4> QED BY <4>1, <4>2, <2>2, RotationAssumption DEF Aged, Formed
    <3> QED BY <3>1, <3>2
  <2> QED BY <2>4, <2>5, <2>6, <2>7, <2>8 DEF Sound
<1> QED
  BY <1>1, <1>2, <1>3 DEF WithKeys, RotateAgain

\* Every step keeps the types and the dictionaries well formed.
LEMMA NextSound == TypeOK /\ Sound /\ [Next]_vars => TypeOK' /\ Sound'
<1> SUFFICES ASSUME TypeOK, Sound, [Next]_vars PROVE TypeOK' /\ Sound'
    OBVIOUS
<1> USE RotationAssumption
<1>1. ASSUME NEW t \in Tasks, Call(t) PROVE TypeOK' /\ Sound'
  <2> DEFINE method == IF t \in Verifiers THEN "verify" ELSE "get"
  <2>1. UNCHANGED <<table, now, loop, blame, faults>>
        BY <1>1 DEF Call
  <2>2. CASE WithKeys(t, method, cache, cache)
    <3>1. InHand' /\ Sound'
          BY <2>1, <2>2, WithKeysSound DEF TypeOK, Sound
    <3> QED BY <3>1, <2>1 DEF InHand, TypeOK
  <2>3. CASE Wait(t, "reading", method) /\ UNCHANGED <<cache, keydata, handed>>
    <3>1. made' = made /\ issued' = issued
          BY <2>3 DEF keydata
    <3>2. TypeOK'
          BY <2>1, <2>3, <3>1, WaitFacts DEF TypeOK
    <3> QED BY <2>1, <2>3, <3>1, <3>2, WaitFacts, FormedKept DEF Sound, IsSaving
  <2> QED BY <1>1, <2>2, <2>3 DEF Call
<1>2. ASSUME NEW t \in Tasks, Read(t) PROVE TypeOK' /\ Sound'
  <2>1. PICK keys \in Stored : got' = [got EXCEPT ![t] = keys]
        BY <1>2 DEF Read
  <2>2. keys \in KeyDicts /\ Formed(keys)
        BY <2>1 DEF Stored, TypeOK, Sound, Formed, NoKeys, KeyDicts
  <2> QED BY <1>2, <2>1, <2>2
          DEF Read, TypeOK, Sound, Formed, IsSaving, keydata, manager, history
<1>3. ASSUME NEW t \in Tasks, ReadFails(t) PROVE TypeOK' /\ Sound'
  <2>1. NoKeys \in KeyDicts
        BY DEF NoKeys, KeyDicts
  <2>2. TypeOK'
        BY <1>3, <2>1 DEF ReadFails, TypeOK, keydata, manager
  <2> QED BY <1>3, <2>2, FormedKept DEF ReadFails, TypeOK, Sound, IsSaving, keydata, manager
<1>4. ASSUME NEW t \in Tasks, Loaded(t) PROVE TypeOK' /\ Sound'
  <2> DEFINE cached == IF got[t] # NoKeys THEN got[t] ELSE cache
  <2>1. WithKeys(t, op[t], got[t], cached) /\ UNCHANGED <<table, now, loop, faults>>
        BY <1>4 DEF Loaded
  <2>2. /\ got[t] \in KeyDicts /\ Formed(got[t])
        /\ cached \in KeyDicts /\ Formed(cached)
        /\ op[t] \in {"get", "rotate", "verify"}
        BY DEF TypeOK, Sound
  <2>3. InHand' /\ Sound'
        BY <2>1, <2>2, WithKeysSound
  <2> QED BY <1>4, <2>1, <2>3 DEF Loaded, InHand, TypeOK
<1>5. ASSUME NEW t \in Tasks, Delete(t) PROVE TypeOK' /\ Sound'
      BY <1>5 DEF Delete, TypeOK, Sound, Formed, IsSaving, keydata, manager, history
<1>6. ASSUME NEW t \in Tasks, Insert(t) PROVE TypeOK' /\ Sound'
  <2>1. /\ Wait(t, "idle", "get") /\ IsSaving(t)
        /\ made' = made /\ issued' = issued /\ cache' = cache /\ now' = now
        /\ table' = table \cup {pending[t]}
        BY <1>6 DEF Insert, Returns, keydata, manager, IsSaving
  <2>2. /\ pending[t] \in KeyDicts /\ Formed(pending[t])
        /\ pending[t].current \in KeyIds /\ pending[t] # NoKeys
        /\ issued[pending[t].current] = now
        BY <2>1 DEF TypeOK, Sound, KeyDicts, KeyIds, NoKeys
  <2>3. handed' \in {handed, [handed EXCEPT ![pending[t].current] = now]}
        BY <1>6 DEF Insert, Hands
  <2>4. TypeOK'
        BY <1>6, <2>1, <2>2, <2>3, WaitFacts DEF Insert, manager, TypeOK
  <2>5. (Formed(cache) /\ (\A d \in table : Formed(d) /\ d # NoKeys)
            /\ \A u \in Tasks : Formed(got[u]))'
        BY <2>1, <2>2, WaitFacts, FormedKept DEF Sound
  <2>6. (\A u \in Tasks : IsSaving(u) =>
            Formed(pending[u]) /\ pending[u].current # 0 /\ issued[pending[u].current] = now)'
        BY <2>1, WaitFacts, FormedKept DEF Sound, IsSaving
  <2>7. ASSUME NEW k \in KeyIds, handed'[k] # Never
        PROVE  k <= made' /\ handed'[k] < issued'[k] + RotationDays
    <3>1. CASE k = pending[t].current /\ handed'[k] = now
          BY <3>1, <2>1, <2>2 DEF TypeOK, Formed
    <3>2. CASE handed'[k] = handed[k]
          BY <3>2, <2>1, <2>7 DEF Sound
    <3> QED BY <3>1, <3>2, <2>2, <2>3 DEF TypeOK
  <2> QED BY <2>4, <2>5, <2>6, <2>7 DEF Sound
<1>7. ASSUME NEW t \in Tasks, SaveFails(t) PROVE TypeOK' /\ Sound'
  <2>1. /\ Wait(t, "idle", "get") /\ IsSaving(t)
        /\ made' = made /\ issued' = issued /\ cache' = cache /\ now' = now /\ handed' = handed
        /\ table' \subseteq table \cup {pending[t]}
        BY <1>7 DEF SaveFails, Returns, keydata, manager, IsSaving
  <2>2. pending[t] \in KeyDicts /\ Formed(pending[t]) /\ pending[t] # NoKeys
        BY <2>1 DEF TypeOK, Sound, NoKeys
  <2>3. TypeOK'
        BY <1>7, <2>1, <2>2, WaitFacts DEF SaveFails, manager, TypeOK
  <2> QED BY <2>1, <2>2, <2>3, WaitFacts, FormedKept DEF Sound, IsSaving
<1>8. CASE Tick
      BY <1>8 DEF Tick, TypeOK, Sound, Formed, IsSaving, keydata, manager, tasks, history
<1>9. CASE Stop
      BY <1>9 DEF Stop, TypeOK, Sound, Formed, IsSaving, keydata, tasks, history
<1>10. CASE LoopEnds
      BY <1>10 DEF LoopEnds, Returns, Wait, TypeOK, Sound, Formed, IsSaving, keydata, NoKeys,
                   KeyDicts, Tasks
<1>11. CASE Crash
      BY <1>11 DEF Crash, TypeOK, Sound, Formed, IsSaving, Saving, keydata, NoKeys, KeyDicts
<1>12. CASE UNCHANGED vars
      BY <1>12 DEF vars, TypeOK, Sound, Formed, IsSaving, keydata, tasks, history
<1> QED
  BY <1>1, <1>2, <1>3, <1>4, <1>5, <1>6, <1>7, <1>8, <1>9, <1>10, <1>11, <1>12 DEF Next, Step

\* A key that tokens depend on has not expired, nor will it tomorrow.
LEMMA LiveUnexpired ==
    ASSUME TypeOK, Sound, NEW k \in KeyIds, Live(k)
    PROVE  k <= made /\ now < ExpiresAt(k)
<1>1. /\ handed[k] \in Nat /\ issued[k] \in Nat /\ now \in Nat
      /\ k <= made /\ handed[k] < issued[k] + RotationDays /\ now <= handed[k] + GraceDays
      BY DEF TypeOK, Sound, Live, Never
<1> QED
  BY <1>1, RotationAssumption DEF ExpiresAt

\* A rotation of what the process knows, with no other save under way.
LEMMA RotateClean ==
    ASSUME TypeOK, Sound, Clean, ~Saving, NEW t \in Tasks, NEW keys \in Known,
           keys \in KeyDicts, Formed(keys), Rotate(t, keys), UNCHANGED <<table, now>>
    PROVE  Clean'
<1>1. /\ made' = made + 1 /\ InHand' /\ Sound'
      /\ \A k \in KeyIds : k <= made => issued'[k] = issued[k]
      BY RotateSound
<1>2. /\ cache' = [current |-> made + 1, archived |-> Archived(keys)]
      /\ pending' = [pending EXCEPT ![t] = cache']
      /\ pc' = [pc EXCEPT ![t] = "deleting"]
      /\ got' = [got EXCEPT ![t] = NoKeys]
      /\ handed' = handed /\ table' = table /\ now' = now
      /\ made \in Nat
      BY DEF Rotate, TypeOK
<1>3. \A u \in Tasks : IsSaving(u)' <=> u = t
      BY <1>2 DEF Saving, IsSaving, TypeOK
<1>4. pending'[t] = cache' /\ cache'.current = made + 1 /\ cache' # NoKeys
      BY <1>2 DEF TypeOK, NoKeys
<1>5. /\ \A d \in table' : d.current < cache'.current
      /\ \A u \in Tasks : pc'[u] = "read" => got'[u].current < cache'.current
  <2>1. \A d \in KeyDicts : Formed(d) => d.current < made + 1
        BY <1>2 DEF Formed, KeyDicts
  <2>2. \A u \in Tasks : pc'[u] = "read" => got'[u] = got[u]
        BY <1>2 DEF TypeOK
  <2> QED BY <2>1, <2>2, <1>2, <1>4 DEF Sound, TypeOK
<1>6. \A u \in Tasks : pc'[u] # "inserting"
      BY <1>2 DEF Saving, TypeOK
<1>7. ASSUME NEW k \in KeyIds, Live(k)'
      PROVE  Finds(cache, k)'
  <2>1. Live(k)
        BY <1>2, <1>7 DEF Live
  <2>2. k <= made /\ now < ExpiresAt(k)
        BY <2>1, LiveUnexpired
  <2>3. ExpiresAt(k)' = ExpiresAt(k)
        BY <2>2, <1>1 DEF ExpiresAt
  <2>4. Finds(keys, k)
        BY <2>1 DEF Clean, SignedVerifies
  <2>5. k \in Archived(keys)
        BY <2>2, <2>4 DEF Finds, Archived, KeyIds
  <2> QED BY <2>2, <2>3, <2>5, <1>2 DEF Finds
<1>8. SignedVerifies'
      BY <1>4, <1>7 DEF SignedVerifies, Known
<1>9. \A q, r \in table' : q = r
      BY <1>2 DEF Clean
<1> QED
  BY <1>3, <1>4, <1>5, <1>6, <1>8, <1>9 DEF Clean, Saving, IsSaving

\* A method that gets the keys the process knows: while a save is under way it
\* has them from the cache, and they are not due.
LEMMA WithKeysClean ==
    ASSUME TypeOK, Sound, Clean, NEW t \in Tasks, ~IsSaving(t),
           NEW method \in {"get", "rotate", "verify"},
           NEW keys \in Known, keys \in KeyDicts, Formed(keys), cache \in {NoKeys, keys},
           Saving => method # "rotate" /\ keys # NoKeys /\ cache = keys,
           WithKeys(t, method, keys, keys), UNCHANGED <<table, now>>
    PROVE  Clean'
<1>1. CASE Rotate(t, keys)
  <2>1. ASSUME Saving PROVE FALSE
    <3>0. pc'[t] = "deleting"
          BY <1>1 DEF Rotate, TypeOK
    <3>1. method = "get" /\ keys = cache /\ cache.current # 0
          BY <2>1, <3>0 DEF Formed, WithKeys, Returns, Wait, TypeOK
    <3>2. PICK u \in Tasks : IsSaving(u)
          BY <2>1 DEF Saving, IsSaving
    <3>3. issued[cache.current] = now
          BY <3>2 DEF Clean, Sound
    <3>4. Aged(cache)
          BY <1>1, <3>1 DEF WithKeys, RotateAgain, Returns, Wait, Rotate, TypeOK
    <3> QED BY <3>3, <3>4, RotationAssumption DEF Aged, TypeOK
  <2> QED BY <1>1, <2>1, RotateClean
<1>2. ASSUME cache' = keys,
             Wait(t, "reading", "rotate") \/ Returns(t),
             \/ UNCHANGED handed
             \/ keys.current # 0 /\ ~Aged(keys) /\ Hands(t, keys.current),
             UNCHANGED keydata
      PROVE  Clean'
  <2>1. PICK query \in {"idle", "reading"}, m \in {"get", "rotate", "verify"} : Wait(t, query, m)
        BY <1>2 DEF Returns
  <2>2. made' = made /\ issued' = issued /\ table' = table /\ now' = now
        BY <1>2 DEF keydata
  <2>3. /\ \A u \in Tasks : pc'[u] = "inserting" <=> pc[u] = "inserting"
        /\ \A u \in Tasks : IsSaving(u)' <=> IsSaving(u)
        /\ \A u \in Tasks : IsSaving(u) => pending'[u] = pending[u]
        /\ \A u \in Tasks : pc'[u] = "read" => pc[u] = "read" /\ got'[u] = got[u]
        BY <2>1, WaitFacts DEF IsSaving
  <2>4. Saving' <=> Saving
        BY <2>3 DEF Saving, IsSaving
  <2>5. Saving => cache' = cache
        BY <1>2
  <2>6. cache' = NoKeys => cache = NoKeys
        BY <1>2
  <2>7. Stored' = Stored
        BY <2>2 DEF Stored
  <2>8. ~Saving => keys \in {NoKeys} \cup Stored
        BY DEF Clean, Known
  <2>9. Known' \subseteq Known
        BY <1>2, <2>6, <2>7 DEF Known
  <2>10. ASSUME NEW k \in KeyIds, Live(k)', NEW d \in Known'
         PROVE  Finds(d, k)'
    <3>1. Finds(d, k)' <=> Finds(d, k)
          BY <2>2 DEF Finds, ExpiresAt
    <3>2. CASE Live(k)
          BY <3>1, <3>2, <2>9, <2>10 DEF Clean, SignedVerifies
    <3>3. CASE ~Live(k)
      <4>1. k = keys.current /\ keys.current # 0
            BY <3>3, <2>10, <1>2, <2>2 DEF Live, Hands, TypeOK, Never
      <4>2. d = keys
            BY <4>1, <1>2, <2>10 DEF Known, NoKeys
      <4> QED BY <3>1, <4>1, <4>2 DEF Finds
    <3> QED BY <3>2, <3>3
  <2>11. SignedVerifies'
         BY <2>10 DEF SignedVerifies
  <2>12. (\A u \in Tasks : pc[u] = "read" /\ cache = NoKeys => got[u] \in Stored)'
         BY <2>3, <2>6, <2>7 DEF Clean
  <2>13. (~Saving => cache \in {NoKeys} \cup Stored)'
         BY <1>2, <2>4, <2>7, <2>8
  <2>14. (\A u \in Tasks : IsSaving(u) =>
            /\ pending[u] = cache
            /\ \A r \in table : r.current < cache.current
            /\ \A v \in Tasks : pc[v] = "read" => got[v].current < cache.current)'
         BY <2>2, <2>3, <2>5 DEF Clean, Saving, IsSaving
  <2> QED BY <2>2, <2>3, <2>11, <2>12, <2>13, <2>14 DEF Clean
<1> QED
  BY <1>1, <1>2 DEF WithKeys, RotateAgain

\* A step after which nothing has gone wrong keeps Clean.
LEMMA NextClean ==
    ASSUME TypeOK, Sound, blame = {} => Clean, [Next]_vars, blame' = {}
    PROVE  Clean'
<1>1. ASSUME NEW x, blame' = blame \cup {x} PROVE FALSE
      BY <1>1
<1>2. ASSUME NEW t \in Tasks, Call(t) PROVE Clean'
  <2> DEFINE method == IF t \in Verifiers THEN "verify" ELSE "get"
  <2>1. /\ Clean /\ ~IsSaving(t)
        /\ UNCHANGED <<table, now>>
        BY <1>2 DEF Call, IsSaving
  <2>2. CASE cache # NoKeys /\ WithKeys(t, method, cache, cache)
    <3>1. cache \in Known /\ cache \in KeyDicts /\ Formed(cache)
          BY <2>2 DEF Known, TypeOK, Sound
    <3> QED BY <2>1, <2>2, <3>1, WithKeysClean
  <2>3. CASE cache = NoKeys /\ Wait(t, "reading", method) /\ UNCHANGED <<cache, keydata, handed>>
    <3>1. /\ \A u \in Tasks : pc'[u] = "inserting" <=> pc[u] = "inserting"
          /\ \A u \in Tasks : IsSaving(u)' <=> IsSaving(u)
          /\ \A u \in Tasks : IsSaving(u) => pending'[u] = pending[u]
          /\ \A u \in Tasks : pc'[u] = "read" => pc[u] = "read" /\ got'[u] = got[u]
          BY <2>1, <2>3, WaitFacts DEF IsSaving
    <3>2. /\ Saving' <=> Saving
          /\ Stored' = Stored /\ Known' = Known
          /\ SignedVerifies' <=> SignedVerifies
          BY <2>1, <2>3, <3>1 DEF Saving, IsSaving, Stored, Known, SignedVerifies, Live, Finds,
                                  ExpiresAt, keydata
    <3> QED BY <2>1, <2>3, <3>1, <3>2 DEF Clean
  <2> QED BY <1>2, <2>2, <2>3 DEF Call
<1>3. ASSUME NEW t \in Tasks, Read(t) PROVE Clean'
  <2>1. PICK keys \in Stored : got' = [got EXCEPT ![t] = keys]
        BY <1>3 DEF Read
  <2>2. /\ Clean
        /\ pc' = [pc EXCEPT ![t] = "read"] /\ pc[t] = "reading"
        /\ cache' = cache /\ table' = table /\ pending' = pending
        /\ UNCHANGED <<now, issued, handed>>
        BY <1>3 DEF Read, manager, history, keydata
  <2>3. /\ \A u \in Tasks : IsSaving(u)' <=> IsSaving(u)
        /\ \A u \in Tasks : pc'[u] = "inserting" <=> pc[u] = "inserting"
        /\ Saving' <=> Saving
        BY <2>2 DEF IsSaving, Saving, TypeOK
  <2>4. /\ Stored' = Stored /\ Known' = Known
        /\ SignedVerifies' <=> SignedVerifies
        BY <2>2 DEF Stored, Known, SignedVerifies, Live, Finds, ExpiresAt
  <2>5. \A u \in Tasks : pc'[u] = "read" =>
           (u = t /\ got'[u] = keys) \/ (pc[u] = "read" /\ got'[u] = got[u])
        BY <2>1, <2>2 DEF TypeOK
  <2>6. ASSUME Saving PROVE keys.current < cache.current
    <3>1. PICK u \in Tasks : IsSaving(u)
          BY <2>6 DEF Saving, IsSaving
    <3>2. cache.current \in Nat \ {0}
          BY <3>1, <2>2 DEF Clean, Sound, TypeOK, KeyDicts
    <3> QED BY <3>1, <3>2, <2>2 DEF Clean, Stored, NoKeys
  <2>7. (\A u \in Tasks : IsSaving(u) =>
            /\ pending[u] = cache
            /\ \A r \in table : r.current < cache.current
            /\ \A v \in Tasks : pc[v] = "read" => got[v].current < cache.current)'
        BY <2>2, <2>3, <2>5, <2>6 DEF Clean, Saving, IsSaving
  <2> QED BY <2>2, <2>3, <2>4, <2>5, <2>7 DEF Clean
<1>4. ASSUME NEW t \in Tasks, Loaded(t) PROVE Clean'
  <2> DEFINE cached == IF got[t] # NoKeys THEN got[t] ELSE cache
  <2>1. /\ WithKeys(t, op[t], got[t], cached) /\ UNCHANGED <<table, now>>
        /\ pc[t] = "read"
        /\ cache \in {NoKeys, got[t]}
        /\ Clean
        BY <1>4 DEF Loaded
  <2>2. ASSUME Saving PROVE FALSE
    <3>1. PICK u \in Tasks : IsSaving(u)
          BY <2>2 DEF Saving, IsSaving
    <3>2. cache = pending[u] /\ cache.current # 0 /\ got[t].current < cache.current
          BY <2>1, <3>1 DEF Clean, Sound
    <3> QED BY <3>2, <2>1 DEF NoKeys, TypeOK, KeyDicts
  <2>3. cached = got[t] /\ got[t] \in Known
        BY <2>1 DEF Clean, Known
  <2>4. got[t] \in KeyDicts /\ Formed(got[t]) /\ op[t] \in {"get", "rotate", "verify"}
        BY DEF TypeOK, Sound
  <2>5. ~IsSaving(t)
        BY <2>1 DEF IsSaving
  <2> HIDE DEF cached
  <2> QED BY <2>1, <2>2, <2>3, <2>4, <2>5, WithKeysClean
<1>5. ASSUME NEW t \in Tasks, Delete(t) PROVE Clean'
  <2>1. /\ Clean /\ IsSaving(t)
        /\ pc' = [pc EXCEPT ![t] = "inserting"] /\ table' = {}
        /\ UNCHANGED <<cache, got, pending, now, issued, handed>>
        BY <1>5 DEF Delete, manager, history, keydata, IsSaving
  <2>2. /\ cache # NoKeys
        /\ \A u \in Tasks : IsSaving(u)' <=> IsSaving(u)
        /\ \A u \in Tasks : pc'[u] = "read" => pc[u] = "read"
        BY <2>1 DEF Clean, Sound, IsSaving, TypeOK, NoKeys
  <2>3. SignedVerifies' /\ Saving'
        BY <2>1, <2>2 DEF Clean, SignedVerifies, Known, Live, Finds, ExpiresAt, Saving, IsSaving
  <2> QED BY <2>1, <2>2, <2>3 DEF Clean
<1>6. ASSUME NEW t \in Tasks, Insert(t) PROVE Clean'
  <2>1. /\ Clean /\ pc[t] = "inserting" /\ IsSaving(t)
        /\ Wait(t, "idle", "get") /\ table' = table \cup {pending[t]}
        /\ UNCHANGED <<cache, now, issued>>
        /\ handed' \in {handed, [handed EXCEPT ![pending[t].current] = now]}
        BY <1>6 DEF Insert, manager, keydata, IsSaving, Returns, Hands
  <2>2. /\ pending[t] = cache /\ table' = {cache} /\ cache # NoKeys
        /\ cache.current \in KeyIds
        BY <2>1 DEF Clean, Sound, TypeOK, NoKeys, KeyDicts, KeyIds
  <2>3. \A u \in Tasks : ~IsSaving(u)'
        BY <2>1, WaitFacts DEF Clean, IsSaving
  <2>4. Stored' = {cache} /\ Known' = {cache} /\ Known = {cache}
        BY <2>1, <2>2 DEF Stored, Known, TypeOK, KeyDicts
  <2>5. ASSUME NEW k \in KeyIds, Live(k)' PROVE Finds(cache, k)'
    <3>1. CASE Live(k)
          BY <3>1, <2>1, <2>4 DEF Clean, SignedVerifies, Finds, ExpiresAt
    <3>2. CASE ~Live(k)
          BY <3>2, <2>1, <2>2, <2>5 DEF Live, Finds, TypeOK
    <3> QED BY <3>1, <3>2
  <2>6. SignedVerifies'
        BY <2>4, <2>5, <2>1 DEF SignedVerifies
  <2> QED BY <2>1, <2>2, <2>3, <2>4, <2>6 DEF Clean, IsSaving
<1>7. CASE Tick
  <2>1. /\ Clean /\ ~Saving
        /\ now' = now + 1
        /\ UNCHANGED <<cache, table, pc, got, pending, issued, handed>>
        BY <1>7 DEF Tick, Saving, manager, history, keydata, tasks
  <2>2. Known' = Known /\ Stored' = Stored /\ ~Saving'
        BY <2>1 DEF Known, Stored, Saving
  <2>3. ASSUME NEW k \in KeyIds, Live(k)', NEW d \in Known PROVE Finds(d, k)'
    <3>1. /\ now \in Nat /\ handed[k] \in Nat /\ issued[k] \in Nat
          /\ handed[k] # Never /\ now + 1 <= handed[k] + GraceDays
          /\ handed[k] < issued[k] + RotationDays
          BY <2>1, <2>3 DEF Live, TypeOK, Sound, Never
    <3>2. Live(k) /\ now + 1 < ExpiresAt(k)
          BY <3>1, RotationAssumption DEF Live, ExpiresAt
    <3>3. Finds(d, k)
          BY <2>1, <2>3, <3>2 DEF Clean, SignedVerifies
    <3> QED BY <2>1, <3>2, <3>3 DEF Finds, ExpiresAt
  <2>4. SignedVerifies'
        BY <2>2, <2>3 DEF SignedVerifies
  <2> QED BY <2>1, <2>2, <2>4 DEF Clean, IsSaving, Saving
<1>8. CASE Stop
      BY <1>8 DEF Stop, Clean, tasks, history, keydata, IsSaving, Saving, Stored, SignedVerifies,
                  Known, Live, Finds, ExpiresAt
<1>9. CASE LoopEnds
  <2>1. /\ Clean /\ ~IsSaving(Rotator) /\ Rotator \in Tasks
        /\ Wait(Rotator, "idle", "get")
        /\ UNCHANGED <<cache, table, now, issued, handed>>
        BY <1>9, <1>1 DEF LoopEnds, IsSaving, Returns, keydata, Tasks
  <2>2. /\ \A u \in Tasks : pc'[u] = "inserting" <=> pc[u] = "inserting"
        /\ \A u \in Tasks : IsSaving(u)' <=> IsSaving(u)
        /\ \A u \in Tasks : IsSaving(u) => pending'[u] = pending[u]
        /\ \A u \in Tasks : pc'[u] = "read" => pc[u] = "read" /\ got'[u] = got[u]
        BY <2>1, WaitFacts DEF IsSaving
  <2>3. /\ Saving' <=> Saving
        /\ Stored' = Stored /\ Known' = Known
        /\ SignedVerifies' <=> SignedVerifies
        BY <2>1, <2>2 DEF Saving, IsSaving, Stored, Known, SignedVerifies, Live, Finds, ExpiresAt
  <2> QED BY <2>1, <2>2, <2>3 DEF Clean
<1>10. CASE Crash
  <2>1. /\ Clean /\ ~Saving
        /\ cache' = NoKeys /\ pc' = [u \in Tasks |-> "idle"]
        /\ UNCHANGED <<table, now, issued, handed>>
        BY <1>10, <1>1 DEF Crash, keydata
  <2>2. /\ Known' = Stored /\ Stored' = Stored /\ ~Saving'
        /\ \A u \in Tasks : ~IsSaving(u)' /\ pc'[u] = "idle"
        BY <2>1 DEF Known, Stored, Saving, IsSaving
  <2>3. Stored \subseteq Known
        BY <2>1 DEF Clean, Known, Stored
  <2>4. SignedVerifies'
        BY <2>1, <2>2, <2>3 DEF Clean, SignedVerifies, Live, Finds, ExpiresAt
  <2> QED BY <2>1, <2>2, <2>4 DEF Clean
<1>11. CASE UNCHANGED vars
      BY <1>11 DEF vars, Clean, tasks, history, keydata, IsSaving, Saving, Stored, SignedVerifies,
                   Known, Live, Finds, ExpiresAt
<1>12. ASSUME NEW t \in Tasks, ReadFails(t) \/ SaveFails(t) PROVE Clean'
      BY <1>1, <1>12 DEF ReadFails, SaveFails
<1> QED
  BY <1>2, <1>3, <1>4, <1>5, <1>6, <1>7, <1>8, <1>9, <1>10, <1>11, <1>12 DEF Next, Step

\* The variables of the key manager keep their types.
THEOREM TypeCorrect == Spec => []TypeOK
<1>1. Init => TypeOK /\ Sound
      BY InitIInv DEF IInv
<1>2. TypeOK /\ Sound /\ [Next]_vars => (TypeOK /\ Sound)'
      BY NextSound
<1> QED
  BY <1>1, <1>2, PTL DEF Spec

LEMMA Inductive == Spec => []IInv
<1>1. IInv /\ [Next]_vars => IInv'
      BY NextSound, NextClean DEF IInv
<1> QED
  BY InitIInv, <1>1, PTL DEF Spec

\* Whatever the tasks, the periods and the order of loads, saves, rotations,
\* shutdowns and crashes: a token is refused within its grace period only
\* after a failed load, an overlapping load or an incomplete save.
THEOREM KeysSurvive == Spec => []LossExplained
<1>1. IInv => LossExplained
      BY DEF IInv, Clean, LossExplained
<1> QED
  BY Inductive, <1>1, PTL

\* And until then the keys in use are the one row of the table.
THEOREM KeysStored == Spec => []UsedIsStored
<1>1. IInv => UsedIsStored
      BY DEF IInv, Clean, UsedIsStored
<1> QED
  BY Inductive, <1>1, PTL

=============================================================================
