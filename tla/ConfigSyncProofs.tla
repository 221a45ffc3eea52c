-------------------------- MODULE ConfigSyncProofs --------------------------
(***************************************************************************)
(* For any servers, keys, events, edits and failures: what a server caches *)
(* is stale unnoticed only after a write crossed one of its reads, and its *)
(* validated model is that of its cache unless built during a reload.      *)
(***************************************************************************)
EXTENDS ConfigSync, TLAPS

\* Readers of the queue file never end, and no thread runs before the start
\* is over.
Alive ==
    /\ kind = "file" => \A s \in Servers : listening[s]
    /\ \A s \in Servers : loop[s] = "starting" => watcher[s] = "idle"

\* What a server has read and not been crossed by is what the file says: in
\* its cache once the thread is done, and in the thread's hands before.
Fresh(s) ==
    s \notin crossed =>
        /\ watcher[s] = "idle" /\ (s \in noted \/ loop[s] \in {"loaded", "reread", "starting"})
              => configs[s] = file
        /\ watcher[s] = "found" => found[s] = file

\* A model in use is not of a reload, and it is the current one or dropped as
\* soon as the load that is under way is noted; one that is being built is of
\* the cache as it is, unless the thread reloads or has reloaded since.
Typed(s) ==
    s \notin mixed =>
        /\ merged[s] # NoModel =>
             /\ watcher[s] = "idle"
             /\ loop[s] \in {"loaded", "reread"} \/ merged[s] = Merge(s)
        /\ loop[s] = "building" => watcher[s] = "idle" /\ built[s] = Merge(s)

IInv == TypeOK /\ Alive /\ \A s \in Servers : Fresh(s) /\ Typed(s)

LEMMA ContentsTyped == Nothing \in Contents /\ [k \in Keys |-> Original] \in Contents
BY DEF Nothing, Contents, Absent, Original

LEMMA MergeTyped == ASSUME TypeOK, NEW s \in Servers PROVE Merge(s) \in Contents
BY DEF TypeOK, Merge, Contents

\* Events, and the sequences of them.
Events == [key : Keys, value : Nat]

LEMMA TypedEvents ==
    ASSUME TypeOK
    PROVE  /\ published \in Seq(Events) /\ queue \in Seq(Events)
           /\ batch \in [Servers -> Seq(Events)]
BY DEF TypeOK, Events

LEMMA EmptyTyped == <<>> \in Seq(Events)
OBVIOUS

LEMMA AppendTyped == ASSUME NEW e \in Events, NEW q \in Seq(Events) PROVE Append(q, e) \in Seq(Events)
OBVIOUS

LEMMA InitInv == Init => IInv
<1> SUFFICES ASSUME Init PROVE IInv
    OBVIOUS
<1>1. TypeOK
  <2>1. listening \in [Servers -> BOOLEAN]
    BY DEF Init
  <2>2. file \in Contents /\ configs \in [Servers -> Contents]
    BY ContentsTyped DEF Init
  <2> QED BY <2>1, <2>2, ContentsTyped DEF Init, TypeOK, Original
<1>2. Alive
  BY DEF Init, Alive
<1>3. ASSUME NEW s \in Servers PROVE Fresh(s) /\ Typed(s)
  BY <1>3 DEF Init, Fresh, Typed
<1> QED BY <1>1, <1>2, <1>3 DEF IInv

\* The types, action by action.
LEMMA NextTyped == TypeOK /\ Alive /\ [Next]_vars => TypeOK' /\ Alive'
<1> SUFFICES ASSUME TypeOK, Alive, [Next]_vars PROVE TypeOK' /\ Alive'
    OBVIOUS
<1> USE DEF shared, cached
<1>1. ASSUME NEW k \in Keys, Edit(k) PROVE TypeOK' /\ Alive'
  BY <1>1 DEF Edit, Writes, Crosses, TypeOK, Alive, Contents
<1>2. ASSUME NEW k \in Keys, Publish(k) PROVE TypeOK' /\ Alive'
  <2> DEFINE e == [key |-> k, value |-> changes + 1]
  <2>1. e \in Events
    BY DEF TypeOK, Events
  <2>2. published' \in Seq(Events) /\ queue' \in Seq(Events)
    BY <1>2, <2>1, TypedEvents, AppendTyped DEF Publish
  <2>3. /\ batch' \in [Servers -> Seq(Events)]
        /\ \A s \in Servers : batch'[s] # <<>> => listening[s]
    <3>1. CASE kind = "redis"
      <4>1. batch' = [s \in Servers |-> IF listening[s] THEN Append(batch[s], e) ELSE batch[s]]
        BY <1>2, <3>1 DEF Publish
      <4>2. \A s \in Servers : Append(batch[s], e) \in Seq(Events)
        BY <2>1, TypedEvents, AppendTyped
      <4> HIDE DEF e
      <4> QED BY <4>1, <4>2, TypedEvents DEF TypeOK
    <3>2. CASE kind # "redis"
      BY <1>2, <3>2, TypedEvents DEF Publish, TypeOK
    <3> QED BY <3>1, <3>2
  <2>4. changes' \in Nat
    BY <1>2 DEF Publish, TypeOK
  <2>5. Alive'
    BY <1>2 DEF Publish, Alive
  <2>6. UNCHANGED <<kind, file, edits, faults, loop, cached, built, listening, full, watcher, found, crossed, mixed>>
    BY <1>2 DEF Publish
  <2> HIDE DEF e
  <2> QED BY <2>2, <2>3, <2>4, <2>5, <2>6 DEF TypeOK, Events
<1>3. ASSUME NEW s \in Servers, FetchKafka(s) PROVE TypeOK' /\ Alive'
  <2>1. <<Head(queue)>> \in Seq(Events) /\ queue' \in Seq(Events)
    BY <1>3, TypedEvents DEF FetchKafka
  <2> QED BY <1>3, <2>1 DEF FetchKafka, TypeOK, Alive, Events
<1>4. ASSUME NEW s \in Servers, FetchFile(s) PROVE TypeOK' /\ Alive'
  BY <1>4 DEF FetchFile, TypeOK, Alive
<1>5. ASSUME NEW s \in Servers, Unlink(s) PROVE TypeOK' /\ Alive'
  <2>1. loop' \in [Servers -> {"idle", "next", "saving", "saved", "loaded", "reread", "building", "starting"}]
        /\ \A t \in Servers : loop'[t] = "starting" => loop[t] = "starting"
    BY <1>5 DEF Unlink, TypeOK
  <2>2. queue' \in Seq(Events)
    BY <1>5, EmptyTyped DEF Unlink
  <2>3. UNCHANGED <<kind, file, changes, published, edits, faults, cached, built, listening, batch, full, watcher, found, crossed, mixed>>
    BY <1>5 DEF Unlink
  <2>4. Alive'
    BY <2>1, <2>3 DEF Alive
  <2> QED BY <2>1, <2>2, <2>3, <2>4 DEF TypeOK, Events
<1>6. ASSUME NEW s \in Servers, Set(s) PROVE TypeOK' /\ Alive'
  <2> DEFINE e == Head(batch[s])
  <2>1. e \in Events /\ Tail(batch[s]) \in Seq(Events)
    BY <1>6, TypedEvents DEF Set
  <2>2. [configs[s] EXCEPT ![e.key] = e.value] \in Contents
    BY <2>1 DEF TypeOK, Contents, Events
  <2>3. overrides' \in [Servers -> Contents]
    BY <1>6, <2>1 DEF Set, TypeOK, Contents, Events
  <2>4. full' \in [Servers -> Contents]
    BY <1>6, <2>2 DEF Set, TypeOK
  <2>5. batch' \in [Servers -> Seq(Events)] /\ \A t \in Servers : batch'[t] # <<>> => listening[t]
    BY <1>6, <2>1, TypedEvents DEF Set, TypeOK
  <2> HIDE DEF e
  <2>6. crossed' \subseteq Servers /\ mixed' \subseteq Servers
    BY <1>6 DEF Set, DropsModel, Writes, Crosses, TypeOK
  <2> QED BY <1>6, <2>3, <2>4, <2>5, <2>6, ContentsTyped DEF Set, DropsModel, Writes, TypeOK, Alive, Events
<1>7. ASSUME NEW s \in Servers, Dump(s) PROVE TypeOK' /\ Alive'
  BY <1>7, ContentsTyped DEF Dump, Writes, Crosses, TypeOK, Alive
<1>8. ASSUME NEW s \in Servers, SaveFails(s) PROVE TypeOK' /\ Alive'
  <2>1. loop' \in [Servers -> {"idle", "next", "saving", "saved", "loaded", "reread", "building", "starting"}]
        /\ \A t \in Servers : loop'[t] = "starting" => loop[t] = "starting"
    BY <1>8 DEF SaveFails, Ready, TypeOK
  <2>2. /\ batch' \in [Servers -> Seq(Events)] /\ listening' \in [Servers -> BOOLEAN]
        /\ \A t \in Servers : batch'[t] # <<>> => listening'[t]
        /\ kind = "file" => listening' = listening
    <3>1. CASE UNCHANGED <<listening, batch>>
      BY <3>1, TypedEvents DEF TypeOK
    <3>2. CASE kind # "file" /\ listening' = [listening EXCEPT ![s] = FALSE] /\ Forgets(s)
      <4>1. batch \in [Servers -> Seq(Events)] /\ batch' = [batch EXCEPT ![s] = <<>>]
        BY <3>2, TypedEvents DEF Forgets
      <4>2. batch' \in [Servers -> Seq(Events)]
        BY <4>1, EmptyTyped
      <4>3. listening' \in [Servers -> BOOLEAN]
        BY <3>2 DEF TypeOK
      <4>4. \A t \in Servers : batch'[t] # <<>> => listening'[t]
        BY <3>2, <4>1 DEF TypeOK
      <4> QED BY <3>2, <4>2, <4>3, <4>4
    <3> QED BY <1>8, <3>1, <3>2 DEF SaveFails
  <2>3. full' \in [Servers -> Contents] /\ faults' \in Nat
    BY <1>8, ContentsTyped DEF SaveFails, TypeOK
  <2>4. UNCHANGED <<kind, file, changes, published, edits, queue, cached, built, watcher, found, crossed, mixed>>
    BY <1>8 DEF SaveFails
  <2>5. Alive'
    BY <2>1, <2>2, <2>4 DEF Alive, TypeOK
  <2> QED BY <2>1, <2>2, <2>3, <2>4, <2>5 DEF TypeOK, Events
<1>9. ASSUME NEW s \in Servers, LoadBack(s) \/ Get(s) PROVE TypeOK' /\ Alive'
  <2>1. crossed' \subseteq Servers
    BY <1>9 DEF LoadBack, Get, ReadsAnew, TypeOK
  <2>2. CASE LoadBack(s)
    BY <2>2, <2>1 DEF LoadBack, TypeOK, Alive
  <2>3. CASE Get(s)
    BY <2>3, <2>1 DEF Get, TypeOK, Alive
  <2> QED BY <1>9, <2>2, <2>3
<1>10. ASSUME NEW s \in Servers, LoadBackFails(s) \/ StampNow(s) PROVE TypeOK' /\ Alive'
  <2>1. loop' \in [Servers -> {"idle", "next", "saving", "saved", "loaded", "reread", "building", "starting"}]
        /\ \A t \in Servers : loop'[t] = "starting" => loop[t] = "starting"
    BY <1>10 DEF LoadBackFails, StampNow, Ready, TypeOK
  <2>2. CASE LoadBackFails(s)
    <3>1. faults' \in Nat
      BY <2>2 DEF LoadBackFails, TypeOK
    <3>2. merged' \in [Servers -> Contents \cup {NoModel}] /\ mixed' \subseteq Servers
      BY <2>2 DEF LoadBackFails, DropsModel, TypeOK
    <3> QED BY <2>1, <2>2, <3>1, <3>2 DEF LoadBackFails, KeepsStamp, TypeOK, Alive
  <2>3. CASE StampNow(s)
    BY <2>3, <2>1 DEF StampNow, DropsModel, TypeOK, Alive
  <2> QED BY <1>10, <2>2, <2>3
<1>11. ASSUME NEW s \in Servers, GetTyped(s) PROVE TypeOK' /\ Alive'
  <2>1. built' \in [Servers -> Contents \cup {NoModel}] /\ mixed' \subseteq Servers
    BY <1>11, MergeTyped DEF GetTyped, TypeOK
  <2> QED BY <1>11, <2>1 DEF GetTyped, TypeOK, Alive
<1>17. ASSUME NEW s \in Servers, StoreTyped(s) PROVE TypeOK' /\ Alive'
  BY <1>17 DEF StoreTyped, TypeOK, Alive
<1>12. ASSUME NEW s \in Servers, Clear(s) PROVE TypeOK' /\ Alive'
  BY <1>12, ContentsTyped DEF Clear, DropsModel, TypeOK, Alive
<1>13. ASSUME NEW s \in Servers, Discover(s) \/ Replace(s) PROVE TypeOK' /\ Alive'
  <2>1. CASE Discover(s)
    <3>1. crossed' \subseteq Servers
      BY <2>1 DEF Discover, ReadsAnew, TypeOK
    <3>2. loop[s] # "starting"
      BY <2>1 DEF Discover, Alive
    <3> QED BY <2>1, <3>1, <3>2 DEF Discover, TypeOK, Alive
  <2>2. CASE Replace(s)
    BY <2>2, ContentsTyped DEF Replace, TypeOK, Alive
  <2> QED BY <1>13, <2>1, <2>2
<1>14. ASSUME NEW s \in Servers, Restart(s) PROVE TypeOK' /\ Alive'
  <2>1. listening' \in [Servers -> BOOLEAN] /\ (kind = "file" => \A t \in Servers : listening'[t])
        /\ \A t \in Servers : t # s => listening'[t] = listening[t]
    <3>1. PICK b \in (IF kind = "file" THEN {TRUE} ELSE BOOLEAN) : listening' = [listening EXCEPT ![s] = b]
      BY <1>14 DEF Restart
    <3> QED BY <3>1 DEF TypeOK, Alive
  <2>2. queue' \in Seq(Events)
    <3>1. batch[s] \o queue \in Seq(Events)
      BY TypedEvents
    <3> QED BY <1>14, <3>1, TypedEvents DEF Restart
  <2>3. batch' \in [Servers -> Seq(Events)] /\ \A t \in Servers : batch'[t] # <<>> => listening'[t]
    BY <1>14, <2>1, TypedEvents, EmptyTyped DEF Restart, Forgets, TypeOK
  <2>4. Alive'
    BY <1>14, <2>1 DEF Restart, TypeOK, Alive
  <2>5. /\ configs' \in [Servers -> Contents] /\ overrides' \in [Servers -> Contents]
        /\ full' \in [Servers -> Contents] /\ found' \in [Servers -> Contents]
        /\ merged' \in [Servers -> Contents \cup {NoModel}]
        /\ built' \in [Servers -> Contents \cup {NoModel}]
    BY <1>14, ContentsTyped DEF Restart, DropsModel, TypeOK
  <2>6. /\ loop' \in [Servers -> {"idle", "next", "saving", "saved", "loaded", "reread", "building", "starting"}]
        /\ watcher' \in [Servers -> {"idle", "cleared", "found"}]
    BY <1>14 DEF Restart, TypeOK
  <2>7. noted' \subseteq Servers /\ crossed' \subseteq Servers /\ mixed' \subseteq Servers /\ faults' \in Nat
    BY <1>14 DEF Restart, DropsModel, TypeOK
  <2>8. UNCHANGED <<kind, file, changes, published, edits>>
    BY <1>14 DEF Restart
  <2> QED BY <2>1, <2>2, <2>3, <2>4, <2>5, <2>6, <2>7, <2>8 DEF TypeOK, Events
<1>15. ASSUME NEW s \in Servers, Start(s) PROVE TypeOK' /\ Alive'
  BY <1>15 DEF Start, TypeOK, Alive
<1>16. ASSUME UNCHANGED vars PROVE TypeOK' /\ Alive'
  BY <1>16 DEF vars, TypeOK, Alive
<1> QED BY <1>1, <1>2, <1>3, <1>4, <1>5, <1>6, <1>7, <1>8, <1>9, <1>10, <1>11, <1>12,
           <1>13, <1>14, <1>15, <1>16, <1>17 DEF Next, Handle, Reload

\* A write or a read touches no server's cache but by the steps below.
LEMMA NextFresh ==
    ASSUME IInv, [Next]_vars, NEW s \in Servers PROVE Fresh(s)'
<1> USE DEF shared, cached, IInv, Fresh
<1>1. ASSUME NEW k \in Keys, Edit(k) PROVE Fresh(s)'
  BY <1>1 DEF Edit, Writes, Crosses, Reading, TypeOK
<1>2. ASSUME NEW k \in Keys, Publish(k) PROVE Fresh(s)'
  BY <1>2 DEF Publish
<1>3. ASSUME NEW t \in Servers, FetchKafka(t) \/ FetchFile(t) \/ Unlink(t) PROVE Fresh(s)'
  BY <1>3 DEF FetchKafka, FetchFile, Unlink, TypeOK
<1>4. ASSUME NEW t \in Servers, Set(t) PROVE Fresh(s)'
  BY <1>4 DEF Set, Writes, Crosses, Reading, Ready, TypeOK
<1>5. ASSUME NEW t \in Servers, Dump(t) PROVE Fresh(s)'
  BY <1>5 DEF Dump, Writes, Crosses, Reading, TypeOK
<1>6. ASSUME NEW t \in Servers, SaveFails(t) PROVE Fresh(s)'
  BY <1>6 DEF SaveFails, Ready, TypeOK
<1>7. ASSUME NEW t \in Servers, LoadBack(t) \/ Get(t) PROVE Fresh(s)'
  <2>1. CASE t = s
    BY <1>7, <2>1 DEF LoadBack, Get, ReadsAnew, TypeOK
  <2>2. CASE t # s
    BY <1>7, <2>2 DEF LoadBack, Get, ReadsAnew, TypeOK
  <2> QED BY <2>1, <2>2
<1>8. ASSUME NEW t \in Servers, LoadBackFails(t) PROVE Fresh(s)'
  BY <1>8 DEF LoadBackFails, KeepsStamp, Ready, TypeOK
<1>9. ASSUME NEW t \in Servers, StampNow(t) \/ Start(t) PROVE Fresh(s)'
  BY <1>9 DEF StampNow, Start, Ready, TypeOK
<1>10. ASSUME NEW t \in Servers, GetTyped(t) \/ StoreTyped(t) PROVE Fresh(s)'
  BY <1>10 DEF GetTyped, StoreTyped, TypeOK
<1>11. ASSUME NEW t \in Servers, Clear(t) PROVE Fresh(s)'
  BY <1>11 DEF Clear, TypeOK
<1>12. ASSUME NEW t \in Servers, Discover(t) PROVE Fresh(s)'
  BY <1>12 DEF Discover, ReadsAnew, TypeOK
<1>13. ASSUME NEW t \in Servers, Replace(t) PROVE Fresh(s)'
  BY <1>13 DEF Replace, TypeOK
<1>14. ASSUME NEW t \in Servers, Restart(t) PROVE Fresh(s)'
  BY <1>14 DEF Restart, TypeOK
<1>15. ASSUME UNCHANGED vars PROVE Fresh(s)'
  BY <1>15 DEF vars
<1> QED BY <1>1, <1>2, <1>3, <1>4, <1>5, <1>6, <1>7, <1>8, <1>9, <1>10, <1>11, <1>12,
           <1>13, <1>14, <1>15 DEF Next, Handle, Reload

\* A new value, a noted load, a reload and a restart each drop the model; a
\* load that is not noted yet is excused.
LEMMA NextModel ==
    ASSUME IInv, [Next]_vars, NEW s \in Servers PROVE Typed(s)'
<1> USE DEF shared, cached, IInv, Typed
<1>0. (overrides'[s] = overrides[s] /\ configs'[s] = configs[s]) => Merge(s)' = Merge(s)
  BY DEF Merge
<1>1. ASSUME NEW k \in Keys, Edit(k) \/ Publish(k) PROVE Typed(s)'
  BY <1>0, <1>1 DEF Edit, Publish, Writes
<1>2. ASSUME NEW t \in Servers, FetchKafka(t) \/ FetchFile(t) \/ Unlink(t) PROVE Typed(s)'
  BY <1>0, <1>2 DEF FetchKafka, FetchFile, Unlink, TypeOK
<1>3. ASSUME NEW t \in Servers, Set(t) PROVE Typed(s)'
  BY <1>0, <1>3 DEF Set, DropsModel, Ready, TypeOK
<1>4. ASSUME NEW t \in Servers, Dump(t) \/ SaveFails(t) PROVE Typed(s)'
  BY <1>0, <1>4 DEF Dump, SaveFails, Ready, TypeOK
<1>5. ASSUME NEW t \in Servers, LoadBack(t) \/ Get(t) PROVE Typed(s)'
  BY <1>0, <1>5 DEF LoadBack, Get, TypeOK
<1>6. ASSUME NEW t \in Servers, LoadBackFails(t) \/ StampNow(t) PROVE Typed(s)'
  <2>1. CASE LoadBackFails(t)
    <3>1. loop'[t] # "building"
      BY <2>1 DEF LoadBackFails, Ready, TypeOK
    <3> QED BY <1>0, <2>1, <3>1 DEF LoadBackFails, DropsModel, TypeOK
  <2>2. CASE StampNow(t)
    <3>1. loop'[t] # "building"
      BY <2>2 DEF StampNow, Ready, TypeOK
    <3> QED BY <1>0, <2>2, <3>1 DEF StampNow, DropsModel, TypeOK
  <2> QED BY <1>6, <2>1, <2>2
<1>7. ASSUME NEW t \in Servers, GetTyped(t) PROVE Typed(s)'
  <2>1. CASE t = s
    <3>1. built'[s] = Merge(s)' /\ merged'[s] = NoModel /\ watcher'[s] = watcher[s]
      BY <1>0, <1>7, <2>1 DEF GetTyped, TypeOK
    <3>2. watcher[s] = "idle" \/ s \in mixed'
      BY <1>7, <2>1 DEF GetTyped
    <3> QED BY <3>1, <3>2
  <2>2. CASE t # s
    BY <1>0, <1>7, <2>2 DEF GetTyped, TypeOK
  <2> QED BY <2>1, <2>2
<1>13. ASSUME NEW t \in Servers, StoreTyped(t) PROVE Typed(s)'
  <2>1. CASE t = s
    BY <1>0, <1>13, <2>1 DEF StoreTyped, TypeOK
  <2>2. CASE t # s
    BY <1>0, <1>13, <2>2 DEF StoreTyped, TypeOK
  <2> QED BY <2>1, <2>2
<1>8. ASSUME NEW t \in Servers, Clear(t) PROVE Typed(s)'
  BY <1>0, <1>8 DEF Clear, DropsModel, TypeOK
<1>9. ASSUME NEW t \in Servers, Discover(t) \/ Replace(t) PROVE Typed(s)'
  BY <1>0, <1>9 DEF Discover, Replace, TypeOK
<1>10. ASSUME NEW t \in Servers, Restart(t) PROVE Typed(s)'
  BY <1>0, <1>10 DEF Restart, DropsModel, TypeOK
<1>11. ASSUME NEW t \in Servers, Start(t) PROVE Typed(s)'
  BY <1>0, <1>11 DEF Start, TypeOK
<1>12. ASSUME UNCHANGED vars PROVE Typed(s)'
  BY <1>0, <1>12 DEF vars
<1> QED BY <1>1, <1>2, <1>3, <1>4, <1>5, <1>6, <1>7, <1>8, <1>9, <1>10, <1>11, <1>12,
           <1>13 DEF Next, Handle, Reload

LEMMA Invariant == Spec => []IInv
<1>1. IInv /\ [Next]_vars => IInv'
  BY NextTyped, NextFresh, NextModel DEF IInv
<1> QED BY InitInv, <1>1, PTL DEF Spec

\* The type invariant, with the listeners that hold events being alive.
THEOREM TypeCorrect == Spec => []TypeOK
<1>1. IInv => TypeOK
  BY DEF IInv
<1> QED BY Invariant, <1>1, PTL

\* A settled server whose cache differs from the file will look again, unless
\* a write crossed its read (get, _reload_namespace, _handle_save_request,
\* reload_configs): whatever the events, edits, failures and restarts.
THEOREM StaleNoticed == Spec => []StaleIsNoticed
<1>1. IInv => StaleIsNoticed
  BY DEF IInv, Fresh, StaleIsNoticed, Settled, ShouldReload
<1> QED BY Invariant, <1>1, PTL

\* A settled server's validated model is the merge of what it caches and
\* overrides, unless the watcher's thread reloaded while it was merged and
\* validated (_get_typed_config).
THEOREM ModelsCurrent == Spec => []TypedIsCurrent
<1>1. IInv => TypedIsCurrent
  BY DEF IInv, Typed, TypedIsCurrent, Settled
<1> QED BY Invariant, <1>1, PTL
=============================================================================
