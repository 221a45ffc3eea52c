----------------------------- MODULE KeyRotation -----------------------------
(***************************************************************************)
(* KeyRotationManager (identity/authentication/key_rotation.py): the JWT   *)
(* signing keys of one process, cached in memory and kept in one row of a  *)
(* table that SQLite's save_jwt_key replaces by a DELETE and an INSERT.    *)
(* Signers, verifiers and the rotation loop share the manager; the loads   *)
(* and saves may fail, the loop is stopped at shutdown, the process        *)
(* crashes and restarts.  Keys are numbered as they are made, a keys       *)
(* dictionary is [current, archived], and time is counted in days.         *)
(***************************************************************************)
EXTENDS Integers, FiniteSets

CONSTANTS
    Signers,            \* tasks issuing tokens: AuthenticationManager.issue_tokens
    Verifiers,          \* tasks checking them: JWTProvider.authenticate
    Rotator,            \* the task of _rotation_loop
    RotationDays,       \* rotation_days
    GraceDays,          \* grace_period_days
    MaxKeys,            \* bound: keys made
    MaxTime,            \* bound: days
    MaxFaults           \* bound: failed queries, crashes

Tasks == Signers \cup Verifiers \cup {Rotator}
KeyIds == 1 .. MaxKeys
Never == -1

ASSUME RotationAssumption ==
    /\ Rotator \notin Signers \cup Verifiers
    /\ Signers \cap Verifiers = {}
    /\ RotationDays \in Nat \ {0}
    /\ GraceDays \in Nat \ {0}
    /\ MaxKeys \in Nat
    /\ MaxTime \in Nat
    /\ MaxFaults \in Nat

VARIABLES
    cache,              \* _keys_cache
    table,              \* the rows of jwt_keys
    made,               \* keys made so far
    issued,             \* key -> its issued_at
    now,                \* today
    pc,                 \* task -> the query it awaits
    op,                 \* task -> the method whose _load_keys it is in
    got,                \* task -> what its query has read
    pending,            \* task -> the keys_json it saves
    loop,               \* the rotation loop: "on", "stopping" or "off"
    handed,             \* history: key -> the last day a signer was given it
    blame,              \* history: what has gone wrong with loads and saves
    faults              \* history: failed queries and crashes so far

manager == <<cache, loop>>
tasks == <<pc, op, got, pending>>
keydata == <<made, issued>>
history == <<handed, blame, faults>>
vars == <<cache, table, keydata, now, tasks, loop, history>>

NoKeys == [current |-> 0, archived |-> {}]
KeyDicts == [current : 0 .. MaxKeys, archived : SUBSET KeyIds]

Init ==
    /\ cache = NoKeys
    /\ table = {}
    /\ made = 0
    /\ issued = [k \in KeyIds |-> 0]
    /\ now = 0
    /\ pc = [t \in Tasks |-> "idle"]
    /\ op = [t \in Tasks |-> "get"]
    /\ got = [t \in Tasks |-> NoKeys]
    /\ pending = [t \in Tasks |-> NoKeys]
    /\ loop = "on"
    /\ handed = [k \in KeyIds |-> Never]
    /\ blame = {}
    /\ faults = 0

-----------------------------------------------------------------------------

ExpiresAt(k) == issued[k] + RotationDays + GraceDays

\* get_key_by_kid: the current key whatever its age, an archived one until it
\* expires.
Finds(keys, k) == k = keys.current \/ (k \in keys.archived /\ ExpiresAt(k) > now)

\* ORDER BY updated_at DESC LIMIT 1: of several rows the one saved last.
Stored ==
    IF table = {} THEN {NoKeys}
    ELSE {r \in table : \A q \in table : q.current <= r.current}

\* Mutant: an archived key expires with the rotation period, without grace.
ArchivedNoGrace(keys) ==
    {k \in keys.archived \cup ({keys.current} \ {0}) : issued[k] + RotationDays > now}

\* The archive after a rotation: the old key joins, expired keys leave.
Archived(keys) == {k \in keys.archived \cup ({keys.current} \ {0}) : ExpiresAt(k) > now}

Aged(keys) == keys.current # 0 /\ now - issued[keys.current] >= RotationDays

Hands(t, k) == handed' = IF t \in Signers THEN [handed EXCEPT ![k] = now] ELSE handed

\* t starts the query of a method, with nothing read or to save yet.
Wait(t, query, method) ==
    /\ pc' = [pc EXCEPT ![t] = query]
    /\ op' = [op EXCEPT ![t] = method]
    /\ got' = [got EXCEPT ![t] = NoKeys]
    /\ pending' = [pending EXCEPT ![t] = NoKeys]

Returns(t) == Wait(t, "idle", "get")

\* rotate_key once it has the keys: up to the await in _save_keys.
Rotate(t, keys) ==
    /\ made < MaxKeys
    /\ made' = made + 1
    /\ issued' = [issued EXCEPT ![made'] = now]
    /\ cache' = [current |-> made', archived |-> Archived(keys)]
    /\ pending' = [pending EXCEPT ![t] = cache']
    /\ pc' = [pc EXCEPT ![t] = "deleting"]
    /\ op' = [op EXCEPT ![t] = "get"]
    /\ got' = [got EXCEPT ![t] = NoKeys]
    /\ UNCHANGED handed

\* rotate_key called by get_current_key: it loads the keys once more.
RotateAgain(t, cached) ==
    \/ /\ cached # NoKeys
       /\ Rotate(t, cached)
    \/ /\ cached = NoKeys
       /\ cache' = cached
       /\ Wait(t, "reading", "rotate")
       /\ UNCHANGED <<keydata, handed>>

\* Mutant: get_current_key returns the current key whatever its age.
WithKeysAged(t, method, keys, cached) ==
    \/ /\ method = "get"
       /\ keys.current = 0
       /\ RotateAgain(t, cached)
    \/ /\ method = "get"
       /\ keys.current # 0
       /\ cache' = cached
       /\ Hands(t, keys.current)
       /\ Returns(t)
       /\ UNCHANGED keydata
    \/ /\ method = "rotate"
       /\ Rotate(t, keys)
    \/ /\ method = "verify"
       /\ cache' = cached
       /\ Returns(t)
       /\ UNCHANGED <<keydata, handed>>

\* The rest of a method whose _load_keys has returned keys, when the cache is
\* cached; up to its next await.
WithKeys(t, method, keys, cached) ==
    \/ /\ method = "get"
       /\ keys.current = 0 \/ Aged(keys)
       /\ RotateAgain(t, cached)
    \/ /\ method = "get"
       /\ keys.current # 0 /\ ~Aged(keys)
       /\ cache' = cached
       /\ Hands(t, keys.current)
       /\ Returns(t)
       /\ UNCHANGED keydata
    \/ /\ method = "rotate"
       /\ Rotate(t, keys)
    \/ /\ method = "verify"
       /\ cache' = cached
       /\ Returns(t)
       /\ UNCHANGED <<keydata, handed>>

-----------------------------------------------------------------------------

\* A signer or the loop calls get_current_key, a verifier get_key_by_kid.
Call(t) ==
    LET method == IF t \in Verifiers THEN "verify" ELSE "get" IN
    /\ pc[t] = "idle"
    /\ t = Rotator => loop = "on"
    /\ \/ /\ cache # NoKeys
          /\ WithKeys(t, method, cache, cache)
       \/ /\ cache = NoKeys
          /\ Wait(t, "reading", method)
          /\ UNCHANGED <<cache, keydata, handed>>
    /\ UNCHANGED <<table, now, loop, blame, faults>>

\* SELECT: the database reads what there is.
Read(t) ==
    /\ pc[t] = "reading"
    /\ \E keys \in Stored : got' = [got EXCEPT ![t] = keys]
    /\ pc' = [pc EXCEPT ![t] = "read"]
    /\ UNCHANGED <<table, keydata, now, op, pending, manager, history>>

\* The query raises: a warning is logged and the keys are taken to be {}.
ReadFails(t) ==
    /\ pc[t] = "reading"
    /\ faults < MaxFaults
    /\ faults' = faults + 1
    /\ blame' = blame \cup {"unread"}
    /\ got' = [got EXCEPT ![t] = NoKeys]
    /\ pc' = [pc EXCEPT ![t] = "read"]
    /\ UNCHANGED <<table, keydata, now, op, pending, manager, handed>>

\* The answer reaches the task: it fills the cache, whatever is in it by now.
Loaded(t) ==
    LET cached == IF got[t] # NoKeys THEN got[t] ELSE cache IN
    /\ pc[t] = "read"
    /\ WithKeys(t, op[t], got[t], cached)
    /\ blame' = IF cache \in {NoKeys, got[t]} THEN blame ELSE blame \cup {"raced"}
    /\ UNCHANGED <<table, now, loop, faults>>

\* Mutant: the old row is deleted after the new one has been written.
DeleteLate(t) ==
    /\ pc[t] = "deleting"
    /\ table' = table \cup {pending[t]}
    /\ pc' = [pc EXCEPT ![t] = "inserting"]
    /\ UNCHANGED <<keydata, now, op, got, pending, manager, history>>

Delete(t) ==
    /\ pc[t] = "deleting"
    /\ table' = {}
    /\ pc' = [pc EXCEPT ![t] = "inserting"]
    /\ UNCHANGED <<keydata, now, op, got, pending, manager, history>>

\* The row is written and rotate_key returns the new key.
Insert(t) ==
    /\ pc[t] = "inserting"
    /\ table' = table \cup {pending[t]}
    /\ Hands(t, pending[t].current)
    /\ Returns(t)
    /\ UNCHANGED <<keydata, now, manager, blame, faults>>

\* DELETE or INSERT raises, having been done or not: the caller gets a
\* ConfigurationError (the loop logs it) and the cache keeps the new keys.
SaveFails(t) ==
    /\ pc[t] \in {"deleting", "inserting"}
    /\ faults < MaxFaults
    /\ faults' = faults + 1
    /\ blame' = blame \cup {"unsaved"}
    /\ table' \in {table, IF pc[t] = "deleting" THEN {} ELSE table \cup {pending[t]}}
    /\ Returns(t)
    /\ UNCHANGED <<keydata, now, manager, handed>>

\* A day passes; no save takes that long.
Tick ==
    /\ now < MaxTime
    /\ \A t \in Tasks : pc[t] \notin {"deleting", "inserting"}
    /\ now' = now + 1
    /\ UNCHANGED <<table, keydata, tasks, manager, history>>

Saving == \E t \in Tasks : pc[t] \in {"deleting", "inserting"}

\* cleanup() at shutdown: _should_stop is set.
Stop ==
    /\ loop = "on"
    /\ loop' = "stopping"
    /\ UNCHANGED <<cache, table, keydata, now, tasks, history>>

\* The loop sees _should_stop; or it hangs in a query for five seconds and is
\* cancelled there.
LoopEnds ==
    /\ loop = "stopping"
    /\ loop' = "off"
    /\ Returns(Rotator)
    /\ blame' = IF pc[Rotator] \in {"deleting", "inserting"}
                THEN blame \cup {"unsaved"} ELSE blame
    /\ UNCHANGED <<cache, table, keydata, now, handed, faults>>

\* The process dies and a new one starts with an empty cache.
Crash ==
    /\ faults < MaxFaults
    /\ faults' = faults + 1
    /\ blame' = IF Saving THEN blame \cup {"unsaved"} ELSE blame
    /\ cache' = NoKeys
    /\ pc' = [t \in Tasks |-> "idle"]
    /\ op' = [t \in Tasks |-> "get"]
    /\ got' = [t \in Tasks |-> NoKeys]
    /\ pending' = [t \in Tasks |-> NoKeys]
    /\ loop' = "on"
    /\ UNCHANGED <<table, keydata, now, handed>>

Step(t) == Read(t) \/ Loaded(t) \/ Delete(t) \/ Insert(t)

Next ==
    \/ \E t \in Tasks : Call(t) \/ Step(t) \/ ReadFails(t) \/ SaveFails(t)
    \/ Tick \/ Stop \/ LoopEnds \/ Crash

Spec == Init /\ [][Next]_vars

\* The database answers, and the loop looks at the key again and again.
FairSpec == Spec /\ \A t \in Tasks : WF_vars(Step(t)) /\ WF_vars(Call(Rotator))

-----------------------------------------------------------------------------

TypeOK ==
    /\ cache \in KeyDicts
    /\ table \subseteq KeyDicts
    /\ made \in 0 .. MaxKeys
    /\ issued \in [KeyIds -> 0 .. MaxTime]
    /\ now \in 0 .. MaxTime
    /\ pc \in [Tasks -> {"idle", "reading", "read", "deleting", "inserting"}]
    /\ op \in [Tasks -> {"get", "rotate", "verify"}]
    /\ got \in [Tasks -> KeyDicts]
    /\ pending \in [Tasks -> KeyDicts]
    /\ loop \in {"on", "stopping", "off"}
    /\ handed \in [KeyIds -> {Never} \cup 0 .. MaxTime]
    /\ blame \subseteq {"unread", "raced", "unsaved"}
    /\ faults \in 0 .. MaxFaults

\* What a call that came now would find the keys to be.
Known == IF cache # NoKeys THEN {cache} ELSE Stored

\* A token must verify for the grace period after the day it was signed.
Live(k) == handed[k] # Never /\ now <= handed[k] + GraceDays

\* config.py has old keys "valid for N days after rotation": whoever is given
\* a key to sign with, the tokens verify for the grace period.
SignedVerifies == \A k \in KeyIds : Live(k) => \A keys \in Known : Finds(keys, k)

\* The only ways to lose a key that tokens depend on, over rotations, shutdown
\* and restarts: a load that failed, a load that answered over a cache another
\* task had filled meanwhile, a save that was not completed.
LossExplained == SignedVerifies \/ blame # {}

\* While none of these has happened and no save is under way, the keys the
\* process uses are the row of the table, the only one: a restart changes
\* nothing.
UsedIsStored ==
    blame = {} /\ ~Saving =>
        /\ \A q, r \in table : q = r
        /\ cache \in {NoKeys} \cup Stored

\* While the loop is on, a key that is due is replaced, with no signer calling.
DueIsRotated ==
    (Aged(cache) /\ loop = "on") ~> (~Aged(cache) \/ loop # "on" \/ made = MaxKeys)

=============================================================================
