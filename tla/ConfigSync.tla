----------------------------- MODULE ConfigSync -----------------------------
(***************************************************************************)
(* Configuration shared by several servers (config/manager.py): the YAML   *)
(* file of one namespace, what each server caches of it, the overrides and *)
(* validated models built on the cache, the timestamps that decide when it *)
(* is read again, the watcher that reads it on a thread of its own, and    *)
(* the transports (transport/providers) that carry config.save events.     *)
(* A value of a key is the number of the change that gave it; of a         *)
(* timestamp only whether the file was written since is kept.              *)
(***************************************************************************)
EXTENDS Naturals, Sequences

CONSTANTS
    Servers,
    Keys,               \* keys of the namespace
    Kinds,              \* active transports: "redis", "file", "kafka"
    MaxPublished,       \* bound: config.save events
    MaxEdits,           \* bound: edits of the file by hand
    MaxFaults           \* bound: failures and crashes

ASSUME ConfigAssumption ==
    /\ Kinds \subseteq {"redis", "file", "kafka"}
    /\ MaxPublished \in Nat /\ MaxEdits \in Nat /\ MaxFaults \in Nat

Absent == 0
Original == 1           \* the value of every key at first
Contents == [Keys -> Nat]
Nothing == [k \in Keys |-> Absent]
NoModel == <<>>

VARIABLES
    kind,               \* the active transport
    file,               \* the namespace's YAML file
    changes,            \* publishes and edits so far: the next value
    published,          \* events, oldest first: [key, value]
    edits, faults,
    queue,              \* the queue file, or the topic past the group's offset
    loop,               \* server -> what its event loop is at
    configs,            \* server -> _configs of the namespace
    overrides,          \* server -> _runtime_overrides
    merged,             \* server -> _merged_models
    built,              \* server -> the model its loop is validating, not kept yet
    noted,              \* servers whose _timestamps entry is not older than the file
    listening,          \* server -> its subscription is alive
    batch,              \* server -> events its listener holds
    full,               \* server -> full_config, to be saved
    watcher,            \* server -> what its watcher's thread is at
    found,              \* server -> what discover returned to the thread
    crossed,            \* history: servers whose last read a write crossed
    mixed               \* history: servers whose model was built while reloading

shared == <<kind, file, changes, published, edits, faults, queue>>
cached == <<configs, overrides, merged, noted>>
vars == <<shared, loop, cached, built, listening, batch, full, watcher, found, crossed, mixed>>

Init ==
    /\ kind \in Kinds
    /\ file = [k \in Keys |-> Original]
    /\ changes = Original
    /\ published = <<>> /\ edits = 0 /\ faults = 0
    /\ queue = <<>>
    /\ loop = [s \in Servers |-> "idle"]
    /\ configs = [s \in Servers |-> file]
    /\ overrides = [s \in Servers |-> Nothing]
    /\ merged = [s \in Servers |-> NoModel]
    /\ built = [s \in Servers |-> NoModel]
    /\ noted = Servers
    /\ listening \in [Servers -> IF kind = "file" THEN {TRUE} ELSE BOOLEAN]
    /\ batch = [s \in Servers |-> <<>>]
    /\ full = [s \in Servers |-> Nothing]
    /\ watcher = [s \in Servers |-> "idle"]
    /\ found = [s \in Servers |-> Nothing]
    /\ crossed = {} /\ mixed = {}

-----------------------------------------------------------------------------

Reading(s) == loop[s] \in {"loaded", "reread", "starting"} \/ watcher[s] = "found"

\* The servers between a read of the file and the use of what it returned.
Crosses == crossed' = crossed \cup {s \in Servers : Reading(s)}

Writes(content) ==
    /\ file' = content
    /\ noted' = {}
    /\ Crosses

\* An operator edits the file, in one write.
Edit(k) ==
    /\ edits < MaxEdits
    /\ edits' = edits + 1 /\ changes' = changes + 1
    /\ Writes([file EXCEPT ![k] = changes + 1])
    /\ UNCHANGED <<kind, published, faults, queue, loop, configs, overrides, merged, built, listening, batch, full, watcher, found, mixed>>

\* publish: a Redis message reaches who listens now, the queue file and the
\* topic keep it.
Publish(k) ==
    /\ Len(published) < MaxPublished
    /\ LET e == [key |-> k, value |-> changes + 1] IN
        /\ published' = Append(published, e)
        /\ IF kind = "redis"
           THEN /\ batch' = [s \in Servers |-> IF listening[s] THEN Append(batch[s], e) ELSE batch[s]]
                /\ UNCHANGED queue
           ELSE queue' = Append(queue, e) /\ UNCHANGED batch
    /\ changes' = changes + 1
    /\ UNCHANGED <<kind, file, edits, faults, loop, cached, built, listening, full, watcher, found, crossed, mixed>>

\* The servers are one consumer group: each event goes to one of them.
FetchKafka(s) ==
    /\ kind = "kafka" /\ listening[s] /\ loop[s] = "idle"
    /\ batch[s] = <<>> /\ queue # <<>>
    /\ batch' = [batch EXCEPT ![s] = <<Head(queue)>>]
    /\ queue' = Tail(queue)
    /\ UNCHANGED <<kind, file, changes, published, edits, faults, loop, cached, built, listening, full, watcher, found, crossed, mixed>>

\* _handle_queue_file reads every line, calls back for each ...
FetchFile(s) ==
    /\ kind = "file" /\ loop[s] = "idle" /\ queue # <<>>
    /\ batch' = [batch EXCEPT ![s] = queue]
    /\ loop' = [loop EXCEPT ![s] = "next"]
    /\ UNCHANGED <<shared, cached, built, listening, full, watcher, found, crossed, mixed>>

\* ... and unlinks the file, whatever was appended since.
Unlink(s) ==
    /\ kind = "file" /\ loop[s] = "next" /\ batch[s] = <<>>
    /\ queue' = <<>>
    /\ loop' = [loop EXCEPT ![s] = "idle"]
    /\ UNCHANGED <<kind, file, changes, published, edits, faults, cached, built, listening, batch, full, watcher, found, crossed, mixed>>

Ready == IF kind = "file" THEN "next" ELSE "idle"

-----------------------------------------------------------------------------

\* Mutant: a new value leaves the validated model as it was.
KeepsModel(s) == UNCHANGED <<merged, mixed>>

\* set: del self._merged_models[namespace].  A model being built meanwhile, on
\* the loop, is kept all the same.
DropsModel(s) ==
    /\ merged' = [merged EXCEPT ![s] = NoModel]
    /\ mixed' = IF loop[s] = "building" THEN mixed \cup {s} ELSE mixed \ {s}

\* _handle_save_request, set: the override, and the whole namespace as this
\* server caches it, with the one key set, is to be saved; the file is opened
\* for writing, which empties it.
Set(s) ==
    /\ loop[s] = Ready /\ batch[s] # <<>>
    /\ LET e == Head(batch[s]) IN
        /\ overrides' = [overrides EXCEPT ![s][e.key] = e.value]
        /\ full' = [full EXCEPT ![s] = [configs[s] EXCEPT ![e.key] = e.value]]
    /\ DropsModel(s)
    /\ Writes(Nothing)
    /\ batch' = [batch EXCEPT ![s] = Tail(@)]
    /\ loop' = [loop EXCEPT ![s] = "saving"]
    /\ UNCHANGED <<kind, changes, published, edits, faults, queue, configs, built, listening, watcher, found>>

Dump(s) ==
    /\ loop[s] = "saving"
    /\ Writes(full[s])
    /\ loop' = [loop EXCEPT ![s] = "saved"]
    /\ full' = [full EXCEPT ![s] = Nothing]
    /\ UNCHANGED <<kind, changes, published, edits, faults, queue, configs, overrides, merged, built, listening, batch, watcher, found, mixed>>

\* The listener's task, and what it received, ends with an exception or with
\* the process.
Forgets(s) == batch' = [batch EXCEPT ![s] = <<>>]

\* The save fails.  The queue file's reader logs it; the Redis and the Kafka
\* listener end with the exception, and their servers hear of nothing more.
SaveFails(s) ==
    /\ loop[s] = "saving"
    /\ faults < MaxFaults /\ faults' = faults + 1
    /\ loop' = [loop EXCEPT ![s] = Ready]
    /\ full' = [full EXCEPT ![s] = Nothing]
    /\ IF kind = "file" THEN UNCHANGED <<listening, batch>>
       ELSE listening' = [listening EXCEPT ![s] = FALSE] /\ Forgets(s)
    /\ UNCHANGED <<kind, file, changes, published, edits, queue, cached, built, watcher, found, crossed, mixed>>

\* A read of the file, that of the thread apart, begins anew.
ReadsAnew(s, other) == crossed' = IF other THEN crossed ELSE crossed \ {s}

LoadBack(s) ==
    /\ loop[s] = "saved"
    /\ configs' = [configs EXCEPT ![s] = file]
    /\ ReadsAnew(s, watcher[s] = "found")
    /\ loop' = [loop EXCEPT ![s] = "loaded"]
    /\ UNCHANGED <<shared, overrides, merged, noted, built, listening, batch, full, watcher, found, mixed>>

\* Mutant: the time is noted although nothing was loaded.
StampsAnyway(s) == noted' = noted \cup {s}

\* A load that fails leaves the cache and its time as they were.
KeepsStamp(s) == UNCHANGED noted

LoadBackFails(s) ==
    /\ loop[s] = "saved"
    /\ faults < MaxFaults /\ faults' = faults + 1
    /\ KeepsStamp(s)
    /\ DropsModel(s)
    /\ loop' = [loop EXCEPT ![s] = Ready]
    /\ UNCHANGED <<kind, file, changes, published, edits, queue, configs, overrides, built, listening, batch, full, watcher, found, crossed>>

\* datetime.now() once the file is loaded.
StampNow(s) ==
    /\ loop[s] \in {"loaded", "reread"}
    /\ noted' = noted \cup {s}
    /\ DropsModel(s)
    /\ loop' = [loop EXCEPT ![s] = IF loop[s] = "loaded" THEN Ready ELSE "idle"]
    /\ UNCHANGED <<shared, configs, overrides, built, listening, batch, full, watcher, found, crossed>>

-----------------------------------------------------------------------------

\* should_reload: no time is known, or the file's is later.
ShouldReload(s) == s \notin noted

\* get, when the strategy looks at the file: at every access ("always"), or
\* at some of them ("ttl").  A load that fails changes nothing.
Get(s) ==
    /\ loop[s] = "idle" /\ ShouldReload(s)
    /\ configs' = [configs EXCEPT ![s] = file]
    /\ ReadsAnew(s, watcher[s] = "found")
    /\ loop' = [loop EXCEPT ![s] = "reread"]
    /\ UNCHANGED <<shared, overrides, merged, noted, built, listening, batch, full, watcher, found, mixed>>

\* deep_merge of the file's values and the overrides.
Merge(s) == [k \in Keys |-> IF overrides[s][k] # Absent THEN overrides[s][k] ELSE configs[s][k]]

\* __getattr__, _get_typed_config: merges a model only when none is kept ...
GetTyped(s) ==
    /\ loop[s] = "idle" /\ merged[s] = NoModel
    /\ built' = [built EXCEPT ![s] = Merge(s)]
    /\ loop' = [loop EXCEPT ![s] = "building"]
    /\ mixed' = IF watcher[s] = "idle" THEN mixed \ {s} ELSE mixed \cup {s}
    /\ UNCHANGED <<shared, cached, listening, batch, full, watcher, found, crossed>>

\* ... and keeps it once it is validated, whatever the watcher's thread has
\* done to the cache meanwhile.
StoreTyped(s) ==
    /\ loop[s] = "building"
    /\ merged' = [merged EXCEPT ![s] = built[s]]
    /\ built' = [built EXCEPT ![s] = NoModel]
    /\ loop' = [loop EXCEPT ![s] = "idle"]
    /\ UNCHANGED <<shared, configs, overrides, noted, listening, batch, full, watcher, found, crossed, mixed>>

\* reload_configs, called by the watcher on its own thread whenever a YAML
\* file of the directory is written, this one or another.
Clear(s) ==
    /\ watcher[s] = "idle" /\ loop[s] # "starting"
    /\ configs' = [configs EXCEPT ![s] = Nothing]
    /\ DropsModel(s)
    /\ noted' = noted \ {s}
    /\ watcher' = [watcher EXCEPT ![s] = "cleared"]
    /\ UNCHANGED <<shared, loop, overrides, built, listening, batch, full, found, crossed>>

Discover(s) ==
    /\ watcher[s] = "cleared"
    /\ found' = [found EXCEPT ![s] = file]
    /\ watcher' = [watcher EXCEPT ![s] = "found"]
    /\ ReadsAnew(s, loop[s] \in {"loaded", "reread"})
    /\ UNCHANGED <<shared, loop, cached, built, listening, batch, full, mixed>>

Replace(s) ==
    /\ watcher[s] = "found"
    /\ configs' = [configs EXCEPT ![s] = found[s]]
    /\ found' = [found EXCEPT ![s] = Nothing]
    /\ watcher' = [watcher EXCEPT ![s] = "idle"]
    /\ UNCHANGED <<shared, loop, overrides, merged, noted, built, listening, batch, full, crossed, mixed>>

-----------------------------------------------------------------------------

\* A server dies and starts again: __init__ discovers the files and then asks
\* for their times; set_transport subscribes, which outside a running loop
\* leaves no Redis or Kafka listener behind.  The group's offset may not have
\* been committed.
Restart(s) ==
    /\ faults < MaxFaults /\ faults' = faults + 1
    /\ configs' = [configs EXCEPT ![s] = file]
    /\ overrides' = [overrides EXCEPT ![s] = Nothing]
    /\ DropsModel(s)
    /\ noted' = noted \ {s}
    /\ listening' \in {[listening EXCEPT ![s] = b] : b \in IF kind = "file" THEN {TRUE} ELSE BOOLEAN}
    /\ Forgets(s)
    /\ queue' \in {queue} \cup (IF kind = "kafka" THEN {batch[s] \o queue} ELSE {})
    /\ loop' = [loop EXCEPT ![s] = "starting"]
    /\ watcher' = [watcher EXCEPT ![s] = "idle"]
    /\ full' = [full EXCEPT ![s] = Nothing]
    /\ built' = [built EXCEPT ![s] = NoModel]
    /\ found' = [found EXCEPT ![s] = Nothing]
    /\ crossed' = crossed \ {s}
    /\ UNCHANGED <<kind, file, changes, published, edits>>

Start(s) ==
    /\ loop[s] = "starting"
    /\ noted' = noted \cup {s}
    /\ loop' = [loop EXCEPT ![s] = "idle"]
    /\ UNCHANGED <<shared, configs, overrides, merged, built, listening, batch, full, watcher, found, crossed, mixed>>

Handle(s) ==
    \/ FetchKafka(s) \/ FetchFile(s) \/ Unlink(s)
    \/ Set(s) \/ Dump(s) \/ LoadBack(s) \/ StampNow(s) \/ Start(s)

Reload(s) == Clear(s) \/ Discover(s) \/ Replace(s)

Next ==
    \/ \E k \in Keys : Edit(k) \/ Publish(k)
    \/ \E s \in Servers :
        \/ Handle(s) \/ SaveFails(s) \/ LoadBackFails(s)
        \/ Get(s) \/ GetTyped(s) \/ StoreTyped(s) \/ Reload(s) \/ Restart(s)

Spec == Init /\ [][Next]_vars

-----------------------------------------------------------------------------

\* The type invariant; in particular a server without a listener holds no
\* event: it neither hears of one later nor works off what it had.
TypeOK ==
    /\ kind \in Kinds
    /\ file \in Contents
    /\ changes \in Nat
    /\ published \in Seq([key : Keys, value : Nat])
    /\ edits \in Nat /\ faults \in Nat
    /\ queue \in Seq([key : Keys, value : Nat])
    /\ loop \in [Servers -> {"idle", "next", "saving", "saved", "loaded", "reread", "building", "starting"}]
    /\ configs \in [Servers -> Contents]
    /\ overrides \in [Servers -> Contents]
    /\ merged \in [Servers -> Contents \cup {NoModel}]
    /\ built \in [Servers -> Contents \cup {NoModel}]
    /\ noted \subseteq Servers
    /\ listening \in [Servers -> BOOLEAN]
    /\ batch \in [Servers -> Seq([key : Keys, value : Nat])]
    /\ full \in [Servers -> Contents]
    /\ watcher \in [Servers -> {"idle", "cleared", "found"}]
    /\ found \in [Servers -> Contents]
    /\ \A s \in Servers : batch[s] # <<>> => listening[s]
    /\ crossed \subseteq Servers /\ mixed \subseteq Servers

Settled(s) == loop[s] = "idle" /\ watcher[s] = "idle"

\* A server that caches something else than the file says will look again: its
\* time is older than the file's, unless a write fell between one of its reads
\* and the moment it noted the time or put what it read in place (get,
\* _reload_namespace, _handle_save_request, reload_configs, __init__).
StaleIsNoticed ==
    \A s \in Servers : Settled(s) /\ configs[s] # file => ShouldReload(s) \/ s \in crossed

\* The validated model a server keeps is that of its cache and overrides, unless
\* the watcher's thread was reloading, or began to, while the model was merged
\* and validated: the thread empties the cache and replaces it in two steps, and
\* what it drops does not include a model that is still being built
\* (_get_typed_config against reload_configs).
TypedIsCurrent ==
    \A s \in Servers : Settled(s) /\ s \notin mixed => merged[s] \in {NoModel, Merge(s)}

=============================================================================
