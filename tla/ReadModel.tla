----------------------------- MODULE ReadModel -----------------------------
(***************************************************************************)
(* The read model on disk and the portal's cache of it (crates/ovp-index,  *)
(* ovp-server).  Builders fold the vault into index.json, evidence.json    *)
(* and a SQLite shadow, each replaced by a rename; the portal serves the   *)
(* shadow when its mtime is at least that of the JSON files, the JSON      *)
(* otherwise, through a cache keyed by the newest mtime of the three.      *)
(* Some builders write all three, some only JSON, and not all of them hold *)
(* the vault's run lock.                                                   *)
(*                                                                         *)
(* A generation is the version of the vault a file was built from.  Every  *)
(* write gets an mtime of its own.                                         *)
(***************************************************************************)
EXTENDS Integers

CONSTANTS
    Builders,    \* processes that rebuild the read model
    Locked,      \* those of them that hold the run lock (daily, publish)
    NoShadow,    \* those that write no shadow (publish)
    IndexOnly,   \* those that write index.json only (doctor --fix)
    Threads,     \* request threads of the portal
    Operators,   \* bound: those that serve curations and refreshes too
    Nobody,
    MaxBuilds,      \* bound: rebuilds
    MaxOperations,  \* bound: curations through the portal and calls of /api/refresh
    MaxTroubles     \* bound: killed builders and failed promotions

ASSUME ReadModelConstants ==
    /\ Locked \subseteq Builders /\ NoShadow \subseteq Builders /\ IndexOnly \subseteq NoShadow
    /\ Nobody \notin Threads /\ Operators \subseteq Threads
    /\ MaxBuilds \in Nat /\ MaxOperations \in Nat /\ MaxTroubles \in Nat

VARIABLES
    vault,      \* the version of what a build reads: ledgers, packs, tag tables
    mtime,      \* the mtime of the last write
    index, shadow, \* the files served from: generation and mtime
    evidence,   \* the mtime of evidence.json
    pc, model,  \* the builders: next step, and the generation in memory
    cache,      \* AppState.model
    lock,       \* the thread that holds its write lock
    req,        \* the request each thread serves
    builds, operations, troubles,
    offered     \* history: the generations the disk offered since each request began

disk == <<mtime, index, evidence, shadow>>
bounds == <<builds, operations, troubles>>
vars == <<vault, disk, pc, model, cache, lock, req, bounds, offered>>

Trouble == troubles < MaxTroubles /\ troubles' = troubles + 1

----------------------------------------------------------------------------
(* What the disk offers                                                    *)

Later(a, b) == IF a >= b THEN a ELSE b

JsonStamp == Later(index.at, evidence)

StampOfJson(dbAt) == JsonStamp

\* projection_stamp
Stamp(dbAt) == Later(dbAt, JsonStamp)

\* what sqlite_is_newest asks
IsNewest(dbAt) == dbAt > 0 /\ dbAt >= JsonStamp

Offer == IF IsNewest(shadow.at) THEN shadow.gen ELSE index.gen

Asks(t) == req[t].kind = "get" /\ req[t].pc # "idle"

\* Whatever happens on disk, what it offers then is offered to every request.
Watch == offered' = [t \in Threads |-> IF Asks(t) THEN offered[t] \cup {Offer'} ELSE {}]

Idle == [pc |-> "idle", kind |-> "get", stamp |-> 0, sqlite |-> FALSE, gen |-> 0]

Init ==
    /\ vault = 0
    /\ mtime = 2                \* a vault whose read model has no shadow yet
    /\ index = [gen |-> 0, at |-> 1] /\ evidence = 2
    /\ shadow = [gen |-> 0, at |-> 0]
    /\ pc = [b \in Builders |-> "idle"] /\ model = [b \in Builders |-> 0]
    /\ cache = [loaded |-> FALSE, stamp |-> 0, gen |-> 0]
    /\ lock = Nobody
    /\ req = [t \in Threads |-> Idle]
    /\ builds = 0 /\ operations = 0 /\ troubles = 0
    /\ offered = [t \in Threads |-> {}]

----------------------------------------------------------------------------
(* Builders                                                                *)

Holds(b) == b \in Locked /\ pc[b] # "idle"

Scan(b) ==
    /\ pc[b] = "idle" /\ builds < MaxBuilds
    /\ b \in Locked => \A c \in Builders : ~Holds(c)
    /\ vault' = IF b \in Locked THEN vault + 1 ELSE vault   \* a run's own records
    /\ model' = [model EXCEPT ![b] = vault']
    /\ pc' = [pc EXCEPT ![b] = "index"]
    /\ builds' = builds + 1
    /\ UNCHANGED <<disk, cache, lock, req, operations, troubles, offered>>

Replaced(gen) == [gen |-> gen, at |-> mtime']

WriteIndex(b) ==
    /\ pc[b] = "index"
    /\ mtime' = mtime + 1
    /\ index' = Replaced(model[b])
    /\ pc' = [pc EXCEPT ![b] = IF b \in IndexOnly THEN "idle" ELSE "evidence"]
    /\ UNCHANGED <<vault, evidence, shadow, model, cache, lock, req, bounds>>
    /\ Watch

WriteEvidence(b) ==
    /\ pc[b] = "evidence"
    /\ mtime' = mtime + 1
    /\ evidence' = mtime'
    /\ pc' = [pc EXCEPT ![b] = IF b \in NoShadow THEN "idle" ELSE "shadow"]
    /\ UNCHANGED <<vault, index, shadow, model, cache, lock, req, bounds>>
    /\ Watch

\* The candidate is built beside, verified and renamed into place.
Promote(b) ==
    /\ pc[b] = "shadow"
    /\ mtime' = mtime + 1
    /\ shadow' = Replaced(model[b])
    /\ pc' = [pc EXCEPT ![b] = "idle"]
    /\ UNCHANGED <<vault, index, evidence, model, cache, lock, req, bounds>>
    /\ Watch

GiveUpInPlace(b) ==
    /\ pc[b] # "idle" /\ Trouble
    /\ pc' = [pc EXCEPT ![b] = "idle"]
    /\ mtime' = mtime + 1
    /\ shadow' = IF pc[b] = "shadow" THEN [shadow EXCEPT !.at = mtime'] ELSE shadow
    /\ UNCHANGED <<vault, index, evidence, model, cache, lock, req, builds, operations>>
    /\ Watch

\* Killed, or the candidate fails its parity check.
GiveUp(b) ==
    /\ pc[b] # "idle" /\ Trouble
    /\ pc' = [pc EXCEPT ![b] = "idle"]
    /\ UNCHANGED <<vault, disk, model, cache, lock, req, builds, operations, offered>>

----------------------------------------------------------------------------
(* Requests.  A get freshens the cache (freshen_with); a refresh reloads   *)
(* it whatever its stamp (force_reload_with); a curation writes a decision,*)
(* rebuilds index.json and refreshes (rebuild_index_now).                  *)

End(t) ==
    /\ req' = [req EXCEPT ![t] = Idle]
    /\ offered' = [offered EXCEPT ![t] = {}]

Begin(t, request) ==
    /\ req[t].pc = "idle"
    /\ req' = [req EXCEPT ![t] = request]
    /\ offered' = [offered EXCEPT ![t] = IF request.kind = "get" THEN {Offer} ELSE {}]

Get(t) ==
    /\ Begin(t, [Idle EXCEPT !.pc = "stat"])
    /\ UNCHANGED <<vault, disk, pc, model, cache, lock, bounds>>

Refresh(t) ==
    /\ operations < MaxOperations /\ operations' = operations + 1
    /\ Begin(t, [Idle EXCEPT !.pc = "stat", !.kind = "refresh"])
    /\ UNCHANGED <<vault, disk, pc, model, cache, lock, builds, troubles>>

Curate(t) ==
    /\ operations < MaxOperations /\ operations' = operations + 1
    /\ vault' = vault + 1
    /\ Begin(t, [Idle EXCEPT !.pc = "write", !.kind = "refresh", !.gen = vault'])
    /\ UNCHANGED <<disk, pc, model, cache, lock, builds, troubles>>

RebuildIndex(t) ==
    /\ req[t].pc = "write"
    /\ mtime' = mtime + 1
    /\ index' = Replaced(req[t].gen)
    /\ req' = [req EXCEPT ![t].pc = "stat", ![t].gen = 0]
    /\ UNCHANGED <<vault, evidence, shadow, pc, model, cache, lock, bounds>>
    /\ Watch

\* projection_stamp stats the shadow before the JSON files.
StatShadow(t) ==
    /\ req[t].pc = "stat"
    /\ req' = [req EXCEPT ![t].stamp = shadow.at, ![t].pc = "stamp"]
    /\ UNCHANGED <<vault, disk, pc, model, cache, lock, bounds, offered>>

TakeStamp(t) ==
    /\ req[t].pc = "stamp"
    /\ req' = [req EXCEPT ![t].stamp = Stamp(@), ![t].pc = IF req[t].kind = "get" THEN "look" ELSE "reload"]
    /\ UNCHANGED <<vault, disk, pc, model, cache, lock, bounds, offered>>

\* sqlite_is_newest
Choose(t) == req' = [req EXCEPT ![t].sqlite = IsNewest(shadow.at), ![t].pc = "load"]

\* A miss under the read lock counts once it is one under the write lock too.
Look(t) ==
    /\ req[t].pc = "look" /\ lock = Nobody
    /\ IF cache.loaded /\ cache.stamp = req[t].stamp
       THEN End(t) /\ lock' = lock
       ELSE Choose(t) /\ lock' = t /\ UNCHANGED offered
    /\ UNCHANGED <<vault, disk, pc, model, cache, bounds>>

Reload(t) ==
    /\ req[t].pc = "reload"
    /\ Choose(t)
    /\ UNCHANGED <<vault, disk, pc, model, cache, lock, bounds, offered>>

Chosen(t) == IF req[t].sqlite THEN shadow.gen ELSE index.gen

\* A get loads and stores under the write lock; a refresh takes the lock to
\* store what it has loaded, under the stamp it took before.
Load(t) ==
    /\ req[t].pc = "load"
    /\ IF req[t].kind = "get"
       THEN /\ cache' = [loaded |-> TRUE, stamp |-> req[t].stamp, gen |-> Chosen(t)]
            /\ lock' = Nobody
            /\ End(t)
       ELSE /\ req' = [req EXCEPT ![t].gen = Chosen(t), ![t].sqlite = FALSE, ![t].pc = "store"]
            /\ UNCHANGED <<cache, lock, offered>>
    /\ UNCHANGED <<vault, disk, pc, model, bounds>>

StampAtStore(t) == Stamp(shadow.at)
StampTaken(t) == req[t].stamp

Store(t) ==
    /\ req[t].pc = "store" /\ lock = Nobody
    /\ cache' = [loaded |-> TRUE, stamp |-> StampTaken(t), gen |-> req[t].gen]
    /\ End(t)
    /\ UNCHANGED <<vault, disk, pc, model, lock, bounds>>

Build(b) == Scan(b) \/ WriteIndex(b) \/ WriteEvidence(b) \/ Promote(b)

Serve(t) ==
    \/ RebuildIndex(t)
    \/ StatShadow(t) \/ TakeStamp(t) \/ Look(t) \/ Reload(t) \/ Load(t) \/ Store(t)

Next ==
    \/ \E b \in Builders : Build(b) \/ GiveUp(b)
    \/ \E t \in Threads : Get(t) \/ Serve(t)
    \/ \E t \in Operators : Refresh(t) \/ Curate(t)

Spec == Init /\ [][Next]_vars

----------------------------------------------------------------------------
Files == [gen : Nat, at : Nat]
ThreadSteps == {"idle", "write", "stat", "stamp", "look", "reload", "load", "store"}

\* The types, and: the write lock is with the thread that loads for a get.
TypeOK ==
    /\ vault \in Nat /\ mtime \in Nat
    /\ index \in Files /\ evidence \in Nat /\ shadow \in Files
    /\ pc \in [Builders -> {"idle", "index", "evidence", "shadow"}]
    /\ model \in [Builders -> Nat]
    /\ cache \in [loaded : BOOLEAN, stamp : Nat, gen : Nat]
    /\ req \in [Threads -> [pc : ThreadSteps, kind : {"get", "refresh"}, stamp : Nat,
                            sqlite : BOOLEAN, gen : Nat]]
    /\ lock \in Threads \cup {Nobody}
    /\ offered \in [Threads -> SUBSET Nat]
    /\ \A t \in Threads :
            /\ req[t].pc \in {"write", "reload", "store"} => req[t].kind = "refresh"
            /\ req[t].pc = "look" => req[t].kind = "get"
            /\ lock = t <=> Asks(t) /\ req[t].pc = "load"

\* A response shows a generation the disk offered at some time while it was
\* served: never an older one out of the cache, whatever the writes, refreshes
\* and other requests in between (freshen_with and force_reload_with).  A
\* request ends with its answer in the cache.
AnswersAreRegular ==
    [][\A t \in Threads :
        Asks(t) /\ req'[t].pc = "idle" => cache'.gen \in offered[t]]_vars

\* A cache entry filed under the present stamp is the present offer: else it
\* would be served until the next write ("stamp records the source file's
\* modified-time AT LOAD TIME", Cached).
FiledUnderItsStamp ==
    cache.loaded /\ cache.stamp = Stamp(shadow.at) => cache.gen = Offer

\* A killed build, a failed promotion or a JSON-only build never brings an older
\* generation back.  What does is a build or curation that read the vault before
\* and is still at work, or one whose new index an older build replaced before
\* it wrote its evidence.json.
NothingOlderComesBack ==
    [][Offer' < Offer =>
        \/ \E b \in Builders : pc[b] # "idle" /\ model[b] < Offer
        \/ \E t \in Threads : req[t].pc = "write" /\ req[t].gen < Offer
        \/ \E b \in Builders : pc[b] = "evidence" /\ index.gen < model[b]]_vars
=============================================================================
