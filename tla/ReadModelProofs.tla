-------------------------- MODULE ReadModelProofs --------------------------
(***************************************************************************)
(* Proofs about ReadModel, for any builders and request threads and any    *)
(* number of rebuilds, curations, refreshes and kills.  CacheInv is the    *)
(* inductive invariant.                                                    *)
(***************************************************************************)
EXTENDS ReadModel, TLAPS

\* A thread that has not looked yet aims at a stamp: nothing
\* filed under it, or about to be, is older than the thread's request.
Aims(t) == Asks(t) /\ req[t].pc \in {"stamp", "look"}
Aim(t) == IF req[t].pc = "stamp" THEN Stamp(req[t].stamp) ELSE req[t].stamp

PresentIsOffered ==
    /\ mtime = Stamp(shadow.at)
    /\ cache.stamp <= mtime /\ \A t \in Threads : req[t].stamp <= mtime
    /\ cache.loaded /\ cache.stamp = mtime => cache.gen = Offer
    /\ \A u \in Threads : req[u].stamp = mtime =>
            /\ req[u].pc = "load" => Chosen(u) = Offer
            /\ req[u].pc = "store" => req[u].gen = Offer

AimedAtIsOffered ==
    /\ \A t \in Threads : Asks(t) => Offer \in offered[t]
    /\ \A t \in Threads : Asks(t) /\ req[t].pc = "load" => Chosen(t) \in offered[t]
    /\ \A t \in Threads : Aims(t) /\ cache.loaded /\ cache.stamp = Aim(t) => cache.gen \in offered[t]
    /\ \A t \in Threads, u \in Threads : Aims(t) /\ req[u].stamp = Aim(t) =>
            /\ req[u].pc = "load" => Chosen(u) \in offered[t]
            /\ req[u].pc = "store" => req[u].gen \in offered[t]

CacheInv == TypeOK /\ PresentIsOffered /\ AimedAtIsOffered

Requests == [pc : ThreadSteps, kind : {"get", "refresh"}, stamp : Nat, sqlite : BOOLEAN, gen : Nat]

LEMMA StampsAreNat ==
  ASSUME TypeOK, NEW n \in Nat
  PROVE  /\ JsonStamp \in Nat /\ JsonStamp >= index.at /\ JsonStamp >= evidence
         /\ Stamp(n) \in Nat /\ Stamp(n) >= n /\ Stamp(n) >= JsonStamp
         /\ Stamp(n) \in {n, JsonStamp}
  BY DEF TypeOK, Files, JsonStamp, Stamp, Later

LEMMA InitEstablishesCacheInv == Init => CacheInv
  <1> SUFFICES ASSUME Init PROVE CacheInv
    OBVIOUS
  <1> USE ReadModelConstants DEF Init, Idle
  <1>1. TypeOK
    BY DEF TypeOK, Files, ThreadSteps
  <1>2. PresentIsOffered
    BY DEF PresentIsOffered, Stamp, JsonStamp, Later
  <1>3. AimedAtIsOffered
    BY DEF AimedAtIsOffered, Asks, Aims
  <1> QED
    BY <1>1, <1>2, <1>3 DEF CacheInv

\* A step that leaves files, cache and requests alone.
LEMMA BuilderStepsKeepCacheInv ==
  ASSUME CacheInv, NEW b \in Builders, Scan(b) \/ GiveUp(b)
  PROVE  CacheInv'
  <1> USE DEF CacheInv
  <1>1. UNCHANGED <<disk, cache, lock, req, offered>>
    BY DEF Scan, GiveUp
  <1>2. TypeOK'
    BY <1>1 DEF TypeOK, Scan, GiveUp, Trouble, Files, ThreadSteps, Asks, disk
  <1>3. PresentIsOffered'
    BY <1>1 DEF PresentIsOffered, Stamp, JsonStamp, Later, Offer, IsNewest, Chosen, disk
  <1>4. AimedAtIsOffered'
    BY <1>1 DEF AimedAtIsOffered, Asks, Aims, Aim, Stamp, JsonStamp, Later, Offer, IsNewest, Chosen, disk
  <1> QED
    BY <1>2, <1>3, <1>4

\* What the disk offers after a write, and what stamps are then.
LEMMA IndexWritten ==
  ASSUME CacheInv, NEW g \in Nat,
         mtime' = mtime + 1, index' = [gen |-> g, at |-> mtime'], UNCHANGED <<evidence, shadow>>
  PROVE  /\ Offer' = index'.gen /\ mtime' = Stamp(shadow.at)'
         /\ \A n \in Nat : n <= mtime => Stamp(n)' = mtime'
  BY DEF CacheInv, TypeOK, Files, PresentIsOffered, Offer, IsNewest, Stamp, JsonStamp, Later

LEMMA EvidenceWritten ==
  ASSUME CacheInv, mtime' = mtime + 1, evidence' = mtime', UNCHANGED <<index, shadow>>
  PROVE  /\ Offer' = index'.gen /\ mtime' = Stamp(shadow.at)'
         /\ \A n \in Nat : n <= mtime => Stamp(n)' = mtime'
  BY DEF CacheInv, TypeOK, Files, PresentIsOffered, Offer, IsNewest, Stamp, JsonStamp, Later

LEMMA ShadowWritten ==
  ASSUME CacheInv, NEW g \in Nat,
         mtime' = mtime + 1, shadow' = [gen |-> g, at |-> mtime'], UNCHANGED <<index, evidence>>
  PROVE  /\ Offer' = shadow'.gen /\ mtime' = Stamp(shadow.at)'
         /\ \A n \in Nat : Stamp(n)' = Stamp(n)
  BY DEF CacheInv, TypeOK, Files, PresentIsOffered, Offer, IsNewest, Stamp, JsonStamp, Later

\* The requests as a builder's write or a curation's finds them: no stamp, no
\* step and no choice that matters here changes.
RequestsStay ==
    \A t \in Threads : req'[t] = req[t] \/
        (req[t].pc = "write" /\ req'[t] = [req[t] EXCEPT !.pc = "stat", !.gen = 0])

LEMMA RequestsStayAsTheyAre ==
  ASSUME CacheInv, RequestsStay, NEW t \in Threads
  PROVE  /\ req'[t].stamp = req[t].stamp /\ req'[t].stamp \in Nat /\ req'[t].stamp <= mtime
         /\ Asks(t)' = Asks(t) /\ Aims(t)' = Aims(t)
         /\ Asks(t) => req'[t] = req[t]
         /\ req'[t].pc \in {"stamp", "look", "load", "store"} => req'[t] = req[t]
  <1>1. req[t].stamp \in Nat /\ req[t].stamp <= mtime
    BY DEF CacheInv, TypeOK, PresentIsOffered
  <1>2. CASE req'[t] = req[t]
    BY <1>1, <1>2 DEF Asks, Aims
  <1>3. CASE req[t].pc = "write" /\ req'[t] = [req[t] EXCEPT !.pc = "stat", !.gen = 0]
    <2>1. req[t].kind = "refresh"
      BY <1>3 DEF CacheInv, TypeOK
    <2>2. req'[t].stamp = req[t].stamp /\ req'[t].kind = req[t].kind /\ req'[t].pc = "stat"
      BY <1>3 DEF CacheInv, TypeOK
    <2> QED
      BY <1>1, <2>1, <2>2 DEF Asks, Aims
  <1> QED
    BY <1>2, <1>3 DEF RequestsStay

LEMMA WritesOfJsonKeepInv ==
  ASSUME CacheInv, mtime' = mtime + 1, UNCHANGED <<shadow, cache>>, RequestsStay, Watch,
         Offer' = index'.gen, mtime' = Stamp(shadow.at)',
         \A n \in Nat : n <= mtime => Stamp(n)' = mtime'
  PROVE  PresentIsOffered' /\ AimedAtIsOffered'
  <1> USE RequestsStayAsTheyAre
  <1>1. cache.stamp <= mtime /\ cache.stamp \in Nat /\ mtime \in Nat
    BY DEF CacheInv, TypeOK, PresentIsOffered
  <1>2. PresentIsOffered'
    BY <1>1 DEF PresentIsOffered
  <1>3. \A t \in Threads : Asks(t)' => offered'[t] = offered[t] \cup {Offer'}
    BY DEF Watch
  <1>4. \A t \in Threads : Aims(t)' =>
            (req'[t].pc = "look" /\ req[t] = req'[t]) \/ Aim(t)' = mtime'
    BY DEF Aims, Aim
  <1>5. \A u \in Threads : req'[u].pc = "load" => Chosen(u)' \in {Chosen(u), Offer'}
    BY DEF Chosen
  <1>6. AimedAtIsOffered'
    <2>1. \A t \in Threads : Asks(t)' => Offer' \in offered'[t]
      BY <1>3
    <2>2. \A t \in Threads : (Asks(t) /\ req[t].pc = "load")' => Chosen(t)' \in offered'[t]
      BY <1>3, <1>5 DEF CacheInv, AimedAtIsOffered
    <2>3. \A t \in Threads : (Aims(t) /\ cache.loaded /\ cache.stamp = Aim(t))' => cache'.gen \in offered'[t]
      BY <1>1, <1>3, <1>4 DEF CacheInv, AimedAtIsOffered, Aims, Aim
    <2>4. ASSUME NEW t \in Threads, NEW u \in Threads, Aims(t)', req'[u].stamp = Aim(t)'
          PROVE  /\ req'[u].pc = "load" => Chosen(u)' \in offered'[t]
                 /\ req'[u].pc = "store" => req'[u].gen \in offered'[t]
      <3>1. req'[t].pc = "look" /\ req[t] = req'[t] /\ Aim(t)' = Aim(t) /\ Aims(t) /\ Asks(t)'
        BY <1>1, <1>4, <2>4 DEF Aim, Aims
      <3> QED
        BY <1>3, <1>5, <2>4, <3>1 DEF CacheInv, AimedAtIsOffered
    <2> QED
      BY <2>1, <2>2, <2>3, <2>4 DEF AimedAtIsOffered
  <1> QED
    BY <1>2, <1>6

LEMMA PromotionKeepsInv ==
  ASSUME CacheInv, mtime' = mtime + 1, UNCHANGED <<index, evidence, cache>>, RequestsStay, Watch,
         Offer' = shadow'.gen, mtime' = Stamp(shadow.at)',
         \A n \in Nat : Stamp(n)' = Stamp(n)
  PROVE  PresentIsOffered' /\ AimedAtIsOffered'
  <1> USE RequestsStayAsTheyAre
  <1>1. cache.stamp <= mtime /\ cache.stamp \in Nat /\ mtime \in Nat
    BY DEF CacheInv, TypeOK, PresentIsOffered
  <1>2. PresentIsOffered'
    BY <1>1 DEF PresentIsOffered
  <1>3. \A t \in Threads : Asks(t)' => offered'[t] = offered[t] \cup {Offer'}
    BY DEF Watch
  <1>4. \A t \in Threads : Aims(t)' => Aim(t)' = Aim(t) /\ Aims(t) /\ Asks(t)'
    BY DEF Aims, Aim
  <1>5. \A u \in Threads : req'[u].pc = "load" => Chosen(u)' \in {Chosen(u), Offer'}
    BY DEF Chosen
  <1>6. AimedAtIsOffered'
    BY <1>3, <1>4, <1>5 DEF CacheInv, AimedAtIsOffered
  <1> QED
    BY <1>2, <1>6

LEMMA WritesKeepCacheInv ==
  ASSUME CacheInv, NEW b \in Builders, WriteIndex(b) \/ WriteEvidence(b) \/ Promote(b)
  PROVE  CacheInv'
  <1> USE DEF CacheInv
  <1>1. TypeOK'
    <2>1. /\ pc' \in [Builders -> {"idle", "index", "evidence", "shadow"}]
          /\ UNCHANGED <<vault, model, cache, lock, req>> /\ Watch
      BY DEF TypeOK, WriteIndex, WriteEvidence, Promote
    <2>2. mtime' \in Nat /\ index' \in Files /\ evidence' \in Nat /\ shadow' \in Files
      <3>1. mtime + 1 \in Nat /\ model[b] \in Nat
        BY DEF TypeOK
      <3> QED
        BY <3>1 DEF TypeOK, WriteIndex, WriteEvidence, Promote, Replaced, Files
    <2>3. offered' \in [Threads -> SUBSET Nat]
      BY <2>1, <2>2 DEF Watch, TypeOK, Offer, Files
    <2> QED
      BY <2>1, <2>2, <2>3 DEF TypeOK, Asks
  <1>2. model[b] \in Nat /\ RequestsStay
    BY DEF TypeOK, WriteIndex, WriteEvidence, Promote, RequestsStay
  <1>3. CASE WriteIndex(b)
    <2>1. mtime' = mtime + 1 /\ index' = [gen |-> model[b], at |-> mtime'] /\ Watch
          /\ UNCHANGED <<evidence, shadow, cache>>
      BY <1>3 DEF WriteIndex, Replaced
    <2> QED
      BY <1>1, <1>2, <2>1, IndexWritten, WritesOfJsonKeepInv
  <1>4. CASE WriteEvidence(b)
    <2>1. mtime' = mtime + 1 /\ evidence' = mtime' /\ Watch /\ UNCHANGED <<index, shadow, cache>>
      BY <1>4 DEF WriteEvidence
    <2> QED
      BY <1>1, <1>2, <2>1, EvidenceWritten, WritesOfJsonKeepInv
  <1>5. CASE Promote(b)
    <2>1. mtime' = mtime + 1 /\ shadow' = [gen |-> model[b], at |-> mtime'] /\ Watch
          /\ UNCHANGED <<index, evidence, cache>>
      BY <1>5 DEF Promote, Replaced
    <2> QED
      BY <1>1, <1>2, <2>1, ShadowWritten, PromotionKeepsInv
  <1> QED
    BY <1>3, <1>4, <1>5

LEMMA RebuildIndexKeepsCacheInv ==
  ASSUME CacheInv, NEW t \in Threads, RebuildIndex(t)
  PROVE  CacheInv'
  <1> USE DEF CacheInv
  <1>1. TypeOK'
    <2>1. mtime' \in Nat /\ index' \in Files /\ evidence' \in Nat /\ shadow' \in Files
      BY DEF TypeOK, RebuildIndex, Replaced, Files
    <2>2. offered' \in [Threads -> SUBSET Nat]
      BY <2>1 DEF RebuildIndex, Watch, TypeOK, Offer, Files
    <2>3. UNCHANGED <<vault, pc, model, cache, lock>> /\ req[t].kind = "refresh"
          /\ req' = [req EXCEPT ![t].pc = "stat", ![t].gen = 0]
      BY DEF RebuildIndex, TypeOK
    <2>4. req' \in [Threads -> Requests]
      <3>1. req \in [Threads -> Requests]
        BY DEF TypeOK, Requests
      <3>2. req' = [req EXCEPT ![t] = [req[t] EXCEPT !.pc = "stat", !.gen = 0]]
        BY <2>3, <3>1
      <3>3. [req[t] EXCEPT !.pc = "stat", !.gen = 0] \in Requests
        BY <3>1 DEF Requests, ThreadSteps
      <3> QED
        BY <3>1, <3>2, <3>3
    <2>5. \A u \in Threads : /\ req'[u].pc \in {"write", "reload", "store"} => req'[u].kind = "refresh"
                             /\ req'[u].pc = "look" => req'[u].kind = "get"
                             /\ lock' = u <=> Asks(u)' /\ req'[u].pc = "load"
      <3>1. req[t].pc = "write" /\ lock # t
        BY <2>3 DEF RebuildIndex, TypeOK, Asks
      <3> QED
        BY <2>3, <3>1 DEF TypeOK, Asks
    <2> QED
      BY <2>1, <2>2, <2>3, <2>4, <2>5 DEF TypeOK, Requests
  <1>2. req[t].gen \in Nat /\ RequestsStay
    BY DEF TypeOK, RebuildIndex, RequestsStay
  <1>3. mtime' = mtime + 1 /\ index' = [gen |-> req[t].gen, at |-> mtime'] /\ Watch
        /\ UNCHANGED <<evidence, shadow, cache>>
    BY DEF RebuildIndex, Replaced
  <1> QED
    BY <1>1, <1>2, <1>3, IndexWritten, WritesOfJsonKeepInv

----------------------------------------------------------------------------
(* Steps of requests leave the files alone.                                *)

LEMMA FilesStay ==
  ASSUME UNCHANGED disk
  PROVE  /\ Offer' = Offer /\ JsonStamp' = JsonStamp
         /\ \A n : Stamp(n)' = Stamp(n)
         /\ \A n : IsNewest(n)' = IsNewest(n)
  BY DEF disk, Offer, IsNewest, Stamp, JsonStamp, Later

\* A request that begins is offered what the disk offers, and aims at nothing.
LEMMA BeginKeepsCacheInv ==
  ASSUME CacheInv, NEW t \in Threads, Get(t) \/ Refresh(t) \/ Curate(t)
  PROVE  CacheInv'
  <1> USE DEF CacheInv
  <1> DEFINE Fresh(r) == /\ r \in Requests /\ r.pc \in {"stat", "write"} /\ r.stamp = 0
                         /\ r.pc = "write" => r.kind = "refresh"
  <1>1. PICK r : Fresh(r) /\ Begin(t, r)
    <2>1. CASE Get(t)
      <3>1. Fresh([Idle EXCEPT !.pc = "stat"])
        BY DEF Idle, Requests, ThreadSteps
      <3> QED
        BY <2>1, <3>1 DEF Get
    <2>2. CASE Refresh(t)
      <3>1. Fresh([Idle EXCEPT !.pc = "stat", !.kind = "refresh"])
        BY DEF Idle, Requests, ThreadSteps
      <3> QED
        BY <2>2, <3>1 DEF Refresh
    <2>3. CASE Curate(t)
      <3>1. vault' \in Nat
        BY <2>3 DEF Curate, TypeOK
      <3>2. Fresh([Idle EXCEPT !.pc = "write", !.kind = "refresh", !.gen = vault'])
        BY <3>1 DEF Idle, Requests, ThreadSteps
      <3> QED
        BY <2>3, <3>2 DEF Curate
    <2> QED
      BY <2>1, <2>2, <2>3
  <1>2. UNCHANGED <<disk, cache, lock>>
    BY DEF Get, Refresh, Curate
  <1>3. Offer \in Nat
    BY DEF TypeOK, Files, Offer
  <1>4. /\ req' = [req EXCEPT ![t] = r] /\ req[t].pc = "idle"
        /\ offered' = [offered EXCEPT ![t] = IF r.kind = "get" THEN {Offer} ELSE {}]
    BY <1>1 DEF Begin
  <1>5. UNCHANGED <<mtime, index, shadow, evidence, pc, model>> /\ vault' \in Nat
    BY <1>2 DEF Get, Refresh, Curate, disk, TypeOK
  <1>6. TypeOK'
    <2>1. req' \in [Threads -> Requests]
      <3>1. req \in [Threads -> Requests]
        BY DEF TypeOK, Requests
      <3>2. r \in Requests
        BY <1>1
      <3> QED
        BY <1>4, <3>1, <3>2
    <2>2. offered' \in [Threads -> SUBSET Nat]
      BY <1>3, <1>4 DEF TypeOK
    <2>3. \A u \in Threads : /\ req'[u].pc \in {"write", "reload", "store"} => req'[u].kind = "refresh"
                             /\ req'[u].pc = "look" => req'[u].kind = "get"
                             /\ lock' = u <=> Asks(u)' /\ req'[u].pc = "load"
      BY <1>1, <1>2, <1>4 DEF TypeOK, Asks
    <2> QED
      BY <1>2, <1>5, <2>1, <2>2, <2>3 DEF TypeOK, Requests
  <1>7. PresentIsOffered'
    BY <1>1, <1>2, <1>4, <1>5, FilesStay DEF PresentIsOffered, TypeOK, Chosen
  <1>8. AimedAtIsOffered'
    BY <1>1, <1>2, <1>4, <1>5, FilesStay DEF AimedAtIsOffered, TypeOK, Chosen, Asks, Aims, Aim
  <1> QED
    BY <1>6, <1>7, <1>8

\* What a step of one request leaves as it is.
OthersStay(t) ==
    /\ Offer' = Offer /\ mtime' = mtime /\ Stamp(shadow.at)' = Stamp(shadow.at)
    /\ mtime \in Nat /\ Offer \in Nat
    /\ \A n \in Nat : Stamp(n)' = Stamp(n)
    /\ \A u \in Threads : u # t => /\ req'[u] = req[u] /\ Asks(u)' = Asks(u)
                                   /\ Aims(u)' = Aims(u) /\ Chosen(u)' = Chosen(u)
                                   /\ Aims(u) => Aim(u)' = Aim(u)

LEMMA OtherRequestsStay ==
  ASSUME CacheInv, NEW t \in Threads, NEW r \in Requests, req' = [req EXCEPT ![t] = r], UNCHANGED disk
  PROVE  req'[t] = r /\ req' \in [Threads -> Requests] /\ OthersStay(t)
  <1>1. req \in [Threads -> Requests]
    BY DEF CacheInv, TypeOK, Requests
  <1>2. req'[t] = r /\ req' \in [Threads -> Requests] /\ \A u \in Threads : u # t => req'[u] = req[u]
    BY <1>1
  <1>3. mtime \in Nat /\ Offer \in Nat
    BY DEF CacheInv, TypeOK, Files, Offer
  <1>4. UNCHANGED <<mtime, index, evidence, shadow>>
    BY DEF disk
  <1>5. \A u \in Threads : u # t => /\ Asks(u)' = Asks(u) /\ Aims(u)' = Aims(u) /\ Chosen(u)' = Chosen(u)
                                    /\ Aims(u) => Aim(u)' = Aim(u)
    BY <1>2, <1>4, FilesStay DEF Asks, Aims, Aim, Chosen
  <1> QED
    BY <1>2, <1>3, <1>4, <1>5, FilesStay DEF OthersStay

LEMMA TypedAfterAStep ==
  ASSUME CacheInv, NEW t \in Threads, NEW r \in Requests, req' = [req EXCEPT ![t] = r],
         UNCHANGED <<vault, disk, pc, model>>,
         cache' \in [loaded : BOOLEAN, stamp : Nat, gen : Nat],
         r.pc \in {"write", "reload", "store"} => r.kind = "refresh",
         r.pc = "look" => r.kind = "get",
         lock' = IF r.kind = "get" /\ r.pc = "load" THEN t ELSE IF lock = t THEN Nobody ELSE lock,
         lock' = t => lock = Nobody,
         \/ UNCHANGED offered
         \/ offered' = [offered EXCEPT ![t] = {}]
  PROVE  TypeOK'
  <1> USE DEF CacheInv
  <1>1. req' \in [Threads -> Requests] /\ req'[t] = r /\ \A u \in Threads : u # t => req'[u] = req[u]
    BY OtherRequestsStay DEF OthersStay
  <1>2. offered' \in [Threads -> SUBSET Nat]
    BY DEF TypeOK
  <1>3. lock' \in Threads \cup {Nobody}
    BY DEF TypeOK
  <1>4. \A u \in Threads : /\ req'[u].pc \in {"write", "reload", "store"} => req'[u].kind = "refresh"
                           /\ req'[u].pc = "look" => req'[u].kind = "get"
                           /\ lock' = u <=> Asks(u)' /\ req'[u].pc = "load"
    BY <1>1, ReadModelConstants DEF TypeOK, Asks
  <1>5. UNCHANGED <<mtime, index, evidence, shadow>>
    BY DEF disk
  <1> QED
    BY <1>1, <1>2, <1>3, <1>4, <1>5 DEF TypeOK, Requests

LEMMA StampingKeepsCacheInv ==
  ASSUME CacheInv, NEW t \in Threads, StatShadow(t) \/ TakeStamp(t)
  PROVE  CacheInv'
  <1> USE DEF CacheInv
  <1>1. req[t] \in Requests /\ shadow.at \in Nat /\ req \in [Threads -> Requests]
    BY DEF TypeOK, Requests, Files
  <1>2. UNCHANGED <<vault, disk, pc, model, cache, lock, offered>>
    BY DEF StatShadow, TakeStamp
  <1>3. lock # t
    BY DEF TypeOK, StatShadow, TakeStamp
  <1>4. JsonStamp \in Nat /\ JsonStamp <= mtime /\ shadow.at <= mtime /\ mtime = Stamp(shadow.at)
    BY <1>1, StampsAreNat DEF PresentIsOffered
  <1>5. CASE StatShadow(t)
    <2> DEFINE r == [req[t] EXCEPT !.stamp = shadow.at, !.pc = "stamp"]
    <2>1. r \in Requests /\ req' = [req EXCEPT ![t] = r]
      BY <1>1, <1>5 DEF StatShadow, Requests, ThreadSteps
    <2>2. r.pc = "stamp" /\ r.stamp = shadow.at /\ r.kind = req[t].kind /\ (Asks(t)' => Asks(t))
      BY <1>1, <1>5, <2>1 DEF Requests, Asks, StatShadow
    <2>3. req'[t] = r /\ OthersStay(t)
      BY <1>2, <2>1, OtherRequestsStay
    <2> HIDE DEF r
    <2>4. TypeOK'
      BY <1>2, <1>3, <2>1, <2>2, TypedAfterAStep DEF TypeOK
    <2>5. PresentIsOffered'
      BY <1>2, <1>4, <2>2, <2>3 DEF PresentIsOffered, OthersStay
    <2>6. Asks(t)' => Aim(t)' = mtime
      BY <1>1, <1>4, <2>2, <2>3 DEF Aim, OthersStay
    <2>7. AimedAtIsOffered'
      BY <1>2, <2>2, <2>3, <2>6 DEF AimedAtIsOffered, PresentIsOffered, OthersStay, Aims
    <2> QED
      BY <2>4, <2>5, <2>7
  <1>6. CASE TakeStamp(t)
    <2> DEFINE r == [req[t] EXCEPT !.stamp = Stamp(@), !.pc = IF req[t].kind = "get" THEN "look" ELSE "reload"]
    <2>1. Stamp(req[t].stamp) \in Nat /\ Stamp(req[t].stamp) <= mtime
      BY <1>1, <1>4, StampsAreNat DEF PresentIsOffered, Requests
    <2>2. r \in Requests /\ req' = [req EXCEPT ![t] = r]
      BY <1>1, <1>6, <2>1 DEF TakeStamp, Requests, ThreadSteps
    <2>3. /\ r.pc = IF r.kind = "get" THEN "look" ELSE "reload"
          /\ r.stamp = Stamp(req[t].stamp) /\ r.kind = req[t].kind /\ req[t].pc = "stamp"
      BY <1>1, <1>6, <2>2 DEF Requests, TakeStamp
    <2>4. req'[t] = r /\ OthersStay(t)
      BY <1>2, <2>2, OtherRequestsStay
    <2> HIDE DEF r
    <2>5. TypeOK'
      BY <1>1, <1>2, <1>3, <2>2, <2>3, TypedAfterAStep DEF TypeOK, Requests
    <2>6. PresentIsOffered'
      BY <1>2, <1>4, <2>1, <2>3, <2>4 DEF PresentIsOffered, OthersStay
    <2>7. Aims(t)' => Aims(t) /\ Aim(t)' = Aim(t)
      BY <2>3, <2>4 DEF Aims, Aim, Asks
    <2>8. Asks(t)' => Asks(t) /\ Aims(t)
      BY <2>3, <2>4 DEF Aims, Asks
    <2>9. AimedAtIsOffered'
      BY <1>2, <2>3, <2>4, <2>7, <2>8 DEF AimedAtIsOffered, OthersStay
    <2> QED
      BY <2>5, <2>6, <2>9
  <1> QED
    BY <1>5, <1>6

\* A request that ends, an answered get or a finished refresh, aims at nothing.
LEMMA EndedRequest ==
  ASSUME CacheInv, NEW t \in Threads, End(t), UNCHANGED disk
  PROVE  /\ Idle \in Requests /\ req' = [req EXCEPT ![t] = Idle]
         /\ req'[t] = Idle /\ OthersStay(t) /\ ~Asks(t)' /\ ~Aims(t)'
         /\ \A u \in Threads : u # t => offered'[u] = offered[u]
  <1>1. Idle \in Requests /\ req' = [req EXCEPT ![t] = Idle]
    BY DEF Idle, Requests, ThreadSteps, End
  <1>2. req'[t] = Idle /\ OthersStay(t)
    BY <1>1, OtherRequestsStay
  <1>3. \A u \in Threads : u # t => offered'[u] = offered[u]
    BY DEF End, CacheInv, TypeOK
  <1>4. ~Asks(t)' /\ ~Aims(t)'
    BY <1>2 DEF Idle, Asks, Aims
  <1> QED
    BY <1>1, <1>2, <1>3, <1>4

LEMMA LookingKeepsCacheInv ==
  ASSUME CacheInv, NEW t \in Threads, Look(t) \/ Reload(t)
  PROVE  CacheInv'
  <1> USE DEF CacheInv
  <1>1. req[t] \in Requests /\ lock # t
    BY ReadModelConstants DEF TypeOK, Requests, Look, Reload
  <1>2. UNCHANGED <<vault, disk, pc, model, cache>>
    BY DEF Look, Reload
  <1>3. CASE Look(t) /\ cache.loaded /\ cache.stamp = req[t].stamp
    <2>1. End(t) /\ lock' = lock
      BY <1>3 DEF Look
    <2>2. /\ Idle \in Requests /\ req' = [req EXCEPT ![t] = Idle]
          /\ req'[t] = Idle /\ OthersStay(t) /\ ~Asks(t)' /\ ~Aims(t)'
          /\ \A u \in Threads : u # t => offered'[u] = offered[u]
      BY <1>2, <2>1, EndedRequest
    <2>3. Idle.pc = "idle" /\ Idle.stamp = 0 /\ offered' = [offered EXCEPT ![t] = {}]
      BY <2>1 DEF Idle, End
    <2>4. TypeOK'
      BY <1>1, <1>2, <2>1, <2>2, <2>3, TypedAfterAStep DEF TypeOK
    <2>5. PresentIsOffered'
      BY <1>2, <2>2, <2>3 DEF PresentIsOffered, OthersStay
    <2>6. AimedAtIsOffered'
      BY <1>2, <2>2, <2>3 DEF AimedAtIsOffered, OthersStay
    <2> QED
      BY <2>4, <2>5, <2>6
  <1>4. CASE ~(Look(t) /\ cache.loaded /\ cache.stamp = req[t].stamp)
    <2> DEFINE r == [req[t] EXCEPT !.sqlite = IsNewest(shadow.at), !.pc = "load"]
    <2>1. Choose(t) /\ UNCHANGED offered /\ req[t].pc \in {"look", "reload"}
          /\ lock' = IF req[t].kind = "get" THEN t ELSE lock
      BY <1>4 DEF Look, Reload, TypeOK
    <2>2. r \in Requests /\ req' = [req EXCEPT ![t] = r]
      BY <1>1, <2>1 DEF Choose, Requests, ThreadSteps, IsNewest
    <2>3. r.pc = "load" /\ r.stamp = req[t].stamp /\ r.kind = req[t].kind /\ r.sqlite = IsNewest(shadow.at)
      BY <1>1 DEF Requests
    <2>4. req'[t] = r /\ OthersStay(t)
      BY <1>2, <2>2, OtherRequestsStay
    <2> HIDE DEF r
    <2>5. lock' = t => lock = Nobody
      BY <1>1, <1>4, <2>1 DEF Look, Reload, TypeOK
    <2>6. TypeOK'
      BY <1>1, <1>2, <2>1, <2>2, <2>3, <2>5, TypedAfterAStep DEF TypeOK
    <2>7. Chosen(t)' = Offer
      BY <1>2, <2>3, <2>4 DEF Chosen, Offer, disk
    <2>8. Asks(t)' = Asks(t) /\ ~Aims(t)'
      BY <2>1, <2>3, <2>4 DEF Asks, Aims
    <2>9. PresentIsOffered'
      BY <1>2, <2>3, <2>4, <2>7 DEF PresentIsOffered, OthersStay
    <2>10. AimedAtIsOffered'
      BY <1>2, <2>1, <2>3, <2>4, <2>7, <2>8 DEF AimedAtIsOffered, OthersStay, Aims
    <2> QED
      BY <2>6, <2>9, <2>10
  <1> QED
    BY <1>3, <1>4

\* A load or a store files under a stamp what was chosen under it.
LEMMA LoadingKeepsCacheInv ==
  ASSUME CacheInv, NEW t \in Threads, Load(t) \/ Store(t)
  PROVE  CacheInv'
  <1> USE DEF CacheInv
  <1>1. req[t] \in Requests /\ Chosen(t) \in Nat /\ req[t].stamp <= mtime
    BY DEF TypeOK, Requests, Chosen, Files, PresentIsOffered
  <1>2. UNCHANGED <<vault, disk, pc, model>>
    BY DEF Load, Store
  <1>3. CASE End(t)
    <2> DEFINE gen == IF req[t].pc = "load" THEN Chosen(t) ELSE req[t].gen
    <2>1. /\ cache' = [loaded |-> TRUE, stamp |-> req[t].stamp, gen |-> gen]
          /\ req[t].pc \in {"load", "store"} /\ gen \in Nat
          /\ lock' = IF lock = t THEN Nobody ELSE lock
      <3>1. CASE Load(t) /\ req[t].kind = "get"
        BY <1>1, <3>1 DEF Load, TypeOK, Asks
      <3>2. CASE Load(t) /\ req[t].kind # "get"
        <4>1. req'[t].pc = "store"
          BY <1>1, <3>2 DEF Load, TypeOK
        <4> QED
          BY <1>2, <1>3, <4>1, EndedRequest DEF Idle
      <3>3. CASE Store(t)
        BY <1>1, <3>3, ReadModelConstants DEF Store, StampTaken, Requests
      <3> QED
        BY <3>1, <3>2, <3>3
    <2>2. req[t].stamp = mtime => gen = Offer
      BY <2>1 DEF PresentIsOffered
    <2>3. \A u \in Threads : Aims(u) /\ req[t].stamp = Aim(u) => gen \in offered[u]
      BY <2>1 DEF AimedAtIsOffered
    <2> HIDE DEF gen
    <2>4. /\ Idle \in Requests /\ req' = [req EXCEPT ![t] = Idle]
          /\ req'[t] = Idle /\ OthersStay(t) /\ ~Asks(t)' /\ ~Aims(t)'
          /\ \A u \in Threads : u # t => offered'[u] = offered[u]
      BY <1>2, <1>3, EndedRequest
    <2>5. Idle.pc = "idle" /\ Idle.stamp = 0 /\ offered' = [offered EXCEPT ![t] = {}]
      BY <1>3 DEF Idle, End
    <2>6. cache' \in [loaded : BOOLEAN, stamp : Nat, gen : Nat]
      BY <1>1, <2>1 DEF Requests
    <2>7. TypeOK'
      BY <1>2, <1>3, <2>1, <2>4, <2>5, <2>6, TypedAfterAStep, ReadModelConstants DEF TypeOK
    <2>8. PresentIsOffered'
      BY <1>1, <2>1, <2>2, <2>4, <2>5 DEF PresentIsOffered, OthersStay
    <2>9. AimedAtIsOffered'
      BY <2>1, <2>3, <2>4, <2>5 DEF AimedAtIsOffered, OthersStay
    <2> QED
      BY <2>7, <2>8, <2>9
  <1>4. CASE ~End(t)
    <2> DEFINE r == [req[t] EXCEPT !.gen = Chosen(t), !.sqlite = FALSE, !.pc = "store"]
    <2>1. Load(t) /\ req[t].kind = "refresh"
      BY <1>1, <1>4 DEF Load, Store, Requests
    <2>2. req[t].pc = "load" /\ UNCHANGED <<cache, lock, offered>> /\ lock # t
      BY <2>1 DEF Load, TypeOK, Asks
    <2>3. r \in Requests /\ req' = [req EXCEPT ![t] = r]
      BY <1>1, <2>1 DEF Load, Requests, ThreadSteps
    <2>4. r.pc = "store" /\ r.stamp = req[t].stamp /\ r.kind = "refresh" /\ r.gen = Chosen(t)
      BY <1>1, <2>1 DEF Requests
    <2>5. req'[t] = r /\ OthersStay(t)
      BY <1>2, <2>3, OtherRequestsStay
    <2> HIDE DEF r
    <2>6. TypeOK'
      BY <1>2, <2>2, <2>3, <2>4, TypedAfterAStep DEF TypeOK
    <2>7. ~Asks(t)' /\ ~Aims(t)'
      BY <2>4, <2>5 DEF Asks, Aims
    <2>8. PresentIsOffered'
      BY <1>1, <2>2, <2>4, <2>5 DEF PresentIsOffered, OthersStay
    <2>9. AimedAtIsOffered'
      BY <2>2, <2>4, <2>5, <2>7 DEF AimedAtIsOffered, OthersStay
    <2> QED
      BY <2>6, <2>8, <2>9
  <1> QED
    BY <1>3, <1>4

LEMMA NextKeepsCacheInv == CacheInv /\ [Next]_vars => CacheInv'
  <1> SUFFICES ASSUME CacheInv, [Next]_vars PROVE CacheInv'
    OBVIOUS
  <1>1. CASE UNCHANGED vars
    <2>1. UNCHANGED <<vault, disk, mtime, index, evidence, shadow, pc, model, cache, lock, req, offered>>
      BY <1>1 DEF vars, disk
    <2>2. TypeOK'
      BY <2>1 DEF CacheInv, TypeOK, Asks
    <2>3. PresentIsOffered'
      BY <2>1, FilesStay DEF CacheInv, PresentIsOffered, Chosen
    <2>4. AimedAtIsOffered'
      BY <2>1, FilesStay DEF CacheInv, AimedAtIsOffered, Asks, Aims, Aim, Chosen
    <2> QED
      BY <2>2, <2>3, <2>4 DEF CacheInv
  <1>2. ASSUME NEW b \in Builders, Build(b) \/ GiveUp(b) PROVE CacheInv'
    BY <1>2, BuilderStepsKeepCacheInv, WritesKeepCacheInv DEF Build
  <1>3. ASSUME NEW t \in Threads, Get(t) \/ Serve(t) PROVE CacheInv'
    BY <1>3, BeginKeepsCacheInv, RebuildIndexKeepsCacheInv, StampingKeepsCacheInv,
       LookingKeepsCacheInv, LoadingKeepsCacheInv DEF Serve
  <1>4. ASSUME NEW t \in Operators, Refresh(t) \/ Curate(t) PROVE CacheInv'
    BY <1>4, BeginKeepsCacheInv, ReadModelConstants
  <1> QED
    BY <1>1, <1>2, <1>3, <1>4 DEF Next

----------------------------------------------------------------------------

\* The types, the steps a request of a kind goes through, and: the write lock
\* is with the thread that loads for a get (freshen_with).
THEOREM TypesHold == Spec => []TypeOK
  BY InitEstablishesCacheInv, NextKeepsCacheInv, PTL DEF Spec, CacheInv

\* What the cache keeps under the present stamp is what the disk offers
\* (Cached, projection_stamp), however builds, kills, curations and refreshes
\* interleave.
THEOREM CacheIsTrueToItsStamp == Spec => []FiledUnderItsStamp
  <1>1. CacheInv => FiledUnderItsStamp
    BY DEF CacheInv, PresentIsOffered, FiledUnderItsStamp
  <1> QED
    BY <1>1, InitEstablishesCacheInv, NextKeepsCacheInv, PTL DEF Spec

\* A response shows a generation the disk offered while the request was served.
THEOREM ResponsesAreRegular == Spec => AnswersAreRegular
  <1> DEFINE Regular == \A t \in Threads : Asks(t) /\ req'[t].pc = "idle" => cache'.gen \in offered[t]
  <1>1. CacheInv /\ [Next]_vars => [Regular]_vars
    <2> SUFFICES ASSUME CacheInv, Next, NEW t \in Threads, Asks(t), req'[t].pc = "idle"
                 PROVE  cache'.gen \in offered[t]
      BY DEF Next
    <2>1. req \in [Threads -> Requests] /\ req[t].pc \in {"stat", "stamp", "look", "load"}
      BY DEF CacheInv, TypeOK, Requests, Asks, ThreadSteps
    <2>2. req'[t] # req[t]
      BY DEF Asks
    <2>3. \A b \in Builders : ~(Build(b) \/ GiveUp(b))
      BY <2>2 DEF Build, Scan, WriteIndex, WriteEvidence, Promote, GiveUp
    <2>4. \A u \in Threads : u # t => ~(Get(u) \/ Refresh(u) \/ Curate(u) \/ Serve(u))
      BY <2>1, <2>2 DEF Get, Refresh, Curate, Serve, Begin, RebuildIndex, StatShadow, TakeStamp,
                        Look, Reload, Load, Store, Choose, End
    <2>5. Serve(t)
      <3>1. ~Get(t) /\ ~Refresh(t) /\ ~Curate(t)
        BY <2>1 DEF Get, Refresh, Curate, Begin
      <3>2. PICK u \in Threads : Get(u) \/ Serve(u) \/ Refresh(u) \/ Curate(u)
        BY <2>3, ReadModelConstants DEF Next
      <3> QED
        BY <2>4, <3>1, <3>2
    <2>6. ~RebuildIndex(t) /\ ~StatShadow(t) /\ ~TakeStamp(t) /\ ~Reload(t) /\ ~Store(t)
      <3>1. ~RebuildIndex(t) /\ ~Reload(t) /\ ~Store(t)
        BY <2>1 DEF RebuildIndex, Reload, Store
      <3>2. ~StatShadow(t)
        <4>1. StatShadow(t) => req' = [req EXCEPT ![t] = [req[t] EXCEPT !.stamp = shadow.at, !.pc = "stamp"]]
          BY <2>1 DEF StatShadow
        <4> QED
          BY <2>1, <4>1 DEF Requests
      <3>3. ~TakeStamp(t)
        <4> DEFINE next == IF req[t].kind = "get" THEN "look" ELSE "reload"
        <4>1. TakeStamp(t) => req' = [req EXCEPT ![t] = [req[t] EXCEPT !.stamp = Stamp(@), !.pc = next]]
          BY <2>1 DEF TakeStamp
        <4> QED
          BY <2>1, <4>1 DEF Requests
      <3> QED
        BY <3>1, <3>2, <3>3
    <2>7. CASE Look(t)
      <3>1. cache.loaded /\ cache.stamp = req[t].stamp /\ cache' = cache /\ Aims(t) /\ req[t].pc = "look"
        <4>1. ~Choose(t)
          <5>1. Choose(t) => req' = [req EXCEPT ![t] =
                                      [req[t] EXCEPT !.sqlite = IsNewest(shadow.at), !.pc = "load"]]
            BY <2>1 DEF Choose
          <5> QED
            BY <2>1, <5>1 DEF Requests
        <4>2. cache.loaded /\ cache.stamp = req[t].stamp
          BY <2>7, <4>1 DEF Look
        <4>3. req[t].pc = "look" /\ cache' = cache
          BY <2>7 DEF Look
        <4> QED
          BY <4>2, <4>3 DEF Aims
      <3> QED
        BY <3>1 DEF CacheInv, AimedAtIsOffered, Aim
    <2>8. CASE Load(t)
      BY <2>8 DEF Load, Asks, CacheInv, AimedAtIsOffered
    <2> QED
      BY <2>5, <2>6, <2>7, <2>8 DEF Serve
  <1> QED
    BY <1>1, InitEstablishesCacheInv, NextKeepsCacheInv, PTL DEF Spec, AnswersAreRegular

\* An older generation comes back only through a build or curation that read the
\* vault before the newer one and is still at work, or one whose index was
\* replaced by an older build's before it wrote its evidence.json; a killed
\* build and a failed promotion bring nothing back.
THEOREM OnlyOldReadersBringBack == Spec => NothingOlderComesBack
  <1> DEFINE Excused == \/ \E b \in Builders : pc[b] # "idle" /\ model[b] < Offer
                        \/ \E t \in Threads : req[t].pc = "write" /\ req[t].gen < Offer
                        \/ \E b \in Builders : pc[b] = "evidence" /\ index.gen < model[b]
  <1>1. CacheInv /\ [Next]_vars => [Offer' < Offer => Excused]_vars
    <2> SUFFICES ASSUME CacheInv, Next, Offer' < Offer PROVE Excused
      OBVIOUS
    <2>1. Offer \in Nat
      BY DEF CacheInv, TypeOK, Files, Offer
    <2>2. ~UNCHANGED disk
      BY <2>1, FilesStay
    <2>3. ASSUME NEW b \in Builders, WriteIndex(b) PROVE Excused
      <3>1. mtime' = mtime + 1 /\ index' = [gen |-> model[b], at |-> mtime'] /\ pc[b] # "idle"
            /\ UNCHANGED <<evidence, shadow>> /\ model[b] \in Nat
        BY <2>3 DEF WriteIndex, Replaced, CacheInv, TypeOK
      <3>2. Offer' = model[b]
        BY <3>1, IndexWritten
      <3> QED
        BY <3>1, <3>2
    <2>4. ASSUME NEW b \in Builders, WriteEvidence(b) PROVE Excused
      <3>1. mtime' = mtime + 1 /\ evidence' = mtime' /\ UNCHANGED <<index, shadow>>
            /\ pc[b] = "evidence" /\ model[b] \in Nat /\ index.gen \in Nat
        BY <2>4 DEF WriteEvidence, CacheInv, TypeOK, Files
      <3>2. Offer' = index.gen
        BY <3>1, EvidenceWritten
      <3>3. model[b] < Offer \/ index.gen < model[b]
        BY <2>1, <3>1, <3>2
      <3> QED
        BY <3>1, <3>3
    <2>5. ASSUME NEW b \in Builders, Promote(b) PROVE Excused
      <3>1. mtime' = mtime + 1 /\ shadow' = [gen |-> model[b], at |-> mtime'] /\ pc[b] # "idle"
            /\ UNCHANGED <<index, evidence>> /\ model[b] \in Nat
        BY <2>5 DEF Promote, Replaced, CacheInv, TypeOK
      <3>2. Offer' = model[b]
        BY <3>1, ShadowWritten
      <3> QED
        BY <3>1, <3>2
    <2>6. ASSUME NEW t \in Threads, RebuildIndex(t) PROVE Excused
      <3>1. mtime' = mtime + 1 /\ index' = [gen |-> req[t].gen, at |-> mtime'] /\ req[t].pc = "write"
            /\ UNCHANGED <<evidence, shadow>> /\ req[t].gen \in Nat
        BY <2>6 DEF RebuildIndex, Replaced, CacheInv, TypeOK
      <3>2. Offer' = req[t].gen
        BY <3>1, IndexWritten
      <3> QED
        BY <3>1, <3>2
    <2> QED
      BY <2>2, <2>3, <2>4, <2>5, <2>6 DEF Next, Build, Serve, Scan, GiveUp, Get, Refresh, Curate,
         StatShadow, TakeStamp, Look, Reload, Load, Store
  <1> QED
    BY <1>1, InitEstablishesCacheInv, NextKeepsCacheInv, PTL DEF Spec, NothingOlderComesBack
=============================================================================
