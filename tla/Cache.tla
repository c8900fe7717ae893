-------------------------------- MODULE Cache --------------------------------
(***************************************************************************)
(* The on-disk object cache of internal/cache/cache.go, as the FUSE Open   *)
(* path of internal/fs/tree.go drives it.  Every goroutine that opens an   *)
(* object calls GetOrFetch(key) and then os.Open on the path it returned;  *)
(* every goroutine that finishes an upload calls StoreFromPath(key, src).  *)
(*                                                                         *)
(* A step is what happens under one acquisition of Cache.mu, or one system *)
(* call made without it.  The loop of evictIfNeeded holds the mutex over   *)
(* several os.Remove calls that other goroutines can observe, so it is a   *)
(* loop here too: `evictor` is the goroutine inside it.                    *)
(*                                                                         *)
(* A NeoFS object never changes, and the key is a hash of its address, so  *)
(* the payload of a key is fixed: chunks 1..Size[k].                       *)
(***************************************************************************)
EXTENDS Integers, Sequences, FiniteSets, SequencesExt

CONSTANTS
    Key,          \* cache keys: hash of container and object identifier
    Proc,         \* goroutines that call the cache
    Size,         \* Size[k]: length of the payload of k, in chunks
    MaxBytes,     \* Cache.maxBytes, in chunks
    Uploaded,     \* keys whose object an upload of this mount also stores
    MaxAttempts,  \* ObjectGet attempts of one fetch (3 in the code)
    MaxRestarts,  \* bound: how often the process may crash and start again
    MaxDrift,     \* bound: calls stop once curBytes has drifted this far over
    NoKey, NoProc, \* no key, no goroutine
    Async         \* the eviction goroutine that StoreFromPath starts

ASSUME CacheAssumption ==
    /\ Size \in [Key -> Nat]
    /\ MaxBytes \in Nat \ {0}
    /\ Uploaded \subseteq Key
    /\ MaxAttempts \in Nat \ {0}
    /\ MaxRestarts \in Nat /\ MaxDrift \in Nat
    /\ NoKey \notin Key
    /\ NoProc \notin Proc /\ Async \notin Proc /\ NoProc # Async

VARIABLES
    cached,    \* DOMAIN of the Go map Cache.entries
    entry,     \* entry[k]: the map's value, NoEntry outside `cached`
    lru,       \* Cache.lru, most recent first
    curBytes,  \* Cache.curBytes
    evictor,   \* who is inside evictIfNeeded, holding Cache.mu
    spawned,   \* eviction goroutines started and not yet run
    tmp,       \* tmp[k]: the file <key>.blob.tmp, shared by all fetchers of k
    final,     \* final[k]: the file <key>.blob
    proc,      \* proc[p]: where a goroutine is, and its local variables
    stored,    \* uploaded keys whose StoreFromPath has renamed the file
    restarts

memVars  == <<cached, entry, lru, curBytes>>
diskVars == <<tmp, final>>
lockVars == <<evictor, spawned>>
histVars == <<stored, restarts>>
vars     == <<memVars, diskVars, lockVars, proc, histVars>>

-----------------------------------------------------------------------------
(* Data *)

Entry == [fetching : BOOLEAN, err : BOOLEAN, path : BOOLEAN,
          size : Nat, waiters : SUBSET Proc]

NoEntry == [fetching |-> FALSE, err |-> FALSE, path |-> FALSE,
            size |-> 0, waiters |-> {}]

FetchingEntry == [NoEntry EXCEPT !.fetching = TRUE]

\* Mutant: finishFetch forgets to record the path.
ReadyEntryWithoutPath(n) == [NoEntry EXCEPT !.size = n]

ReadyEntry(n) == [NoEntry EXCEPT !.path = TRUE, !.size = n]

\* `writers`: goroutines that hold a descriptor of this file.  `data`: the
\* chunks it holds; a file may be long enough and still have a hole.
File == [exists : BOOLEAN, len : Nat, data : SUBSET Nat, writers : SUBSET Proc]

NoFile == [exists |-> FALSE, len |-> 0, data |-> {}, writers |-> {}]

WholeFile(k) ==
    [exists |-> TRUE, len |-> Size[k], data |-> 1..Size[k], writers |-> {}]

Label == {"idle", "lookup", "stat", "recheck", "wait", "rmtmp", "create",
          "fetch", "stattmp", "rename", "discard", "fail", "finish", "evict",
          "open", "install"}

\* sz: the size GetOrFetch remembers; off: chunks written to its descriptor;
\* attempt: the current ObjectGet; opens: how often Open called GetOrFetch.
Local == [pc : Label, key : Key \cup {NoKey}, sz : Nat, off : Nat,
          attempt : Nat, opens : {1, 2}]

Idle == [pc |-> "idle", key |-> NoKey, sz |-> 0, off |-> 0, attempt |-> 1,
         opens |-> 1]

At(p, label) == proc[p].pc = label

K(p) == proc[p].key

Goto(p, label) == proc' = [proc EXCEPT ![p].pc = label]

Return(p) == proc' = [proc EXCEPT ![p] = Idle]

\* Mutant: a lookup does not see that somebody is fetching.
FetchingUnseen(k) == FALSE

Fetching(k) == k \in cached /\ entry[k].fetching

Ready(k) == k \in cached /\ ~entry[k].fetching /\ ~entry[k].err

\* The mutex is free for a critical section of one step.
Unlocked == evictor = NoProc

removeFromLRU(s, k) == RemoveFirst(s, k)

\* Mutant: prepend without removing the old position.
bumpLRUTwice(s, k) == <<k>> \o s

bumpLRU(s, k) == <<k>> \o removeFromLRU(s, k)

-----------------------------------------------------------------------------
Init ==
    /\ cached = {} /\ entry = [k \in Key |-> NoEntry]
    /\ lru = <<>> /\ curBytes = 0
    /\ evictor = NoProc /\ spawned = 0
    /\ tmp = [k \in Key |-> NoFile] /\ final = [k \in Key |-> NoFile]
    /\ proc = [p \in Proc |-> Idle]
    /\ stored = {} /\ restarts = 0

(* Open of a file that is small enough to be cached whole. *)
Call(p, k) ==
    /\ At(p, "idle") /\ curBytes <= MaxBytes + MaxDrift
    /\ proc' = [proc EXCEPT ![p].pc = "lookup", ![p].key = k]
    /\ UNCHANGED <<memVars, diskVars, lockVars, histVars>>

(* The three outcomes of the critical section at the top of the loop. *)
Hit(p) ==
    /\ At(p, "lookup") /\ Unlocked /\ Ready(K(p))
    /\ lru' = bumpLRU(lru, K(p))
    /\ proc' = [proc EXCEPT ![p].pc = "stat", ![p].sz = entry[K(p)].size]
    /\ UNCHANGED <<cached, entry, curBytes, diskVars, lockVars, histVars>>

Join(p) ==
    /\ At(p, "lookup") /\ Unlocked /\ Fetching(K(p))
    /\ entry' = [entry EXCEPT ![K(p)].waiters = @ \cup {p}]
    /\ Goto(p, "wait")
    /\ UNCHANGED <<cached, lru, curBytes, diskVars, lockVars, histVars>>

Claim(p) ==
    /\ At(p, "lookup") /\ Unlocked /\ ~Ready(K(p)) /\ ~Fetching(K(p))
    /\ cached' = cached \cup {K(p)}
    /\ entry' = [entry EXCEPT ![K(p)] = FetchingEntry]
    /\ lru' = bumpLRU(lru, K(p))
    /\ Goto(p, "rmtmp")
    /\ UNCHANGED <<curBytes, diskVars, lockVars, histVars>>

(* os.Stat of a hit, outside the mutex; a mismatch leads to a second look. *)
StatHit(p) ==
    /\ At(p, "stat")
    /\ LET f == final[K(p)]
       IN  Goto(p, IF f.exists /\ f.len = proc[p].sz THEN "open" ELSE "recheck")
    /\ UNCHANGED <<memVars, diskVars, lockVars, histVars>>

\* Mutant: whatever entry is there now is taken for the one that was hit.
StillTheHitUnchecked(p) == K(p) \in cached

StillTheHit(p) ==
    Ready(K(p)) /\ entry[K(p)].path /\ entry[K(p)].size = proc[p].sz

Recheck(p) ==
    /\ At(p, "recheck") /\ Unlocked
    /\ IF StillTheHit(p)
       THEN /\ cached' = cached \ {K(p)}
            /\ entry' = [entry EXCEPT ![K(p)] = NoEntry]
            /\ lru' = removeFromLRU(lru, K(p))
            /\ curBytes' = curBytes - proc[p].sz
       ELSE UNCHANGED memVars
    /\ Goto(p, "lookup")
    /\ UNCHANGED <<diskVars, lockVars, histVars>>

(* ctx.Done: the kernel interrupts the request of a waiting goroutine. *)
Cancel(p) ==
    /\ At(p, "wait")
    /\ Return(p)
    /\ UNCHANGED <<memVars, diskVars, lockVars, histVars>>

(* The fetcher: os.Remove and os.OpenFile of the temporary file ... *)
RemoveTmp(p) ==
    /\ At(p, "rmtmp")
    /\ tmp' = [tmp EXCEPT ![K(p)] = NoFile]
    /\ Goto(p, "create")
    /\ UNCHANGED <<memVars, final, lockVars, histVars>>

CreateTmp(p) ==
    /\ At(p, "create")
    /\ tmp' = [tmp EXCEPT ![K(p)] = [exists |-> TRUE, len |-> 0, data |-> {},
                                     writers |-> @.writers \cup {p}]]
    /\ Goto(p, "fetch")
    /\ UNCHANGED <<memVars, final, lockVars, histVars>>

CreateFails(p) ==
    /\ At(p, "create")
    /\ Goto(p, "fail")
    /\ UNCHANGED <<memVars, diskVars, lockVars, histVars>>

(* ... the fetch callback, which streams the payload through p's descriptor *)
(* and starts over after a transient error.  The file of the descriptor is  *)
(* at tmp, at final when another fetcher has renamed it, or unlinked.       *)
OwnFile(p, effect(_)) ==
    LET own(f) == IF p \in f.writers THEN effect(f) ELSE f
    IN  /\ tmp' = [tmp EXCEPT ![K(p)] = own(@)]
        /\ final' = [final EXCEPT ![K(p)] = own(@)]

Write(p) ==
    /\ At(p, "fetch") /\ proc[p].off < Size[K(p)]
    /\ LET next == proc[p].off + 1
           written(f) == [f EXCEPT !.len = IF @ > next THEN @ ELSE next,
                                   !.data = @ \cup {next}]
       IN  /\ OwnFile(p, written)
           /\ proc' = [proc EXCEPT ![p].off = next]
    /\ UNCHANGED <<memVars, lockVars, histVars>>

Retry(p) ==
    /\ At(p, "fetch") /\ proc[p].attempt < MaxAttempts
    /\ LET truncated(f) == [f EXCEPT !.len = 0, !.data = {}]
       IN  OwnFile(p, truncated)
    /\ proc' = [proc EXCEPT ![p].off = 0, ![p].attempt = @ + 1]
    /\ UNCHANGED <<memVars, lockVars, histVars>>

CloseTmp(p, label) ==
    /\ LET closed(f) == [f EXCEPT !.writers = @ \ {p}]
       IN  OwnFile(p, closed)
    /\ proc' = [proc EXCEPT ![p].pc = label, ![p].off = 0, ![p].attempt = 1]
    /\ UNCHANGED <<memVars, lockVars, histVars>>

FetchOk(p) ==
    /\ At(p, "fetch") /\ proc[p].off = Size[K(p)]
    /\ CloseTmp(p, "stattmp")

\* Mutant: the error of the callback is not looked at.
FetchFailIgnored(p) ==
    /\ At(p, "fetch")
    /\ CloseTmp(p, "stattmp")

FetchFail(p) ==
    /\ At(p, "fetch")
    /\ CloseTmp(p, "discard")

(* ... and the publication of the result: stat, rename, finishFetch. *)
StatTmp(p) ==
    /\ At(p, "stattmp")
    /\ IF tmp[K(p)].exists
       THEN proc' = [proc EXCEPT ![p].pc = "rename", ![p].sz = tmp[K(p)].len]
       ELSE Goto(p, "discard")
    /\ UNCHANGED <<memVars, diskVars, lockVars, histVars>>

RenameTmp(p) ==
    /\ At(p, "rename")
    /\ IF tmp[K(p)].exists
       THEN /\ final' = [final EXCEPT ![K(p)] = tmp[K(p)]]
            /\ tmp' = [tmp EXCEPT ![K(p)] = NoFile]
            /\ Goto(p, "finish")
       ELSE UNCHANGED diskVars /\ Goto(p, "discard")
    /\ UNCHANGED <<memVars, lockVars, histVars>>

Discard(p) ==
    /\ At(p, "discard")
    /\ tmp' = [tmp EXCEPT ![K(p)] = NoFile]
    /\ Goto(p, "fail")
    /\ UNCHANGED <<memVars, final, lockVars, histVars>>

\* Mutant: finishFetch leaves the channels open.
WaitersOfNone(k) == {}

WaitersOf(k) == entry[k].waiters

\* Closing the channels of k's waiters sends those back to the loop that have
\* not given up; p, which called finishFetch, goes on as `local`.
WakeWaiters(p, k, local) ==
    proc' = [q \in Proc |->
               IF q = p THEN local
               ELSE IF q \in WaitersOf(k) /\ At(q, "wait") /\ K(q) = k
                    THEN [proc[q] EXCEPT !.pc = "lookup"] ELSE proc[q]]

(* finishFetch(key, "", 0, err) *)
FinishErr(p) ==
    /\ At(p, "fail") /\ Unlocked
    /\ IF K(p) \in cached
       THEN /\ entry' = [entry EXCEPT ![K(p)].fetching = FALSE,
                                      ![K(p)].err = TRUE,
                                      ![K(p)].waiters = {}]
            /\ WakeWaiters(p, K(p), Idle)
       ELSE UNCHANGED entry /\ Return(p)
    /\ UNCHANGED <<cached, lru, curBytes, diskVars, lockVars, histVars>>

(* finishFetch(key, finalPath, size, nil): by key, whatever entry is there *)
FinishOk(p) ==
    /\ At(p, "finish") /\ Unlocked
    /\ IF K(p) \in cached
       THEN /\ entry' = [entry EXCEPT ![K(p)] = ReadyEntry(proc[p].sz)]
            /\ curBytes' = curBytes + proc[p].sz
            /\ WakeWaiters(p, K(p), [proc[p] EXCEPT !.pc = "evict"])
       ELSE UNCHANGED <<entry, curBytes>> /\ Goto(p, "evict")
    /\ UNCHANGED <<cached, lru, diskVars, lockVars, histVars>>

(* evictIfNeeded: the loop that pops the least recent keys. *)
EvictLock(p) ==
    /\ At(p, "evict") /\ Unlocked
    /\ evictor' = p
    /\ UNCHANGED <<memVars, diskVars, spawned, proc, histVars>>

EvictLockAsync ==
    /\ spawned > 0 /\ Unlocked
    /\ spawned' = spawned - 1 /\ evictor' = Async
    /\ UNCHANGED <<memVars, diskVars, proc, histVars>>

\* Mutants: an off-by-one in the comparison; no comparison at all.
OverCapByTwo == curBytes > MaxBytes + 1 /\ lru # <<>>
OverCapAlways == lru # <<>>

OverCap == curBytes > MaxBytes /\ lru # <<>>

EvictPop ==
    /\ ~Unlocked /\ OverCap
    /\ LET k == Last(lru)
       IN  /\ lru' = Front(lru)
           /\ cached' = cached \ {k}
           /\ entry' = [entry EXCEPT ![k] = NoEntry]
           /\ IF k \in cached /\ entry[k].path
              THEN /\ final' = [final EXCEPT ![k] = NoFile]
                   /\ curBytes' = curBytes - entry[k].size
              ELSE UNCHANGED <<final, curBytes>>
    /\ UNCHANGED <<tmp, lockVars, proc, histVars>>

EvictUnlock ==
    /\ ~Unlocked /\ ~OverCap
    /\ evictor' = NoProc
    /\ IF evictor \in Proc THEN Goto(evictor, "open") ELSE UNCHANGED proc
    /\ UNCHANGED <<memVars, diskVars, spawned, histVars>>

(* os.Open of the returned path, with one more GetOrFetch if it is gone. *)
OpenBlob(p) ==
    /\ At(p, "open") /\ final[K(p)].exists
    /\ Return(p)
    /\ UNCHANGED <<memVars, diskVars, lockVars, histVars>>

BlobGone(p) ==
    /\ At(p, "open") /\ ~final[K(p)].exists
    /\ IF proc[p].opens = 1
       THEN proc' = [proc EXCEPT ![p].pc = "lookup", ![p].opens = 2]
       ELSE Return(p)
    /\ UNCHANGED <<memVars, diskVars, lockVars, histVars>>

(* StoreFromPath: the rename is outside the mutex, the rest inside.        *)
(* An upload stores the object it has just put, so at most once per key.   *)
StoreRename(p, k) ==
    /\ At(p, "idle") /\ k \in Uploaded \ stored
    /\ final' = [final EXCEPT ![k] = WholeFile(k)]
    /\ stored' = stored \cup {k}
    /\ proc' = [proc EXCEPT ![p].pc = "install", ![p].key = k]
    /\ UNCHANGED <<memVars, tmp, lockVars, restarts>>

Replaces(k) == k \in cached /\ ~entry[k].err /\ entry[k].path

\* Mutant: the bytes of the replaced entry are not given back.
FreedNever(k) == 0

Freed(k) == IF Replaces(k) THEN entry[k].size ELSE 0

StoreInstall(p) ==
    /\ At(p, "install") /\ Unlocked
    /\ LET k == K(p)
       IN  /\ final' = IF Replaces(k) THEN [final EXCEPT ![k] = NoFile] ELSE final
           /\ cached' = cached \cup {k}
           /\ entry' = [entry EXCEPT ![k] = ReadyEntry(Size[k])]
           /\ lru' = bumpLRU(lru, k)
           /\ curBytes' = (curBytes - Freed(k)) + Size[k]
    /\ spawned' = spawned + 1
    /\ Return(p)
    /\ UNCHANGED <<tmp, evictor, histVars>>

(* A crash, or an unmount and a new mount: New starts with an empty map    *)
(* and does not look at the files the cache directory already holds.       *)
Restart ==
    /\ restarts < MaxRestarts
    /\ restarts' = restarts + 1
    /\ cached' = {} /\ entry' = [k \in Key |-> NoEntry]
    /\ lru' = <<>> /\ curBytes' = 0
    /\ evictor' = NoProc /\ spawned' = 0
    /\ tmp' = [k \in Key |-> [tmp[k] EXCEPT !.writers = {}]]
    /\ final' = [k \in Key |-> [final[k] EXCEPT !.writers = {}]]
    /\ proc' = [p \in Proc |-> Idle]
    /\ UNCHANGED stored

-----------------------------------------------------------------------------
Lookup(p) == Hit(p) \/ Join(p) \/ Claim(p)

Fetch(p) ==
    \/ RemoveTmp(p) \/ CreateTmp(p) \/ CreateFails(p)
    \/ Write(p) \/ Retry(p) \/ FetchOk(p) \/ FetchFail(p)
    \/ StatTmp(p) \/ RenameTmp(p) \/ Discard(p)
    \/ FinishErr(p) \/ FinishOk(p)

\* What a goroutine does once it has entered the cache.
Run(p) ==
    \/ Lookup(p) \/ StatHit(p) \/ Recheck(p) \/ Fetch(p)
    \/ EvictLock(p) \/ OpenBlob(p) \/ BlobGone(p) \/ StoreInstall(p)

Evict == EvictLockAsync \/ EvictPop \/ EvictUnlock

Next ==
    \/ \E p \in Proc, k \in Key : Call(p, k) \/ StoreRename(p, k)
    \/ \E p \in Proc : Run(p) \/ Cancel(p)
    \/ Evict
    \/ Restart

Spec == Init /\ [][Next]_vars

(* A goroutine inside the cache keeps running; its system calls and the    *)
(* network call of the fetch return.  Nobody has to call the cache, give   *)
(* up waiting, or crash.                                                   *)
FairSpec == Spec /\ (\A p \in Proc : WF_vars(Run(p))) /\ WF_vars(Evict)

(* The executions in which no entry is dropped while a fetch of it runs:   *)
(* eviction never reaches a fetching entry, and StoreFromPath never        *)
(* replaces one.                                                           *)
KeepsFetches ==
    restarts' = restarts =>
        \A k \in Key : entry[k].fetching /\ ~entry'[k].fetching =>
            \E p \in Proc : /\ K(p) = k /\ proc[p].pc \in {"fail", "finish"}
                            /\ proc'[p].pc # proc[p].pc

KeepSpec == Init /\ [][Next /\ KeepsFetches]_vars

-----------------------------------------------------------------------------
(* Properties *)

TypeOK ==
    /\ cached \subseteq Key
    /\ entry \in [Key -> Entry]
    /\ \A k \in Key \ cached : entry[k] = NoEntry
    /\ lru \in Seq(Key) /\ curBytes \in Int
    /\ evictor \in Proc \cup {NoProc, Async} /\ spawned \in Nat
    /\ tmp \in [Key -> File] /\ final \in [Key -> File]
    /\ proc \in [Proc -> Local]
    /\ \A p \in Proc : At(p, "idle") \/ K(p) \in Key
    /\ stored \subseteq Uploaded /\ restarts \in 0..MaxRestarts

\* The eviction order names every key of the map once and no other key: a key
\* missing from it would never be evicted, a stale one would evict nothing.
LruMatchesMap ==
    /\ cached = {lru[i] : i \in 1..Len(lru)}
    /\ \A i, j \in 1..Len(lru) : lru[i] = lru[j] => i = j

\* The chunks of the blobs the map e names, and how many there are.
Chunks(e) == UNION {{k} \X (1..e[k].size) : k \in {k \in Key : e[k].path}}

TrackedBytes == Cardinality(Chunks(entry))

\* However fetches, stores, evictions and restarts interleave, curBytes never
\* falls below the bytes of the blobs the map still names, so a cache within
\* its cap by its own count is within it by the sizes of its entries.
NeverUndercounts == curBytes >= TrackedBytes

EvictionDue == spawned > 0 \/ ~Unlocked \/ \E p \in Proc : At(p, "evict")

\* Whoever pushes the count over the cap leaves an eviction behind: while the
\* count is over the cap and no eviction is due, the map names no blob at all.
\* With NeverUndercounts: between evictions, the blobs fit into MaxBytes.
CapEnforced ==
    ~EvictionDue /\ curBytes > MaxBytes => \A k \in Key : ~entry[k].path

\* Between Claim and finishFetch.
Fetcher(p) == proc[p].pc \in {"rmtmp", "create", "fetch", "stattmp", "rename",
                              "discard", "fail", "finish"}

\* The cache serializes concurrent fetches for the same key (README.md:13).
\* Two fetchers of one key share its temporary file.
SingleFetcher ==
    \A p, q \in Proc : Fetcher(p) /\ Fetcher(q) /\ K(p) = K(q) => p = q

\* A blob under its final name is the whole payload, written by nobody any
\* more: what Open reads is never a prefix, or a file with a hole, left by an
\* interrupted or a concurrent fetch.
OnlyWholeBlobs == \A k \in Key : final[k].exists => final[k] = WholeFile(k)

\* The path GetOrFetch returns is the cached payload (cache.go:70): a caller
\* that opens it reads every chunk.
OpensWhole ==
    \A p \in Proc : At(p, "open") /\ final[K(p)].exists =>
        final[K(p)].data = 1..Size[K(p)]

\* curBytes is exactly what the entries of the map occupy.
ExactAccounting == curBytes = TrackedBytes

\* A blob on disk is in the map, or on its way there: until a restart, no
\* file escapes the cap.
NoOrphanBlob ==
    restarts = 0 =>
        \A k \in Key : final[k].exists =>
            \/ entry[k].path
            \/ \E p \in Proc : K(p) = k /\ proc[p].pc \in {"finish", "install"}

\* StoreFromPath "moves an existing local file into the cache under key"
\* (cache.go:220): when it returns, the file is there.
StoreKeepsBlob ==
    [][\A p \in Proc : At(p, "install") /\ proc'[p].pc = "idle"
                       /\ restarts' = restarts => final'[K(p)].exists]_vars

\* With room for every object and no stores, no running fetch is dropped: the
\* executions of such a cache are executions of KeepSpec.
FetchesKept == [][KeepsFetches]_vars

\* A goroutine that waits for another one's fetch is woken.
WaitersWake == \A p \in Proc : At(p, "wait") ~> ~At(p, "wait")
=============================================================================
