---------------------------- MODULE RangeReader ----------------------------
(***************************************************************************)
(* rangeFileHandle of internal/fs/tree.go: reads of a large object through *)
(* a bounded map of chunks.  A read waits for a chunk that somebody        *)
(* fetches, fetches one that is missing, and fetches a longer one in place *)
(* of one that is too short.  Full chunks start goroutines that look       *)
(* ahead, the first read at 0 one that fetches the tail.                   *)
(*                                                                         *)
(* Offsets are numbers below Size.  What a chunk holds is the object's     *)
(* bytes from its start on, so that its length says it all.  A step is a   *)
(* critical section of h.mu, or the end of a fetch.  A fetch is loadChunk, *)
(* with its retries: it returns the bytes it was asked for, or an error.   *)
(***************************************************************************)
EXTENDS Integers, Sequences, FiniteSets

CONSTANTS
    Size,        \* size of the object
    ChunkSize,   \* rangeReadChunkSize
    Probe,       \* rangeReadProbeChunkSize
    MaxChunks,   \* rangeReadMaxChunks
    Reads,       \* the reads: pairs of a first offset and an end
    Reader,      \* kernel threads that read
    Prefetcher   \* goroutines that prefetch; how many run at once is a bound

ASSUME RangeAssumption ==
    /\ Size \in Nat \ {0} /\ Probe \in Nat \ {0} /\ ChunkSize \in Nat /\ Probe <= ChunkSize
    /\ MaxChunks \in Nat /\ MaxChunks >= 2
    /\ Reads \subseteq {r \in (0..Size) \X (0..Size) : r[1] < r[2]}
    /\ Reader \cap Prefetcher = {}

VARIABLES
    chunks,     \* h.chunks, by the offset a chunk starts at
    older,      \* the pairs of chunks in the order of their useSeq
    firstRead,  \* has there been a read? (firstReadAtNs)
    released,   \* has the kernel released the handle?
    proc        \* proc[p]: where goroutine p is

vars == <<chunks, older, firstRead, released, proc>>

Start == 0..(Size - 1)
Proc  == Reader \cup Prefetcher

Chunk == [present : BOOLEAN, fetching : BOOLEAN, len : 0..ChunkSize, waiters : SUBSET Proc]

NoChunk == [present |-> FALSE, fetching |-> FALSE, len |-> 0, waiters |-> {}]

\* pos, end: what a read still has to copy; start, need: the arguments of
\* ensureChunk; len: the length it fetches; rest: what is left to prefetch.
\* A value that is not needed any more is reset.
Local == [pc : {"idle", "plan", "ensure", "wait", "fetch", "copy", "check"},
          pos : 0..Size, end : 0..Size, start : Start, need : 0..Size,
          len : 0..ChunkSize, rest : Seq(Start)]

Idle == [pc |-> "idle", pos |-> 0, end |-> 0, start |-> 0, need |-> 0, len |-> 0,
         rest |-> <<>>]

At(p, label) == proc[p].pc = label

Init ==
    /\ chunks = [s \in Start |-> NoChunk] /\ older = {}
    /\ firstRead = FALSE /\ released = FALSE
    /\ proc = [p \in Proc |-> Idle]

-----------------------------------------------------------------------------
(* Chunks *)

Least(a, b) == IF a <= b THEN a ELSE b

AlignDown(off, unit) == (off \div unit) * unit  \* chunkStart, probeStart

End(s) == s + chunks[s].len

Present == {s \in Start : chunks[s].present}

Loaded(s) == chunks[s].present /\ ~chunks[s].fetching

Pinned(s) == s = 0 \/ s = AlignDown(Size - 1, Probe)

Hits(off) == {s \in Start : Loaded(s) /\ s <= off /\ off < End(s)}

\* lookupChunkLocked: of the chunks S that hold an offset, the last one used
LastUsed(s, S) == s \in S /\ \A t \in S \ {s} : <<t, s>> \in older

Touch(s) == {e \in older : e[1] # s} \cup {<<t, s>> : t \in Present \ {s}}

MaxEnd(s) == Least(s + ChunkSize, Size)

\* nextFetchEnd: at least twice as long as before
NextFetchEnd(s, need) ==
    LET double == s + 2 * chunks[s].len
    IN  Least(IF double > need THEN double ELSE need, MaxEnd(s))

FetchLength(s, need) ==
    LET n == IF need <= s THEN 1 ELSE need - s
    IN  Least(Least(IF n < Probe THEN Probe ELSE n, ChunkSize), Size - s)

-----------------------------------------------------------------------------
(* Prefetching *)

\* The goroutine starts, if the bound allows for one more.
Spawned(state, targets) ==
    LET free == {q \in Prefetcher : state[q].pc = "idle"}
    IN  IF targets = <<>> \/ free = {} THEN {state}
        ELSE {[state EXCEPT ![q] = [Idle EXCEPT !.pc = "check", !.rest = targets]] :
                 q \in free}

\* queueLookahead: after a full chunk the next two windows, if there are any
Lookahead(s, len) ==
    LET next == s + ChunkSize
    IN  IF len # ChunkSize \/ next >= Size THEN <<>>
        ELSE IF next + ChunkSize >= Size THEN <<next>>
        ELSE <<next, next + ChunkSize>>

\* prefetchTail: only if the object is large enough
TailTarget ==
    IF Size > 2 * ChunkSize THEN <<AlignDown(Size - 1, Probe)>> ELSE <<>>

\* What ensureChunk returns to: the read copies, a prefetch takes its next
\* target, whether the last one was fetched or not.
NextTarget(local) ==
    IF Len(local.rest) <= 1 THEN Idle
    ELSE [Idle EXCEPT !.pc = "check", !.rest = Tail(local.rest)]

Reading(label, pos, end) == [Idle EXCEPT !.pc = label, !.pos = pos, !.end = end]

Ensured(p) ==
    IF p \in Reader THEN Reading("copy", proc[p].pos, proc[p].end) ELSE NextTarget(proc[p])

Failed(p) == IF p \in Reader THEN Idle ELSE NextTarget(proc[p])

(* runPrefetch *)
Check(p) ==
    /\ At(p, "check")
    /\ LET s == Head(proc[p].rest)
       IN  proc' = [proc EXCEPT ![p] =
              IF chunks[s].fetching \/ (chunks[s].present /\ End(s) >= MaxEnd(s))
              THEN NextTarget(@)
              ELSE [@ EXCEPT !.pc = "ensure", !.start = s, !.need = MaxEnd(s)]]
    /\ UNCHANGED <<chunks, older, firstRead, released>>

-----------------------------------------------------------------------------
(* ensureChunk *)

Wait(p) ==
    /\ At(p, "ensure") /\ chunks[proc[p].start].fetching
    /\ chunks' = [chunks EXCEPT ![proc[p].start].waiters = @ \cup {p}]
    /\ proc' = [proc EXCEPT ![p].pc = "wait"]
    /\ UNCHANGED <<older, firstRead, released>>

\* Mutant: a chunk that ends where the caller needs it to is too short.
EnoughStrict(p) == Loaded(proc[p].start) /\ End(proc[p].start) > proc[p].need

\* chunkCoversRange
Enough(p) == Loaded(proc[p].start) /\ End(proc[p].start) >= proc[p].need

Reuse(p) ==
    /\ At(p, "ensure") /\ Enough(p)
    /\ older' = Touch(proc[p].start)
    /\ proc' = [proc EXCEPT ![p] = Ensured(p)]
    /\ UNCHANGED <<chunks, firstRead, released>>

\* Mutant: a chunk somebody fetches is taken for one that is too short.
MayClaimAny(p) == ~Enough(p)

MayClaim(p) == ~Enough(p) /\ ~chunks[proc[p].start].fetching

(* The new chunk replaces the one that was too short. *)
Claim(p) ==
    /\ At(p, "ensure") /\ MayClaim(p)
    /\ LET s == proc[p].start
           need == IF chunks[s].present THEN NextFetchEnd(s, proc[p].need)
                   ELSE proc[p].need
       IN  /\ chunks' = [chunks EXCEPT
                 ![s] = [NoChunk EXCEPT !.present = TRUE, !.fetching = TRUE]]
           /\ older' = Touch(s)
           /\ proc' = [proc EXCEPT
                 ![p] = [@ EXCEPT !.pc = "fetch", !.need = 0, !.len = FetchLength(s, need)]]
    /\ UNCHANGED <<firstRead, released>>

\* Mutant: the channels of the waiters are dropped with the chunk.
WokenNever(p, s, local) == [proc EXCEPT ![p] = local]

\* The waiters of s wake, and p becomes local.
Woken(p, s, local) ==
    [q \in Proc |-> IF q = p THEN local
                    ELSE IF q \in chunks[s].waiters THEN [proc[q] EXCEPT !.pc = "ensure"]
                    ELSE proc[q]]

\* Mutant: the cap is exceeded by one.
ExcessLate(S) == Cardinality(S) - MaxChunks - 1

Excess(S) == Cardinality(S) - MaxChunks

\* Mutant: the chunk that was fetched counts as used when its fetch began.
TouchedBefore(s) == older

TouchedAfter(s) == Touch(s)

(* evictChunksLocked, once s is loaded: the chunks least recently used go,  *)
(* as many as there are too many.  None that is pinned or being fetched.    *)
Evicted(s, V) ==
    LET may == {t \in Present : ~Pinned(t) /\ (Loaded(t) \/ t = s)}
        excess == Excess(Present)
    IN  /\ V \subseteq may
        /\ Cardinality(V) = IF excess <= 0 THEN 0 ELSE Least(excess, Cardinality(may))
        /\ \A v \in V, t \in may \ V : <<v, t>> \in TouchedAfter(s)

(* finishChunkFetch with the chunk that is at start, whoever fetches it.    *)
FetchOk(p) ==
    /\ At(p, "fetch")
    /\ LET s == proc[p].start
           n == proc[p].len
           targets == IF p \in Reader THEN Lookahead(s, n) ELSE <<>>
       IN  IF chunks[s].present
           THEN \E V \in SUBSET Present :
                   /\ Evicted(s, V)
                   /\ chunks' = [t \in Start |->
                         IF t \in V THEN NoChunk
                         ELSE IF t = s THEN [NoChunk EXCEPT !.present = TRUE, !.len = n]
                         ELSE chunks[t]]
                   /\ older' = {e \in TouchedAfter(s) : e[1] \notin V /\ e[2] \notin V}
                   /\ proc' \in Spawned(Woken(p, s, Ensured(p)), targets)
           ELSE /\ proc' \in Spawned([proc EXCEPT ![p] = Ensured(p)], targets)
                /\ UNCHANGED <<chunks, older>>
    /\ UNCHANGED <<firstRead, released>>

(* The fetch failed, or its caller was cancelled. *)
FetchErr(p) ==
    /\ At(p, "fetch")
    /\ LET s == proc[p].start
       IN  /\ chunks' = [chunks EXCEPT ![s] = NoChunk]
           /\ older' = {e \in older : e[1] # s /\ e[2] # s}
           /\ proc' = Woken(p, s, Failed(p))
    /\ UNCHANGED <<firstRead, released>>

(* The context of a waiting caller ends: a signal, or the 30 seconds of a   *)
(* prefetch.  Its channel stays in the list, and nobody reads it any more.  *)
Cancel(p) ==
    /\ At(p, "wait")
    /\ chunks' = [chunks EXCEPT ![proc[p].start].waiters = @ \ {p}]
    /\ proc' = [proc EXCEPT ![p] = Failed(p)]
    /\ UNCHANGED <<older, firstRead, released>>

-----------------------------------------------------------------------------
(* Read and Release *)

Read(p, off, end) ==
    /\ At(p, "idle") /\ ~released
    /\ firstRead' = TRUE
    /\ proc' \in Spawned([proc EXCEPT ![p] = Reading("plan", off, end)],
                         IF ~firstRead /\ off = 0 THEN TailTarget ELSE <<>>)
    /\ UNCHANGED <<chunks, older, released>>

Ensure(p, s, need) ==
    proc' = [proc EXCEPT ![p] = [@ EXCEPT !.pc = "ensure", !.start = s, !.need = need]]

\* Mutant: the expanded chunk ends where the probe did.
ExpandedEndShort(s) == Least(s + Probe, Size)

ExpandedEnd(s) == MaxEnd(s)

\* Mutant: a probe starts where its chunk does.
ProbeStartOfChunk(off) == AlignDown(off, ChunkSize)

ProbeStart(off) == AlignDown(off, Probe)

(* planFetch: the chunk that holds the position; or else the one at the     *)
(* start of its window, expanded; or else a probe.                          *)
Plan(p) ==
    /\ At(p, "plan")
    /\ LET pos == proc[p].pos
           end == proc[p].end
           full == AlignDown(pos, ChunkSize)
           probe == ProbeStart(pos)
       IN  \/ \E s \in Hits(pos) :
                 LastUsed(s, Hits(pos)) /\ Ensure(p, s, Least(end, MaxEnd(s)))
           \/ /\ Hits(pos) = {} /\ Loaded(full) /\ pos >= End(full)
              /\ Ensure(p, full, ExpandedEnd(full))
           \/ /\ Hits(pos) = {} /\ ~(Loaded(full) /\ pos >= End(full))
              /\ Ensure(p, probe, Least(end, Least(probe + Probe, Size)))
    /\ UNCHANGED <<chunks, older, firstRead, released>>

(* The chunk may be gone again: then the read plans anew. *)
Copy(p) ==
    /\ At(p, "copy")
    /\ LET pos == proc[p].pos
       IN  \/ /\ Hits(pos) = {}
              /\ proc' = [proc EXCEPT ![p].pc = "plan"]
              /\ UNCHANGED older
           \/ \E s \in Hits(pos) :
                 /\ LastUsed(s, Hits(pos))
                 /\ older' = Touch(s)
                 /\ proc' = [proc EXCEPT ![p] =
                       IF End(s) >= @.end THEN Idle
                       ELSE Reading("plan", End(s), @.end)]
    /\ UNCHANGED <<chunks, firstRead, released>>

(* The kernel releases a handle when no read of it is in progress; the     *)
(* prefetches go on.                                                        *)
Release ==
    /\ ~released /\ \A r \in Reader : At(r, "idle")
    /\ released' = TRUE
    /\ chunks' = [s \in Start |-> NoChunk] /\ older' = {}
    /\ UNCHANGED <<firstRead, proc>>

-----------------------------------------------------------------------------
Run(p) ==
    \/ Plan(p) \/ Wait(p) \/ Reuse(p) \/ Claim(p) \/ Copy(p)
    \/ FetchOk(p) \/ FetchErr(p) \/ Check(p)

Next ==
    \/ \E p \in Proc : Run(p) \/ Cancel(p)
    \/ \E r \in Reader, x \in Reads : Read(r, x[1], x[2])
    \/ Release

Spec == Init /\ [][Next]_vars

(* Goroutines run, fetches return, and a prefetch times out.  Nobody has to *)
(* read, to interrupt a read, or to release the handle.                     *)
FairSpec ==
    /\ Spec
    /\ \A p \in Proc : WF_vars(Run(p))
    /\ \A q \in Prefetcher : WF_vars(Cancel(q))

-----------------------------------------------------------------------------
(* Properties *)

TypeOK ==
    /\ chunks \in [Start -> Chunk]
    /\ \A s \in Start : End(s) <= Size /\ (chunks[s].fetching => chunks[s].present)
    /\ older \subseteq Present \X Present
    /\ firstRead \in BOOLEAN /\ released \in BOOLEAN
    /\ proc \in [Proc -> Local]
    /\ \A p \in Proc : /\ At(p, "check") => proc[p].rest # <<>>
                       /\ At(p, "fetch") => proc[p].start + proc[p].len <= Size

Fetches(p, s) == At(p, "fetch") /\ proc[p].start = s

\* TestRangeFileHandleReadCollapsesConcurrentSameChunkFetch in general: until
\* the handle is released a chunk is fetched by one goroutine at a time, and is
\* marked as being fetched exactly while it is.
OneFetch ==
    ~released =>
        /\ \A s \in Start : chunks[s].fetching <=> \E p \in Proc : Fetches(p, s)
        /\ \A p, q \in Proc : At(p, "fetch") /\ Fetches(q, proc[p].start) => p = q

\* No lost wake-up: whoever waits for a chunk is on the list of somebody who
\* fetches it.  Only prefetches that Release has cut off wait for their timeout.
WaitersServed ==
    \A p \in Proc : At(p, "wait") =>
        \/ /\ p \in chunks[proc[p].start].waiters
           /\ \E q \in Proc : Fetches(q, proc[p].start)
        \/ released /\ p \in Prefetcher

\* Whatever the map has become since a read planned its fetch, what it fetches
\* holds the position it has to copy next.
FetchCovers ==
    \A r \in Reader : At(r, "fetch") =>
        /\ proc[r].start <= proc[r].pos
        /\ proc[r].pos < proc[r].start + proc[r].len

\* "a bounded in-memory chunk cache" (tree.go:1242): only fetches in progress
\* take the map beyond its cap, also when they fail or replace a chunk.
MemoryBounded ==
    Cardinality(Present) <= MaxChunks + Cardinality({s \in Start : chunks[s].fetching})

\* A chunk is replaced only to become longer: no read fetches the same twice
\* from a chunk that is too short.
GrowthGrows ==
    [][\A p \in Proc : At(p, "ensure") /\ Loaded(proc[p].start) /\ proc'[p].pc = "fetch" =>
          proc'[p].len > chunks[proc[p].start].len]_vars

\* What a read has fetched is not evicted before it is copied as long as the
\* cache has anything else to evict.
FetchedStays ==
    [][\A r \in Reader : At(r, "fetch") /\ proc'[r].pc = "copy" =>
          \/ chunks'[proc[r].start].present
          \/ \A t \in Present' : Pinned(t) \/ chunks[t].fetching]_vars

NothingDropped == \A s \in Start : chunks[s].present => chunks'[s].present

\* Every read returns, with its bytes or an error, unless chunks are dropped
\* for ever: evictions and failing prefetches of others may hold up a read.
ReadReturns ==
    <>[][NothingDropped]_vars => \A r \in Reader : At(r, "plan") ~> At(r, "idle")
=============================================================================
