---------------------------- MODULE RangeProofs ----------------------------
(***************************************************************************)
(* Theorems about RangeReader, for every size of the object, of chunks and *)
(* of probes, every cap and any readers and prefetchers.                   *)
(***************************************************************************)
EXTENDS RangeReader, SequenceTheorems, FiniteSetTheorems, TLAPS

(* Where a goroutine may be: what it knows of its read and its fetch.       *)
LocalOK(p, l) ==
    /\ l \in Local
    /\ l.pc = "check" => p \in Prefetcher /\ l.rest # <<>>
    /\ p \in Reader /\ l.pc # "idle" => l.pos < l.end
    /\ l.pc \in {"plan", "copy"} => p \in Reader
    /\ l.pc \in {"ensure", "wait"} =>
          /\ l.need <= MaxEnd(l.start)
          /\ p \in Reader => l.start <= l.pos /\ l.pos < l.need
    /\ l.pc = "fetch" =>
          /\ l.start + l.len <= Size
          /\ p \in Reader => l.start <= l.pos /\ l.pos < l.start + l.len

LocalsOK == proc = [p \in Proc |-> proc[p]] /\ \A p \in Proc : LocalOK(p, proc[p])

ChunksOK ==
    /\ chunks \in [Start -> Chunk]
    /\ \A s \in Start :
          /\ End(s) <= Size
          /\ chunks[s].fetching => chunks[s].present
          /\ ~chunks[s].fetching => chunks[s].waiters = {}
          /\ \A p \in chunks[s].waiters : At(p, "wait") /\ proc[p].start = s
    /\ older \subseteq Present \X Present

ReleaseOK ==
    /\ firstRead \in BOOLEAN /\ released \in BOOLEAN
    /\ released => \A r \in Reader : At(r, "idle")

(* The inductive invariant. *)
RInv == LocalsOK /\ ChunksOK /\ ReleaseOK /\ OneFetch /\ WaitersServed

-----------------------------------------------------------------------------
(* The operators *)

LEMMA AlignDownBelow ==
    ASSUME NEW off \in Nat, NEW unit \in Nat \ {0}
    PROVE  /\ AlignDown(off, unit) \in Nat
           /\ AlignDown(off, unit) <= off
           /\ off < AlignDown(off, unit) + unit
BY DEF AlignDown

LEMMA MaxEndBounds ==
    ASSUME NEW s \in Start
    PROVE  /\ MaxEnd(s) \in 0..Size /\ s <= MaxEnd(s)
           /\ MaxEnd(s) <= s + ChunkSize /\ s + Probe <= s + ChunkSize
           /\ s < MaxEnd(s)
BY RangeAssumption DEF MaxEnd, Least, Start

(* A fetch stays within the object, and reaches what it is needed for.      *)
LEMMA FetchLengthBounds ==
    ASSUME NEW s \in Start, NEW need \in 0..Size, need <= MaxEnd(s)
    PROVE  /\ FetchLength(s, need) \in 0..ChunkSize
           /\ s + FetchLength(s, need) <= Size
           /\ need <= s + FetchLength(s, need)
BY RangeAssumption DEF FetchLength, MaxEnd, Least, Start

(* A chunk that is replaced is asked for as much as it is needed for.       *)
LEMMA NextFetchEndBounds ==
    ASSUME NEW s \in Start, NEW need \in 0..Size, need <= MaxEnd(s),
           chunks[s].len \in 0..ChunkSize
    PROVE  /\ NextFetchEnd(s, need) \in 0..Size
           /\ need <= NextFetchEnd(s, need) /\ NextFetchEnd(s, need) <= MaxEnd(s)
<1>1. MaxEnd(s) \in 0..Size
  BY MaxEndBounds
<1>2. s + 2 * chunks[s].len \in Nat
  BY RangeAssumption DEF Start
<1> QED
  BY <1>1, <1>2, RangeAssumption DEF NextFetchEnd, Least

LEMMA TailFacts ==
    ASSUME NEW seq \in Seq(Start), Len(seq) > 1
    PROVE  Tail(seq) \in Seq(Start) /\ Tail(seq) # <<>>
<1>1. Len(seq) \in Nat /\ Len(<<>>) = 0
  OBVIOUS
<1>2. seq # <<>>
  <2>1. Len(seq) # 0
    BY <1>1
  <2> QED
    BY <1>1, <2>1, Zenon
<1>3. Len(Tail(seq)) = Len(seq) - 1 /\ Tail(seq) \in Seq(Start)
  BY <1>2, HeadTailProperties, Zenon
<1>4. Len(Tail(seq)) # 0
  BY <1>1, <1>3
<1>5. Tail(seq) # <<>>
  BY <1>1, <1>4, Zenon
<1> QED
  BY <1>3, <1>5

(* Goroutines as they are when they begin or resume something.              *)
LEMMA IdleRecord ==
    /\ Idle \in Local
    /\ Idle.pc = "idle" /\ Idle.rest = <<>>
BY RangeAssumption DEF Idle, Local, Start

LEMMA PrefetchRecord ==
    ASSUME NEW targets \in Seq(Start)
    PROVE  LET l == [Idle EXCEPT !.pc = "check", !.rest = targets]
           IN  l \in Local /\ l.pc = "check" /\ l.rest = targets
BY IdleRecord DEF Local

LEMMA ReadingRecord ==
    ASSUME NEW label \in {"plan", "copy"}, NEW pos \in 0..Size, NEW end \in 0..Size
    PROVE  LET l == Reading(label, pos, end)
           IN  l \in Local /\ l.pc = label /\ l.pos = pos /\ l.end = end
BY IdleRecord DEF Local, Reading

LEMMA TargetsInStart ==
    /\ TailTarget \in Seq(Start)
    /\ \A s \in Start, n \in Nat : Lookahead(s, n) \in Seq(Start)
<1>1. TailTarget \in Seq(Start)
  <2>1. AlignDown(Size - 1, Probe) \in Start
    BY AlignDownBelow, RangeAssumption DEF Start
  <2> QED
    BY <2>1 DEF TailTarget
<1>2. ASSUME NEW s \in Start, NEW n \in Nat
      PROVE  Lookahead(s, n) \in Seq(Start)
  <2> DEFINE t == s + ChunkSize
             u == t + ChunkSize
  <2>1. /\ t < Size => t \in Start
        /\ t < Size /\ u < Size => u \in Start
        /\ t < Size \/ t >= Size
        /\ u < Size \/ u >= Size
    BY RangeAssumption DEF Start
  <2>2. Lookahead(s, n) \in {<<>>, <<t>>, <<t, u>>}
    BY DEF Lookahead
  <2>3. Lookahead(s, n) # <<>> => t < Size
    BY <2>1 DEF Lookahead
  <2>4. Lookahead(s, n) = <<t, u>> => Lookahead(s, n) # <<t>>
    BY SMT
  <2>5. Lookahead(s, n) = <<t, u>> => t < Size /\ u < Size
    BY <2>1, <2>4, Zenon DEF Lookahead
  <2> HIDE DEF t, u
  <2>6. CASE Lookahead(s, n) = <<>>
    BY <2>6
  <2>7. CASE Lookahead(s, n) = <<t>>
    <3>1. t \in Start
      BY <2>1, <2>3, <2>7
    <3> QED
      BY <2>7, <3>1
  <2>8. CASE Lookahead(s, n) = <<t, u>>
    <3>1. t \in Start /\ u \in Start
      BY <2>1, <2>5, <2>8
    <3> QED
      BY <2>8, <3>1
  <2> QED
    BY <2>2, <2>6, <2>7, <2>8
<1> QED
  BY <1>1, <1>2

(* A prefetch may start, and nobody else moves. *)
LEMMA SpawnedFacts ==
    ASSUME NEW state, state = [p \in Proc |-> state[p]],
           \A p \in Proc : LocalOK(p, state[p]),
           NEW targets \in Seq(Start), NEW next \in Spawned(state, targets)
    PROVE  /\ next = [p \in Proc |-> next[p]]
           /\ \A p \in Proc :
                 /\ LocalOK(p, next[p])
                 /\ \/ next[p] = state[p]
                    \/ state[p].pc = "idle" /\ next[p].pc = "check" /\ p \in Prefetcher
<1>1. CASE next = state
  BY <1>1
<1>2. CASE next # state
  <2> DEFINE l == [Idle EXCEPT !.pc = "check", !.rest = targets]
  <2>1. targets # <<>>
    BY <1>2 DEF Spawned
  <2>2. PICK q \in Prefetcher :
            state[q].pc = "idle" /\ next = [state EXCEPT ![q] = l]
    BY <1>2 DEF Spawned
  <2>3. l \in Local /\ l.pc = "check" /\ l.rest = targets
    BY PrefetchRecord
  <2> HIDE DEF l
  <2>4. q \in Proc /\ q \notin Reader
    BY RangeAssumption DEF Proc
  <2>5. LocalOK(q, l)
    BY <2>1, <2>3, <2>4 DEF LocalOK
  <2>6. next = [p \in Proc |-> IF p = q THEN l ELSE state[p]]
    BY <2>2, Zenon
  <2> QED
    BY <2>2, <2>3, <2>5, <2>6
<1> QED
  BY <1>1, <1>2

LEMMA IdleOK ==
    ASSUME NEW p \in Proc
    PROVE  LocalOK(p, Idle)
BY RangeAssumption DEF LocalOK, Idle, Local, Start

LEMMA ReadingOK ==
    ASSUME NEW p \in Reader, NEW label \in {"plan", "copy"},
           NEW pos \in 0..Size, NEW end \in 0..Size, pos < end
    PROVE  /\ LocalOK(p, Reading(label, pos, end))
           /\ Reading(label, pos, end).pc = label
<1> DEFINE l == Reading(label, pos, end)
<1>1. l \in Local /\ l.pc = label /\ l.pos = pos /\ l.end = end
  BY ReadingRecord
<1> HIDE DEF l
<1>2. LocalOK(p, l)
  BY <1>1 DEF LocalOK
<1> QED
  BY <1>1, <1>2 DEF l

(* What ensureChunk returns to, with or without an error. *)
LEMMA ReturnsOK ==
    ASSUME NEW p \in Proc, LocalOK(p, proc[p]), proc[p].pc \in {"ensure", "wait", "fetch", "check"}
    PROVE  /\ proc[p].pc # "check" =>
                 LocalOK(p, Ensured(p)) /\ Ensured(p).pc \in {"idle", "check", "copy"}
           /\ LocalOK(p, Failed(p)) /\ Failed(p).pc \in {"idle", "check"}
           /\ p \notin Reader =>
                 /\ LocalOK(p, NextTarget(proc[p]))
                 /\ NextTarget(proc[p]).pc \in {"idle", "check"}
<1> DEFINE l == proc[p]
           t == NextTarget(l)
<1>1. ASSUME p \notin Reader
      PROVE  LocalOK(p, t) /\ t.pc \in {"idle", "check"}
  <2>1. CASE Len(l.rest) <= 1
    BY <2>1, IdleOK DEF NextTarget, Idle
  <2>2. CASE Len(l.rest) > 1
    <3>1. l.rest \in Seq(Start)
      BY DEF LocalOK, Local
    <3>2. Tail(l.rest) \in Seq(Start) /\ Tail(l.rest) # <<>>
      BY <2>2, <3>1, TailFacts
    <3>3. t = [Idle EXCEPT !.pc = "check", !.rest = Tail(l.rest)]
      BY <2>2, <3>1 DEF NextTarget
    <3>4. t \in Local /\ t.pc = "check" /\ t.rest = Tail(l.rest)
      BY <3>2, <3>3, PrefetchRecord
    <3> HIDE DEF t
    <3> QED
      BY <1>1, <3>2, <3>4 DEF LocalOK, Proc
  <2>3. Len(l.rest) \in Nat
    BY DEF LocalOK, Local
  <2> QED
    BY <2>1, <2>2, <2>3
<1>2. ASSUME p \in Reader
      PROVE  Failed(p) = Idle /\ Idle.pc = "idle"
  BY <1>2 DEF Failed, Idle
<1>3. ASSUME p \in Reader, l.pc # "check"
      PROVE  LocalOK(p, Ensured(p)) /\ Ensured(p).pc = "copy"
  <2>1. l.pos \in 0..Size /\ l.end \in 0..Size /\ l.pos < l.end
    BY <1>3 DEF LocalOK, Local
  <2> QED
    BY <1>3, <2>1, ReadingOK DEF Ensured
<1> QED
  BY <1>1, <1>2, <1>3, IdleOK DEF Ensured, Failed

-----------------------------------------------------------------------------
(* The actions *)

LEMMA OneMove ==
    ASSUME LocalsOK, NEW p \in Proc, NEW l, LocalOK(p, l), proc' = [proc EXCEPT ![p] = l]
    PROVE  /\ LocalsOK'
           /\ \A q \in Proc : proc'[q] = IF q = p THEN l ELSE proc[q]
BY DEF LocalsOK

(* A step that leaves the chunks alone, and the goroutines that wait for    *)
(* them or fetch them.                                                      *)
LEMMA QuietMove ==
    ASSUME RInv, LocalsOK', UNCHANGED <<chunks, released>>, firstRead' \in BOOLEAN,
           older' \subseteq Present \X Present,
           \A q \in Proc :
              \/ proc'[q] = proc[q]
              \/ /\ proc[q].pc \notin {"wait", "fetch"} /\ proc'[q].pc \notin {"wait", "fetch"}
                 /\ q \in Reader => ~released
    PROVE  RInv'
<1>1. ReleaseOK'
  BY DEF RInv, ReleaseOK, At, Proc
<1>2. ChunksOK'
  <2>1. Present' = Present /\ \A s \in Start : End(s)' = End(s)
    BY DEF End, Present
  <2>2. \A s \in Start : \A p \in chunks[s].waiters : p \in Proc
    BY DEF RInv, ChunksOK, Chunk
  <2> QED
    BY <2>1, <2>2 DEF RInv, ChunksOK, At
<1>3. \A q \in Proc, s \in Start : Fetches(q, s)' <=> Fetches(q, s)
  BY DEF Fetches, At
<1>4. OneFetch'
  BY <1>3 DEF RInv, OneFetch, Fetches, At
<1>5. WaitersServed'
  BY <1>3 DEF RInv, WaitersServed, LocalsOK, LocalOK, Local, At
<1> QED
  BY <1>1, <1>2, <1>4, <1>5 DEF RInv

LEMMA TouchOK ==
    ASSUME ChunksOK, NEW s \in Start, s \in Present
    PROVE  Touch(s) \subseteq Present \X Present
BY DEF ChunksOK, Touch

LEMMA PlanOK ==
    ASSUME RInv, NEW p \in Proc, Plan(p)
    PROVE  RInv'
<1> DEFINE x == proc[p]
           pos == x.pos
           end == x.end
           full == AlignDown(pos, ChunkSize)
           probe == ProbeStart(pos)
           Good(s, n) == s \in Start /\ n \in 0..Size /\ s <= pos /\ pos < n /\ n <= MaxEnd(s)
<1>1. /\ x \in Local /\ p \in Reader /\ pos \in 0..Size /\ end \in 0..Size /\ pos < end
      /\ x.pc = "plan" /\ ~released /\ pos \in Nat
  <2>1. x.pc = "plan" /\ LocalOK(p, x)
    BY DEF Plan, At, RInv, LocalsOK
  <2>2. /\ x \in Local /\ p \in Reader /\ pos \in 0..Size /\ end \in 0..Size /\ pos < end
        /\ pos \in Nat
    BY <2>1 DEF LocalOK, Local
  <2>3. ~released
    BY <2>1, <2>2 DEF RInv, ReleaseOK, At
  <2> QED
    BY <2>1, <2>2, <2>3
<1>2. \A s \in Start : s <= pos /\ pos < MaxEnd(s) => Good(s, Least(end, MaxEnd(s)))
  BY <1>1, MaxEndBounds DEF Least
<1>3. PICK s, n : Good(s, n) /\ Ensure(p, s, n)
  <2>1. ASSUME NEW s \in Hits(pos), Ensure(p, s, Least(end, MaxEnd(s)))
        PROVE  Good(s, Least(end, MaxEnd(s)))
    <3>1. s \in Start /\ s <= pos /\ pos < End(s) /\ End(s) <= Size
      BY <2>1 DEF Hits, RInv, ChunksOK
    <3>2. chunks[s].len \in 0..ChunkSize
      BY <3>1 DEF RInv, ChunksOK, Chunk
    <3>3. pos < MaxEnd(s)
      BY <1>1, <3>1, <3>2, RangeAssumption DEF MaxEnd, Least, End, Start
    <3> QED
      BY <1>2, <3>1, <3>3
  <2>2. Good(full, ExpandedEnd(full))
    <3>1. ChunkSize \in Nat \ {0}
      BY RangeAssumption
    <3>2. full \in Nat /\ full <= pos /\ pos < full + ChunkSize
      BY <1>1, <3>1, AlignDownBelow
    <3> HIDE DEF full, pos
    <3>3. full \in Start
      BY <1>1, <3>2, RangeAssumption DEF Start
    <3>4. MaxEnd(full) \in 0..Size /\ pos < MaxEnd(full)
      BY <1>1, <3>2, <3>3, MaxEndBounds, RangeAssumption DEF MaxEnd, Least
    <3> QED
      BY <3>2, <3>3, <3>4 DEF ExpandedEnd
  <2>3. Good(probe, Least(end, Least(probe + Probe, Size)))
    <3>1. probe \in Nat /\ probe <= pos /\ pos < probe + Probe
      BY <1>1, AlignDownBelow, RangeAssumption DEF ProbeStart
    <3> HIDE DEF probe, pos, end
    <3>2. probe \in Start
      BY <1>1, <3>1, RangeAssumption DEF Start
    <3> QED
      BY <1>1, <3>1, <3>2, RangeAssumption DEF MaxEnd, Least
  <2> HIDE DEF Good
  <2> QED
    BY <2>1, <2>2, <2>3 DEF Plan
<1> DEFINE l == [x EXCEPT !.pc = "ensure", !.start = s, !.need = n]
<1>4. /\ l \in Local /\ l.pc = "ensure" /\ l.start = s /\ l.need = n
      /\ l.pos = pos /\ l.end = end
  BY <1>1, <1>3 DEF Local
<1>5. proc' = [proc EXCEPT ![p] = l]
  BY <1>3 DEF Ensure
<1> HIDE DEF l
<1>6. LocalOK(p, l)
  BY <1>1, <1>3, <1>4 DEF LocalOK
<1>7. LocalsOK' /\ \A q \in Proc : proc'[q] = IF q = p THEN l ELSE proc[q]
  BY <1>5, <1>6, OneMove DEF RInv
<1>8. UNCHANGED <<chunks, older, firstRead, released>>
  BY DEF Plan
<1> QED
  BY <1>1, <1>4, <1>7, <1>8, QuietMove DEF RInv, ChunksOK, ReleaseOK

LEMMA CheckOK ==
    ASSUME RInv, NEW p \in Proc, Check(p)
    PROVE  RInv'
<1> DEFINE x == proc[p]
           s == Head(x.rest)
           e == [x EXCEPT !.pc = "ensure", !.start = s, !.need = MaxEnd(s)]
<1>1. /\ x \in Local /\ LocalOK(p, x) /\ p \in Prefetcher /\ p \notin Reader
      /\ x.pc = "check" /\ x.rest \in Seq(Start) /\ x.rest # <<>>
  BY RangeAssumption DEF RInv, LocalsOK, LocalOK, Local, Check, At
<1>2. s \in Start /\ MaxEnd(s) \in 0..Size /\ MaxEnd(s) <= MaxEnd(s)
  BY <1>1, MaxEndBounds
<1>3. e \in Local /\ e.pc = "ensure" /\ e.start = s /\ e.need = MaxEnd(s)
  BY <1>1, <1>2 DEF Local
<1>4. PICK l : l \in {NextTarget(x), e} /\ proc' = [proc EXCEPT ![p] = l]
  BY DEF Check
<1> HIDE DEF s, e
<1>5. LocalOK(p, e)
  BY <1>1, <1>2, <1>3 DEF LocalOK
<1>6. LocalOK(p, l) /\ l.pc \in {"idle", "check", "ensure"}
  BY <1>1, <1>3, <1>4, <1>5, ReturnsOK
<1>7. LocalsOK' /\ \A q \in Proc : proc'[q] = IF q = p THEN l ELSE proc[q]
  BY <1>4, <1>6, OneMove DEF RInv
<1>8. UNCHANGED <<chunks, older, firstRead, released>>
  BY DEF Check
<1> QED
  BY <1>1, <1>6, <1>7, <1>8, QuietMove DEF RInv, ChunksOK, ReleaseOK

LEMMA ReuseOK ==
    ASSUME RInv, NEW p \in Proc, Reuse(p)
    PROVE  RInv'
<1> DEFINE x == proc[p]
           l == Ensured(p)
<1>1. x \in Local /\ LocalOK(p, x) /\ x.pc = "ensure" /\ x.start \in Start
  BY DEF RInv, LocalsOK, LocalOK, Local, Reuse, At
<1>2. proc' = [proc EXCEPT ![p] = l]
  BY DEF Reuse
<1>3. LocalOK(p, l) /\ l.pc \in {"idle", "check", "copy"}
  BY <1>1, ReturnsOK
<1> HIDE DEF l
<1>4. LocalsOK' /\ \A q \in Proc : proc'[q] = IF q = p THEN l ELSE proc[q]
  BY <1>2, <1>3, OneMove DEF RInv
<1>5. older' \subseteq Present \X Present
  BY <1>1, TouchOK DEF Reuse, Enough, Loaded, Present, RInv
<1>6. p \in Reader => ~released
  BY <1>1 DEF RInv, ReleaseOK, At
<1>7. UNCHANGED <<chunks, firstRead, released>>
  BY DEF Reuse
<1> QED
  BY <1>1, <1>3, <1>4, <1>5, <1>6, <1>7, QuietMove DEF RInv, ReleaseOK

LEMMA CopyOK ==
    ASSUME RInv, NEW p \in Proc, Copy(p)
    PROVE  RInv'
<1> DEFINE x == proc[p]
           pos == x.pos
           anew == [x EXCEPT !.pc = "plan"]
<1>1. /\ x \in Local /\ p \in Reader /\ pos \in 0..Size /\ x.end \in 0..Size /\ pos < x.end
      /\ x.pc = "copy" /\ ~released
  <2>1. x.pc = "copy" /\ LocalOK(p, x)
    BY DEF Copy, At, RInv, LocalsOK
  <2>2. x \in Local /\ p \in Reader /\ pos \in 0..Size /\ x.end \in 0..Size /\ pos < x.end
    BY <2>1 DEF LocalOK, Local
  <2>3. ~released
    BY <2>1, <2>2 DEF RInv, ReleaseOK, At
  <2> QED
    BY <2>1, <2>2, <2>3
<1>2. PICK l : /\ LocalOK(p, l) /\ l.pc \in {"plan", "idle"}
               /\ proc' = [proc EXCEPT ![p] = l]
               /\ older' \subseteq Present \X Present
  <2>1. CASE Hits(pos) = {}
    <3>1. proc' = [proc EXCEPT ![p] = anew] /\ older' = older
      BY <2>1 DEF Copy
    <3>2. anew \in Local /\ anew.pc = "plan" /\ anew.pos = pos /\ anew.end = x.end
      BY <1>1 DEF Local
    <3> HIDE DEF anew
    <3>3. LocalOK(p, anew)
      BY <1>1, <3>2 DEF LocalOK
    <3> QED
      BY <3>1, <3>2, <3>3 DEF RInv, ChunksOK
  <2>2. CASE Hits(pos) # {}
    <3>1. PICK s \in Hits(pos) :
              /\ older' = Touch(s)
              /\ proc' = [proc EXCEPT ![p] = IF End(s) >= @.end THEN Idle
                                            ELSE Reading("plan", End(s), @.end)]
      BY <2>2 DEF Copy
    <3>2. s \in Start /\ s \in Present /\ pos < End(s)
      BY <3>1 DEF Hits, Loaded, Present
    <3>3. End(s) \in 0..Size
      <4>1. chunks[s].len \in Nat
        BY <3>2, RangeAssumption DEF RInv, ChunksOK, Chunk
      <4> QED
        BY <4>1, <3>2, RangeAssumption DEF RInv, ChunksOK, End, Start
    <3>4. older' \subseteq Present \X Present
      BY <3>1, <3>2, TouchOK DEF RInv
    <3>5. CASE End(s) >= x.end
      <4>1. proc' = [proc EXCEPT ![p] = Idle] /\ LocalOK(p, Idle) /\ Idle.pc = "idle"
        BY <3>1, <3>5, IdleOK, IdleRecord
      <4> QED
        BY <3>4, <4>1
    <3>6. CASE ~(End(s) >= x.end)
      <4> DEFINE l == Reading("plan", End(s), x.end)
      <4>1. proc' = [proc EXCEPT ![p] = l]
        BY <3>1, <3>6
      <4>2. End(s) < x.end
        BY <1>1, <3>3, <3>6
      <4>3. LocalOK(p, l) /\ l.pc = "plan"
        BY <1>1, <3>3, <4>2, ReadingOK
      <4> HIDE DEF l
      <4> QED
        BY <3>4, <4>1, <4>3
    <3> QED
      BY <3>5, <3>6
  <2> QED
    BY <2>1, <2>2
<1>3. LocalsOK' /\ \A q \in Proc : proc'[q] = IF q = p THEN l ELSE proc[q]
  BY <1>2, OneMove DEF RInv
<1>4. UNCHANGED <<chunks, firstRead, released>>
  BY DEF Copy
<1> QED
  BY <1>1, <1>2, <1>3, <1>4, QuietMove DEF RInv, ReleaseOK

LEMMA ReadOK ==
    ASSUME RInv, NEW p \in Reader, NEW x \in Reads, Read(p, x[1], x[2])
    PROVE  RInv'
<1> DEFINE l == Reading("plan", x[1], x[2])
           state == [proc EXCEPT ![p] = l]
           targets == IF ~firstRead /\ x[1] = 0 THEN TailTarget ELSE <<>>
<1>1. x[1] \in 0..Size /\ x[2] \in 0..Size /\ x[1] < x[2] /\ p \in Proc
  BY RangeAssumption DEF Proc
<1>2. LocalOK(p, l) /\ l.pc = "plan"
  BY <1>1, ReadingOK
<1>3. /\ At(p, "idle") /\ ~released /\ firstRead' = TRUE
      /\ proc' \in Spawned(state, targets) /\ UNCHANGED <<chunks, older, released>>
  BY DEF Read
<1>4. targets \in Seq(Start)
  BY TargetsInStart
<1> HIDE DEF l, targets
<1>5. /\ state = [q \in Proc |-> state[q]] /\ \A q \in Proc : LocalOK(q, state[q])
      /\ \A q \in Proc : state[q] = IF q = p THEN l ELSE proc[q]
  BY <1>1, <1>2 DEF RInv, LocalsOK
<1> HIDE DEF state
<1>6. /\ LocalsOK'
      /\ \A q \in Proc : \/ proc'[q] = state[q]
                         \/ /\ state[q].pc = "idle" /\ proc'[q].pc = "check"
                            /\ q \in Prefetcher
  BY <1>3, <1>4, <1>5, SpawnedFacts DEF LocalsOK
<1>7. \A q \in Proc :
         \/ proc'[q] = proc[q]
         \/ /\ proc[q].pc \notin {"wait", "fetch"} /\ proc'[q].pc \notin {"wait", "fetch"}
            /\ q \in Reader => ~released
  BY <1>2, <1>3, <1>5, <1>6 DEF At
<1> QED
  BY <1>3, <1>6, <1>7, QuietMove DEF RInv, ChunksOK

(* What an action finds of the goroutine that takes it.                     *)
LEMMA LocalFacts ==
    ASSUME RInv, NEW p \in Proc
    PROVE  /\ LocalOK(p, proc[p]) /\ proc[p] \in Local /\ proc[p].start \in Start
           /\ proc[p].len \in 0..ChunkSize /\ proc[p].need \in 0..Size
           /\ released /\ proc[p].pc # "idle" => p \in Prefetcher
BY DEF RInv, LocalsOK, LocalOK, Local, ReleaseOK, At, Proc

LEMMA ChunkFacts ==
    ASSUME RInv, NEW s \in Start
    PROVE  /\ chunks[s] \in Chunk /\ chunks[s].len \in 0..ChunkSize
           /\ chunks[s].waiters \subseteq Proc
           /\ End(s) <= Size /\ (chunks[s].fetching => chunks[s].present)
           /\ (~chunks[s].fetching => chunks[s].waiters = {})
           /\ \A q \in chunks[s].waiters : proc[q].pc = "wait" /\ proc[q].start = s
BY DEF RInv, ChunksOK, Chunk, At

LEMMA WaitOK ==
    ASSUME RInv, NEW p \in Proc, Wait(p)
    PROVE  RInv'
<1> DEFINE x == proc[p]
           s == x.start
           l == [x EXCEPT !.pc = "wait"]
           c == [chunks[s] EXCEPT !.waiters = @ \cup {p}]
<1>1. /\ x \in Local /\ LocalOK(p, x) /\ x.pc = "ensure" /\ s \in Start
      /\ chunks[s].fetching /\ (released => p \in Prefetcher)
  BY LocalFacts DEF Wait, At
<1>2. /\ proc' = [proc EXCEPT ![p] = l] /\ chunks' = [chunks EXCEPT ![s] = c]
      /\ UNCHANGED <<older, firstRead, released>>
  BY DEF Wait
<1>3. /\ l \in Local /\ l.pc = "wait" /\ l.pos = x.pos /\ l.end = x.end
      /\ l.start = s /\ l.need = x.need
  BY <1>1 DEF Local
<1>4. /\ c \in Chunk /\ c.present = chunks[s].present /\ c.fetching = chunks[s].fetching
      /\ c.len = chunks[s].len /\ c.waiters = chunks[s].waiters \cup {p}
  <2>1. chunks[s] \in Chunk
    BY <1>1, ChunkFacts
  <2>2. chunks[s].waiters \cup {p} \in SUBSET Proc
    BY <1>1, ChunkFacts
  <2> QED
    BY <2>1, <2>2 DEF Chunk
<1> HIDE DEF l, c
<1>5. LocalOK(p, l)
  BY <1>1, <1>3 DEF LocalOK
<1>6. LocalsOK' /\ \A q \in Proc : proc'[q] = IF q = p THEN l ELSE proc[q]
  BY <1>2, <1>5, OneMove DEF RInv
<1>7. /\ chunks' \in [Start -> Chunk]
      /\ \A t \in Start : chunks'[t] = IF t = s THEN c ELSE chunks[t]
  BY <1>1, <1>2, <1>4 DEF RInv, ChunksOK
<1>8. Present' = Present /\ \A t \in Start : End(t)' = End(t)
  BY <1>4, <1>7 DEF Present, End
<1>9. ChunksOK'
  <2>1. ASSUME NEW t \in Start
        PROVE  /\ chunks'[t].fetching => chunks'[t].present
               /\ ~chunks'[t].fetching => chunks'[t].waiters = {}
               /\ \A q \in chunks'[t].waiters : proc'[q].pc = "wait" /\ proc'[q].start = t
    <3>1. CASE t = s
      <4>1. c.fetching /\ c.present
        BY <1>1, <1>4, ChunkFacts
      <4>2. \A q \in c.waiters : proc'[q].pc = "wait" /\ proc'[q].start = s
        BY <1>1, <1>3, <1>4, <1>6, ChunkFacts
      <4> QED
        BY <1>7, <3>1, <4>1, <4>2
    <3>2. CASE t # s
      BY <1>1, <1>6, <1>7, <3>2, ChunkFacts
    <3> QED
      BY <3>1, <3>2
  <2>2. older' \subseteq Present' \X Present' /\ \A t \in Start : End(t)' <= Size
    BY <1>2, <1>8, ChunkFacts DEF RInv, ChunksOK
  <2> QED
    BY <1>7, <2>1, <2>2 DEF ChunksOK, At
<1>10. \A q \in Proc, t \in Start : Fetches(q, t)' <=> Fetches(q, t)
  BY <1>1, <1>3, <1>6 DEF Fetches, At
<1>11. OneFetch'
  <2>1. \A t \in Start : chunks'[t].fetching = chunks[t].fetching
    BY <1>4, <1>7
  <2>2. \A q \in Proc : proc'[q].pc = "fetch" => proc[q].pc = "fetch" /\ proc'[q] = proc[q]
    BY <1>3, <1>6
  <2> QED
    BY <1>2, <1>10, <2>1, <2>2 DEF RInv, OneFetch, Fetches, At
<1>12. WaitersServed'
  <2>1. ~released => \E q \in Proc : Fetches(q, s)
    BY <1>1 DEF RInv, OneFetch
  <2>2. \A t \in Start : chunks[t].waiters \subseteq chunks'[t].waiters
    BY <1>4, <1>7
  <2>3. p \in chunks'[s].waiters
    BY <1>1, <1>4, <1>7
  <2>4. \A q \in Proc : proc[q].start \in Start
    BY LocalFacts
  <2> QED
    BY <1>1, <1>2, <1>3, <1>6, <1>10, <2>1, <2>2, <2>3, <2>4 DEF RInv, WaitersServed, At
<1>13. ReleaseOK'
  BY <1>1, <1>2, <1>6, RangeAssumption DEF RInv, ReleaseOK, At, Proc
<1> QED
  BY <1>6, <1>9, <1>11, <1>12, <1>13 DEF RInv

LEMMA CancelOK ==
    ASSUME RInv, NEW p \in Proc, Cancel(p)
    PROVE  RInv'
<1> DEFINE x == proc[p]
           s == x.start
           l == Failed(p)
           c == [chunks[s] EXCEPT !.waiters = @ \ {p}]
<1>1. /\ LocalOK(p, x) /\ x.pc = "wait" /\ s \in Start
      /\ (released => p \in Prefetcher)
  BY LocalFacts DEF Cancel, At
<1>2. /\ proc' = [proc EXCEPT ![p] = l] /\ chunks' = [chunks EXCEPT ![s] = c]
      /\ UNCHANGED <<older, firstRead, released>>
  BY DEF Cancel
<1>3. LocalOK(p, l) /\ l.pc \in {"idle", "check"}
  BY <1>1, ReturnsOK
<1>4. /\ c \in Chunk /\ c.present = chunks[s].present /\ c.fetching = chunks[s].fetching
      /\ c.len = chunks[s].len /\ c.waiters = chunks[s].waiters \ {p}
  BY <1>1, ChunkFacts DEF Chunk
<1> HIDE DEF l, c
<1>5. LocalsOK' /\ \A q \in Proc : proc'[q] = IF q = p THEN l ELSE proc[q]
  BY <1>2, <1>3, OneMove DEF RInv
<1>6. /\ chunks' \in [Start -> Chunk]
      /\ \A t \in Start : chunks'[t] = IF t = s THEN c ELSE chunks[t]
  BY <1>1, <1>2, <1>4 DEF RInv, ChunksOK
<1>7. Present' = Present /\ \A t \in Start : End(t)' = End(t)
  BY <1>4, <1>6 DEF Present, End
<1>8. ChunksOK'
  <2>1. ASSUME NEW t \in Start
        PROVE  /\ chunks'[t].fetching => chunks'[t].present
               /\ ~chunks'[t].fetching => chunks'[t].waiters = {}
               /\ \A q \in chunks'[t].waiters : proc'[q].pc = "wait" /\ proc'[q].start = t
    BY <1>1, <1>4, <1>5, <1>6, ChunkFacts
  <2> QED
    BY <1>2, <1>6, <1>7, <2>1 DEF RInv, ChunksOK, At
<1>9. \A q \in Proc, t \in Start : Fetches(q, t)' <=> Fetches(q, t)
  BY <1>1, <1>3, <1>5 DEF Fetches, At
<1>10. OneFetch'
  <2>1. \A t \in Start : chunks'[t].fetching = chunks[t].fetching
    BY <1>4, <1>6
  <2>2. \A q \in Proc : proc'[q].pc = "fetch" => proc[q].pc = "fetch" /\ proc'[q] = proc[q]
    BY <1>3, <1>5
  <2> QED
    BY <1>2, <1>9, <2>1, <2>2 DEF RInv, OneFetch, Fetches, At
<1>11. WaitersServed'
  <2>1. \A q \in Proc : proc'[q].pc = "wait" => q # p /\ proc'[q] = proc[q]
    BY <1>3, <1>5
  <2>2. \A q \in Proc, t \in Start : q # p /\ q \in chunks[t].waiters => q \in chunks'[t].waiters
    BY <1>4, <1>6
  <2>3. \A q \in Proc : proc[q].start \in Start
    BY LocalFacts
  <2> QED
    BY <1>2, <1>9, <2>1, <2>2, <2>3 DEF RInv, WaitersServed, At
<1>12. ReleaseOK'
  BY <1>1, <1>2, <1>5, RangeAssumption DEF RInv, ReleaseOK, At, Proc
<1> QED
  BY <1>5, <1>8, <1>10, <1>11, <1>12 DEF RInv

LEMMA NoChunkFacts ==
    /\ NoChunk \in Chunk /\ ~NoChunk.present /\ ~NoChunk.fetching /\ NoChunk.len = 0
    /\ NoChunk.waiters = {}
BY RangeAssumption DEF NoChunk, Chunk

LEMMA ClaimOK ==
    ASSUME RInv, NEW p \in Proc, Claim(p)
    PROVE  RInv'
<1> DEFINE x == proc[p]
           s == x.start
           need == IF chunks[s].present THEN NextFetchEnd(s, x.need) ELSE x.need
           n == FetchLength(s, need)
           l == [x EXCEPT !.pc = "fetch", !.need = 0, !.len = n]
           c == [NoChunk EXCEPT !.present = TRUE, !.fetching = TRUE]
<1>1. /\ x \in Local /\ LocalOK(p, x) /\ x.pc = "ensure" /\ s \in Start /\ x.need \in 0..Size
      /\ ~chunks[s].fetching /\ (released => p \in Prefetcher)
  BY LocalFacts DEF Claim, MayClaim, At
<1>2. /\ proc' = [proc EXCEPT ![p] = l] /\ chunks' = [chunks EXCEPT ![s] = c]
      /\ older' = Touch(s) /\ UNCHANGED <<firstRead, released>>
  BY DEF Claim
<1>3. need \in 0..Size /\ x.need <= need /\ need <= MaxEnd(s)
  <2>1. x.need <= MaxEnd(s) /\ chunks[s].len \in 0..ChunkSize
    BY <1>1, ChunkFacts DEF LocalOK
  <2> QED
    BY <1>1, <2>1, NextFetchEndBounds
<1> HIDE DEF need
<1>4. n \in 0..ChunkSize /\ s + n <= Size /\ need <= s + n
  BY <1>1, <1>3, FetchLengthBounds
<1> HIDE DEF n
<1>5. /\ l \in Local /\ l.pc = "fetch" /\ l.pos = x.pos /\ l.end = x.end
      /\ l.start = s /\ l.len = n
  <2>1. 0 \in 0..Size
    BY RangeAssumption
  <2> QED
    BY <1>1, <1>4, <2>1 DEF Local
<1>6. c \in Chunk /\ c.present /\ c.fetching /\ c.len = 0 /\ c.waiters = {}
  BY NoChunkFacts DEF Chunk
<1> HIDE DEF l, c
<1>7. LocalOK(p, l)
  <2>1. p \in Reader => s <= x.pos /\ x.pos < s + n /\ x.pos < x.end
    <3>1. p \in Reader => s <= x.pos /\ x.pos < x.need /\ x.pos < x.end
      BY <1>1 DEF LocalOK
    <3>2. x.pos \in Nat /\ s \in Nat /\ n \in Nat
      BY <1>1, <1>4, RangeAssumption DEF Local, Start
    <3> QED
      BY <1>1, <1>3, <1>4, <3>1, <3>2
  <2> QED
    BY <1>4, <1>5, <2>1 DEF LocalOK
<1>8. LocalsOK' /\ \A q \in Proc : proc'[q] = IF q = p THEN l ELSE proc[q]
  BY <1>2, <1>7, OneMove DEF RInv
<1>9. /\ chunks' \in [Start -> Chunk]
      /\ \A t \in Start : chunks'[t] = IF t = s THEN c ELSE chunks[t]
  BY <1>1, <1>2, <1>6 DEF RInv, ChunksOK
<1>10. chunks[s].waiters = {}
  BY <1>1, ChunkFacts
<1>11. ChunksOK'
  <2>1. ASSUME NEW t \in Start
        PROVE  /\ End(t)' <= Size
               /\ chunks'[t].fetching => chunks'[t].present
               /\ ~chunks'[t].fetching => chunks'[t].waiters = {}
               /\ \A q \in chunks'[t].waiters : proc'[q].pc = "wait" /\ proc'[q].start = t
    <3>1. CASE t = s
      BY <1>6, <1>9, <3>1, RangeAssumption DEF End, Start
    <3>2. CASE t # s
      BY <1>1, <1>8, <1>9, <3>2, ChunkFacts DEF End
    <3> QED
      BY <3>1, <3>2
  <2>2. Present' = Present \cup {s}
    BY <1>1, <1>6, <1>9 DEF Present
  <2>3. older' \subseteq Present' \X Present'
    BY <1>2, <2>2 DEF RInv, ChunksOK, Touch
  <2> QED
    BY <1>9, <2>1, <2>3 DEF ChunksOK, At
<1>12. \A q \in Proc, t \in Start :
          proc'[q].pc = "fetch" /\ proc'[q].start = t <=>
             (proc[q].pc = "fetch" /\ proc[q].start = t) \/ (q = p /\ t = s)
  BY <1>1, <1>5, <1>8
<1>13. OneFetch'
  <2>1. SUFFICES ASSUME ~released
                 PROVE  /\ \A t \in Start : chunks'[t].fetching <=>
                              \E q \in Proc : proc'[q].pc = "fetch" /\ proc'[q].start = t
                        /\ \A q, r \in Proc :
                              proc'[q].pc = "fetch" /\ proc'[r].pc = "fetch"
                                 /\ proc'[r].start = proc'[q].start => q = r
    BY <1>2 DEF OneFetch, At, Fetches
  <2>2. /\ \A t \in Start : chunks[t].fetching <=>
              \E q \in Proc : proc[q].pc = "fetch" /\ proc[q].start = t
        /\ \A q, r \in Proc :
              proc[q].pc = "fetch" /\ proc[r].pc = "fetch" /\ proc[r].start = proc[q].start
                 => q = r
    BY <2>1 DEF RInv, OneFetch, Fetches, At
  <2>3. \A t \in Start : chunks'[t].fetching <=>
            \E q \in Proc : proc'[q].pc = "fetch" /\ proc'[q].start = t
    BY <1>6, <1>9, <1>12, <2>2
  <2>4. ASSUME NEW q \in Proc, NEW r \in Proc, proc'[q].pc = "fetch", proc'[r].pc = "fetch",
               proc'[r].start = proc'[q].start
        PROVE  q = r
    <3>1. proc'[q].start \in Start
      BY <1>8 DEF LocalsOK, LocalOK, Local
    <3>2. ~\E u \in Proc : proc[u].pc = "fetch" /\ proc[u].start = s
      BY <1>1, <2>2
    <3>3. /\ (proc[q].pc = "fetch" /\ proc[q].start = proc'[q].start) \/ (q = p /\ proc'[q].start = s)
          /\ (proc[r].pc = "fetch" /\ proc[r].start = proc'[q].start) \/ (r = p /\ proc'[q].start = s)
      BY <1>12, <2>4, <3>1
    <3>4. CASE q = p \/ r = p
      <4>1. q # r => proc'[q].start = s
        BY <3>3, <3>4
      <4> QED
        BY <3>2, <3>3, <4>1
    <3>5. CASE q # p /\ r # p
      <4>1. proc[q].pc = "fetch" /\ proc[r].pc = "fetch" /\ proc[r].start = proc[q].start
        BY <3>3, <3>5
      <4> QED
        BY <2>2, <4>1
    <3> QED
      BY <3>4, <3>5
  <2> QED
    BY <2>3, <2>4
<1>14. WaitersServed'
  <2>1. ASSUME NEW q \in Proc, proc'[q].pc = "wait"
        PROVE  \/ /\ q \in chunks'[proc'[q].start].waiters
                  /\ \E r \in Proc : proc'[r].pc = "fetch" /\ proc'[r].start = proc'[q].start
               \/ released' /\ q \in Prefetcher
    <3>1. q # p /\ proc'[q] = proc[q] /\ proc[q].start \in Start
      BY <1>5, <1>8, <2>1, LocalFacts
    <3>2. \/ /\ q \in chunks[proc[q].start].waiters
             /\ \E r \in Proc : proc[r].pc = "fetch" /\ proc[r].start = proc[q].start
          \/ released /\ q \in Prefetcher
      BY <2>1, <3>1 DEF RInv, WaitersServed, At, Fetches
    <3>3. CASE ~released
      <4>1. proc[q].start # s
        BY <1>10, <3>2, <3>3
      <4> QED
        BY <1>9, <1>12, <3>1, <3>2, <3>3, <4>1
    <3>4. released => q \in Prefetcher
      BY <2>1, <3>1, LocalFacts
    <3> QED
      BY <1>2, <3>3, <3>4
  <2> QED
    BY <2>1 DEF WaitersServed, At, Fetches
<1>15. ReleaseOK'
  BY <1>1, <1>2, <1>8, RangeAssumption DEF RInv, ReleaseOK, At, Proc
<1> QED
  BY <1>8, <1>11, <1>13, <1>14, <1>15 DEF RInv

LEMMA ReleaseStepOK ==
    ASSUME RInv, Release
    PROVE  RInv'
<1>1. /\ ~released /\ released' = TRUE /\ firstRead' = firstRead /\ proc' = proc /\ older' = {}
      /\ chunks' = [s \in Start |-> NoChunk] /\ \A r \in Reader : At(r, "idle")
  BY DEF Release
<1>2. LocalsOK'
  BY <1>1 DEF RInv, LocalsOK
<1>3. ChunksOK'
  <2>1. \A s \in Start : /\ chunks'[s] = NoChunk /\ End(s)' <= Size
    BY <1>1, NoChunkFacts, RangeAssumption DEF End, Start
  <2> QED
    BY <1>1, <2>1, NoChunkFacts DEF ChunksOK
<1>4. ReleaseOK' /\ OneFetch'
  BY <1>1 DEF RInv, ReleaseOK, OneFetch, At
<1>5. WaitersServed'
  BY <1>1 DEF WaitersServed, At, Proc
<1> QED
  BY <1>2, <1>3, <1>4, <1>5 DEF RInv

(* A fetch ends: its goroutine goes on as l, the waiters of its chunk wake.  *)
LEMMA WokenFacts ==
    ASSUME RInv, NEW p \in Proc, proc[p].pc = "fetch", NEW l, LocalOK(p, l),
           NEW s, s = proc[p].start, NEW state, state = Woken(p, s, l)
    PROVE  /\ state = [q \in Proc |-> state[q]]
           /\ \A q \in Proc :
                 /\ LocalOK(q, state[q])
                 /\ IF q = p THEN state[q] = l
                    ELSE IF q \in chunks[s].waiters THEN state[q].pc = "ensure"
                    ELSE state[q] = proc[q]
<1>1. state = [q \in Proc |-> state[q]]
  BY DEF Woken
<1>2. ASSUME NEW q \in Proc
      PROVE  /\ LocalOK(q, state[q])
             /\ IF q = p THEN state[q] = l
                ELSE IF q \in chunks[s].waiters THEN state[q].pc = "ensure"
                ELSE state[q] = proc[q]
  <2> DEFINE e == [proc[q] EXCEPT !.pc = "ensure"]
  <2>1. state[q] = IF q = p THEN l ELSE IF q \in chunks[s].waiters THEN e ELSE proc[q]
    BY DEF Woken
  <2>2. CASE q # p /\ q \in chunks[s].waiters
    <3>1. LocalOK(q, proc[q]) /\ proc[q] \in Local /\ proc[q].pc = "wait"
      BY <2>2, LocalFacts, ChunkFacts
    <3>2. /\ e \in Local /\ e.pc = "ensure" /\ e.pos = proc[q].pos /\ e.end = proc[q].end
          /\ e.start = proc[q].start /\ e.need = proc[q].need
      BY <3>1 DEF Local
    <3> HIDE DEF e
    <3>3. LocalOK(q, e)
      BY <3>1, <3>2 DEF LocalOK
    <3> QED
      BY <2>1, <2>2, <3>2, <3>3
  <2>3. CASE ~(q # p /\ q \in chunks[s].waiters)
    BY <2>1, <2>3, LocalFacts
  <2> QED
    BY <2>2, <2>3
<1> QED
  BY <1>1, <1>2

LEMMA FetchEnds ==
    ASSUME RInv, NEW p \in Proc, proc[p].pc = "fetch",
           NEW l, LocalOK(p, l), l.pc \in {"idle", "check", "copy"},
           NEW s, s = proc[p].start,
           NEW state, state = Woken(p, s, l),
           LocalsOK',
           \A q \in Proc :
              \/ proc'[q] = state[q]
              \/ state[q].pc = "idle" /\ proc'[q].pc = "check" /\ q \in Prefetcher,
           UNCHANGED <<firstRead, released>>,
           older' \subseteq Present' \X Present',
           chunks' \in [Start -> Chunk],
           ~chunks'[s].fetching, chunks'[s].waiters = {}, s + chunks'[s].len <= Size,
           \A t \in Start \ {s} :
              \/ chunks'[t] = chunks[t]
              \/ ~chunks[t].fetching /\ chunks'[t] = NoChunk
    PROVE  RInv'
<1>1. /\ s \in Start /\ (released => p \in Prefetcher)
      /\ \A q \in Proc : IF q = p THEN state[q] = l
                         ELSE IF q \in chunks[s].waiters THEN state[q].pc = "ensure"
                         ELSE state[q] = proc[q]
  <2>1. s \in Start /\ (released => p \in Prefetcher)
    BY LocalFacts
  <2> QED
    BY <2>1, WokenFacts
<1>2. \A q \in Proc : proc'[q].pc \in {"fetch", "wait"} =>
         q # p /\ q \notin chunks[s].waiters /\ proc'[q] = proc[q]
  BY <1>1
<1>3. \A q \in Proc : q # p /\ proc[q].pc = "fetch" => proc'[q] = proc[q]
  BY <1>1, ChunkFacts
<1>4. \A t \in Start \ {s} : \A q \in chunks[t].waiters : proc'[q] = proc[q]
  <2>1. ASSUME NEW t \in Start \ {s}, NEW q \in chunks[t].waiters
        PROVE  proc'[q] = proc[q]
    <3>1. q \in Proc /\ proc[q].pc = "wait" /\ proc[q].start = t
      BY <2>1, ChunkFacts
    <3>2. q # p /\ q \notin chunks[s].waiters
      BY <1>1, <2>1, <3>1, ChunkFacts
    <3> QED
      BY <1>1, <3>1, <3>2
  <2> QED
    BY <2>1
<1>5. ChunksOK'
  <2>1. ASSUME NEW t \in Start
        PROVE  /\ End(t)' <= Size
               /\ chunks'[t].fetching => chunks'[t].present
               /\ ~chunks'[t].fetching => chunks'[t].waiters = {}
               /\ \A q \in chunks'[t].waiters : proc'[q].pc = "wait" /\ proc'[q].start = t
    <3>1. CASE t = s
      BY <3>1 DEF End
    <3>2. CASE t # s /\ chunks'[t] = chunks[t]
      BY <1>4, <3>2, ChunkFacts DEF End
    <3>3. CASE t # s /\ chunks'[t] = NoChunk
      BY <3>3, NoChunkFacts, RangeAssumption DEF End, Start
    <3> QED
      BY <3>1, <3>2, <3>3
  <2> QED
    BY <2>1 DEF ChunksOK, At
<1>6. ReleaseOK'
  <2>1. ASSUME released', NEW r \in Reader
        PROVE  proc'[r].pc = "idle"
    <3>1. r \in Proc /\ r \notin Prefetcher /\ proc[r].pc = "idle"
      BY <2>1, RangeAssumption DEF RInv, ReleaseOK, At, Proc
    <3>2. r # p /\ r \notin chunks[s].waiters
      BY <1>1, <3>1, ChunkFacts
    <3> QED
      BY <1>1, <3>1, <3>2
  <2> QED
    BY <2>1 DEF RInv, ReleaseOK, At
<1>7. OneFetch'
  <2>1. SUFFICES ASSUME ~released
                 PROVE  /\ \A t \in Start : chunks'[t].fetching <=>
                              \E q \in Proc : proc'[q].pc = "fetch" /\ proc'[q].start = t
                        /\ \A q, r \in Proc :
                              proc'[q].pc = "fetch" /\ proc'[r].pc = "fetch"
                                 /\ proc'[r].start = proc'[q].start => q = r
    BY DEF OneFetch, At, Fetches
  <2>2. /\ \A t \in Start : chunks[t].fetching <=>
              \E q \in Proc : proc[q].pc = "fetch" /\ proc[q].start = t
        /\ \A q, r \in Proc :
              proc[q].pc = "fetch" /\ proc[r].pc = "fetch" /\ proc[r].start = proc[q].start
                 => q = r
    BY <2>1 DEF RInv, OneFetch, Fetches, At
  <2>3. ASSUME NEW t \in Start
        PROVE  chunks'[t].fetching <=>
                  \E q \in Proc : proc'[q].pc = "fetch" /\ proc'[q].start = t
    <3>1. CASE t = s
      BY <1>2, <2>2, <3>1
    <3>2. CASE t # s
      <4>1. chunks'[t].fetching = chunks[t].fetching
        BY <3>2, NoChunkFacts, ChunkFacts DEF Chunk
      <4> QED
        BY <1>2, <1>3, <2>2, <3>2, <4>1
    <3> QED
      BY <3>1, <3>2
  <2>4. \A q, r \in Proc :
           proc'[q].pc = "fetch" /\ proc'[r].pc = "fetch" /\ proc'[r].start = proc'[q].start
              => q = r
    BY <1>2, <2>2
  <2> QED
    BY <2>3, <2>4
<1>8. WaitersServed'
  <2>1. ASSUME NEW q \in Proc, proc'[q].pc = "wait"
        PROVE  \/ /\ q \in chunks'[proc'[q].start].waiters
                  /\ \E r \in Proc : proc'[r].pc = "fetch" /\ proc'[r].start = proc'[q].start
               \/ released' /\ q \in Prefetcher
    <3>1. q \notin chunks[s].waiters /\ proc'[q] = proc[q] /\ proc[q].start \in Start
      BY <1>2, <2>1, LocalFacts
    <3>2. CASE ~released
      <4>1. q \in chunks[proc[q].start].waiters
        BY <2>1, <3>1, <3>2 DEF RInv, WaitersServed, At
      <4>2. PICK r \in Proc : proc[r].pc = "fetch" /\ proc[r].start = proc[q].start
        BY <2>1, <3>1, <3>2 DEF RInv, WaitersServed, At, Fetches
      <4>3. proc[q].start # s /\ r # p
        BY <3>1, <4>1, <4>2
      <4>4. chunks'[proc[q].start] = chunks[proc[q].start]
        BY <3>1, <3>2, <4>2, <4>3 DEF RInv, OneFetch, Fetches, At
      <4> QED
        BY <1>3, <3>1, <4>1, <4>2, <4>3, <4>4
    <3>3. released => q \in Prefetcher
      BY <2>1, <3>1, LocalFacts
    <3> QED
      BY <3>2, <3>3
  <2> QED
    BY <2>1 DEF WaitersServed, At, Fetches
<1> QED
  BY <1>5, <1>6, <1>7, <1>8 DEF RInv

LEMMA FetchErrOK ==
    ASSUME RInv, NEW p \in Proc, FetchErr(p)
    PROVE  RInv'
<1> DEFINE s == proc[p].start
           l == Failed(p)
           state == Woken(p, s, l)
<1>1. proc[p].pc = "fetch" /\ LocalOK(p, proc[p]) /\ s \in Start
  BY LocalFacts DEF FetchErr, At
<1>2. LocalOK(p, l) /\ l.pc \in {"idle", "check"}
  BY <1>1, ReturnsOK
<1>3. /\ proc' = state /\ chunks' = [chunks EXCEPT ![s] = NoChunk]
      /\ older' = {e \in older : e[1] # s /\ e[2] # s} /\ UNCHANGED <<firstRead, released>>
  BY DEF FetchErr
<1> HIDE DEF l
<1>4. state = [q \in Proc |-> state[q]] /\ \A q \in Proc : LocalOK(q, state[q])
  BY <1>1, <1>2, WokenFacts
<1> HIDE DEF state
<1>5. LocalsOK'
  BY <1>3, <1>4 DEF LocalsOK
<1>6. /\ chunks' \in [Start -> Chunk]
      /\ \A t \in Start : chunks'[t] = IF t = s THEN NoChunk ELSE chunks[t]
  BY <1>1, <1>3, NoChunkFacts DEF RInv, ChunksOK
<1>7. older' \subseteq Present' \X Present'
  <2>1. Present \ {s} \subseteq Present'
    BY <1>6 DEF Present
  <2> QED
    BY <1>3, <2>1 DEF RInv, ChunksOK
<1>8. ~chunks'[s].fetching /\ chunks'[s].waiters = {} /\ s + chunks'[s].len <= Size
  BY <1>1, <1>6, NoChunkFacts, RangeAssumption DEF Start
<1> QED
  BY <1>1, <1>2, <1>3, <1>5, <1>6, <1>7, <1>8, FetchEnds DEF state

LEMMA FetchOkOK ==
    ASSUME RInv, NEW p \in Proc, FetchOk(p)
    PROVE  RInv'
<1> DEFINE s == proc[p].start
           n == proc[p].len
           l == Ensured(p)
           state == Woken(p, s, l)
           targets == IF p \in Reader THEN Lookahead(s, n) ELSE <<>>
           c == [NoChunk EXCEPT !.present = TRUE, !.len = n]
<1>1. /\ proc[p].pc = "fetch" /\ LocalOK(p, proc[p]) /\ s \in Start
      /\ n \in 0..ChunkSize /\ s + n <= Size
  BY LocalFacts DEF FetchOk, At, LocalOK
<1>2. LocalOK(p, l) /\ l.pc \in {"idle", "check", "copy"}
  BY <1>1, ReturnsOK
<1>3. c \in Chunk /\ c.present /\ ~c.fetching /\ c.len = n /\ c.waiters = {}
  BY <1>1, NoChunkFacts DEF Chunk
<1>4. targets \in Seq(Start)
  <2>1. n \in Nat
    BY <1>1, RangeAssumption
  <2> QED
    BY <1>1, <2>1, TargetsInStart
<1>5. UNCHANGED <<firstRead, released>>
  BY DEF FetchOk
<1> HIDE DEF l
<1>6. state = [q \in Proc |-> state[q]] /\ \A q \in Proc : LocalOK(q, state[q])
  BY <1>1, <1>2, WokenFacts
<1>7. ~chunks[s].present => state = [proc EXCEPT ![p] = l]
  <2>1. ASSUME ~chunks[s].present
        PROVE  chunks[s].waiters = {}
    BY <1>1, <2>1, ChunkFacts
  <2> QED
    BY <2>1 DEF Woken, RInv, LocalsOK
<1>8. proc' \in Spawned(state, targets)
  BY <1>7 DEF FetchOk, l
<1> HIDE DEF state, targets
<1>9. /\ LocalsOK'
      /\ \A q \in Proc : \/ proc'[q] = state[q]
                         \/ /\ state[q].pc = "idle" /\ proc'[q].pc = "check"
                            /\ q \in Prefetcher
  BY <1>4, <1>6, <1>8, SpawnedFacts DEF LocalsOK
<1> DEFINE Shape ==
             /\ older' \subseteq Present' \X Present'
             /\ chunks' \in [Start -> Chunk]
             /\ ~chunks'[s].fetching /\ chunks'[s].waiters = {} /\ s + chunks'[s].len <= Size
             /\ \A t \in Start \ {s} : \/ chunks'[t] = chunks[t]
                                       \/ ~chunks[t].fetching /\ chunks'[t] = NoChunk
<1>10. ASSUME chunks[s].present
       PROVE  Shape
  <2>1. PICK V \in SUBSET Present :
            /\ Evicted(s, V)
            /\ chunks' = [t \in Start |-> IF t \in V THEN NoChunk
                                         ELSE IF t = s THEN c ELSE chunks[t]]
            /\ older' = {e \in TouchedAfter(s) : e[1] \notin V /\ e[2] \notin V}
    BY <1>10 DEF FetchOk
  <2> HIDE DEF c
  <2>2. \A t \in V : t = s \/ ~chunks[t].fetching
    BY <2>1 DEF Evicted, Loaded
  <2>3. chunks' \in [Start -> Chunk]
    BY <1>3, <2>1, NoChunkFacts DEF RInv, ChunksOK
  <2>4. \A t \in Start : chunks'[t] = IF t \in V THEN NoChunk ELSE IF t = s THEN c ELSE chunks[t]
    BY <2>1
  <2>5. older' \subseteq Present' \X Present'
    <3>1. Present \ V \subseteq Present'
      BY <1>3, <2>4 DEF Present
    <3>2. Touch(s) \subseteq Present \X Present
      BY <1>1, <1>10, TouchOK DEF RInv, Present
    <3> QED
      BY <2>1, <3>1, <3>2 DEF TouchedAfter
  <2>6. ~chunks'[s].fetching /\ chunks'[s].waiters = {} /\ s + chunks'[s].len <= Size
    BY <1>1, <1>3, <2>4, NoChunkFacts, RangeAssumption DEF Start
  <2> QED
    BY <2>2, <2>3, <2>4, <2>5, <2>6
<1>11. ASSUME ~chunks[s].present
       PROVE  Shape
  <2>1. chunks' = chunks /\ older' = older
    BY <1>11 DEF FetchOk
  <2>2. Present' = Present
    BY <2>1 DEF Present
  <2>3. ~chunks[s].fetching /\ chunks[s].waiters = {} /\ s + chunks[s].len <= Size
    BY <1>1, <1>11, ChunkFacts DEF End
  <2> QED
    BY <2>1, <2>2, <2>3 DEF RInv, ChunksOK
<1>12. Shape
  BY <1>10, <1>11
<1> QED
  BY <1>1, <1>2, <1>5, <1>9, <1>12, FetchEnds DEF state

-----------------------------------------------------------------------------
(* The theorems *)

LEMMA RInvInit == Init => RInv
<1> SUFFICES ASSUME Init PROVE RInv
  OBVIOUS
<1>1. LocalsOK
  BY IdleOK DEF Init, LocalsOK
<1>2. ChunksOK
  <2>1. \A s \in Start : chunks[s] = NoChunk /\ End(s) <= Size
    BY NoChunkFacts, RangeAssumption DEF Init, End, Start
  <2> QED
    BY <2>1, NoChunkFacts DEF Init, ChunksOK
<1>3. \A p \in Proc : proc[p].pc = "idle"
  BY IdleRecord DEF Init
<1>4. ReleaseOK /\ OneFetch /\ WaitersServed
  BY <1>3, NoChunkFacts DEF Init, ReleaseOK, OneFetch, WaitersServed, Fetches, At
<1> QED
  BY <1>1, <1>2, <1>4 DEF RInv

LEMMA RInvStep == RInv /\ [Next]_vars => RInv'
<1> SUFFICES ASSUME RInv, [Next]_vars PROVE RInv'
  OBVIOUS
<1>1. ASSUME NEW p \in Proc, Run(p) \/ Cancel(p)
      PROVE  RInv'
  BY <1>1, PlanOK, WaitOK, ReuseOK, ClaimOK, CopyOK, FetchOkOK, FetchErrOK, CheckOK, CancelOK
  DEF Run
<1>2. CASE UNCHANGED vars
  <2>1. LocalsOK' /\ firstRead' \in BOOLEAN /\ older' \subseteq Present \X Present
    BY <1>2 DEF vars, RInv, LocalsOK, ReleaseOK, ChunksOK
  <2> QED
    BY <1>2, <2>1, QuietMove DEF vars
<1> QED
  BY <1>1, <1>2, ReadOK, ReleaseStepOK DEF Next

LEMMA RInvAlways == Spec => []RInv
BY RInvInit, RInvStep, PTL DEF Spec

LEMMA RInvImplies == RInv => TypeOK /\ OneFetch /\ WaitersServed /\ FetchCovers
<1> SUFFICES ASSUME RInv PROVE TypeOK /\ OneFetch /\ WaitersServed /\ FetchCovers
  OBVIOUS
<1>1. proc \in [Proc -> Local]
  BY DEF RInv, LocalsOK, LocalOK
<1> QED
  BY <1>1 DEF RInv, LocalsOK, LocalOK, ChunksOK, ReleaseOK, TypeOK, FetchCovers, At, Proc

(* Every reachable state is well typed, the chunks lie in the object, and no *)
(* fetch reaches beyond its end.                                             *)
THEOREM RangeTypeCorrect == Spec => []TypeOK
BY RInvAlways, RInvImplies, PTL

(* A chunk has one fetch at a time, whatever reads, prefetches, grows, fails *)
(* or is evicted, until the handle is released.                              *)
THEOREM FetchesCollapse == Spec => []OneFetch
BY RInvAlways, RInvImplies, PTL

(* No lost wake-up: who waits for a chunk is on the list of who fetches it.  *)
THEOREM NobodyForgotten == Spec => []WaitersServed
BY RInvAlways, RInvImplies, PTL

(* A read fetches the position it needs, whatever others have done to the    *)
(* chunks since it planned.                                                  *)
THEOREM FetchesHoldPosition == Spec => []FetchCovers
BY RInvAlways, RInvImplies, PTL

LEMMA OnlyClaimFetches ==
    ASSUME RInv, [Next]_vars, NEW p \in Proc, proc[p].pc = "ensure", proc'[p].pc = "fetch"
    PROVE  Claim(p)
<1>1. LocalsOK /\ LocalOK(p, proc[p])
  BY LocalFacts DEF RInv
<1>2. ASSUME NEW q \in Proc, Plan(q) \/ Wait(q) \/ Copy(q) \/ Check(q) \/ Cancel(q)
      PROVE  FALSE
  <2>1. CASE q = p
    <3>1. Wait(p)
      BY <1>2, <2>1 DEF Plan, Copy, Check, Cancel, At
    <3>2. proc' = [proc EXCEPT ![p] = [proc[p] EXCEPT !.pc = "wait"]]
      BY <3>1 DEF Wait
    <3>3. proc[p] \in Local /\ [proc[p] EXCEPT !.pc = "wait"].pc = "wait"
      BY <1>1 DEF LocalOK, Local
    <3> QED
      BY <1>1, <3>2, <3>3 DEF LocalsOK
  <2>2. CASE q # p
    <3>1. \E l : proc' = [proc EXCEPT ![q] = l]
      BY <1>2, Zenon DEF Plan, Wait, Copy, Check, Cancel, Ensure
    <3> QED
      BY <1>1, <2>2, <3>1 DEF LocalsOK
  <2> QED
    BY <2>1, <2>2
<1>3. ASSUME NEW q \in Proc, Reuse(q)
      PROVE  FALSE
  <2>1. q = p => Ensured(q).pc \in {"idle", "check", "copy"}
    BY <1>1, ReturnsOK
  <2>2. proc'[p] = IF p = q THEN Ensured(q) ELSE proc[p]
    BY <1>1, <1>3 DEF Reuse, LocalsOK
  <2> QED
    BY <2>1, <2>2
<1>4. ASSUME NEW q \in Proc, Claim(q)
      PROVE  Claim(p)
  BY <1>1, <1>4 DEF Claim, LocalsOK
<1>5. ASSUME NEW q \in Proc, FetchErr(q)
      PROVE  FALSE
  <2>1. q # p
    BY <1>5 DEF FetchErr, At
  <2>2. proc'[p].pc \in {"ensure", proc[p].pc}
    BY <1>1, <1>5, <2>1 DEF FetchErr, Woken, LocalsOK
  <2> QED
    BY <2>2
<1>6. ASSUME NEW state, NEW targets, state[p].pc = "ensure", proc' \in Spawned(state, targets)
      PROVE  FALSE
  <2>1. CASE proc' = state
    BY <1>6, <2>1
  <2>2. CASE proc' # state
    <3> DEFINE l == [Idle EXCEPT !.pc = "check", !.rest = targets]
    <3>1. PICK q \in Prefetcher : state[q].pc = "idle" /\ proc' = [state EXCEPT ![q] = l]
      BY <1>6, <2>2 DEF Spawned
    <3> HIDE DEF l
    <3>2. proc'[p] = state[p]
      BY <1>1, <1>6, <3>1
    <3> QED
      BY <1>6, <3>2
  <2> QED
    BY <2>1, <2>2
<1>7. ASSUME NEW q \in Proc, FetchOk(q)
      PROVE  FALSE
  <2>1. q # p
    BY <1>7 DEF FetchOk, At
  <2>2. Woken(q, proc[q].start, Ensured(q))[p].pc = "ensure"
    BY <1>1, <2>1 DEF Woken
  <2>3. [proc EXCEPT ![q] = Ensured(q)][p].pc = "ensure"
    BY <1>1, <2>1 DEF LocalsOK
  <2> QED
    BY <1>6, <1>7, <2>2, <2>3 DEF FetchOk
<1>8. ASSUME NEW r \in Reader, NEW x \in Reads, Read(r, x[1], x[2])
      PROVE  FALSE
  <2>1. r # p
    BY <1>8 DEF Read, At
  <2>2. [proc EXCEPT ![r] = Reading("plan", x[1], x[2])][p].pc = "ensure"
    BY <1>1, <2>1 DEF LocalsOK
  <2> QED
    BY <1>6, <1>8, <2>2 DEF Read
<1> QED
  BY <1>2, <1>3, <1>4, <1>5, <1>7, <1>8 DEF Next, Run, Release, vars

LEMMA GrowthStep ==
    ASSUME RInv, NEW p \in Proc, Claim(p), Loaded(proc[p].start)
    PROVE  proc'[p].len > chunks[proc[p].start].len
<1> DEFINE x == proc[p]
           s == x.start
           n == FetchLength(s, NextFetchEnd(s, x.need))
<1>1. /\ x \in Local /\ x.pc = "ensure" /\ s \in Start /\ x.need \in 0..Size
      /\ x.need <= MaxEnd(s) /\ chunks[s].len \in 0..ChunkSize
  BY LocalFacts, ChunkFacts DEF Claim, At, LocalOK
<1>2. End(s) < x.need
  <2>1. ~(End(s) >= x.need)
    BY DEF Claim, MayClaim, Enough
  <2> QED
    BY <1>1, <2>1, RangeAssumption DEF End, Start
<1>3. /\ NextFetchEnd(s, x.need) \in 0..Size /\ x.need <= NextFetchEnd(s, x.need)
      /\ NextFetchEnd(s, x.need) <= MaxEnd(s)
  BY <1>1, NextFetchEndBounds
<1>4. n \in 0..ChunkSize /\ NextFetchEnd(s, x.need) <= s + n
  BY <1>1, <1>3, FetchLengthBounds
<1>5. proc'[p].len = n
  <2>1. proc' = [proc EXCEPT ![p] = [@ EXCEPT !.pc = "fetch", !.need = 0, !.len = n]]
    BY DEF Claim, Loaded
  <2>2. [x EXCEPT !.pc = "fetch", !.need = 0, !.len = n].len = n
    BY <1>1 DEF Local
  <2> QED
    BY <2>1, <2>2 DEF RInv, LocalsOK
<1> HIDE DEF n
<1> QED
  BY <1>1, <1>2, <1>3, <1>4, <1>5, RangeAssumption DEF End, Start

(* A chunk is replaced only to become longer. *)
THEOREM RangeGrows == Spec => GrowthGrows
<1>1. RInv /\ [Next]_vars =>
        [\A p \in Proc : At(p, "ensure") /\ Loaded(proc[p].start) /\ proc'[p].pc = "fetch" =>
             proc'[p].len > chunks[proc[p].start].len]_vars
  BY OnlyClaimFetches, GrowthStep DEF At
<1> QED
  BY <1>1, RInvAlways, PTL DEF Spec, GrowthGrows

-----------------------------------------------------------------------------
(* The cap, and what a fetch evicts. *)

\* The chunks that count against the cap: a fetch in progress may exceed it.
Held == {s \in Start : Loaded(s)}

CapInv == RInv /\ Cardinality(Held) <= MaxChunks

LEMMA StartFinite ==
    \A S \in SUBSET Start : IsFiniteSet(S) /\ Cardinality(S) \in Nat
<1>1. IsFiniteSet(Start)
  BY FS_Interval, RangeAssumption DEF Start
<1> QED BY <1>1, FS_Subset, FS_CardinalityType

(* A step that loads nothing keeps to the cap. *)
LEMMA HeldShrinks ==
    ASSUME CapInv, Held' \subseteq Held
    PROVE  Cardinality(Held') <= MaxChunks
<1>1. IsFiniteSet(Held) /\ Cardinality(Held) \in Nat
  BY StartFinite DEF Held
<1>2. Held' \in SUBSET Held /\ Cardinality(Held') <= Cardinality(Held)
  BY <1>1, FS_Subset
<1>3. Cardinality(Held') \in Nat
  <2>1. Held' \in SUBSET Start
    BY <1>2 DEF Held
  <2> QED BY <2>1, StartFinite
<1> QED BY <1>1, <1>2, <1>3, RangeAssumption DEF CapInv

(* What evictChunksLocked leaves: no more than the cap, or nothing that may *)
(* go.                                                                      *)
LEMMA EvictedLeaves ==
    ASSUME NEW s \in Start, NEW V \in SUBSET Present, Evicted(s, V)
    PROVE  \/ Cardinality(Present \ V) <= MaxChunks
           \/ \A t \in Present \ V : Pinned(t) \/ (~Loaded(t) /\ t # s)
<1> DEFINE may == {t \in Present : ~Pinned(t) /\ (Loaded(t) \/ t = s)}
           excess == Cardinality(Present) - MaxChunks
<1>1. /\ IsFiniteSet(Present) /\ Cardinality(Present) \in Nat
      /\ IsFiniteSet(may) /\ Cardinality(may) \in Nat
      /\ IsFiniteSet(V) /\ Cardinality(V) \in Nat
  <2>1. Present \in SUBSET Start /\ may \in SUBSET Start /\ V \in SUBSET Start
    BY DEF Present
  <2> QED BY <2>1, StartFinite
<1>2. /\ V \subseteq may
      /\ Cardinality(V) = IF excess <= 0 THEN 0 ELSE Least(excess, Cardinality(may))
  BY DEF Evicted, Excess
<1>3. Cardinality(Present \ V) = Cardinality(Present) - Cardinality(V)
  <2>1. Present \cap V = V
    OBVIOUS
  <2> QED BY <1>1, <2>1, FS_Difference
<1>4. CASE excess <= 0
  BY <1>1, <1>2, <1>3, <1>4, RangeAssumption
<1>5. CASE excess > 0 /\ Cardinality(V) = excess
  BY <1>1, <1>3, <1>5, RangeAssumption
<1>6. CASE excess > 0 /\ Cardinality(V) = Cardinality(may)
  <2>1. V = may
    BY <1>1, <1>2, <1>6, FS_Subset
  <2> QED BY <2>1
<1>7. excess \in Int
  BY <1>1, RangeAssumption
<1> HIDE DEF excess, may
<1> QED BY <1>1, <1>2, <1>4, <1>5, <1>6, <1>7 DEF Least

(* A fetch that ends well keeps to the cap: if not enough may go, only the  *)
(* two pinned chunks stay loaded.                                           *)
LEMMA FetchOkCap ==
    ASSUME CapInv, NEW p \in Proc, FetchOk(p)
    PROVE  Cardinality(Held') <= MaxChunks
<1> DEFINE s == proc[p].start
           c == [NoChunk EXCEPT !.present = TRUE, !.len = proc[p].len]
<1>1. RInv /\ s \in Start
  BY LocalFacts DEF CapInv
<1>2. CASE ~chunks[s].present
  <2>1. chunks' = chunks
    BY <1>2 DEF FetchOk
  <2> QED BY <2>1, HeldShrinks DEF Held, Loaded
<1>3. CASE chunks[s].present
  <2>1. PICK V \in SUBSET Present :
            /\ Evicted(s, V)
            /\ chunks' = [t \in Start |-> IF t \in V THEN NoChunk
                                         ELSE IF t = s THEN c ELSE chunks[t]]
    BY <1>3 DEF FetchOk
  <2> HIDE DEF c
  <2>2. ~NoChunk.present
    BY NoChunkFacts DEF NoChunk
  <2>3. ASSUME NEW t \in Held'
        PROVE  t \in Present \ V /\ (t = s \/ Loaded(t))
    <3>1. t \in Start /\ chunks'[t].present /\ ~chunks'[t].fetching
      BY DEF Held, Loaded
    <3>2. t \notin V
      BY <2>1, <2>2, <3>1
    <3>3. t # s => chunks'[t] = chunks[t]
      BY <2>1, <3>1, <3>2
    <3> QED BY <1>1, <1>3, <3>1, <3>2, <3>3 DEF Present, Loaded
  <2>4. Held' \in SUBSET Start /\ Held' \in SUBSET (Present \ V)
    BY <2>3 DEF Held
  <2>5. Cardinality(Held') \in Nat
    BY <2>4, StartFinite
  <2>6. CASE Cardinality(Present \ V) <= MaxChunks
    <3>1. Present \ V \in SUBSET Start
      BY DEF Present
    <3>2. IsFiniteSet(Present \ V) /\ Cardinality(Present \ V) \in Nat
      BY <3>1, StartFinite
    <3>3. Cardinality(Held') <= Cardinality(Present \ V)
      BY <2>4, <3>2, FS_Subset
    <3> QED BY <2>5, <2>6, <3>2, <3>3, RangeAssumption
  <2>7. CASE \A t \in Present \ V : Pinned(t) \/ (~Loaded(t) /\ t # s)
    <3> DEFINE two == {0} \cup {AlignDown(Size - 1, Probe)}
    <3>1. Held' \in SUBSET two
      BY <2>3, <2>7 DEF Pinned
    <3>2. IsFiniteSet(two) /\ Cardinality(two) <= 2
      <4>1. IsFiniteSet({0}) /\ Cardinality({0}) = 1
        BY FS_Singleton
      <4> QED BY <4>1, FS_AddElement
    <3> HIDE DEF two
    <3>3. Cardinality(two) \in Nat /\ Cardinality(Held') <= Cardinality(two)
      BY <3>1, <3>2, FS_Subset, FS_CardinalityType
    <3> QED BY <2>5, <3>2, <3>3, RangeAssumption
  <2> QED BY <1>1, <2>1, <2>6, <2>7, EvictedLeaves
<1> QED BY <1>2, <1>3

(* Every step keeps to the cap. *)
LEMMA CapStep ==
    ASSUME CapInv, [Next]_vars
    PROVE  CapInv'
<1>1. RInv /\ RInv'
  BY RInvStep DEF CapInv
<1>2. /\ chunks \in [Start -> Chunk] /\ ~NoChunk.present
      /\ \A q \in Proc : proc[q].start \in Start
  BY <1>1, LocalFacts, NoChunkFacts DEF RInv, ChunksOK, NoChunk
<1>3. ASSUME chunks' = chunks PROVE Held' \subseteq Held
  BY <1>3 DEF Held, Loaded
<1>4. ASSUME NEW q \in Proc, Plan(q) \/ Reuse(q) \/ Copy(q) \/ Check(q) PROVE chunks' = chunks
  BY <1>4 DEF Plan, Reuse, Copy, Check
<1>5. ASSUME NEW q \in Proc, Wait(q) PROVE Held' \subseteq Held
  <2> DEFINE s == proc[q].start
  <2>1. chunks' = [chunks EXCEPT ![s].waiters = @ \cup {q}]
    BY <1>5 DEF Wait
  <2>2. \A t \in Start : /\ chunks'[t].present = chunks[t].present
                         /\ chunks'[t].fetching = chunks[t].fetching
    BY <1>2, <2>1 DEF Chunk
  <2> QED BY <2>2 DEF Held, Loaded
<1>6. ASSUME NEW q \in Proc, Cancel(q) PROVE Held' \subseteq Held
  <2> DEFINE s == proc[q].start
  <2>1. chunks' = [chunks EXCEPT ![s].waiters = @ \ {q}]
    BY <1>6 DEF Cancel
  <2>2. \A t \in Start : /\ chunks'[t].present = chunks[t].present
                         /\ chunks'[t].fetching = chunks[t].fetching
    BY <1>2, <2>1 DEF Chunk
  <2> QED BY <2>2 DEF Held, Loaded
<1>7. ASSUME NEW q \in Proc, Claim(q) PROVE Held' \subseteq Held
  <2> DEFINE c == [NoChunk EXCEPT !.present = TRUE, !.fetching = TRUE]
  <2>1. chunks' = [chunks EXCEPT ![proc[q].start] = c]
    BY <1>7 DEF Claim
  <2>2. c.fetching
    BY DEF NoChunk
  <2> HIDE DEF c
  <2>3. \A t \in Start : chunks'[t] = chunks[t] \/ chunks'[t].fetching
    BY <1>2, <2>1, <2>2
  <2> QED BY <2>3 DEF Held, Loaded
<1>8. ASSUME NEW q \in Proc, FetchErr(q) PROVE Held' \subseteq Held
  <2>1. chunks' = [chunks EXCEPT ![proc[q].start] = NoChunk]
    BY <1>8 DEF FetchErr
  <2>2. \A t \in Start : chunks'[t] = chunks[t] \/ ~chunks'[t].present
    BY <1>2, <2>1
  <2> QED BY <2>2 DEF Held, Loaded
<1>9. ASSUME Release PROVE Held' \subseteq Held
  BY <1>2, <1>9 DEF Release, Held, Loaded
<1>10. ASSUME NEW r \in Reader, NEW x \in Reads, Read(r, x[1], x[2]) PROVE chunks' = chunks
  BY <1>10 DEF Read
<1>11. CASE UNCHANGED vars
  BY <1>1, <1>3, <1>11, HeldShrinks DEF vars, CapInv
<1>12. CASE Next
  <2>1. Held' \subseteq Held \/ \E q \in Proc : FetchOk(q)
    BY <1>3, <1>4, <1>5, <1>6, <1>7, <1>8, <1>9, <1>10, <1>12 DEF Next, Run
  <2> QED BY <1>1, <2>1, HeldShrinks, FetchOkCap DEF CapInv
<1> QED BY <1>11, <1>12

(* The map never holds more than its cap and the fetches in progress, also  *)
(* when a fetch fails, replaces a chunk, or ends after the release.         *)
THEOREM RangeBounded == Spec => []MemoryBounded
<1>1. Init => CapInv
  <2> SUFFICES ASSUME Init PROVE CapInv
    OBVIOUS
  <2>1. Held = {}
    BY DEF Init, Held, Loaded, NoChunk
  <2>2. Cardinality(Held) = 0
    BY <2>1, FS_EmptySet
  <2> QED BY <2>2, RInvInit, RangeAssumption DEF CapInv
<1>2. CapInv /\ [Next]_vars => CapInv'
  BY CapStep
<1>3. CapInv => MemoryBounded
  <2> SUFFICES ASSUME CapInv PROVE MemoryBounded
    OBVIOUS
  <2> DEFINE F == {s \in Start : chunks[s].fetching}
  <2>1. \A s \in Start : chunks[s].fetching => chunks[s].present
    BY ChunkFacts DEF CapInv
  <2>2. Present = Held \cup F /\ Held \cap F = {}
    BY <2>1 DEF Present, Held, Loaded
  <2>3. /\ IsFiniteSet(Held) /\ IsFiniteSet(F)
        /\ Cardinality(Held) \in Nat /\ Cardinality(F) \in Nat
    BY StartFinite DEF Held
  <2>4. Cardinality(Present) = Cardinality(Held) + Cardinality(F)
    <3> HIDE DEF F
    <3>1. Cardinality(Held \cap F) = 0
      BY <2>2, FS_EmptySet
    <3>2. Cardinality(Held \cup F)
          = Cardinality(Held) + Cardinality(F) - Cardinality(Held \cap F)
      BY <2>3, FS_Union
    <3> QED BY <2>2, <2>3, <3>1, <3>2
  <2> QED BY <2>3, <2>4, RangeAssumption DEF CapInv, MemoryBounded
<1> QED BY <1>1, <1>2, <1>3, PTL DEF Spec

(* A read goes from its fetch to the copy by the end of that fetch alone. *)
LEMMA OnlyFetchOkCopies ==
    ASSUME RInv, [Next]_vars, NEW p \in Proc, proc[p].pc = "fetch", proc'[p].pc = "copy"
    PROVE  FetchOk(p)
<1>1. LocalsOK /\ LocalOK(p, proc[p])
  BY LocalFacts DEF RInv
<1>2. ASSUME NEW q \in Proc,
             Plan(q) \/ Wait(q) \/ Copy(q) \/ Check(q) \/ Cancel(q) \/ Reuse(q) \/ Claim(q)
      PROVE  FALSE
  <2>1. q # p
    BY <1>2 DEF Plan, Wait, Copy, Check, Cancel, Reuse, Claim, At
  <2>2. \E l : proc' = [proc EXCEPT ![q] = l]
    <3>1. CASE Plan(q) \/ Wait(q) \/ Copy(q) \/ Check(q) \/ Cancel(q)
      BY <3>1, Zenon DEF Plan, Wait, Copy, Check, Cancel, Ensure
    <3>2. CASE Reuse(q) \/ Claim(q)
      BY <3>2, Zenon DEF Reuse, Claim
    <3> QED BY <1>2, <3>1, <3>2
  <2> QED BY <1>1, <2>1, <2>2 DEF LocalsOK
<1>3. ASSUME NEW q \in Proc, FetchErr(q) PROVE FALSE
  <2>1. q # p
    <3>1. ASSUME q = p PROVE FALSE
      <4>1. proc'[p] = Failed(p)
        BY <1>3, <3>1 DEF FetchErr, Woken
      <4>2. Failed(p).pc \in {"idle", "check"}
        BY <1>1, ReturnsOK
      <4> QED BY <4>1, <4>2
    <3> QED BY <3>1
  <2>2. proc'[p].pc \in {"ensure", proc[p].pc}
    BY <1>1, <1>3, <2>1 DEF FetchErr, Woken, LocalsOK
  <2> QED BY <2>2
<1>4. ASSUME NEW state, NEW targets, state[p].pc # "copy", state[p].pc # "idle",
             proc' \in Spawned(state, targets)
      PROVE  FALSE
  <2>1. CASE proc' = state
    BY <1>4, <2>1
  <2>2. CASE proc' # state
    <3> DEFINE l == [Idle EXCEPT !.pc = "check", !.rest = targets]
    <3>1. PICK q \in Prefetcher : state[q].pc = "idle" /\ proc' = [state EXCEPT ![q] = l]
      BY <1>4, <2>2 DEF Spawned
    <3> HIDE DEF l
    <3>2. proc'[p] = state[p]
      BY <1>1, <1>4, <3>1
    <3> QED BY <1>4, <3>2
  <2> QED BY <2>1, <2>2
<1>5. ASSUME NEW q \in Proc, q # p, FetchOk(q) PROVE FALSE
  <2>1. /\ Woken(q, proc[q].start, Ensured(q))[p].pc # "copy"
        /\ Woken(q, proc[q].start, Ensured(q))[p].pc # "idle"
    BY <1>1, <1>5 DEF Woken, LocalsOK
  <2>2. /\ [proc EXCEPT ![q] = Ensured(q)][p].pc # "copy"
        /\ [proc EXCEPT ![q] = Ensured(q)][p].pc # "idle"
    BY <1>1, <1>5 DEF LocalsOK
  <2> QED BY <1>4, <1>5, <2>1, <2>2 DEF FetchOk
<1>6. ASSUME NEW r \in Reader, NEW x \in Reads, Read(r, x[1], x[2]) PROVE FALSE
  <2>1. r # p
    BY <1>6 DEF Read, At
  <2>2. /\ [proc EXCEPT ![r] = Reading("plan", x[1], x[2])][p].pc # "copy"
        /\ [proc EXCEPT ![r] = Reading("plan", x[1], x[2])][p].pc # "idle"
    BY <1>1, <2>1 DEF LocalsOK
  <2> QED BY <1>4, <1>6, <2>2 DEF Read
<1> QED BY <1>2, <1>3, <1>5, <1>6 DEF Next, Run, Release, vars

LEMMA StaysStep ==
    ASSUME RInv, NEW r \in Reader, proc[r].pc = "fetch", FetchOk(r)
    PROVE  \/ chunks'[proc[r].start].present
           \/ \A t \in Present' : Pinned(t) \/ chunks[t].fetching
<1> DEFINE s == proc[r].start
           c == [NoChunk EXCEPT !.present = TRUE, !.len = proc[r].len]
<1>1. r \in Proc /\ s \in Start
  BY LocalFacts DEF Proc
<1>2. chunks[s].present
  <2>1. ~released
    BY DEF RInv, ReleaseOK, At
  <2>2. chunks[s].fetching
    BY <1>1, <2>1 DEF RInv, OneFetch, Fetches, At
  <2> QED BY <1>1, <2>2, ChunkFacts
<1>3. PICK V \in SUBSET Present :
          /\ Evicted(s, V)
          /\ chunks' = [t \in Start |-> IF t \in V THEN NoChunk
                                       ELSE IF t = s THEN c ELSE chunks[t]]
  BY <1>2 DEF FetchOk
<1>4. c.present /\ ~NoChunk.present
  BY DEF NoChunk
<1> HIDE DEF c
<1>5. CASE s \notin V
  BY <1>1, <1>3, <1>4, <1>5
<1>6. CASE s \in V
  <2> DEFINE may == {t \in Present : ~Pinned(t) /\ (Loaded(t) \/ t = s)}
  <2>1. V \subseteq may /\ \A t \in may \ V : <<s, t>> \in Touch(s)
    BY <1>3, <1>6 DEF Evicted, TouchedAfter
  <2>2. \A t : <<s, t>> \notin Touch(s)
    BY DEF Touch
  <2>3. \A t \in Present' : t \in Present /\ t \notin V
    BY <1>1, <1>2, <1>3, <1>4 DEF Present
  <2>4. \A t \in Present' : Pinned(t) \/ ~Loaded(t)
    BY <2>1, <2>2, <2>3
  <2> QED BY <2>3, <2>4 DEF Loaded, Present
<1> QED BY <1>5, <1>6

(* What a read has fetched stays until it is copied, unless everything else *)
(* in the map is pinned or being fetched.                                   *)
THEOREM RangeKeeps == Spec => FetchedStays
<1>1. RInv /\ [Next]_vars =>
        [\A r \in Reader : At(r, "fetch") /\ proc'[r].pc = "copy" =>
             \/ chunks'[proc[r].start].present
             \/ \A t \in Present' : Pinned(t) \/ chunks[t].fetching]_vars
  <2> SUFFICES ASSUME RInv, [Next]_vars, NEW r \in Reader, proc[r].pc = "fetch",
                      proc'[r].pc = "copy"
               PROVE  \/ chunks'[proc[r].start].present
                      \/ \A t \in Present' : Pinned(t) \/ chunks[t].fetching
    BY DEF At
  <2>1. FetchOk(r)
    BY OnlyFetchOkCopies DEF Proc
  <2> QED BY <2>1, StaysStep
<1> QED BY <1>1, RInvAlways, PTL DEF Spec, FetchedStays
=============================================================================
