----------------------------- MODULE CacheProofs -----------------------------
(* Theorems about Cache, for any keys, goroutines, sizes and cap. *)
EXTENDS Cache, SequenceTheorems, FiniteSetTheorems, TLAPS

NoDup(s) == \A i, j \in 1..Len(s) : s[i] = s[j] => i = j

Elems(s) == {s[i] : i \in 1..Len(s)}

-----------------------------------------------------------------------------
(* removeFromLRU takes the key out of a list without duplicates and leaves *)
(* the others in place.                                                    *)
LEMMA RemoveFromLRU ==
    ASSUME NEW s \in Seq(Key), NoDup(s), NEW k \in Key
    PROVE  LET r == removeFromLRU(s, k)
           IN  r \in Seq(Key) /\ NoDup(r) /\ Elems(r) = Elems(s) \ {k}
<1>1. CASE ~ \E i \in 1..Len(s) : s[i] = k
  BY <1>1 DEF removeFromLRU, RemoveFirst, Elems
<1>2. CASE \E i \in 1..Len(s) : s[i] = k
  <2>1. PICK i \in 1..Len(s) : s[i] = k
    BY <1>2
  <2> DEFINE r == RemoveAt(s, i)
             a == SubSeq(s, 1, i - 1)
             b == SubSeq(s, i + 1, Len(s))
  <2>2. {j \in 1..Len(s) : s[j] = k} = {i}
    BY <2>1 DEF NoDup
  <2>3. Min({i}) = i
    BY DEF Min
  <2>4. SelectInSeq(s, LAMBDA v : v = k) = i
    BY <2>2, <2>3 DEF SelectInSeq
  <2>5. removeFromLRU(s, k) = r
    BY <1>2, <2>4 DEF removeFromLRU, RemoveFirst
  <2>6. /\ a \in Seq(Key) /\ Len(a) = i - 1
        /\ \A j \in 1..(i - 1) : a[j] = s[j]
    BY SubSeqProperties
  <2>7. /\ b \in Seq(Key) /\ Len(b) = Len(s) - i
        /\ \A j \in 1..(Len(s) - i) : b[j] = s[i + j]
    BY SubSeqProperties
  <2>8. /\ r \in Seq(Key) /\ Len(r) = Len(s) - 1
        /\ \A j \in 1..(Len(s) - 1) : r[j] = IF j < i THEN s[j] ELSE s[j + 1]
    <3> HIDE DEF a, b
    <3>1. r = a \o b
      BY DEF RemoveAt, a, b
    <3>2. /\ a \o b \in Seq(Key) /\ Len(a \o b) = Len(s) - 1
          /\ \A j \in 1..(Len(s) - 1) :
               (a \o b)[j] = IF j <= i - 1 THEN a[j] ELSE b[j - (i - 1)]
      BY <2>6, <2>7, ConcatProperties
    <3>3. ASSUME NEW j \in 1..(Len(s) - 1), ~(j < i)
          PROVE  b[j - (i - 1)] = s[j + 1]
      BY <2>7, <3>3
    <3> QED BY <2>6, <3>1, <3>2, <3>3
  <2> HIDE DEF r
  <2>9. NoDup(r)
    BY <2>1, <2>8 DEF NoDup
  <2>10. Elems(r) = Elems(s) \ {k}
    <3>1. ASSUME NEW x \in Elems(s) \ {k} PROVE x \in Elems(r)
      <4>1. PICK j \in 1..Len(s) : x = s[j]
        BY DEF Elems
      <4>2. j # i
        BY <2>1, <4>1
      <4>3. CASE j < i
        BY <2>8, <4>1, <4>3 DEF Elems
      <4>4. CASE j > i
        <5>1. r[j - 1] = x /\ j - 1 \in 1..Len(r)
          BY <2>8, <4>1, <4>4
        <5> QED BY <5>1 DEF Elems
      <4> QED BY <4>2, <4>3, <4>4
    <3>2. ASSUME NEW x \in Elems(r) PROVE x \in Elems(s) \ {k}
      <4>1. PICK j \in 1..Len(r) : x = r[j]
        BY DEF Elems
      <4>2. x = IF j < i THEN s[j] ELSE s[j + 1]
        BY <2>8, <4>1
      <4>3. PICK m \in 1..Len(s) : x = s[m] /\ m # i
        BY <2>8, <4>1, <4>2
      <4>4. x # k
        BY <2>1, <4>3 DEF NoDup
      <4> QED BY <4>3, <4>4 DEF Elems
    <3> QED BY <3>1, <3>2
  <2> QED BY <2>5, <2>8, <2>9, <2>10
<1> QED BY <1>1, <1>2

(* bumpLRU puts the key first, once. *)
LEMMA BumpLRU ==
    ASSUME NEW s \in Seq(Key), NoDup(s), NEW k \in Key
    PROVE  LET r == bumpLRU(s, k)
           IN  r \in Seq(Key) /\ NoDup(r) /\ Elems(r) = Elems(s) \cup {k}
<1> DEFINE t == removeFromLRU(s, k)
           r == <<k>> \o t
<1>1. t \in Seq(Key) /\ NoDup(t) /\ Elems(t) = Elems(s) \ {k}
  BY RemoveFromLRU
<1> HIDE DEF t
<1>2. /\ r \in Seq(Key) /\ Len(r) = Len(t) + 1
      /\ \A j \in 1..Len(r) : r[j] = IF j = 1 THEN k ELSE t[j - 1]
  BY <1>1, ConcatProperties
<1> HIDE DEF r
<1>3. \A j \in 1..Len(t) : t[j] # k
  BY <1>1 DEF Elems
<1>4. NoDup(r)
  <2>1. SUFFICES ASSUME NEW i \in 1..Len(r), NEW j \in 1..Len(r), r[i] = r[j]
                 PROVE  i = j
    BY DEF NoDup
  <2>2. CASE i = 1 \/ j = 1
    <3>1. \A m \in 1..Len(r) : m # 1 => m - 1 \in 1..Len(t) /\ r[m] = t[m - 1]
      BY <1>1, <1>2, LenProperties
    <3>2. r[1] = k
      BY <1>1, <1>2, LenProperties
    <3> QED BY <1>3, <2>1, <2>2, <3>1, <3>2
  <2>3. CASE i # 1 /\ j # 1
    <3>1. i - 1 \in 1..Len(t) /\ j - 1 \in 1..Len(t) /\ t[i - 1] = t[j - 1]
      BY <1>1, <1>2, <2>1, <2>3
    <3> QED BY <1>1, <3>1 DEF NoDup
  <2> QED BY <2>2, <2>3
<1>5. Elems(r) = Elems(t) \cup {k}
  <2>1. ASSUME NEW x \in Elems(t) PROVE x \in Elems(r)
    <3>1. PICK j \in 1..Len(t) : x = t[j]
      BY DEF Elems
    <3>2. j + 1 \in 1..Len(r) /\ r[j + 1] = x
      BY <1>1, <1>2, <3>1
    <3> QED BY <3>2 DEF Elems
  <2>2. k \in Elems(r)
    <3>1. 1 \in 1..Len(r) /\ r[1] = k
      BY <1>1, <1>2
    <3> QED BY <3>1 DEF Elems
  <2>3. ASSUME NEW x \in Elems(r) PROVE x \in Elems(t) \cup {k}
    <3>1. PICK j \in 1..Len(r) : x = r[j]
      BY DEF Elems
    <3>2. CASE j = 1
      BY <1>2, <3>1, <3>2
    <3>3. CASE j # 1
      <4>1. j - 1 \in 1..Len(t) /\ t[j - 1] = x
        BY <1>1, <1>2, <3>1, <3>3
      <4> QED BY <4>1 DEF Elems
    <3> QED BY <3>2, <3>3
  <2> QED BY <2>1, <2>2, <2>3
<1>6. bumpLRU(s, k) = r
  BY DEF bumpLRU, r, t
<1> QED BY <1>1, <1>2, <1>4, <1>5, <1>6

(* Popping the tail removes exactly the least recent key. *)
LEMMA PopLRU ==
    ASSUME NEW s \in Seq(Key), NoDup(s), s # <<>>
    PROVE  /\ Front(s) \in Seq(Key) /\ NoDup(Front(s))
           /\ Last(s) \in Key
           /\ Elems(Front(s)) = Elems(s) \ {Last(s)}
<1> DEFINE r == Front(s)
<1>1. Len(s) \in Nat /\ Len(s) > 0
  BY EmptySeq, LenProperties
<1>2. /\ r \in Seq(Key) /\ Len(r) = Len(s) - 1
      /\ \A j \in 1..(Len(s) - 1) : r[j] = s[j]
  <2>1. \A i \in 1..(Len(s) - 1) : s[i] \in Key
    BY <1>1, ElementOfSeq
  <2>2. /\ SubSeq(s, 1, Len(s) - 1) \in Seq(Key)
        /\ Len(SubSeq(s, 1, Len(s) - 1)) = Len(s) - 1
        /\ \A j \in 1..(Len(s) - 1) : SubSeq(s, 1, Len(s) - 1)[j] = s[j]
    <3>1. PICK n \in Nat : n = Len(s) - 1
      BY <1>1
    <3>2. \A i \in 1..n : s[i] \in Key
      BY <2>1, <3>1
    <3>3. /\ SubSeq(s, 1, n) \in Seq(Key)
          /\ Len(SubSeq(s, 1, n)) = IF 1 <= n THEN n - 1 + 1 ELSE 0
          /\ \A i \in 1..(n - 1 + 1) : SubSeq(s, 1, n)[i] = s[1 + i - 1]
      BY <3>2, SubSeqProperties
    <3>4. (n - 1) + 1 = n /\ \A i \in 1..n : (1 + i) - 1 = i
      OBVIOUS
    <3>5. \A i \in 1..n : SubSeq(s, 1, n)[i] = s[i]
      BY <3>3, <3>4
    <3> QED BY <3>1, <3>3, <3>4, <3>5
  <2> QED BY <2>2 DEF Front
<1>3. Last(s) = s[Len(s)] /\ Last(s) \in Key
  BY <1>1, ElementOfSeq DEF Last
<1> HIDE DEF r
<1>4. NoDup(r)
  <2>1. SUFFICES ASSUME NEW i \in 1..Len(r), NEW j \in 1..Len(r), r[i] = r[j]
                 PROVE  i = j
    BY DEF NoDup
  <2>2. \A m \in 1..Len(r) : m \in 1..Len(s) /\ r[m] = s[m]
    BY <1>1, <1>2
  <2>3. i \in 1..Len(s) /\ j \in 1..Len(s) /\ s[i] = s[j]
    BY <2>1, <2>2
  <2> QED BY <2>3 DEF NoDup
<1>5. Elems(r) = Elems(s) \ {Last(s)}
  BY <1>1, <1>2, <1>3 DEF Elems, NoDup
<1> QED BY <1>2, <1>3, <1>4, <1>5 DEF r

-----------------------------------------------------------------------------
(* The inductive invariant behind TypeOK and LruMatchesMap, by what a step *)
(* can disturb: the map with its order, the files, the goroutines, and the *)
(* rest.                                                                   *)
MapInv ==
    /\ cached \subseteq Key
    /\ entry \in [Key -> Entry]
    /\ \A k \in Key \ cached : entry[k] = NoEntry
    /\ lru \in Seq(Key) /\ curBytes \in Int
    /\ cached = Elems(lru) /\ NoDup(lru)

DiskInv == tmp \in [Key -> File] /\ final \in [Key -> File]

ProcInv ==
    /\ proc \in [Proc -> Local]
    /\ \A p \in Proc : At(p, "idle") \/ K(p) \in Key

\* The goroutine in the eviction loop is where the loop starts: needed because
\* leaving the loop moves it on.
EvictorInv == evictor \in Proc => At(evictor, "evict")

RestInv ==
    /\ evictor \in Proc \cup {NoProc, Async} /\ spawned \in Nat
    /\ stored \subseteq Uploaded /\ restarts \in 0..MaxRestarts

Core == MapInv /\ DiskInv /\ ProcInv /\ RestInv

IInv == Core /\ EvictorInv

(* The inductive invariant is strong enough. *)
LEMMA IInvMeaning == IInv => TypeOK /\ LruMatchesMap
BY DEF IInv, Core, MapInv, DiskInv, ProcInv, RestInv, TypeOK, LruMatchesMap, Elems, NoDup

(* It holds in an empty cache of a new process. *)
LEMMA IInvInit == Init => IInv
<1> USE CacheAssumption
<1> SUFFICES ASSUME Init PROVE IInv
  OBVIOUS
<1>1. MapInv
  BY EmptySeq DEF Init, MapInv, Entry, NoEntry, Elems, NoDup
<1>2. DiskInv
  BY DEF Init, DiskInv, File, NoFile
<1>3. ProcInv
  BY DEF Init, ProcInv, Local, Label, Idle, At
<1>4. RestInv
  BY DEF Init, RestInv
<1>5. EvictorInv
  BY DEF Init, EvictorInv
<1> QED BY <1>1, <1>2, <1>3, <1>4, <1>5 DEF IInv, Core

(* A goroutine's new local state, typed, keeps all goroutines typed. *)
LEMMA ProcStep ==
    ASSUME ProcInv, NEW p \in Proc, NEW l \in Local,
           l.pc = "idle" \/ l.key \in Key, proc' = [proc EXCEPT ![p] = l]
    PROVE  ProcInv'
BY DEF ProcInv, At, K

(* Moving a goroutine that is inside the cache keeps its key. *)
LEMMA GotoStep ==
    ASSUME ProcInv, NEW p \in Proc, NEW label \in Label, ~At(p, "idle"),
           Goto(p, label)
    PROVE  ProcInv'
<1>1. /\ [proc[p] EXCEPT !.pc = label] \in Local
      /\ [proc[p] EXCEPT !.pc = label].key \in Key
      /\ proc' = [proc EXCEPT ![p] = [proc[p] EXCEPT !.pc = label]]
  BY DEF ProcInv, At, K, Local, Goto
<1> QED BY <1>1, ProcStep

(* Leaving the cache resets the goroutine. *)
LEMMA ReturnStep ==
    ASSUME ProcInv, NEW p \in Proc, Return(p)
    PROVE  ProcInv'
<1>1. Idle \in Local
  BY DEF Idle, Local, Label
<1> QED BY <1>1, ProcStep DEF Return, Idle

(* Closing channels moves waiters back to the lookup and nothing else. *)
LEMMA WakeStep ==
    ASSUME ProcInv, NEW p \in Proc, NEW k \in Key, NEW l \in Local,
           l.pc = "idle" \/ l.key \in Key, WakeWaiters(p, k, l)
    PROVE  ProcInv'
BY DEF ProcInv, At, K, WakeWaiters, Local, Label

(* Only the goroutine inside the loop may leave the label "evict". *)
LEMMA EvictorStep ==
    ASSUME EvictorInv, evictor' = evictor,
           \A q \in Proc : At(q, "evict") => At(q, "evict")'
    PROVE  EvictorInv'
BY DEF EvictorInv, At

(* The entries and files the code creates are typed. *)
LEMMA EntryTypes ==
    /\ NoEntry \in Entry /\ FetchingEntry \in Entry
    /\ \A n \in Nat : ReadyEntry(n) \in Entry
    /\ NoFile \in File /\ \A k \in Key : WholeFile(k) \in File
<1>1. NoEntry \in Entry
  BY DEF Entry, NoEntry
<1>2. FetchingEntry \in Entry
  BY DEF Entry, NoEntry, FetchingEntry
<1>3. ASSUME NEW n \in Nat PROVE ReadyEntry(n) \in Entry
  BY DEF Entry, NoEntry, ReadyEntry
<1>4. NoFile \in File
  BY DEF File, NoFile
<1>5. ASSUME NEW k \in Key PROVE WholeFile(k) \in File
  <2>1. Size[k] \in Nat /\ 1..Size[k] \subseteq Nat
    BY CacheAssumption
  <2> QED BY <2>1 DEF File, WholeFile
<1> QED BY <1>1, <1>2, <1>3, <1>4, <1>5

(* The steps of a lookup. *)
LEMMA LookupStep ==
    ASSUME IInv, NEW p \in Proc, Lookup(p) \/ StatHit(p) \/ Recheck(p)
    PROVE  Core'
<1> USE DEF IInv, Core
<1>1. CASE Hit(p)
  <2>1. K(p) \in Key /\ K(p) \in cached
    BY <1>1 DEF Hit, Ready, ProcInv, At
  <2>2. MapInv'
    <3>1. /\ bumpLRU(lru, K(p)) \in Seq(Key) /\ NoDup(bumpLRU(lru, K(p)))
          /\ Elems(bumpLRU(lru, K(p))) = Elems(lru) \cup {K(p)}
      BY <2>1, BumpLRU DEF MapInv
    <3>2. lru' = bumpLRU(lru, K(p)) /\ UNCHANGED <<cached, entry, curBytes>>
      BY <1>1 DEF Hit
    <3> QED BY <2>1, <3>1, <3>2 DEF MapInv
  <2>3. ProcInv'
    <3> DEFINE l == [proc[p] EXCEPT !.pc = "stat", !.sz = entry[K(p)].size]
    <3>1. l \in Local /\ l.key \in Key
      <4>1. entry[K(p)].size \in Nat
        BY <2>1 DEF MapInv, Entry
      <4>2. proc[p] \in Local /\ proc[p].key \in Key
        BY <2>1 DEF ProcInv, K
      <4> QED BY <4>1, <4>2 DEF Local, Label
    <3>2. proc' = [proc EXCEPT ![p] = l]
      BY <1>1 DEF Hit, ProcInv
    <3> QED BY <3>1, <3>2, ProcStep
  <2> QED BY <1>1, <2>2, <2>3 DEF Hit, DiskInv, RestInv, diskVars, lockVars, histVars
<1>2. CASE Join(p)
  <2>1. K(p) \in Key /\ K(p) \in cached
    BY <1>2 DEF Join, Fetching, ProcInv, At
  <2>2. MapInv'
    BY <1>2, <2>1 DEF Join, MapInv, Entry
  <2>3. ProcInv'
    BY <1>2, GotoStep DEF Join, Label, At
  <2> QED BY <1>2, <2>2, <2>3 DEF Join, DiskInv, RestInv, diskVars, lockVars, histVars
<1>3. CASE Claim(p)
  <2>1. K(p) \in Key
    BY <1>3 DEF Claim, ProcInv, At
  <2>2. MapInv'
    <3>1. /\ bumpLRU(lru, K(p)) \in Seq(Key) /\ NoDup(bumpLRU(lru, K(p)))
          /\ Elems(bumpLRU(lru, K(p))) = Elems(lru) \cup {K(p)}
      BY <2>1, BumpLRU DEF MapInv
    <3>2. /\ lru' = bumpLRU(lru, K(p)) /\ cached' = cached \cup {K(p)}
          /\ entry' = [entry EXCEPT ![K(p)] = FetchingEntry]
          /\ curBytes' = curBytes
      BY <1>3 DEF Claim
    <3> QED BY <2>1, <3>1, <3>2, EntryTypes DEF MapInv
  <2>3. ProcInv'
    BY <1>3, GotoStep DEF Claim, Label, At
  <2> QED BY <1>3, <2>2, <2>3 DEF Claim, DiskInv, RestInv, diskVars, lockVars, histVars
<1>4. CASE StatHit(p)
  <2>1. ProcInv'
    BY <1>4, GotoStep DEF StatHit, Label, At
  <2> QED BY <1>4, <2>1 DEF StatHit, MapInv, DiskInv, RestInv, memVars, diskVars,
                             lockVars, histVars
<1>5. CASE Recheck(p)
  <2>1. K(p) \in Key /\ proc[p].sz \in Nat
    BY <1>5 DEF Recheck, ProcInv, At, Local
  <2>2. ProcInv'
    BY <1>5, GotoStep DEF Recheck, Label, At
  <2>5. MapInv'
    <3>1. CASE StillTheHit(p)
      <4>1. /\ removeFromLRU(lru, K(p)) \in Seq(Key)
            /\ NoDup(removeFromLRU(lru, K(p)))
            /\ Elems(removeFromLRU(lru, K(p))) = Elems(lru) \ {K(p)}
        BY <2>1, RemoveFromLRU DEF MapInv
      <4>2. /\ lru' = removeFromLRU(lru, K(p)) /\ cached' = cached \ {K(p)}
            /\ entry' = [entry EXCEPT ![K(p)] = NoEntry]
            /\ curBytes' = curBytes - proc[p].sz
        BY <1>5, <3>1 DEF Recheck
      <4> QED BY <2>1, <4>1, <4>2, EntryTypes DEF MapInv
    <3>2. CASE ~StillTheHit(p)
      BY <1>5, <3>2 DEF Recheck, MapInv, memVars
    <3> QED BY <3>1, <3>2
  <2> QED BY <1>5, <2>2, <2>5 DEF Recheck, DiskInv, RestInv, diskVars, lockVars, histVars
<1> QED BY <1>1, <1>2, <1>3, <1>4, <1>5 DEF Lookup

(* The steps of a fetch on the disk leave the map alone. *)
LEMMA FetchDiskStep ==
    ASSUME IInv, NEW p \in Proc,
           \/ RemoveTmp(p) \/ CreateTmp(p) \/ CreateFails(p) \/ Write(p)
           \/ Retry(p) \/ FetchOk(p) \/ FetchFail(p) \/ StatTmp(p)
           \/ RenameTmp(p) \/ Discard(p)
    PROVE  Core'
<1> USE DEF IInv, Core
<1>1. UNCHANGED <<memVars, lockVars, histVars>>
  BY DEF RemoveTmp, CreateTmp, CreateFails, Write, Retry, FetchOk, FetchFail,
         CloseTmp, StatTmp, RenameTmp, Discard
<1>2. MapInv' /\ RestInv'
  BY <1>1 DEF memVars, lockVars, histVars, MapInv, RestInv
<1>3. K(p) \in Key /\ ~At(p, "idle")
  BY DEF ProcInv, At, RemoveTmp, CreateTmp, CreateFails, Write, Retry, FetchOk,
         FetchFail, StatTmp, RenameTmp, Discard
<1>4. DiskInv'
  <2>1. CASE RemoveTmp(p) \/ Discard(p)
    BY <1>3, <2>1, EntryTypes DEF RemoveTmp, Discard, DiskInv
  <2>2. CASE CreateTmp(p)
    BY <1>3, <2>2 DEF CreateTmp, DiskInv, File
  <2>3. CASE CreateFails(p) \/ StatTmp(p)
    BY <2>3 DEF CreateFails, StatTmp, DiskInv, diskVars
  <2>4. CASE Write(p)
    <3>1. proc[p].off + 1 \in Nat
      BY DEF ProcInv, Local
    <3> DEFINE n == proc[p].off + 1
               w(f) == IF p \in f.writers
                       THEN [f EXCEPT !.len = IF @ > n THEN @ ELSE n,
                                      !.data = @ \cup {n}]
                       ELSE f
    <3>2. ASSUME NEW f \in File PROVE w(f) \in File
      BY <3>1 DEF File
    <3>3. /\ tmp' = [tmp EXCEPT ![K(p)] = w(tmp[K(p)])]
          /\ final' = [final EXCEPT ![K(p)] = w(final[K(p)])]
      BY <2>4 DEF Write, OwnFile
    <3> HIDE DEF w
    <3> QED BY <1>3, <3>2, <3>3 DEF DiskInv
  <2>5. CASE Retry(p)
    <3> DEFINE w(f) == IF p \in f.writers
                       THEN [f EXCEPT !.len = 0, !.data = {}] ELSE f
    <3>1. ASSUME NEW f \in File PROVE w(f) \in File
      BY DEF File
    <3>2. /\ tmp' = [tmp EXCEPT ![K(p)] = w(tmp[K(p)])]
          /\ final' = [final EXCEPT ![K(p)] = w(final[K(p)])]
      BY <2>5 DEF Retry, OwnFile
    <3> HIDE DEF w
    <3> QED BY <1>3, <3>1, <3>2 DEF DiskInv
  <2>6. CASE FetchOk(p) \/ FetchFail(p)
    <3> DEFINE w(f) == IF p \in f.writers
                       THEN [f EXCEPT !.writers = @ \ {p}] ELSE f
    <3>1. ASSUME NEW f \in File PROVE w(f) \in File
      BY DEF File
    <3>2. /\ tmp' = [tmp EXCEPT ![K(p)] = w(tmp[K(p)])]
          /\ final' = [final EXCEPT ![K(p)] = w(final[K(p)])]
      BY <2>6 DEF FetchOk, FetchFail, CloseTmp, OwnFile
    <3> HIDE DEF w
    <3> QED BY <1>3, <3>1, <3>2 DEF DiskInv
  <2>7. CASE RenameTmp(p)
    BY <1>3, <2>7, EntryTypes DEF RenameTmp, DiskInv, diskVars
  <2> QED BY <2>1, <2>2, <2>3, <2>4, <2>5, <2>6, <2>7
<1>5. ProcInv'
  <2>1. CASE RemoveTmp(p) \/ CreateTmp(p) \/ CreateFails(p) \/ RenameTmp(p) \/ Discard(p)
    BY <1>3, <2>1, GotoStep DEF RemoveTmp, CreateTmp, CreateFails, RenameTmp, Discard, Label
  <2>2. CASE Write(p)
    BY <1>3, <2>2 DEF Write, ProcInv, Local, At, K
  <2>3. CASE Retry(p)
    BY <1>3, <2>3 DEF Retry, ProcInv, Local, At, K
  <2>4. CASE FetchOk(p) \/ FetchFail(p)
    BY <1>3, <2>4 DEF FetchOk, FetchFail, CloseTmp, ProcInv, Local, Label, At, K
  <2>5. CASE StatTmp(p)
    <3>1. tmp[K(p)].len \in Nat
      BY <1>3 DEF DiskInv, File
    <3>2. CASE ~tmp[K(p)].exists
      BY <1>3, <2>5, <3>2, GotoStep DEF StatTmp, Label
    <3>3. CASE tmp[K(p)].exists
      BY <1>3, <2>5, <3>1, <3>3 DEF StatTmp, ProcInv, Local, Label, At, K
    <3> QED BY <3>2, <3>3
  <2> QED BY <2>1, <2>2, <2>3, <2>4, <2>5
<1> QED BY <1>2, <1>4, <1>5

(* finishFetch *)
LEMMA FinishStep ==
    ASSUME IInv, NEW p \in Proc, FinishErr(p) \/ FinishOk(p)
    PROVE  Core'
<1> USE DEF IInv, Core
<1>1. K(p) \in Key /\ ~At(p, "idle") /\ proc[p] \in Local
  BY DEF ProcInv, At, FinishErr, FinishOk
<1>2. DiskInv' /\ RestInv'
  BY DEF FinishErr, FinishOk, DiskInv, RestInv, diskVars, lockVars, histVars
<1>3. CASE FinishErr(p)
  <2>1. MapInv'
    <3>1. CASE K(p) \in cached
      <4>1. entry[K(p)] \in Entry
        BY <1>1 DEF MapInv
      <4> DEFINE e == [entry[K(p)] EXCEPT !.fetching = FALSE, !.err = TRUE,
                                          !.waiters = {}]
      <4>2. e \in Entry
        BY <4>1 DEF Entry
      <4>3. entry' = [entry EXCEPT ![K(p)] = e]
        BY <1>3, <3>1, <1>1 DEF FinishErr, MapInv
      <4> QED BY <1>1, <1>3, <3>1, <4>2, <4>3 DEF FinishErr, MapInv
    <3>2. CASE K(p) \notin cached
      BY <1>3, <3>2 DEF FinishErr, MapInv
    <3> QED BY <3>1, <3>2
  <2>2. CASE K(p) \in cached
    <3>1. Idle \in Local /\ Idle.pc = "idle"
      BY DEF Idle, Local, Label
    <3> QED BY <1>1, <1>2, <1>3, <2>1, <2>2, <3>1, WakeStep DEF FinishErr
  <2>3. CASE K(p) \notin cached
    BY <1>1, <1>2, <1>3, <2>1, <2>3, ReturnStep DEF FinishErr
  <2> QED BY <2>2, <2>3
<1>4. CASE FinishOk(p)
  <2>1. proc[p].sz \in Nat
    BY <1>1 DEF Local
  <2>2. MapInv'
    BY <1>1, <1>4, <2>1, EntryTypes DEF FinishOk, MapInv
  <2>3. CASE K(p) \in cached
    <3>1. /\ [proc[p] EXCEPT !.pc = "evict"] \in Local
          /\ [proc[p] EXCEPT !.pc = "evict"].key \in Key
      BY <1>1 DEF Local, Label, K
    <3> QED BY <1>1, <1>2, <1>4, <2>2, <2>3, <3>1, WakeStep DEF FinishOk
  <2>4. CASE K(p) \notin cached
    BY <1>1, <1>2, <1>4, <2>2, <2>4, GotoStep DEF FinishOk, Label
  <2> QED BY <2>3, <2>4
<1> QED BY <1>3, <1>4

(* evictIfNeeded *)
LEMMA EvictStep ==
    ASSUME IInv, Evict \/ \E p \in Proc : EvictLock(p)
    PROVE  Core'
<1> USE DEF IInv, Core
<1>1. CASE \E p \in Proc : EvictLock(p)
  BY <1>1 DEF EvictLock, MapInv, DiskInv, ProcInv, RestInv, memVars, diskVars,
              histVars, At, K
<1>2. CASE EvictLockAsync
  BY <1>2 DEF EvictLockAsync, MapInv, DiskInv, ProcInv, RestInv,
              memVars, diskVars, histVars, At, K
<1>3. CASE EvictPop
  <2> DEFINE k == Last(lru)
  <2>1. lru \in Seq(Key) /\ lru # <<>> /\ NoDup(lru) /\ cached = Elems(lru)
    BY <1>3 DEF EvictPop, OverCap, MapInv
  <2>2. /\ Front(lru) \in Seq(Key) /\ NoDup(Front(lru)) /\ k \in Key
        /\ Elems(Front(lru)) = Elems(lru) \ {k}
    BY <2>1, PopLRU
  <2> HIDE DEF k
  <2>3. entry[k].size \in Nat
    BY <2>2 DEF MapInv, Entry
  <2>4. /\ lru' = Front(lru) /\ cached' = cached \ {k}
        /\ entry' = [entry EXCEPT ![k] = NoEntry]
        /\ UNCHANGED <<tmp, lockVars, proc, histVars>>
        /\ \/ /\ final' = [final EXCEPT ![k] = NoFile]
              /\ curBytes' = curBytes - entry[k].size
           \/ UNCHANGED <<final, curBytes>>
    BY <1>3 DEF EvictPop, k
  <2>5. MapInv'
    BY <2>1, <2>2, <2>3, <2>4, EntryTypes DEF MapInv
  <2>6. DiskInv'
    BY <2>2, <2>4, EntryTypes DEF DiskInv
  <2> QED BY <2>4, <2>5, <2>6 DEF ProcInv, RestInv, lockVars, histVars, At, K
<1>4. CASE EvictUnlock
  <2>1. MapInv' /\ DiskInv' /\ RestInv'
    BY <1>4 DEF EvictUnlock, MapInv, DiskInv, RestInv, memVars, diskVars, histVars
  <2>2. ProcInv'
    <3>1. CASE evictor \in Proc
      BY <1>4, <3>1, GotoStep DEF EvictUnlock, EvictorInv, Label, At
    <3>2. CASE evictor \notin Proc
      BY <1>4, <3>2 DEF EvictUnlock, ProcInv, At, K
    <3> QED BY <3>1, <3>2
  <2> QED BY <2>1, <2>2
<1> QED BY <1>1, <1>2, <1>3, <1>4 DEF Evict

(* Entering the cache, giving up, and opening the result. *)
LEMMA CallerStep ==
    ASSUME IInv, NEW p \in Proc,
           \/ \E k \in Key : Call(p, k)
           \/ Cancel(p) \/ OpenBlob(p) \/ BlobGone(p)
    PROVE  Core'
<1> USE DEF IInv, Core
<1>1. UNCHANGED <<memVars, diskVars, lockVars, histVars>>
  BY DEF Call, Cancel, OpenBlob, BlobGone
<1>2. MapInv' /\ DiskInv' /\ RestInv'
  BY <1>1 DEF memVars, diskVars, lockVars, histVars, MapInv, DiskInv, RestInv
<1>3. CASE \E k \in Key : Call(p, k)
  <2>1. PICK k \in Key : proc' = [proc EXCEPT ![p].pc = "lookup", ![p].key = k]
    BY <1>3 DEF Call
  <2> DEFINE l == [proc[p] EXCEPT !.pc = "lookup", !.key = k]
  <2>2. l \in Local /\ l.key \in Key /\ proc' = [proc EXCEPT ![p] = l]
    BY <2>1 DEF ProcInv, Local, Label
  <2> QED BY <1>2, <2>2, ProcStep
<1>4. CASE Cancel(p) \/ OpenBlob(p)
  BY <1>2, <1>4, ReturnStep DEF Cancel, OpenBlob
<1>5. CASE BlobGone(p)
  <2> DEFINE l == [proc[p] EXCEPT !.pc = "lookup", !.opens = 2]
  <2>1. l \in Local /\ l.key \in Key
    BY <1>5 DEF BlobGone, ProcInv, Local, Label, At, K
  <2>2. Return(p) \/ proc' = [proc EXCEPT ![p] = l]
    BY <1>5 DEF BlobGone, ProcInv
  <2> QED BY <1>2, <2>1, <2>2, ProcStep, ReturnStep
<1> QED BY <1>3, <1>4, <1>5

(* StoreFromPath *)
LEMMA StoreStep ==
    ASSUME IInv, NEW p \in Proc,
           StoreInstall(p) \/ \E k \in Key : StoreRename(p, k)
    PROVE  Core'
<1> USE DEF IInv, Core
<1>1. CASE StoreInstall(p)
  <2>1. K(p) \in Key
    BY <1>1 DEF StoreInstall, ProcInv, At
  <2>2. Size[K(p)] \in Nat
    BY <2>1, CacheAssumption
  <2>3. Freed(K(p)) \in Nat
    BY <2>1 DEF Freed, MapInv, Entry
  <2>4. MapInv'
    <3>1. /\ bumpLRU(lru, K(p)) \in Seq(Key) /\ NoDup(bumpLRU(lru, K(p)))
          /\ Elems(bumpLRU(lru, K(p))) = Elems(lru) \cup {K(p)}
      BY <2>1, BumpLRU DEF MapInv
    <3>2. /\ lru' = bumpLRU(lru, K(p)) /\ cached' = cached \cup {K(p)}
          /\ entry' = [entry EXCEPT ![K(p)] = ReadyEntry(Size[K(p)])]
          /\ curBytes' = (curBytes - Freed(K(p))) + Size[K(p)]
      BY <1>1 DEF StoreInstall
    <3>3. curBytes' \in Int
      BY <2>2, <2>3, <3>2 DEF MapInv
    <3> QED BY <2>1, <2>2, <3>1, <3>2, <3>3, EntryTypes DEF MapInv
  <2>5. DiskInv'
    BY <1>1, <2>1, EntryTypes DEF StoreInstall, DiskInv
  <2>6. ProcInv'
    BY <1>1, ReturnStep DEF StoreInstall
  <2>7. RestInv'
    BY <1>1 DEF StoreInstall, RestInv, histVars
  <2> QED BY <2>4, <2>5, <2>6, <2>7
<1>2. CASE \E k \in Key : StoreRename(p, k)
  <2>1. PICK k \in Key : StoreRename(p, k)
    BY <1>2
  <2> DEFINE l == [proc[p] EXCEPT !.pc = "install", !.key = k]
  <2>2. l \in Local /\ l.key \in Key /\ proc' = [proc EXCEPT ![p] = l]
    <3>1. proc' = [proc EXCEPT ![p].pc = "install", ![p].key = k]
      BY <2>1 DEF StoreRename
    <3> QED BY <3>1 DEF ProcInv, Local, Label
  <2>3. ProcInv'
    BY <2>2, ProcStep
  <2>4. DiskInv'
    BY <2>1, EntryTypes DEF StoreRename, DiskInv
  <2>5. MapInv' /\ RestInv'
    BY <2>1 DEF StoreRename, MapInv, RestInv, memVars, lockVars
  <2> QED BY <2>3, <2>4, <2>5
<1> QED BY <1>1, <1>2

(* A restart forgets the map and leaves the files. *)
LEMMA RestartStep == IInv /\ Restart => IInv'
<1> SUFFICES ASSUME IInv, Restart PROVE IInv'
  OBVIOUS
<1> USE DEF IInv, Core
<1>1. MapInv'
  BY EntryTypes, EmptySeq DEF Restart, MapInv, Elems, NoDup
<1>2. DiskInv'
  <2>1. ASSUME NEW f \in File PROVE [f EXCEPT !.writers = {}] \in File
    BY DEF File
  <2> QED BY <2>1 DEF Restart, DiskInv
<1>3. ProcInv'
  <2>1. Idle \in Local /\ Idle.pc = "idle"
    BY DEF Idle, Local, Label
  <2> QED BY <2>1 DEF Restart, ProcInv, At
<1>4. RestInv'
  <2>1. MaxRestarts \in Nat
    BY CacheAssumption
  <2> QED BY <2>1 DEF Restart, RestInv
<1>5. EvictorInv'
  BY CacheAssumption DEF Restart, EvictorInv
<1> QED BY <1>1, <1>2, <1>3, <1>4, <1>5

(* A step that is not taken changes nothing. *)
LEMMA StutterStep == IInv /\ UNCHANGED vars => IInv'
BY DEF IInv, Core, MapInv, DiskInv, ProcInv, RestInv, EvictorInv, At, K, vars,
       memVars, diskVars, lockVars, histVars

(* The goroutine in the eviction loop stays where the loop starts until it *)
(* leaves the loop: every other step moves a goroutine that is elsewhere.  *)
LEMMA EvictorKept ==
    ASSUME IInv, Next, ~Restart
    PROVE  EvictorInv'
<1> USE DEF IInv, Core
<1>1. ASSUME NEW p \in Proc, NEW k \in Key, Call(p, k) \/ StoreRename(p, k)
      PROVE  EvictorInv'
  <2>1. evictor' = evictor /\ At(p, "idle")
    BY <1>1 DEF Call, StoreRename, lockVars
  <2>2. \A q \in Proc : q # p => proc'[q] = proc[q]
    BY <1>1 DEF Call, StoreRename, ProcInv
  <2> QED BY <2>1, <2>2, EvictorStep DEF At
<1>2. ASSUME NEW p \in Proc, Run(p) \/ Cancel(p), ~EvictLock(p)
      PROVE  EvictorInv'
  <2>1. evictor' = evictor /\ ~At(p, "evict")
    BY <1>2 DEF Run, Lookup, Fetch, Cancel, Hit, Join, Claim, StatHit, Recheck,
        RemoveTmp, CreateTmp, CreateFails, Write, Retry, FetchOk, FetchFail,
        CloseTmp, StatTmp, RenameTmp, Discard, FinishErr, FinishOk, OpenBlob,
        BlobGone, StoreInstall, At, lockVars
  <2>2. \A q \in Proc \ {p} : At(q, "evict") => At(q, "evict")'
    <3>1. CASE FinishErr(p) \/ FinishOk(p)
      BY <3>1 DEF FinishErr, FinishOk, WakeWaiters, Return, Goto, At, ProcInv
    <3>2. CASE ~(FinishErr(p) \/ FinishOk(p))
      <4>1. \A q \in Proc \ {p} : proc'[q] = proc[q]
        BY <1>2, <3>2 DEF Run, Lookup, Fetch, Cancel, Hit, Join, Claim, StatHit,
            Recheck, RemoveTmp, CreateTmp, CreateFails, Write, Retry, FetchOk,
            FetchFail, CloseTmp, StatTmp, RenameTmp, Discard, OpenBlob, BlobGone,
            StoreInstall, Return, Goto, ProcInv
      <4> QED BY <4>1 DEF At
    <3> QED BY <3>1, <3>2
  <2> QED BY <2>1, <2>2, EvictorStep
<1>3. ASSUME NEW p \in Proc, EvictLock(p) PROVE EvictorInv'
  BY <1>3 DEF EvictLock, EvictorInv, At
<1>4. CASE Evict
  BY <1>4, CacheAssumption DEF Evict, EvictLockAsync, EvictPop, EvictUnlock,
      EvictorInv, At, lockVars
<1> QED BY <1>1, <1>2, <1>3, <1>4 DEF Next

(* Every step keeps the inductive invariant. *)
LEMMA IInvStep == IInv /\ [Next]_vars => IInv'
<1> SUFFICES ASSUME IInv, [Next]_vars PROVE IInv'
  OBVIOUS
<1>1. CASE Restart
  BY <1>1, RestartStep
<1>2. CASE UNCHANGED vars
  BY <1>2, StutterStep
<1>3. CASE Next /\ ~Restart
  <2>1. EvictorInv'
    BY <1>3, EvictorKept
  <2>2. ASSUME NEW p \in Proc, NEW k \in Key, Call(p, k) \/ StoreRename(p, k)
        PROVE  Core'
    BY <2>2, CallerStep, StoreStep
  <2>3. ASSUME NEW p \in Proc, Run(p) \/ Cancel(p) PROVE Core'
    <3>1. \/ Lookup(p) \/ StatHit(p) \/ Recheck(p)
          \/ RemoveTmp(p) \/ CreateTmp(p) \/ CreateFails(p) \/ Write(p)
          \/ Retry(p) \/ FetchOk(p) \/ FetchFail(p) \/ StatTmp(p)
          \/ RenameTmp(p) \/ Discard(p)
          \/ FinishErr(p) \/ FinishOk(p) \/ EvictLock(p)
          \/ Cancel(p) \/ OpenBlob(p) \/ BlobGone(p) \/ StoreInstall(p)
      BY <2>3 DEF Run, Fetch
    <3> QED BY <3>1, LookupStep, FetchDiskStep, FinishStep, EvictStep, CallerStep,
               StoreStep
  <2>4. CASE Evict
    BY <2>1, <2>4, EvictStep DEF IInv
  <2> QED BY <1>3, <2>1, <2>2, <2>3, <2>4 DEF Next, IInv
<1> QED BY <1>1, <1>2, <1>3

(* The inductive invariant of every execution. *)
LEMMA Inductive == Spec => []IInv
BY IInvInit, IInvStep, PTL DEF Spec

(* Every reachable state is well typed: no step stores an entry, a file or *)
(* a local variable of another kind, curBytes stays an integer, and no     *)
(* eviction goroutine runs that StoreFromPath has not started.             *)
THEOREM TypeCorrect == Spec => []TypeOK
BY Inductive, IInvMeaning, PTL

(* The eviction order and the map of the cache name the same keys, each    *)
(* once, however lookups, fetches, stores and evictions interleave.        *)
THEOREM EvictionOrder == Spec => []LruMatchesMap
BY Inductive, IInvMeaning, PTL

-----------------------------------------------------------------------------
(* The cap *)

(* A step that neither raises the count, nor adds a blob, nor takes away   *)
(* the last due eviction, keeps the cap.                                   *)
LEMMA CapKept ==
    ASSUME CapEnforced, curBytes \in Int, curBytes' \in Int, curBytes' <= curBytes,
           \A k \in Key : entry'[k].path => entry[k].path,
           EvictionDue => EvictionDue'
    PROVE  CapEnforced'
<1>1. MaxBytes \in Nat
  BY CacheAssumption
<1>2. curBytes' > MaxBytes => curBytes > MaxBytes
  BY <1>1
<1> QED BY <1>2 DEF CapEnforced

(* An eviction in progress makes the cap nobody else's concern. *)
LEMMA CapDue == EvictionDue' => CapEnforced'
BY DEF CapEnforced

(* An eviction stays due unless a goroutine at "evict" moves on. *)
LEMMA DueKept ==
    ASSUME ProcInv, NEW p \in Proc, ~At(p, "evict"), evictor' = evictor,
           spawned' = spawned,
           \A q \in Proc \ {p} : At(q, "evict") => At(q, "evict")'
    PROVE  EvictionDue => EvictionDue'
BY DEF EvictionDue, Unlocked, At

(* The steps of one goroutine keep the cap. *)
LEMMA CapRun ==
    ASSUME IInv, CapEnforced, NEW p \in Proc,
           \/ Run(p) \/ Cancel(p)
           \/ \E k \in Key : Call(p, k) \/ StoreRename(p, k)
    PROVE  CapEnforced'
<1> USE DEF IInv, Core
<1>1. CASE EvictLock(p)
  <2>1. evictor' # NoProc
    BY <1>1, CacheAssumption DEF EvictLock
  <2> QED BY <2>1, CapDue DEF EvictionDue, Unlocked
<1>2. CASE StoreInstall(p)
  <2>1. spawned' > 0
    BY <1>2 DEF StoreInstall, RestInv
  <2> QED BY <2>1, CapDue DEF EvictionDue
<1>3. CASE FinishOk(p)
  <2>1. proc'[p].pc = "evict"
    <3>1. [proc[p] EXCEPT !.pc = "evict"].pc = "evict"
      BY DEF ProcInv, Local
    <3>2. CASE K(p) \in cached
      BY <1>3, <3>1, <3>2 DEF FinishOk, WakeWaiters
    <3>3. CASE K(p) \notin cached
      BY <1>3, <3>3 DEF FinishOk, Goto, ProcInv, Local
    <3> QED BY <3>2, <3>3
  <2> QED BY <2>1, CapDue DEF EvictionDue, At
<1>4. CASE FinishErr(p)
  <2>1. curBytes' = curBytes /\ curBytes \in Int
    BY <1>4 DEF FinishErr, MapInv
  <2>2. ASSUME NEW k \in Key PROVE entry'[k].path => entry[k].path
    <3>1. entry[k] \in Entry
      BY DEF MapInv
    <3>2. entry'[k].path = entry[k].path
      BY <1>4, <3>1, SMTT(30) DEF FinishErr, MapInv, Entry
    <3> QED BY <3>2
  <2>3. /\ ~At(p, "evict") /\ evictor' = evictor /\ spawned' = spawned
        /\ \A q \in Proc \ {p} : At(q, "evict") => At(q, "evict")'
    BY <1>4 DEF FinishErr, WakeWaiters, Return, At, ProcInv, lockVars
  <2> QED BY <2>1, <2>2, <2>3, DueKept, CapKept
<1>5. CASE ~(EvictLock(p) \/ StoreInstall(p) \/ FinishOk(p) \/ FinishErr(p))
  <2>1. /\ ~At(p, "evict") /\ evictor' = evictor /\ spawned' = spawned
        /\ \A q \in Proc \ {p} : proc'[q] = proc[q]
    BY <1>5 DEF Run, Lookup, Fetch, Cancel, Hit, Join, Claim, StatHit, Recheck,
        RemoveTmp, CreateTmp, CreateFails, Write, Retry, FetchOk, FetchFail,
        CloseTmp, StatTmp, RenameTmp, Discard, OpenBlob, BlobGone, Call,
        StoreRename, Return, Goto, ProcInv, At, lockVars
  <2>2. EvictionDue => EvictionDue'
    BY <2>1, DueKept DEF At
  <2>3. CASE Recheck(p)
    <3>1. K(p) \in Key /\ proc[p].sz \in Nat
      BY <2>3 DEF Recheck, ProcInv, At, Local
    <3>2. curBytes \in Int /\ curBytes' \in Int /\ curBytes' <= curBytes
      BY <2>3, <3>1 DEF Recheck, MapInv, memVars
    <3>3. \A k \in Key : entry'[k].path => entry[k].path
      BY <2>3, <3>1 DEF Recheck, MapInv, memVars, NoEntry
    <3> QED BY <2>2, <3>2, <3>3, CapKept
  <2>4. CASE Join(p) \/ Claim(p)
    <3>1. K(p) \in Key
      BY <2>4 DEF Join, Claim, ProcInv, At
    <3>2. curBytes' = curBytes /\ curBytes \in Int
      BY <2>4 DEF Join, Claim, MapInv
    <3>3. \A k \in Key : entry'[k].path => entry[k].path
      <4>1. entry \in [Key -> Entry] /\ entry[K(p)] \in Entry
        BY <3>1 DEF MapInv
      <4>2. CASE Join(p)
        <5> DEFINE e == [entry[K(p)] EXCEPT !.waiters = entry[K(p)].waiters \cup {p}]
        <5>1. e.path = entry[K(p)].path
          BY <4>1 DEF Entry
        <5>2. entry' = [entry EXCEPT ![K(p)] = e]
          BY <4>2 DEF Join
        <5> QED BY <3>1, <4>1, <5>1, <5>2
      <4>3. CASE Claim(p)
        <5>1. FetchingEntry.path = FALSE
          BY DEF FetchingEntry, NoEntry
        <5>2. entry' = [entry EXCEPT ![K(p)] = FetchingEntry]
          BY <4>3 DEF Claim
        <5> QED BY <3>1, <4>1, <5>1, <5>2
      <4> QED BY <2>4, <4>2, <4>3
    <3> QED BY <2>2, <3>2, <3>3, CapKept
  <2>5. CASE ~(Recheck(p) \/ Join(p) \/ Claim(p))
    <3>1. entry' = entry /\ curBytes' = curBytes /\ curBytes \in Int
      BY <1>5, <2>5 DEF Run, Lookup, Fetch, Cancel, Hit, StatHit,
          RemoveTmp, CreateTmp, CreateFails, Write, Retry, FetchOk, FetchFail,
          CloseTmp, StatTmp, RenameTmp, Discard, OpenBlob, BlobGone, Call,
          StoreRename, memVars, MapInv
    <3> QED BY <2>2, <3>1, CapKept
  <2> QED BY <2>3, <2>4, <2>5
<1> QED BY <1>1, <1>2, <1>3, <1>4, <1>5

(* The loop ends only below the cap or with nothing left to evict. *)
LEMMA CapEvict ==
    ASSUME IInv, CapEnforced, Evict
    PROVE  CapEnforced'
<1> USE DEF IInv, Core
<1>1. CASE EvictLockAsync
  <2>1. evictor' # NoProc
    BY <1>1, CacheAssumption DEF EvictLockAsync
  <2> QED BY <2>1, CapDue DEF EvictionDue, Unlocked
<1>2. CASE EvictPop
  <2>1. evictor' # NoProc
    BY <1>2 DEF EvictPop, Unlocked, lockVars
  <2> QED BY <2>1, CapDue DEF EvictionDue, Unlocked
<1>3. CASE EvictUnlock
  <2>1. /\ curBytes' = curBytes /\ entry' = entry /\ curBytes \in Int
        /\ MaxBytes \in Nat
    BY <1>3, CacheAssumption DEF EvictUnlock, memVars, MapInv
  <2>2. CASE lru = <<>>
    <3>1. cached = {}
      BY <2>2 DEF MapInv, Elems
    <3>2. \A k \in Key : ~entry'[k].path
      BY <2>1, <3>1 DEF MapInv, NoEntry
    <3> QED BY <3>2 DEF CapEnforced
  <2>3. CASE ~(curBytes > MaxBytes)
    BY <2>1, <2>3 DEF CapEnforced
  <2> QED BY <1>3, <2>2, <2>3 DEF EvictUnlock, OverCap
<1> QED BY <1>1, <1>2, <1>3 DEF Evict

(* Whoever raises the count over the cap leaves an eviction behind, and no *)
(* eviction stops early: while none is due the count is within MaxBytes,   *)
(* or the map names no blob.                                               *)
THEOREM CapIsEnforced == Spec => []CapEnforced
<1>1. Init => CapEnforced
  BY DEF Init, CapEnforced, NoEntry
<1>2. ASSUME IInv, CapEnforced, [Next]_vars PROVE CapEnforced'
  <2>1. CASE UNCHANGED vars
    BY <1>2, <2>1 DEF CapEnforced, EvictionDue, Unlocked, At, vars, memVars, lockVars
  <2>2. CASE Restart
    BY <2>2 DEF Restart, CapEnforced, NoEntry
  <2>3. CASE \E p \in Proc, k \in Key : Call(p, k) \/ StoreRename(p, k)
    BY <1>2, <2>3, CapRun
  <2>4. CASE \E p \in Proc : Run(p) \/ Cancel(p)
    BY <1>2, <2>4, CapRun
  <2>5. CASE Evict
    BY <1>2, <2>5, CapEvict
  <2> QED BY <1>2, <2>1, <2>2, <2>3, <2>4, <2>5 DEF Next
<1> QED BY <1>1, <1>2, Inductive, PTL DEF Spec

-----------------------------------------------------------------------------
(* Fetches that are not dropped: KeepSpec *)

(* A goroutine that fetches has its entry in the map, marked as fetching.  *)
Owner == \A p \in Proc : Fetcher(p) => Fetching(K(p))

FetchInv == Owner /\ SingleFetcher

(* The temporary file of a fetch that is alone on it. *)
Partial(p) == [exists |-> TRUE, len |-> proc[p].off, data |-> 1..proc[p].off,
               writers |-> {p}]

TmpOf(p) ==
    /\ At(p, "create") => tmp[K(p)] = NoFile
    /\ At(p, "fetch") => tmp[K(p)] = Partial(p) /\ proc[p].off <= Size[K(p)]
    /\ proc[p].pc \in {"stattmp", "rename"} => tmp[K(p)] = WholeFile(K(p))

BlobInv ==
    /\ \A k \in Key : final[k] \in {NoFile, WholeFile(k)}
    /\ \A p \in Proc : TmpOf(p)
    /\ \A p \in Proc : ~At(p, "fetch") => proc[p].off = 0

(* No step of KeepSpec leaves Next. *)
LEMMA KeepInductive == KeepSpec => []IInv
<1>1. IInv /\ [Next /\ KeepsFetches]_vars => IInv'
  BY IInvStep
<1> QED BY IInvInit, <1>1, PTL DEF KeepSpec

(* A step that starts no fetch and drops no fetching entry. *)
LEMMA FetchQuiet ==
    ASSUME FetchInv,
           \A q \in Proc : Fetcher(q)' => Fetcher(q) /\ proc'[q].key = proc[q].key,
           \A k \in Key : Fetching(k) => Fetching(k)',
           \A q \in Proc : Fetcher(q) => K(q) \in Key
    PROVE  FetchInv'
BY DEF FetchInv, Owner, SingleFetcher, K, Fetching

(* A step in which p ends its fetch drops p's entry and no other. *)
LEMMA FetchEnds ==
    ASSUME FetchInv, NEW p \in Proc, Fetcher(p), ~Fetcher(p)',
           \A q \in Proc \ {p} :
               Fetcher(q)' => Fetcher(q) /\ proc'[q].key = proc[q].key,
           \A k \in Key \ {K(p)} : Fetching(k) => Fetching(k)',
           \A q \in Proc : Fetcher(q) => K(q) \in Key
    PROVE  FetchInv'
BY DEF FetchInv, Owner, SingleFetcher, K, Fetching

(* A goroutine's step keeps the fetches apart. *)
LEMMA FetchRun ==
    ASSUME IInv, FetchInv, KeepsFetches, restarts' = restarts, NEW p \in Proc,
           \/ Run(p) \/ Cancel(p)
           \/ \E k \in Key : Call(p, k) \/ StoreRename(p, k)
    PROVE  FetchInv'
<1> USE DEF IInv, Core
<1>0. \A q \in Proc : Fetcher(q) => K(q) \in Key
  BY DEF Fetcher, ProcInv, At
<1>1. CASE Claim(p)
  <2>1. K(p) \in Key /\ ~Fetching(K(p))
    BY <1>1 DEF Claim, ProcInv, At
  <2>2. /\ cached' = cached \cup {K(p)}
        /\ entry' = [entry EXCEPT ![K(p)] = FetchingEntry]
        /\ FetchingEntry.fetching
    BY <1>1 DEF Claim, FetchingEntry, NoEntry
  <2>3. Fetching(K(p))' /\ \A k \in Key : Fetching(k) => Fetching(k)'
    <3>1. proc'[p].key = K(p)
      BY <1>1 DEF Claim, Goto, ProcInv, Local, K
    <3> QED BY <2>1, <2>2, <3>1 DEF Fetching, MapInv, K
  <2>4. /\ \A q \in Proc \ {p} : proc'[q] = proc[q]
        /\ proc'[p].key = proc[p].key
    BY <1>1 DEF Claim, Goto, ProcInv, Local
  <2> QED BY <1>0, <2>1, <2>3, <2>4 DEF FetchInv, Owner, SingleFetcher, Fetcher, K, Fetching
<1>2. CASE FinishErr(p) \/ FinishOk(p)
  <2>1. Fetcher(p) /\ K(p) \in Key
    BY <1>0, <1>2 DEF FinishErr, FinishOk, Fetcher, At
  <2>2. proc'[p].pc \in {"idle", "evict"}
    <3>1. Idle.pc = "idle" /\ [proc[p] EXCEPT !.pc = "evict"].pc = "evict"
      BY DEF Idle, ProcInv, Local
    <3>2. CASE K(p) \in cached
      BY <1>2, <3>1, <3>2 DEF FinishErr, FinishOk, WakeWaiters
    <3>3. CASE K(p) \notin cached
      BY <1>2, <3>1, <3>3 DEF FinishErr, FinishOk, Return, Goto, ProcInv
    <3> QED BY <3>2, <3>3
  <2>3. ASSUME NEW q \in Proc \ {p}
        PROVE  Fetcher(q)' => Fetcher(q) /\ proc'[q].key = proc[q].key
    <3>1. [proc[q] EXCEPT !.pc = "lookup"].pc = "lookup"
      BY DEF ProcInv, Local
    <3>2. \/ proc'[q] = proc[q]
          \/ proc'[q] = [proc[q] EXCEPT !.pc = "lookup"]
      BY <1>2 DEF FinishErr, FinishOk, WakeWaiters, Return, Goto, ProcInv
    <3> QED BY <3>1, <3>2 DEF Fetcher
  <2>4. cached' = cached /\ \A k \in Key \ {K(p)} : entry'[k] = entry[k]
    BY <1>2 DEF FinishErr, FinishOk, MapInv
  <2>5. \A k \in Key \ {K(p)} : Fetching(k) => Fetching(k)'
    BY <2>4 DEF Fetching
  <2>6. ~Fetcher(p)'
    BY <2>2 DEF Fetcher
  <2> QED BY <1>0, <2>1, <2>3, <2>5, <2>6, FetchEnds
<1>3. CASE StoreInstall(p)
  <2>1. K(p) \in Key /\ ~Fetcher(p)
    BY <1>3 DEF StoreInstall, ProcInv, At, Fetcher
  <2>2. \A q \in Proc : Fetcher(q)' => Fetcher(q) /\ proc'[q].key = proc[q].key
    BY <1>3 DEF StoreInstall, Return, ProcInv, Fetcher, Idle
  <2>3. \A k \in Key : Fetching(k) => Fetching(k)'
    <3>1. SUFFICES ASSUME NEW k \in Key, Fetching(k), ~entry'[k].fetching
                   PROVE  FALSE
      BY <1>3 DEF StoreInstall, Fetching
    <3>2. PICK q \in Proc : proc[q].pc \in {"fail", "finish"} /\ proc'[q].pc # proc[q].pc
      BY <3>1 DEF KeepsFetches, Fetching
    <3>3. q # p
      BY <1>3, <3>2 DEF StoreInstall, At
    <3> QED BY <1>3, <3>2, <3>3 DEF StoreInstall, Return, ProcInv
  <2> QED BY <1>0, <2>2, <2>3, FetchQuiet
<1>4. CASE ~(Claim(p) \/ FinishErr(p) \/ FinishOk(p) \/ StoreInstall(p))
  <2>1. /\ \A q \in Proc \ {p} : proc'[q] = proc[q]
        /\ Fetcher(p)' => Fetcher(p) /\ proc'[p].key = proc[p].key
    <3>1. \A q \in Proc \ {p} : proc'[q] = proc[q]
      BY <1>4 DEF Run, Lookup, Fetch, Cancel, Hit, Join, StatHit, Recheck,
        RemoveTmp, CreateTmp, CreateFails, Write, Retry, FetchOk, FetchFail,
        CloseTmp, StatTmp, RenameTmp, Discard, EvictLock, OpenBlob, BlobGone, Call,
        StoreRename, Return, Goto, ProcInv
    <3>2. CASE \/ RemoveTmp(p) \/ CreateTmp(p) \/ CreateFails(p) \/ StatTmp(p)
               \/ RenameTmp(p) \/ Discard(p)
      BY <3>2 DEF RemoveTmp, CreateTmp, CreateFails, StatTmp, RenameTmp, Discard,
        Goto, At, Fetcher, ProcInv, Local
    <3>3. CASE Write(p) \/ Retry(p) \/ FetchOk(p) \/ FetchFail(p)
      BY <3>3 DEF Write, Retry, FetchOk, FetchFail, CloseTmp, At, Fetcher, ProcInv, Local
    <3>4. CASE Hit(p) \/ Join(p) \/ StatHit(p) \/ Recheck(p) \/ EvictLock(p)
      BY <3>4 DEF Hit, Join, StatHit, Recheck, EvictLock, Goto, At, Fetcher,
        ProcInv, Local
    <3>5. CASE \/ Cancel(p) \/ OpenBlob(p) \/ BlobGone(p)
               \/ \E k \in Key : Call(p, k) \/ StoreRename(p, k)
      BY <3>5 DEF Cancel, OpenBlob, BlobGone, Call, StoreRename, Return, Idle, At,
        Fetcher, ProcInv, Local
    <3> QED BY <1>4, <3>1, <3>2, <3>3, <3>4, <3>5 DEF Run, Lookup, Fetch
  <2>2. \A k \in Key : Fetching(k) => Fetching(k)'
    <3>1. CASE Recheck(p)
      BY <3>1 DEF Recheck, StillTheHit, Ready, Fetching, MapInv, memVars
    <3>2. CASE Join(p)
      <4>1. cached' = cached /\ entry' = [entry EXCEPT ![K(p)].waiters = @ \cup {p}]
        BY <3>2 DEF Join
      <4>2. \A k \in Key : entry'[k].fetching = entry[k].fetching
        BY <4>1 DEF MapInv, Entry
      <4> QED BY <4>1, <4>2 DEF Fetching
    <3>3. CASE ~(Recheck(p) \/ Join(p))
      <4>1. entry' = entry /\ cached' = cached
        BY <1>4, <3>3 DEF Run, Lookup, Fetch, Cancel, Hit, StatHit,
          RemoveTmp, CreateTmp, CreateFails, Write, Retry, FetchOk, FetchFail,
          CloseTmp, StatTmp, RenameTmp, Discard, EvictLock, OpenBlob, BlobGone, Call,
          StoreRename, memVars
      <4> QED BY <4>1 DEF Fetching
    <3> QED BY <3>1, <3>2, <3>3
  <2>3. \A q \in Proc : Fetcher(q)' => Fetcher(q) /\ proc'[q].key = proc[q].key
    BY <2>1 DEF Fetcher
  <2> QED BY <1>0, <2>2, <2>3, FetchQuiet
<1> QED BY <1>1, <1>2, <1>3, <1>4

(* So does the eviction loop, when it reaches no fetching entry. *)
LEMMA FetchEvict ==
    ASSUME IInv, FetchInv, KeepsFetches, Evict
    PROVE  FetchInv'
<1> USE DEF IInv, Core
<1>0. \A q \in Proc : Fetcher(q) => K(q) \in Key
  BY DEF Fetcher, ProcInv, At
<1>1. CASE EvictPop
  <2>1. proc' = proc /\ restarts' = restarts
    BY <1>1 DEF EvictPop, histVars
  <2>2. \A k \in Key : entry[k].fetching => entry'[k].fetching
    BY <2>1 DEF KeepsFetches
  <2>3. ASSUME NEW k \in Key, Fetching(k) PROVE Fetching(k)'
    <3>1. entry'[k].fetching
      BY <2>2, <2>3 DEF Fetching
    <3>2. k # Last(lru)
      BY <1>1, <3>1 DEF EvictPop, NoEntry, MapInv
    <3> QED BY <1>1, <2>3, <3>1, <3>2 DEF EvictPop, Fetching
  <2> QED BY <1>0, <2>1, <2>3, FetchQuiet DEF Fetcher
<1>2. CASE EvictLockAsync \/ EvictUnlock
  <2>1. \A k \in Key : Fetching(k) => Fetching(k)'
    BY <1>2 DEF EvictLockAsync, EvictUnlock, memVars, Fetching
  <2>2. \A q \in Proc : Fetcher(q)' => Fetcher(q) /\ proc'[q].key = proc[q].key
    BY <1>2 DEF EvictLockAsync, EvictUnlock, Goto, Fetcher, ProcInv, Local
  <2> QED BY <1>0, <2>1, <2>2, FetchQuiet
<1> QED BY <1>1, <1>2 DEF Evict

(* Ownership and mutual exclusion of fetches are inductive together. *)
LEMMA FetchStep ==
    ASSUME IInv, FetchInv, [Next /\ KeepsFetches]_vars
    PROVE  FetchInv'
<1>1. CASE UNCHANGED vars
  BY <1>1 DEF FetchInv, Owner, SingleFetcher, Fetcher, Fetching, K, vars, memVars
<1>2. CASE Restart
  BY <1>2 DEF Restart, FetchInv, Owner, SingleFetcher, Fetcher, Idle
<1>3. ASSUME NEW p \in Proc, KeepsFetches,
             \/ Run(p) \/ Cancel(p)
             \/ \E k \in Key : Call(p, k) \/ StoreRename(p, k)
      PROVE  FetchInv'
  <2>1. restarts' = restarts
    BY <1>3 DEF Run, Lookup, Fetch, Cancel, Hit, Join, Claim, StatHit, Recheck,
        RemoveTmp, CreateTmp, CreateFails, Write, Retry, FetchOk, FetchFail,
        CloseTmp, StatTmp, RenameTmp, Discard, FinishErr, FinishOk, EvictLock,
        OpenBlob, BlobGone, StoreInstall, Call, StoreRename, histVars
  <2> QED BY <1>3, <2>1, FetchRun
<1>4. CASE Evict /\ KeepsFetches
  BY <1>4, FetchEvict
<1> QED BY <1>1, <1>2, <1>3, <1>4 DEF Next

(* As long as no fetching entry is dropped, at most one goroutine fetches  *)
(* a key: the serialisation README.md:13 claims, and with it the exclusive *)
(* use of the key's temporary file.                                        *)
THEOREM FetchesSerialized == KeepSpec => []SingleFetcher
<1>1. Init => FetchInv
  BY DEF Init, FetchInv, Owner, SingleFetcher, Fetcher, Idle
<1>2. IInv /\ FetchInv /\ [Next /\ KeepsFetches]_vars => FetchInv'
  BY FetchStep
<1>3. FetchInv => SingleFetcher
  BY DEF FetchInv
<1> QED BY <1>1, <1>2, <1>3, KeepInductive, PTL DEF KeepSpec

(* A step that touches no temporary file and moves no goroutine towards a  *)
(* state that claims something about one.                                  *)
LEMMA TmpQuiet ==
    ASSUME BlobInv, tmp' = tmp, NEW q \in Proc,
           \/ proc'[q] = proc[q]
           \/ /\ proc'[q].pc \notin {"create", "fetch", "stattmp", "rename"}
              /\ proc'[q].off = 0
    PROVE  TmpOf(q)' /\ (~At(q, "fetch") => proc[q].off = 0)'
BY DEF BlobInv, TmpOf, At, K, Partial

(* A fetch step of p leaves the files of the other fetches alone. *)
LEMMA TmpOthers ==
    ASSUME IInv, FetchInv, BlobInv, NEW p \in Proc, Fetcher(p),
           \A k \in Key \ {K(p)} : tmp'[k] = tmp[k],
           NEW q \in Proc \ {p}, proc'[q] = proc[q]
    PROVE  TmpOf(q)' /\ (~At(q, "fetch") => proc[q].off = 0)'
<1>1. CASE proc[q].pc \in {"create", "fetch", "stattmp", "rename"}
  <2>1. Fetcher(q) /\ K(q) \in Key
    BY <1>1 DEF Fetcher, IInv, Core, ProcInv, At
  <2>2. K(q) # K(p)
    BY <2>1 DEF FetchInv, SingleFetcher
  <2> QED BY <2>1, <2>2 DEF BlobInv, TmpOf, At, K, Partial
<1>2. CASE proc[q].pc \notin {"create", "fetch", "stattmp", "rename"}
  BY <1>2 DEF BlobInv, TmpOf, At, K, Partial
<1> QED BY <1>1, <1>2

(* Updates of a file, field by field. *)
LEMMA FileUpdate ==
    ASSUME NEW f \in File, NEW n \in Nat, NEW d \in SUBSET Nat, NEW w \in SUBSET Proc
    PROVE  /\ [f EXCEPT !.writers = w] =
                 [exists |-> f.exists, len |-> f.len, data |-> f.data, writers |-> w]
           /\ [f EXCEPT !.len = n, !.data = d] =
                 [exists |-> f.exists, len |-> n, data |-> d, writers |-> f.writers]
<1> DEFINE g1 == [f EXCEPT !.writers = w]
           h1 == [exists |-> f.exists, len |-> f.len, data |-> f.data, writers |-> w]
           g2 == [f EXCEPT !.len = n, !.data = d]
           h2 == [exists |-> f.exists, len |-> n, data |-> d, writers |-> f.writers]
<1>1. g1 \in File /\ h1 \in File /\ g2 \in File /\ h2 \in File
  BY DEF File
<1>2. /\ g1.exists = h1.exists /\ g1.len = h1.len
      /\ g1.data = h1.data /\ g1.writers = h1.writers
      /\ g2.exists = h2.exists /\ g2.len = h2.len
      /\ g2.data = h2.data /\ g2.writers = h2.writers
  BY DEF File
<1> HIDE DEF g1, h1, g2, h2
<1>3. g1 = h1 /\ g2 = h2
  BY <1>1, <1>2 DEF File
<1> QED BY <1>3 DEF g1, h1, g2, h2

(* The steps of a fetch on the disk keep every published blob whole. *)
LEMMA BlobFetch ==
    ASSUME IInv, FetchInv, BlobInv, NEW p \in Proc,
           \/ RemoveTmp(p) \/ CreateTmp(p) \/ CreateFails(p) \/ Write(p)
           \/ Retry(p) \/ FetchOk(p) \/ FetchFail(p) \/ StatTmp(p)
           \/ RenameTmp(p) \/ Discard(p)
    PROVE  BlobInv'
<1> USE DEF IInv, Core
<1> DEFINE k == K(p)
<1>1. /\ Fetcher(p) /\ k \in Key /\ proc[p] \in Local /\ tmp[k] \in File
      /\ final[k] \in {NoFile, WholeFile(k)} /\ Size[k] \in Nat
  BY CacheAssumption DEF Fetcher, ProcInv, DiskInv, BlobInv, At, RemoveTmp, CreateTmp,
     CreateFails, Write, Retry, FetchOk, FetchFail, StatTmp, RenameTmp, Discard
<1>2. \A q \in Proc \ {p} : proc'[q] = proc[q]
  BY DEF RemoveTmp, CreateTmp, CreateFails, Write, Retry, FetchOk, FetchFail,
     CloseTmp, StatTmp, RenameTmp, Discard, Goto, ProcInv
<1>3. \A j \in Key \ {k} : tmp'[j] = tmp[j] /\ final'[j] = final[j]
  BY DEF RemoveTmp, CreateTmp, CreateFails, Write, Retry, FetchOk, FetchFail, OwnFile,
     CloseTmp, StatTmp, RenameTmp, Discard, Goto, DiskInv, diskVars
<1>4. ASSUME NEW q \in Proc \ {p}
      PROVE  TmpOf(q)' /\ (~At(q, "fetch") => proc[q].off = 0)'
  BY <1>1, <1>2, <1>3, TmpOthers
<1>5. p \notin final[k].writers /\ final[k] \in File
  BY <1>1 DEF NoFile, WholeFile, DiskInv
<1>6. SUFFICES /\ final'[k] \in {NoFile, WholeFile(k)}
               /\ TmpOf(p)' /\ (~At(p, "fetch") => proc[p].off = 0)'
  BY <1>3, <1>4 DEF BlobInv
<1>7. CASE RemoveTmp(p) \/ Discard(p)
  <2>1. tmp'[k] = NoFile /\ final' = final
    BY <1>1, <1>7 DEF RemoveTmp, Discard, DiskInv
  <2>2. /\ proc'[p].pc \in {"create", "fail"} /\ proc'[p].key = k
        /\ proc'[p].off = proc[p].off /\ ~At(p, "fetch")
    BY <1>1, <1>7 DEF RemoveTmp, Discard, Goto, ProcInv, Local, At, K
  <2> QED BY <1>1, <2>1, <2>2 DEF TmpOf, BlobInv, At, K, Partial
<1>8. CASE CreateTmp(p)
  <2>1. tmp[k] = NoFile /\ proc[p].off = 0
    BY <1>8 DEF CreateTmp, BlobInv, TmpOf, At
  <2>2. /\ tmp'[k] = [exists |-> TRUE, len |-> 0, data |-> {}, writers |-> {p}]
        /\ final' = final
    BY <1>1, <1>8, <2>1 DEF CreateTmp, DiskInv, NoFile
  <2>3. proc'[p].pc = "fetch" /\ proc'[p].key = k /\ proc'[p].off = 0
    BY <1>1, <1>8, <2>1 DEF CreateTmp, Goto, ProcInv, Local, K
  <2> QED BY <1>1, <2>2, <2>3 DEF TmpOf, At, K, Partial
<1>9. CASE CreateFails(p) \/ StatTmp(p)
  <2>1. tmp' = tmp /\ final' = final
    BY <1>9 DEF CreateFails, StatTmp, diskVars
  <2>2. /\ proc'[p].pc \in {"fail", "rename", "discard"} /\ proc'[p].key = k
        /\ proc'[p].off = proc[p].off /\ ~At(p, "fetch")
        /\ proc'[p].pc = "rename" => At(p, "stattmp")
    BY <1>1, <1>9 DEF CreateFails, StatTmp, Goto, ProcInv, Local, At, K
  <2> QED BY <1>1, <2>1, <2>2 DEF TmpOf, BlobInv, At, K, Partial
<1>10. CASE Write(p)
  <2> DEFINE n == proc[p].off + 1
  <2>1. /\ tmp[k] = Partial(p) /\ proc[p].off \in Nat /\ n <= Size[k]
    BY <1>1, <1>10 DEF Write, BlobInv, TmpOf, At, Local
  <2>2. final' = final
    BY <1>5, <1>10 DEF Write, OwnFile, DiskInv
  <2>3. tmp'[k] = [exists |-> TRUE, len |-> n, data |-> (1..proc[p].off) \cup {n},
                   writers |-> {p}]
    <3>1. p \in tmp[k].writers /\ ~(tmp[k].len > n)
      BY <2>1 DEF Partial
    <3> DEFINE d == tmp[k].data \cup {n}
    <3>2. /\ tmp'[k] = [tmp[k] EXCEPT !.len = n, !.data = d]
          /\ n \in Nat /\ d \in SUBSET Nat
      BY <1>1, <1>10, <2>1, <3>1 DEF Write, OwnFile, DiskInv, File
    <3>3. tmp'[k] = [exists |-> tmp[k].exists, len |-> n, data |-> d,
                     writers |-> tmp[k].writers]
      <4>1. tmp[k] \in File
        BY <1>1 DEF DiskInv
      <4> QED BY <3>2, <4>1, FileUpdate
    <3> QED BY <2>1, <3>3 DEF Partial
  <2>4. (1..proc[p].off) \cup {n} = 1..n
    BY <2>1
  <2>5. proc'[p].pc = "fetch" /\ proc'[p].key = k /\ proc'[p].off = n
    BY <1>1, <1>10 DEF Write, ProcInv, Local, At, K
  <2> QED BY <1>1, <2>1, <2>2, <2>3, <2>4, <2>5 DEF TmpOf, At, K, Partial
<1>11. CASE Retry(p)
  <2>1. tmp[k] = Partial(p)
    BY <1>11 DEF Retry, BlobInv, TmpOf, At
  <2>2. final' = final
    BY <1>5, <1>11 DEF Retry, OwnFile, DiskInv
  <2>3. tmp'[k] = [exists |-> TRUE, len |-> 0, data |-> {}, writers |-> {p}]
    <3>1. p \in tmp[k].writers
      BY <2>1 DEF Partial
    <3>2. tmp'[k] = [tmp[k] EXCEPT !.len = 0, !.data = {}]
      BY <1>1, <1>11, <3>1 DEF Retry, OwnFile, DiskInv
    <3>3. tmp'[k] = [exists |-> tmp[k].exists, len |-> 0, data |-> {},
                     writers |-> tmp[k].writers]
      BY <1>1, <3>2, FileUpdate
    <3> QED BY <2>1, <3>3 DEF Partial
  <2>4. proc'[p].pc = "fetch" /\ proc'[p].key = k /\ proc'[p].off = 0
    BY <1>1, <1>11 DEF Retry, ProcInv, Local, At, K
  <2> QED BY <1>1, <2>2, <2>3, <2>4 DEF TmpOf, At, K, Partial
<1>12. CASE FetchOk(p) \/ FetchFail(p)
  <2>1. tmp[k] = Partial(p)
    BY <1>12 DEF FetchOk, FetchFail, BlobInv, TmpOf, At
  <2>2. final' = final
    BY <1>5, <1>12 DEF FetchOk, FetchFail, CloseTmp, OwnFile, DiskInv
  <2>3. tmp'[k] = [exists |-> TRUE, len |-> proc[p].off, data |-> 1..proc[p].off,
                   writers |-> {}]
    <3>1. p \in tmp[k].writers /\ tmp[k].writers \ {p} = {}
      BY <2>1 DEF Partial
    <3>2. tmp'[k] = [tmp[k] EXCEPT !.writers = {}]
      BY <1>1, <1>12, <3>1 DEF FetchOk, FetchFail, CloseTmp, OwnFile, DiskInv
    <3>3. tmp'[k] = [exists |-> tmp[k].exists, len |-> tmp[k].len,
                     data |-> tmp[k].data, writers |-> {}]
      BY <1>1, <3>2, FileUpdate
    <3> QED BY <2>1, <3>3 DEF Partial
  <2>4. /\ proc'[p].pc \in {"stattmp", "discard"} /\ proc'[p].key = k
        /\ proc'[p].off = 0
        /\ proc'[p].pc = "stattmp" => proc[p].off = Size[k]
    BY <1>1, <1>12 DEF FetchOk, FetchFail, CloseTmp, ProcInv, Local, At, K
  <2> QED BY <1>1, <2>2, <2>3, <2>4 DEF TmpOf, At, K, WholeFile
<1>13. CASE RenameTmp(p)
  <2>1. tmp[k] = WholeFile(k) /\ proc[p].off = 0
    BY <1>13 DEF RenameTmp, BlobInv, TmpOf, At
  <2>2. final'[k] = WholeFile(k)
    BY <1>1, <1>13, <2>1 DEF RenameTmp, DiskInv, WholeFile
  <2>3. proc'[p].pc \in {"finish", "discard"} /\ proc'[p].off = 0
    BY <1>1, <1>13, <2>1 DEF RenameTmp, Goto, ProcInv, Local
  <2> QED BY <2>2, <2>3 DEF TmpOf, At
<1> QED BY <1>7, <1>8, <1>9, <1>10, <1>11, <1>12, <1>13

(* Every other step leaves the temporary files alone and publishes nothing *)
(* but a whole upload.                                                     *)
LEMMA BlobOther ==
    ASSUME IInv, BlobInv, Next,
           ~ \E p \in Proc :
               \/ RemoveTmp(p) \/ CreateTmp(p) \/ CreateFails(p) \/ Write(p)
               \/ Retry(p) \/ FetchOk(p) \/ FetchFail(p) \/ StatTmp(p)
               \/ RenameTmp(p) \/ Discard(p)
    PROVE  BlobInv'
<1> USE DEF IInv, Core
<1>1. CASE Restart
  <2>1. \A p \in Proc : proc'[p] = Idle
    BY <1>1 DEF Restart
  <2>2. \A p \in Proc : TmpOf(p)' /\ (~At(p, "fetch") => proc[p].off = 0)'
    BY <2>1 DEF TmpOf, At, Idle
  <2>3. ASSUME NEW k \in Key PROVE final'[k] \in {NoFile, WholeFile(k)}
    <3>1. final'[k] = [final[k] EXCEPT !.writers = {}]
      BY <1>1 DEF Restart
    <3>2. ASSUME NEW f \in File, f.writers = {}
          PROVE  [f EXCEPT !.writers = {}] = f
      <4> DEFINE g == [f EXCEPT !.writers = {}]
      <4>1. /\ g \in File /\ g.exists = f.exists /\ g.len = f.len
            /\ g.data = f.data /\ g.writers = f.writers
        BY <3>2 DEF File
      <4> HIDE DEF g
      <4>2. g = f
        BY <4>1 DEF File
      <4> QED BY <4>2 DEF g
    <3>3. final[k] \in File /\ final[k].writers = {}
      BY DEF BlobInv, DiskInv, NoFile, WholeFile
    <3> QED BY <3>1, <3>2, <3>3 DEF BlobInv
  <2> QED BY <2>2, <2>3 DEF BlobInv
<1>2. CASE Evict
  <2>1. tmp' = tmp
    BY <1>2 DEF Evict, EvictLockAsync, EvictPop, EvictUnlock, diskVars
  <2>2. \A k \in Key : final'[k] \in {final[k], NoFile}
    BY <1>2 DEF Evict, EvictLockAsync, EvictPop, EvictUnlock, diskVars, DiskInv
  <2>3. ASSUME NEW q \in Proc
        PROVE  \/ proc'[q] = proc[q]
               \/ proc'[q].pc = "open" /\ proc'[q].off = 0
    <3>1. CASE EvictUnlock /\ q = evictor
      <4>1. At(q, "evict") /\ proc[q] \in Local
        BY <3>1 DEF EvictorInv, ProcInv
      <4>2. proc[q].off = 0
        BY <4>1 DEF BlobInv, At
      <4> QED BY <3>1, <4>1, <4>2 DEF EvictUnlock, Goto, ProcInv, Local
    <3>2. CASE ~(EvictUnlock /\ q = evictor)
      BY <1>2, <3>2 DEF Evict, EvictLockAsync, EvictPop, EvictUnlock, Goto, ProcInv
    <3> QED BY <3>1, <3>2
  <2>4. \A q \in Proc : TmpOf(q)' /\ (~At(q, "fetch") => proc[q].off = 0)'
    BY <2>1, <2>3, TmpQuiet
  <2> QED BY <2>2, <2>4 DEF BlobInv
<1>3. ASSUME NEW p \in Proc,
             \/ Lookup(p) \/ StatHit(p) \/ Recheck(p) \/ FinishErr(p)
             \/ FinishOk(p) \/ EvictLock(p) \/ OpenBlob(p) \/ BlobGone(p)
             \/ StoreInstall(p) \/ Cancel(p)
             \/ \E k \in Key : Call(p, k) \/ StoreRename(p, k)
      PROVE  BlobInv'
  <2>1. tmp' = tmp
    BY <1>3 DEF Lookup, Hit, Join, Claim, StatHit, Recheck, FinishErr, FinishOk,
       EvictLock, OpenBlob, BlobGone, StoreInstall, Cancel, Call, StoreRename, diskVars
  <2>2. \A k \in Key : final'[k] \in {final[k], NoFile, WholeFile(k)}
    BY <1>3 DEF Lookup, Hit, Join, Claim, StatHit, Recheck, FinishErr, FinishOk,
       EvictLock, OpenBlob, BlobGone, StoreInstall, Cancel, Call, StoreRename,
       diskVars, DiskInv
  <2>3. ~At(p, "fetch") /\ proc[p].off = 0 /\ proc[p] \in Local
    <3>1. ~At(p, "fetch")
      BY <1>3 DEF Lookup, Hit, Join, Claim, StatHit, Recheck, FinishErr, FinishOk,
         EvictLock, OpenBlob, BlobGone, StoreInstall, Cancel, Call, StoreRename, At
    <3> QED BY <3>1 DEF BlobInv, ProcInv
  <2>4. ASSUME NEW q \in Proc
        PROVE  \/ proc'[q] = proc[q]
               \/ /\ proc'[q].pc \notin {"create", "fetch", "stattmp", "rename"}
                  /\ proc'[q].off = 0
    <3>1. CASE FinishErr(p) \/ FinishOk(p)
      <4>1. Idle.pc = "idle" /\ Idle.off = 0
        BY DEF Idle
      <4>2. /\ [proc[p] EXCEPT !.pc = "evict"].pc = "evict"
            /\ [proc[p] EXCEPT !.pc = "evict"].off = 0
        BY <2>3 DEF Local
      <4>3. CASE q = p
        BY <3>1, <4>1, <4>2, <4>3 DEF FinishErr, FinishOk, WakeWaiters, Return, Goto,
           ProcInv
      <4>4. CASE q # p
        <5>1. \/ proc'[q] = proc[q]
              \/ At(q, "wait") /\ proc'[q] = [proc[q] EXCEPT !.pc = "lookup"]
          BY <3>1, <4>4 DEF FinishErr, FinishOk, WakeWaiters, Return, Goto, ProcInv
        <5>2. At(q, "wait") => proc[q].off = 0
          BY DEF BlobInv, At
        <5>3. /\ [proc[q] EXCEPT !.pc = "lookup"].pc = "lookup"
              /\ [proc[q] EXCEPT !.pc = "lookup"].off = proc[q].off
          BY DEF ProcInv, Local
        <5> QED BY <5>1, <5>2, <5>3
      <4> QED BY <4>3, <4>4
    <3>2. CASE Lookup(p) \/ StatHit(p) \/ Recheck(p) \/ EvictLock(p)
      BY <2>3, <3>2 DEF Lookup, Hit, Join, Claim, StatHit, Recheck, EvictLock, Goto,
         ProcInv, Local
    <3>3. CASE \/ OpenBlob(p) \/ BlobGone(p) \/ StoreInstall(p) \/ Cancel(p)
               \/ \E k \in Key : Call(p, k) \/ StoreRename(p, k)
      BY <2>3, <3>3 DEF OpenBlob, BlobGone, StoreInstall, Cancel, Call, StoreRename,
         Return, Idle, ProcInv, Local
    <3> QED BY <1>3, <3>1, <3>2, <3>3
  <2>5. \A q \in Proc : TmpOf(q)' /\ (~At(q, "fetch") => proc[q].off = 0)'
    BY <2>1, <2>4, TmpQuiet
  <2> QED BY <2>2, <2>5 DEF BlobInv
<1> QED BY <1>1, <1>2, <1>3 DEF Next, Run, Fetch

(* As long as no fetching entry is dropped, what lies under a final name   *)
(* is the whole payload: no crash, retry, failed fetch or concurrent open  *)
(* publishes a prefix or a file with a hole.                               *)
THEOREM BlobsWhole == KeepSpec => []OnlyWholeBlobs
<1>1. Init => FetchInv /\ BlobInv
  BY DEF Init, FetchInv, Owner, SingleFetcher, Fetcher, Idle, BlobInv, TmpOf, At
<1>2. ASSUME IInv, FetchInv, BlobInv, [Next /\ KeepsFetches]_vars
      PROVE  FetchInv' /\ BlobInv'
  <2>1. FetchInv'
    BY <1>2, FetchStep
  <2>2. CASE UNCHANGED vars
    BY <1>2, <2>1, <2>2 DEF BlobInv, TmpOf, At, K, Partial, vars, diskVars
  <2>3. CASE Next
    BY <1>2, <2>1, <2>3, BlobFetch, BlobOther
  <2> QED BY <1>2, <2>2, <2>3
<1>3. BlobInv => OnlyWholeBlobs
  BY DEF BlobInv, OnlyWholeBlobs, NoFile
<1> QED BY <1>1, <1>2, <1>3, KeepInductive, PTL DEF KeepSpec

-----------------------------------------------------------------------------
(* The count: curBytes against the sizes of the entries *)

\* What an entry contributes to TrackedBytes.
Bytes(e) == IF e.path THEN e.size ELSE 0

\* The chunks an entry of key k contributes.
Blob(k, e) == IF e.path THEN {k} \X (1..e.size) ELSE {}

CountInv == IsFiniteSet(Chunks(entry)) /\ curBytes >= TrackedBytes

(* A blob of n chunks counts n. *)
LEMMA BlobCount ==
    ASSUME NEW k \in Key, NEW e \in Entry
    PROVE  IsFiniteSet(Blob(k, e)) /\ Cardinality(Blob(k, e)) = Bytes(e)
<1>1. CASE e.path
  <2>1. e.size \in Nat
    BY DEF Entry
  <2>2. IsFiniteSet({k}) /\ Cardinality({k}) = 1
    BY FS_Singleton
  <2>3. IsFiniteSet(1..e.size) /\ Cardinality(1..e.size) = e.size
    <3>1. \A n \in Nat : IsFiniteSet(1..n) /\ Cardinality(1..n) = n
      <4> TAKE n \in Nat
      <4>1. /\ IsFiniteSet(1..n)
            /\ Cardinality(1..n) = IF 1 > n THEN 0 ELSE n - 1 + 1
        BY FS_Interval
      <4>2. (IF 1 > n THEN 0 ELSE n - 1 + 1) = n
        OBVIOUS
      <4> QED BY <4>1, <4>2
    <3> QED BY <2>1, <3>1
  <2>4. /\ IsFiniteSet({k} \X (1..e.size))
        /\ Cardinality({k} \X (1..e.size)) = 1 * e.size
    BY <2>2, <2>3, FS_Product
  <2> QED BY <1>1, <2>1, <2>4 DEF Blob, Bytes
<1>2. CASE ~e.path
  BY <1>2, FS_EmptySet DEF Blob, Bytes
<1> QED BY <1>1, <1>2

(* Replacing one entry changes the count by what the two entries occupy. *)
LEMMA CountUpdate ==
    ASSUME NEW e \in [Key -> Entry], IsFiniteSet(Chunks(e)),
           NEW k \in Key, NEW v \in Entry,
           NEW f, f = [e EXCEPT ![k] = v]
    PROVE  /\ IsFiniteSet(Chunks(f)) /\ Cardinality(Chunks(e)) \in Nat
           /\ Cardinality(Chunks(f)) =
                (Cardinality(Chunks(e)) - Bytes(e[k])) + Bytes(v)
<1> DEFINE old == Blob(k, e[k])
           new == Blob(k, v)
           rest == Chunks(e) \ old
<1>1. /\ IsFiniteSet(old) /\ Cardinality(old) = Bytes(e[k])
      /\ IsFiniteSet(new) /\ Cardinality(new) = Bytes(v)
  BY BlobCount
<1>2. \A x : x \in Chunks(e) <=>
              \E j \in Key : e[j].path /\ x \in {j} \X (1..e[j].size)
  BY DEF Chunks
<1>3. \A x : x \in Chunks(f) <=>
              \E j \in Key : f[j].path /\ x \in {j} \X (1..f[j].size)
  BY DEF Chunks
<1>4. old \subseteq Chunks(e)
  BY <1>2 DEF Blob
<1>5. \A x : x \in rest <=>
              \E j \in Key \ {k} : e[j].path /\ x \in {j} \X (1..e[j].size)
  BY <1>2 DEF Blob
<1>6. Chunks(f) = rest \cup new
  BY <1>3, <1>5 DEF Blob
<1>7. rest \cap new = {}
  BY <1>5 DEF Blob
<1> HIDE DEF old, new
<1>8. /\ IsFiniteSet(rest) /\ old \cap Chunks(e) = old
      /\ Cardinality(rest) = Cardinality(Chunks(e)) - Cardinality(old)
      /\ Cardinality(Chunks(e)) \in Nat
  <2>1. Chunks(e) \cap old = old
    BY <1>4
  <2> QED BY <2>1, FS_Difference, FS_CardinalityType
<1> HIDE DEF rest
<1>9. /\ IsFiniteSet(rest \cup new)
      /\ Cardinality(rest \cup new) =
           Cardinality(rest) + Cardinality(new) - Cardinality(rest \cap new)
  BY <1>1, <1>8, FS_Union
<1>10. Cardinality(rest \cap new) = 0
  BY <1>7, FS_EmptySet
<1>11. Bytes(e[k]) \in Nat /\ Bytes(v) \in Nat
  BY DEF Bytes, Entry
<1>12. Cardinality(rest) = Cardinality(Chunks(e)) - Bytes(e[k])
  BY <1>1, <1>8
<1>13. Cardinality(rest \cup new) =
         (Cardinality(Chunks(e)) - Bytes(e[k])) + Bytes(v)
  BY <1>1, <1>8, <1>9, <1>10, <1>11, <1>12
<1> QED BY <1>6, <1>8, <1>9, <1>13
\* An entry that is being fetched, or whose fetch failed, names no blob.
SettledEntry(e) == e.path => ~e.err /\ ~e.fetching

Settled == \A k \in Key : SettledEntry(entry[k])

\* The entry of k becomes v, and curBytes follows: exactly, when no entry is
\* replaced whose blob the code no longer looks at.
Counted(k, v) ==
    /\ entry' = [entry EXCEPT ![k] = v]
    /\ curBytes' \in Int
    /\ curBytes' >= (curBytes - Bytes(entry[k])) + Bytes(v)
    /\ Owner /\ Settled =>
         curBytes' = (curBytes - Bytes(entry[k])) + Bytes(v) /\ SettledEntry(v)

(* What the steps of a goroutine do to the map and to the count. *)
LEMMA CountRun ==
    ASSUME IInv, NEW p \in Proc,
           \/ Run(p) \/ Cancel(p)
           \/ \E k \in Key : Call(p, k) \/ StoreRename(p, k)
    PROVE  \/ UNCHANGED <<entry, curBytes>>
           \/ \E k \in Key, v \in Entry : Counted(k, v)
<1> USE DEF IInv, Core
<1> DEFINE k == K(p)
<1>0. /\ proc[p] \in Local /\ curBytes \in Int
      /\ \A j \in Key : /\ entry[j] \in Entry /\ Bytes(entry[j]) \in Nat
                        /\ ~entry[j].path => Bytes(entry[j]) = 0
                        /\ j \notin cached => ~entry[j].path
  BY DEF MapInv, ProcInv, Entry, NoEntry, Bytes
<1>1. CASE Join(p)
  <2> DEFINE v == [entry[k] EXCEPT !.waiters = @ \cup {p}]
  <2>1. k \in Key
    BY <1>1 DEF Join, ProcInv, At
  <2>2. /\ v \in Entry /\ v.path = entry[k].path /\ v.size = entry[k].size
        /\ v.err = entry[k].err /\ v.fetching = entry[k].fetching
    BY <1>0, <2>1 DEF Entry
  <2>3. entry' = [entry EXCEPT ![k] = v] /\ curBytes' = curBytes
    BY <1>1 DEF Join
  <2>6. Settled => SettledEntry(v)
    BY <2>1, <2>2 DEF Settled, SettledEntry
  <2> HIDE DEF v
  <2>4. Bytes(v) = Bytes(entry[k])
    BY <2>2 DEF Bytes
  <2>5. Counted(k, v)
    BY <1>0, <2>1, <2>2, <2>3, <2>4, <2>6 DEF Counted
  <2> QED BY <2>1, <2>2, <2>5
<1>2. CASE Claim(p)
  <2>1. k \in Key /\ ~Ready(k) /\ ~Fetching(k)
    BY <1>2 DEF Claim, ProcInv, At
  <2>2. FetchingEntry \in Entry /\ Bytes(FetchingEntry) = 0
    BY EntryTypes DEF FetchingEntry, NoEntry, Bytes
  <2>3. entry' = [entry EXCEPT ![k] = FetchingEntry] /\ curBytes' = curBytes
    BY <1>2 DEF Claim
  <2>4. /\ Settled => Bytes(entry[k]) = 0
        /\ SettledEntry(FetchingEntry)
    BY <1>0, <2>1 DEF Settled, SettledEntry, FetchingEntry, NoEntry, Ready, Fetching
  <2>5. Counted(k, FetchingEntry)
    BY <1>0, <2>1, <2>2, <2>3, <2>4 DEF Counted
  <2> QED BY <2>1, <2>2, <2>5
<1>3. CASE Recheck(p)
  <2>1. k \in Key
    BY <1>3 DEF Recheck, ProcInv, At
  <2>2. CASE StillTheHit(p)
    <3>1. NoEntry \in Entry /\ Bytes(NoEntry) = 0 /\ SettledEntry(NoEntry)
      BY EntryTypes DEF NoEntry, Bytes, SettledEntry
    <3>2. Bytes(entry[k]) = proc[p].sz
      BY <2>2 DEF StillTheHit, Bytes
    <3>3. entry' = [entry EXCEPT ![k] = NoEntry] /\ curBytes' = curBytes - proc[p].sz
      BY <1>3, <2>2 DEF Recheck
    <3>4. Counted(k, NoEntry)
      BY <1>0, <2>1, <3>1, <3>2, <3>3 DEF Counted
    <3> QED BY <2>1, <3>1, <3>4
  <2>3. CASE ~StillTheHit(p)
    BY <1>3, <2>3 DEF Recheck, memVars
  <2> QED BY <2>2, <2>3
<1>4. CASE FinishErr(p)
  <2>1. k \in Key
    BY <1>4 DEF FinishErr, ProcInv, At
  <2>2. CASE k \in cached
    <3> DEFINE v == [entry[k] EXCEPT !.fetching = FALSE, !.err = TRUE, !.waiters = {}]
    <3>1. v \in Entry /\ v.path = entry[k].path /\ v.size = entry[k].size
      BY <1>0, <2>1 DEF Entry
    <3>2. entry' = [entry EXCEPT ![k] = v] /\ curBytes' = curBytes
      BY <1>4, <2>1, <2>2 DEF FinishErr, MapInv
    <3> HIDE DEF v
    <3>3. Bytes(v) = Bytes(entry[k])
      BY <3>1 DEF Bytes
    <3>4. Owner /\ Settled => SettledEntry(v)
      <4>1. Owner => Fetching(k)
        BY <1>4 DEF Owner, Fetcher, FinishErr, At
      <4>2. Owner /\ Settled => ~entry[k].path
        BY <2>1, <4>1 DEF Settled, SettledEntry, Fetching
      <4> QED BY <3>1, <4>2 DEF SettledEntry
    <3>5. Counted(k, v)
      BY <1>0, <2>1, <3>1, <3>2, <3>3, <3>4 DEF Counted
    <3> QED BY <2>1, <3>1, <3>5
  <2>3. CASE k \notin cached
    BY <1>4, <2>3 DEF FinishErr
  <2> QED BY <2>2, <2>3
<1>5. CASE FinishOk(p)
  <2>1. k \in Key /\ proc[p].sz \in Nat /\ Fetcher(p)
    BY <1>0, <1>5 DEF FinishOk, ProcInv, At, Local, Fetcher
  <2>2. CASE k \in cached
    <3> DEFINE v == ReadyEntry(proc[p].sz)
    <3>1. v \in Entry
      BY <2>1, EntryTypes
    <3>2. Bytes(v) = proc[p].sz /\ SettledEntry(v)
      BY DEF ReadyEntry, NoEntry, Bytes, SettledEntry
    <3>3. entry' = [entry EXCEPT ![k] = v] /\ curBytes' = curBytes + proc[p].sz
      BY <1>5, <2>2 DEF FinishOk
    <3>4. Owner /\ Settled => Bytes(entry[k]) = 0
      BY <1>0, <2>1 DEF Owner, Settled, SettledEntry, Fetching
    <3>5. Counted(k, v)
      BY <1>0, <2>1, <3>1, <3>2, <3>3, <3>4 DEF Counted
    <3> QED BY <2>1, <3>1, <3>5
  <2>3. CASE k \notin cached
    BY <1>5, <2>3 DEF FinishOk
  <2> QED BY <2>2, <2>3
<1>6. CASE StoreInstall(p)
  <2> DEFINE v == ReadyEntry(Size[k])
  <2>1. k \in Key /\ Size[k] \in Nat
    BY <1>6, CacheAssumption DEF StoreInstall, ProcInv, At
  <2>2. v \in Entry
    BY <2>1, EntryTypes
  <2>3. Bytes(v) = Size[k] /\ SettledEntry(v)
    BY DEF ReadyEntry, NoEntry, Bytes, SettledEntry
  <2>4. /\ entry' = [entry EXCEPT ![k] = v]
        /\ curBytes' = (curBytes - Freed(k)) + Size[k]
    BY <1>6 DEF StoreInstall
  <2>5. /\ Freed(k) \in Nat /\ Freed(k) <= Bytes(entry[k])
        /\ Settled => Freed(k) = Bytes(entry[k])
    BY <1>0, <2>1 DEF Freed, Replaces, Settled, SettledEntry, Bytes
  <2>6. Counted(k, v)
    BY <1>0, <2>1, <2>2, <2>3, <2>4, <2>5 DEF Counted
  <2> QED BY <2>1, <2>2, <2>6
<1>7. CASE ~(Join(p) \/ Claim(p) \/ Recheck(p) \/ FinishErr(p) \/ FinishOk(p)
             \/ StoreInstall(p))
  BY <1>7 DEF Run, Lookup, Fetch, Cancel, Hit, StatHit, RemoveTmp, CreateTmp,
     CreateFails, Write, Retry, FetchOk, FetchFail, CloseTmp, StatTmp, RenameTmp,
     Discard, EvictLock, OpenBlob, BlobGone, Call, StoreRename, memVars
<1> QED BY <1>1, <1>2, <1>3, <1>4, <1>5, <1>6, <1>7

(* Evicting an entry gives back what it occupied. *)
LEMMA CountEvict ==
    ASSUME IInv, Evict
    PROVE  \/ UNCHANGED <<entry, curBytes>>
           \/ \E k \in Key, v \in Entry : Counted(k, v)
<1> USE DEF IInv, Core
<1>1. CASE EvictPop
  <2> DEFINE k == Last(lru)
  <2>1. k \in Key /\ (entry[k].path => k \in cached)
    <3>1. lru \in Seq(Key) /\ lru # <<>> /\ NoDup(lru)
      BY <1>1 DEF EvictPop, OverCap, MapInv
    <3>2. k \in Key
      BY <3>1, PopLRU
    <3> QED BY <3>2 DEF MapInv, NoEntry
  <2>2. NoEntry \in Entry /\ Bytes(NoEntry) = 0 /\ SettledEntry(NoEntry)
    BY EntryTypes DEF NoEntry, Bytes, SettledEntry
  <2>3. /\ entry' = [entry EXCEPT ![k] = NoEntry]
        /\ curBytes' = IF entry[k].path THEN curBytes - entry[k].size ELSE curBytes
    BY <1>1, <2>1 DEF EvictPop
  <2>4. entry[k].size \in Nat /\ curBytes \in Int
    BY <2>1 DEF MapInv, Entry
  <2>5. curBytes' = (curBytes - Bytes(entry[k])) + Bytes(NoEntry)
    BY <2>2, <2>3, <2>4 DEF Bytes
  <2>6. curBytes' \in Int
    BY <2>3, <2>4
  <2>7. Counted(k, NoEntry)
    BY <2>1, <2>2, <2>3, <2>5, <2>6 DEF Counted
  <2> QED BY <2>1, <2>2, <2>7
<1>2. CASE EvictLockAsync \/ EvictUnlock
  BY <1>2 DEF EvictLockAsync, EvictUnlock, memVars
<1> QED BY <1>1, <1>2 DEF Evict

(* An empty map counts nothing. *)
LEMMA CountEmpty ==
    ASSUME NEW e, e = [k \in Key |-> NoEntry]
    PROVE  IsFiniteSet(Chunks(e)) /\ Cardinality(Chunks(e)) = 0
<1>1. Chunks(e) = {}
  BY DEF Chunks, NoEntry
<1> QED BY <1>1, FS_EmptySet

(* However fetches, stores, evictions and restarts interleave, the count   *)
(* never falls below the bytes of the blobs the map names.                 *)
THEOREM CountCoversBlobs == Spec => []NeverUndercounts
<1>1. ASSUME Init PROVE CountInv
  BY <1>1, CountEmpty DEF Init, CountInv, TrackedBytes
<1>2. ASSUME IInv, CountInv, [Next]_vars PROVE CountInv'
  <2>0. entry \in [Key -> Entry] /\ curBytes \in Int
    BY <1>2 DEF IInv, Core, MapInv
  <2>1. CASE UNCHANGED <<entry, curBytes>>
    BY <1>2, <2>1 DEF CountInv, TrackedBytes
  <2>2. CASE \E k \in Key, v \in Entry : Counted(k, v)
    <3>1. PICK k \in Key, v \in Entry : Counted(k, v)
      BY <2>2
    <3>2. /\ IsFiniteSet(Chunks(entry')) /\ Cardinality(Chunks(entry)) \in Nat
          /\ Cardinality(Chunks(entry')) =
               (Cardinality(Chunks(entry)) - Bytes(entry[k])) + Bytes(v)
      BY <1>2, <2>0, <3>1, CountUpdate DEF Counted, CountInv
    <3>3. Bytes(entry[k]) \in Nat /\ Bytes(v) \in Nat
      BY <2>0 DEF Bytes, Entry
    <3> QED BY <1>2, <2>0, <3>1, <3>2, <3>3 DEF CountInv, TrackedBytes, Counted
  <2>3. CASE Restart
    <3>1. entry' = [k \in Key |-> NoEntry] /\ curBytes' = 0
      BY <2>3 DEF Restart
    <3> QED BY <3>1, CountEmpty DEF CountInv, TrackedBytes
  <2>4. UNCHANGED vars => UNCHANGED <<entry, curBytes>>
    BY DEF vars, memVars
  <2> QED BY <1>2, <2>1, <2>2, <2>3, <2>4, CountRun, CountEvict DEF Next
<1>3. CountInv => NeverUndercounts
  BY DEF CountInv, NeverUndercounts
<1> QED BY <1>1, <1>2, <1>3, Inductive, PTL DEF Spec

\* The inductive invariant of the exact count.
ExactInv == Settled /\ IsFiniteSet(Chunks(entry)) /\ curBytes = TrackedBytes

(* It starts with an empty map ...                                         *)
LEMMA ExactEmpty ==
    ASSUME entry = [k \in Key |-> NoEntry], curBytes = 0
    PROVE  ExactInv
<1>1. Settled
  BY DEF Settled, SettledEntry, NoEntry
<1> QED BY <1>1, CountEmpty DEF ExactInv, TrackedBytes

(* ... and stays, as long as whoever fetches owns the fetching entry.      *)
LEMMA ExactStep ==
    ASSUME IInv, FetchInv, ExactInv, [Next]_vars
    PROVE  ExactInv'
<1>0. entry \in [Key -> Entry] /\ curBytes \in Int /\ Owner
  BY DEF IInv, Core, MapInv, FetchInv
<1>1. CASE UNCHANGED <<entry, curBytes>>
  BY <1>1 DEF ExactInv, TrackedBytes, Settled
<1>2. CASE \E k \in Key, v \in Entry : Counted(k, v)
  <2>1. PICK k \in Key, v \in Entry : Counted(k, v)
    BY <1>2
  <2>2. /\ IsFiniteSet(Chunks(entry')) /\ Cardinality(Chunks(entry)) \in Nat
        /\ Cardinality(Chunks(entry')) =
             (Cardinality(Chunks(entry)) - Bytes(entry[k])) + Bytes(v)
    BY <1>0, <2>1, CountUpdate DEF Counted, ExactInv
  <2>3. /\ entry' = [entry EXCEPT ![k] = v] /\ SettledEntry(v)
        /\ curBytes' = (curBytes - Bytes(entry[k])) + Bytes(v)
    BY <1>0, <2>1 DEF Counted, ExactInv
  <2>4. Settled'
    BY <1>0, <2>3 DEF Settled, ExactInv
  <2> QED BY <2>2, <2>3, <2>4 DEF ExactInv, TrackedBytes
<1>3. CASE Restart
  <2>1. entry' = [k \in Key |-> NoEntry] /\ curBytes' = 0
    BY <1>3 DEF Restart
  <2>2. Settled'
    BY <2>1 DEF Settled, SettledEntry, NoEntry
  <2> QED BY <2>1, <2>2, CountEmpty DEF ExactInv, TrackedBytes
<1>4. UNCHANGED vars => UNCHANGED <<entry, curBytes>>
  BY DEF vars, memVars
<1> QED BY <1>1, <1>2, <1>3, <1>4, CountRun, CountEvict DEF Next

(* As long as no fetching entry is dropped, curBytes is exactly what the   *)
(* entries of the map occupy.                                              *)
THEOREM CountExact == KeepSpec => []ExactAccounting
<1>1. Init => FetchInv /\ ExactInv
  BY ExactEmpty DEF Init, FetchInv, Owner, SingleFetcher, Fetcher, Idle
<1>2. /\ IInv /\ FetchInv /\ ExactInv /\ [Next /\ KeepsFetches]_vars
      => FetchInv' /\ ExactInv'
  BY FetchStep, ExactStep
<1>3. ExactInv => ExactAccounting
  BY DEF ExactInv, ExactAccounting
<1> QED BY <1>1, <1>2, <1>3, KeepInductive, PTL DEF KeepSpec
-----------------------------------------------------------------------------
(* A cache with room for every object, into which nothing is stored *)

\* All the objects together fit into the cap, and no upload fills the cache.
Roomy ==
    LET all == UNION {{k} \X (1..Size[k]) : k \in Key}
    IN  Uploaded = {} /\ IsFiniteSet(all) /\ Cardinality(all) <= MaxBytes

\* An entry that can be hit names a blob, and what it says of it is so.
EntryTrue(k) ==
    /\ Ready(k) => entry[k].path
    /\ entry[k].path => entry[k].size = Size[k] /\ final[k] = WholeFile(k)

\* What p remembers of its blob is so, hence it never looks twice.
RoomOf(p) ==
    /\ proc[p].pc \notin {"recheck", "install"}
    /\ proc[p].pc \in {"stat", "rename", "finish"} => proc[p].sz = Size[K(p)]
    /\ proc[p].pc \in {"stat", "finish"} => final[K(p)] = WholeFile(K(p))

\* Until a restart, a blob on disk is in the map or about to be.
Accounted(k) ==
    restarts = 0 /\ final[k].exists =>
        entry[k].path \/ \E p \in Proc : K(p) = k /\ At(p, "finish")

RoomInv ==
    /\ \A k \in Key : EntryTrue(k) /\ Accounted(k)
    /\ \A p \in Proc : RoomOf(p)

RoomyInv == IInv /\ FetchInv /\ BlobInv /\ ExactInv /\ RoomInv

(* The count stays within the cap, so the eviction loop never pops.        *)
LEMMA NeverOver ==
    ASSUME Roomy, IInv, ExactInv, RoomInv
    PROVE  ~(curBytes > MaxBytes)
<1> DEFINE all == UNION {{k} \X (1..Size[k]) : k \in Key}
<1>1. Chunks(entry) \subseteq all
  <2>1. ASSUME NEW x \in Chunks(entry) PROVE x \in all
    <3>1. PICK k \in Key : entry[k].path /\ x \in {k} \X (1..entry[k].size)
      BY DEF Chunks
    <3>2. entry[k].size = Size[k]
      BY <3>1 DEF RoomInv, EntryTrue
    <3> QED BY <3>1, <3>2
  <2> QED BY <2>1
<1>2. IsFiniteSet(all) /\ Cardinality(all) <= MaxBytes
  BY DEF Roomy
<1> HIDE DEF all
<1>3. Cardinality(Chunks(entry)) <= Cardinality(all)
  BY <1>1, <1>2, FS_Subset
<1>4. Cardinality(Chunks(entry)) \in Nat /\ Cardinality(all) \in Nat
  BY <1>2, FS_CardinalityType DEF ExactInv
<1> QED BY <1>2, <1>3, <1>4, CacheAssumption DEF ExactInv, TrackedBytes

(* Moves of p that neither publish nor give up anything.                   *)
LEMMA RoomQuiet ==
    ASSUME RoomInv, UNCHANGED <<cached, entry, final, restarts>>,
           NEW p, p \in Proc => ~At(p, "finish"),
           \A q \in Proc \ {p} : proc'[q] = proc[q],
           p \in Proc =>
             proc'[p].pc \notin {"stat", "recheck", "rename", "finish", "install"}
    PROVE  RoomInv'
<1>1. ASSUME NEW q \in Proc PROVE RoomOf(q)'
  <2>1. CASE q = p
    BY <2>1 DEF RoomOf
  <2>2. CASE q # p
    BY <2>2 DEF RoomInv, RoomOf, K
  <2> QED BY <2>1, <2>2
<1>2. ASSUME NEW k \in Key PROVE EntryTrue(k)' /\ Accounted(k)'
  <2>1. ASSUME NEW q \in Proc, At(q, "finish") PROVE At(q, "finish")' /\ K(q)' = K(q)
    BY <2>1 DEF At, K
  <2> QED BY <2>1 DEF RoomInv, EntryTrue, Accounted, Ready
<1> QED BY <1>1, <1>2 DEF RoomInv
(* A step of p that leaves every blob where it is and every other goroutine *)
(* where it claims nothing new: what is left to show is about p and its key. *)
LEMMA RoomStep ==
    ASSUME RoomInv, IInv, NEW p \in Proc, ~At(p, "idle"), restarts' = restarts,
           NEW k \in Key, k = K(p),
           \A j \in Key \ {k} :
               /\ entry'[j] = entry[j] /\ final'[j] = final[j]
               /\ j \in cached' => j \in cached,
           final'[k] \in {final[k], WholeFile(k)},
           \A q \in Proc \ {p} :
               \/ proc'[q] = proc[q]
               \/ At(q, "wait") /\ proc'[q].pc = "lookup",
           proc'[p].pc = "idle" \/ proc'[p].key = k,
           RoomOf(p)', EntryTrue(k)', Accounted(k)'
    PROVE  RoomInv'
<1>1. ASSUME NEW q \in Proc \ {p} PROVE RoomOf(q)'
  <2>1. CASE proc'[q] = proc[q]
    <3>1. ~At(q, "idle") => K(q) \in Key
      BY DEF IInv, Core, ProcInv, At
    <3>2. RoomOf(q)
      BY DEF RoomInv
    <3>3. K(q) \in Key => final'[K(q)] \in {final[K(q)], WholeFile(K(q))}
      OBVIOUS
    <3>4. K(q)' = K(q)
      BY <2>1 DEF K
    <3> QED BY <2>1, <3>1, <3>2, <3>3, <3>4 DEF RoomOf, At
  <2>2. CASE proc'[q].pc = "lookup"
    BY <2>2 DEF RoomOf
  <2> QED BY <2>1, <2>2
<1>2. ASSUME NEW j \in Key \ {k} PROVE EntryTrue(j)' /\ Accounted(j)'
  <2>1. EntryTrue(j) /\ Accounted(j)
    BY DEF RoomInv
  <2>2. ASSUME NEW q \in Proc, At(q, "finish"), K(q) = j
        PROVE  At(q, "finish")' /\ K(q)' = j
    <3>1. q # p
      BY <1>2, <2>2
    <3>2. proc'[q] = proc[q]
      BY <2>2, <3>1 DEF At
    <3> QED BY <2>2, <3>2 DEF At, K
  <2> QED BY <1>2, <2>1, <2>2 DEF EntryTrue, Accounted, Ready
<1> QED BY <1>1, <1>2 DEF RoomInv

(* The steps that touch neither the map nor a published blob.              *)
LEMMA RoomIdle ==
    ASSUME RoomyInv, NEW p \in Proc,
           \/ \E k \in Key : Call(p, k)
           \/ Cancel(p) \/ RemoveTmp(p) \/ CreateTmp(p) \/ CreateFails(p) \/ Write(p)
           \/ Retry(p) \/ FetchOk(p) \/ FetchFail(p) \/ Discard(p) \/ EvictLock(p)
           \/ OpenBlob(p) \/ BlobGone(p)
    PROVE  RoomInv'
<1> USE DEF RoomyInv, IInv, Core
<1>1. UNCHANGED <<cached, entry, restarts>>
  BY DEF Call, Cancel, RemoveTmp, CreateTmp, CreateFails, Write, Retry, FetchOk,
     FetchFail, CloseTmp, Discard, EvictLock, OpenBlob, BlobGone, memVars, histVars
<1>2. final' = final
  <2>1. CASE Write(p) \/ Retry(p) \/ FetchOk(p) \/ FetchFail(p)
    <3>1. K(p) \in Key
      BY <2>1 DEF Write, Retry, FetchOk, FetchFail, ProcInv, At
    <3>2. p \notin final[K(p)].writers
      BY <3>1 DEF BlobInv, NoFile, WholeFile
    <3> QED BY <2>1, <3>1, <3>2 DEF Write, Retry, FetchOk, FetchFail, CloseTmp,
       OwnFile, DiskInv
  <2>2. CASE ~(Write(p) \/ Retry(p) \/ FetchOk(p) \/ FetchFail(p))
    BY <2>2 DEF Call, Cancel, RemoveTmp, CreateTmp, CreateFails, Discard, EvictLock,
       OpenBlob, BlobGone, diskVars
  <2> QED BY <2>1, <2>2
<1>3. \A q \in Proc \ {p} : proc'[q] = proc[q]
  BY DEF Call, Cancel, RemoveTmp, CreateTmp, CreateFails, Write, Retry, FetchOk,
     FetchFail, CloseTmp, Discard, EvictLock, OpenBlob, BlobGone, Return, Goto, ProcInv
<1>4. ~At(p, "finish")
  BY DEF Call, Cancel, RemoveTmp, CreateTmp, CreateFails, Write, Retry, FetchOk,
     FetchFail, CloseTmp, Discard, EvictLock, OpenBlob, BlobGone, At
<1>5. proc'[p].pc \notin {"stat", "recheck", "rename", "finish", "install"}
  <2>1. CASE Cancel(p) \/ OpenBlob(p) \/ BlobGone(p) \/ \E k \in Key : Call(p, k)
    BY <2>1 DEF Cancel, OpenBlob, BlobGone, Call, Return, Idle, ProcInv, Local
  <2>2. CASE \/ RemoveTmp(p) \/ CreateTmp(p) \/ CreateFails(p) \/ Discard(p)
             \/ EvictLock(p)
    BY <2>2 DEF RemoveTmp, CreateTmp, CreateFails, Discard, EvictLock, Goto, At,
       ProcInv, Local
  <2>3. CASE Write(p) \/ Retry(p) \/ FetchOk(p) \/ FetchFail(p)
    BY <2>3 DEF Write, Retry, FetchOk, FetchFail, CloseTmp, At, ProcInv, Local
  <2> QED BY <2>1, <2>2, <2>3
<1> QED BY <1>1, <1>2, <1>3, <1>4, <1>5, RoomQuiet

(* A lookup of a blob the map names is a hit that its stat confirms.       *)
LEMMA RoomLookup ==
    ASSUME RoomyInv, NEW p \in Proc,
           Hit(p) \/ Join(p) \/ Claim(p) \/ StatHit(p)
    PROVE  RoomInv'
<1> USE DEF RoomyInv, IInv, Core
<1>a. K(p) \in Key
  BY DEF ProcInv, At, Hit, Join, Claim, StatHit
<1>b. PICK k \in Key : k = K(p)
  BY <1>a
<1> USE <1>b
<1>0. /\ k \in Key /\ ~At(p, "idle") /\ ~At(p, "finish") /\ proc[p] \in Local
      /\ entry[k] \in Entry /\ EntryTrue(k) /\ Accounted(k) /\ RoomOf(p)
      /\ SettledEntry(entry[k])
      /\ final[k] \in {NoFile, WholeFile(k)}
  BY DEF Hit, Join, Claim, StatHit, ProcInv, At, MapInv, RoomInv, BlobInv, ExactInv,
     Settled
<1>1. /\ UNCHANGED <<final, restarts>>
      /\ \A q \in Proc \ {p} : proc'[q] = proc[q]
  BY DEF Hit, Join, Claim, StatHit, diskVars, histVars, Goto, ProcInv
<1>2. CASE Hit(p)
  <2>1. entry' = entry /\ Ready(k)
    BY <1>2 DEF Hit
  <2>2. proc'[p].pc = "stat" /\ proc'[p].key = k /\ proc'[p].sz = entry[k].size
    BY <1>0, <1>2 DEF Hit, ProcInv, Local, K
  <2>3. entry[k].path
    BY <1>0, <2>1 DEF EntryTrue
  <2>4. RoomOf(p)'
    BY <1>0, <1>1, <2>2, <2>3 DEF RoomOf, EntryTrue, K
  <2>5. EntryTrue(k)' /\ Accounted(k)'
    BY <1>0, <1>1, <2>1, <2>3 DEF EntryTrue, Accounted
  <2>6. cached' = cached
    BY <1>2 DEF Hit
  <2> QED BY <1>0, <1>1, <2>1, <2>2, <2>4, <2>5, <2>6, RoomStep
<1>3. CASE Join(p)
  <2>1. cached' = cached /\ entry' = [entry EXCEPT ![k].waiters = @ \cup {p}]
    BY <1>3 DEF Join
  <2>2. /\ entry'[k].path = entry[k].path /\ entry'[k].size = entry[k].size
        /\ entry'[k].fetching = entry[k].fetching /\ entry'[k].err = entry[k].err
        /\ \A j \in Key \ {k} : entry'[j] = entry[j]
    BY <1>0, <2>1 DEF MapInv, Entry
  <2>3. proc'[p].pc = "wait" /\ proc'[p].key = k
    BY <1>0, <1>3 DEF Join, Goto, ProcInv, Local, K
  <2>4. RoomOf(p)'
    BY <2>3 DEF RoomOf
  <2>5. \A q \in Proc : At(q, "finish") => At(q, "finish")' /\ K(q)' = K(q)
    BY <1>0, <1>1 DEF At, K
  <2>6. EntryTrue(k)' /\ Accounted(k)'
    BY <1>0, <1>1, <2>1, <2>2, <2>5 DEF EntryTrue, Accounted, Ready
  <2> QED BY <1>0, <1>1, <2>1, <2>2, <2>3, <2>4, <2>6, RoomStep
<1>4. CASE Claim(p)
  <2>1. /\ cached' = cached \cup {k} /\ ~Ready(k) /\ ~Fetching(k)
        /\ entry' = [entry EXCEPT ![k] = FetchingEntry]
    BY <1>4 DEF Claim
  <2>2. /\ ~entry'[k].path /\ entry'[k].fetching
        /\ \A j \in Key \ {k} : entry'[j] = entry[j] /\ (j \in cached' => j \in cached)
    BY <1>0, <2>1 DEF MapInv, FetchingEntry, NoEntry
  <2>3. proc'[p].pc = "rmtmp" /\ proc'[p].key = k
    BY <1>0, <1>4 DEF Claim, Goto, ProcInv, Local, K
  <2>4. RoomOf(p)'
    BY <2>3 DEF RoomOf
  <2>5. ~entry[k].path
    BY <1>0, <2>1 DEF Ready, Fetching, SettledEntry, MapInv, NoEntry
  <2>6. \A q \in Proc : ~(At(q, "finish") /\ K(q) = k)
    BY <2>1 DEF FetchInv, Owner, Fetcher, At
  <2>7. EntryTrue(k)' /\ Accounted(k)'
    BY <1>0, <1>1, <2>2, <2>5, <2>6 DEF EntryTrue, Accounted, Ready
  <2> QED BY <1>0, <1>1, <2>1, <2>2, <2>3, <2>4, <2>7, RoomStep
<1>5. CASE StatHit(p)
  <2>1. UNCHANGED <<cached, entry>> /\ At(p, "stat")
    BY <1>5 DEF StatHit, memVars
  <2>2. final[k] = WholeFile(k) /\ proc[p].sz = Size[k]
    BY <1>0, <2>1 DEF RoomOf, At
  <2>3. proc'[p].pc = "open"
    BY <1>0, <1>5, <2>2 DEF StatHit, Goto, WholeFile, ProcInv, Local
  <2> QED BY <1>0, <1>1, <2>1, <2>3, RoomQuiet
<1> QED BY <1>2, <1>3, <1>4, <1>5

(* A fetch records what it has put under the final name.                   *)
LEMMA RoomPublish ==
    ASSUME RoomyInv, NEW p \in Proc,
           StatTmp(p) \/ RenameTmp(p) \/ FinishErr(p) \/ FinishOk(p)
    PROVE  RoomInv'
<1> USE DEF RoomyInv, IInv, Core
<1>a. K(p) \in Key
  BY DEF ProcInv, At, StatTmp, RenameTmp, FinishErr, FinishOk
<1>b. PICK k \in Key : k = K(p)
  BY <1>a
<1> USE <1>b
<1>0. /\ k \in Key /\ ~At(p, "idle") /\ proc[p] \in Local
      /\ entry[k] \in Entry /\ EntryTrue(k) /\ Accounted(k) /\ RoomOf(p)
      /\ SettledEntry(entry[k]) /\ Fetching(k) /\ ~entry[k].path
      /\ final[k] \in {NoFile, WholeFile(k)} /\ TmpOf(p)
      /\ restarts' = restarts
      /\ \A q \in Proc \ {p} : Fetcher(q) => K(q) # k
  <2>1. Fetcher(p) /\ k \in Key /\ ~At(p, "idle") /\ restarts' = restarts
    BY DEF StatTmp, RenameTmp, FinishErr, FinishOk, ProcInv, At, Fetcher, histVars
  <2>2. Fetching(k) /\ \A q \in Proc \ {p} : Fetcher(q) => K(q) # k
    BY <2>1 DEF FetchInv, Owner, SingleFetcher
  <2>3. /\ proc[p] \in Local /\ entry[k] \in Entry /\ EntryTrue(k) /\ Accounted(k)
        /\ RoomOf(p) /\ SettledEntry(entry[k]) /\ TmpOf(p)
        /\ final[k] \in {NoFile, WholeFile(k)}
    BY <2>1 DEF ProcInv, MapInv, RoomInv, BlobInv, ExactInv, Settled
  <2> QED BY <2>1, <2>2, <2>3 DEF SettledEntry, Fetching
<1>1. CASE StatTmp(p)
  <2>1. /\ UNCHANGED <<cached, entry, final>> /\ tmp[k] = WholeFile(k)
        /\ ~At(p, "finish")
    BY <1>0, <1>1 DEF StatTmp, memVars, diskVars, TmpOf, At
  <2>2. proc'[p].pc = "rename" /\ proc'[p].key = k /\ proc'[p].sz = Size[k]
    BY <1>0, <1>1, <2>1 DEF StatTmp, WholeFile, ProcInv, Local, K
  <2>3. \A q \in Proc \ {p} : proc'[q] = proc[q]
    BY <1>1 DEF StatTmp, Goto, ProcInv
  <2>4. RoomOf(p)'
    BY <2>2 DEF RoomOf, K
  <2>5. \A q \in Proc : At(q, "finish") => At(q, "finish")' /\ K(q)' = K(q)
    BY <2>1, <2>3 DEF At, K
  <2>6. EntryTrue(k)' /\ Accounted(k)'
    BY <1>0, <2>1, <2>5 DEF EntryTrue, Accounted, Ready
  <2> QED BY <1>0, <2>1, <2>2, <2>3, <2>4, <2>6, RoomStep
<1>2. CASE RenameTmp(p)
  <2>1. UNCHANGED <<cached, entry>> /\ tmp[k] = WholeFile(k) /\ proc[p].sz = Size[k]
    BY <1>0, <1>2 DEF RenameTmp, memVars, TmpOf, RoomOf, At
  <2>2. final' = [final EXCEPT ![k] = WholeFile(k)]
    BY <1>2, <2>1 DEF RenameTmp, WholeFile
  <2>3. proc'[p].pc = "finish" /\ proc'[p].key = k /\ proc'[p].sz = Size[k]
    BY <1>0, <1>2, <2>1 DEF RenameTmp, Goto, WholeFile, ProcInv, Local, K
  <2>4. \A q \in Proc \ {p} : proc'[q] = proc[q]
    BY <1>2 DEF RenameTmp, Goto, ProcInv
  <2>5. final'[k] = WholeFile(k) /\ \A j \in Key \ {k} : final'[j] = final[j]
    BY <1>0, <2>2 DEF DiskInv
  <2>6. RoomOf(p)'
    BY <2>3, <2>5 DEF RoomOf, K
  <2>7. EntryTrue(k)' /\ Accounted(k)'
    BY <1>0, <2>1, <2>3, <2>5 DEF EntryTrue, Accounted, Ready, At, K
  <2> QED BY <1>0, <2>1, <2>3, <2>4, <2>5, <2>6, <2>7, RoomStep
<1>3. ASSUME FinishErr(p) \/ FinishOk(p)
      PROVE  /\ UNCHANGED <<cached, final>>
             /\ \A j \in Key \ {k} : entry'[j] = entry[j]
             /\ \A q \in Proc \ {p} :
                   proc'[q] = proc[q] \/ (At(q, "wait") /\ proc'[q].pc = "lookup")
  <2>1. k \in cached
    BY <1>0 DEF Fetching
  <2>2. UNCHANGED <<cached, final>> /\ \A j \in Key \ {k} : entry'[j] = entry[j]
    BY <1>3, <2>1 DEF FinishErr, FinishOk, diskVars, MapInv
  <2>3. ASSUME NEW q \in Proc \ {p}
        PROVE  proc'[q] = proc[q] \/ (At(q, "wait") /\ proc'[q].pc = "lookup")
    <3>1. \/ proc'[q] = proc[q]
          \/ At(q, "wait") /\ proc'[q] = [proc[q] EXCEPT !.pc = "lookup"]
      BY <1>3, <2>1 DEF FinishErr, FinishOk, WakeWaiters
    <3> DEFINE l == [proc[q] EXCEPT !.pc = "lookup"]
    <3>2. l.pc = "lookup"
      BY DEF ProcInv, Local
    <3>3. proc'[q] = proc[q] \/ (At(q, "wait") /\ proc'[q] = l)
      BY <3>1
    <3> HIDE DEF l
    <3> QED BY <3>2, <3>3
  <2> QED BY <2>2, <2>3
<1>4. CASE FinishErr(p)
  <2>1. k \in cached
    BY <1>0 DEF Fetching
  <2>2. proc'[p] = Idle
    BY <1>4, <2>1 DEF FinishErr, WakeWaiters
  <2>3. entry' = [entry EXCEPT ![k].fetching = FALSE, ![k].err = TRUE, ![k].waiters = {}]
    BY <1>4, <2>1 DEF FinishErr
  <2>4. entry'[k].path = entry[k].path /\ entry'[k].err
    BY <1>0, <2>3 DEF MapInv, Entry
  <2>5. \A q \in Proc : ~(At(q, "finish") /\ K(q) = k)
    BY <1>0, <1>4 DEF FinishErr, At, Fetcher
  <2>6. EntryTrue(k)' /\ Accounted(k)'
    BY <1>0, <1>3, <1>4, <2>4, <2>5 DEF EntryTrue, Accounted, Ready
  <2>7. RoomOf(p)' /\ proc'[p].pc = "idle"
    BY <2>2 DEF RoomOf, Idle
  <2> QED BY <1>0, <1>3, <1>4, <2>6, <2>7, RoomStep
<1>5. CASE FinishOk(p)
  <2>1. k \in cached /\ proc[p].sz = Size[k] /\ final[k] = WholeFile(k)
    BY <1>0, <1>5 DEF Fetching, RoomOf, FinishOk, At
  <2>2. proc'[p].pc = "evict" /\ proc'[p].key = k
    BY <1>0, <1>5, <2>1 DEF FinishOk, WakeWaiters, Local, K
  <2>3. entry'[k] = ReadyEntry(Size[k])
    BY <1>0, <1>5, <2>1 DEF FinishOk, MapInv
  <2>4. entry'[k].path /\ entry'[k].size = Size[k]
    BY <2>3 DEF ReadyEntry, NoEntry
  <2>5. EntryTrue(k)' /\ Accounted(k)'
    BY <1>3, <1>5, <2>1, <2>4 DEF EntryTrue, Accounted
  <2>6. RoomOf(p)'
    BY <2>2 DEF RoomOf
  <2> QED BY <1>0, <1>3, <1>5, <2>2, <2>5, <2>6, RoomStep
<1> QED BY <1>1, <1>2, <1>4, <1>5

(* Eviction, a restart, and what never happens in such a cache.            *)
LEMMA RoomOther ==
    ASSUME Roomy, RoomyInv, BlobInv',
           \/ Evict \/ Restart \/ UNCHANGED vars
           \/ \E p \in Proc : \/ Recheck(p) \/ StoreInstall(p)
                              \/ \E k \in Key : StoreRename(p, k)
    PROVE  RoomInv' /\ KeepsFetches
<1> USE DEF RoomyInv, IInv, Core
<1>1. ASSUME UNCHANGED entry PROVE KeepsFetches
  BY <1>1 DEF KeepsFetches
<1>2. CASE \E p \in Proc : \/ Recheck(p) \/ StoreInstall(p)
                           \/ \E k \in Key : StoreRename(p, k)
  BY <1>2 DEF Recheck, StoreInstall, StoreRename, Roomy, RoomInv, RoomOf, At
<1>3. CASE EvictPop
  BY <1>3, NeverOver DEF EvictPop, OverCap
<1>4. CASE EvictLockAsync
  BY <1>1, <1>4 DEF EvictLockAsync, memVars, diskVars, histVars, RoomInv, RoomOf,
     EntryTrue, Accounted, Ready, At, K
<1>5. CASE EvictUnlock
  <2>1. UNCHANGED <<cached, entry, final, restarts>>
    BY <1>5 DEF EvictUnlock, memVars, diskVars, histVars
  <2>2. \A q \in Proc \ {evictor} : proc'[q] = proc[q]
    BY <1>5 DEF EvictUnlock, Goto, ProcInv
  <2>3. evictor \in Proc => At(evictor, "evict") /\ proc'[evictor].pc = "open"
    BY <1>5 DEF EvictUnlock, EvictorInv, Goto, ProcInv, Local
  <2> QED BY <1>1, <2>1, <2>2, <2>3, RoomQuiet DEF At
<1>6. CASE Restart
  <2>1. /\ entry' = [k \in Key |-> NoEntry] /\ cached' = {}
        /\ proc' = [p \in Proc |-> Idle] /\ restarts' = restarts + 1
    BY <1>6 DEF Restart
  <2>2. restarts \in Nat
    BY CacheAssumption DEF RestInv
  <2>3. restarts' # restarts /\ restarts' # 0
    BY <2>1, <2>2
  <2> QED BY <2>1, <2>3 DEF RoomInv, RoomOf, EntryTrue, Accounted, Ready, NoEntry,
     Idle, KeepsFetches
<1>7. CASE UNCHANGED vars
  BY <1>1, <1>7 DEF vars, memVars, diskVars, histVars, RoomInv, RoomOf,
     EntryTrue, Accounted, Ready, At, K
<1> QED BY <1>2, <1>3, <1>4, <1>5, <1>6, <1>7 DEF Evict

(* A goroutine drops no fetching entry but at the end of its own fetch.     *)
LEMMA RoomKeeps ==
    ASSUME RoomyInv, NEW p \in Proc,
           \/ Lookup(p) \/ StatHit(p) \/ Fetch(p) \/ EvictLock(p) \/ OpenBlob(p)
           \/ BlobGone(p) \/ Cancel(p) \/ \E k \in Key : Call(p, k)
    PROVE  KeepsFetches
<1> USE DEF RoomyInv, IInv, Core
<1>1. CASE FinishErr(p) \/ FinishOk(p)
  <2>1. Fetcher(p) /\ proc[p].pc \in {"fail", "finish"}
    BY <1>1 DEF FinishErr, FinishOk, At, Fetcher
  <2>2. K(p) \in cached
    BY <2>1 DEF FetchInv, Owner, Fetching
  <2>3. \A j \in Key \ {K(p)} : entry'[j] = entry[j]
    BY <1>1, <2>2 DEF FinishErr, FinishOk, MapInv
  <2>4. proc'[p].pc \in {"idle", "evict"}
    <3>1. Idle.pc = "idle" /\ [proc[p] EXCEPT !.pc = "evict"].pc = "evict"
      BY DEF Idle, ProcInv, Local
    <3> QED BY <1>1, <2>2, <3>1 DEF FinishErr, FinishOk, WakeWaiters
  <2> QED BY <2>1, <2>3, <2>4 DEF KeepsFetches
<1>2. CASE Join(p)
  <2>1. K(p) \in Key /\ entry' = [entry EXCEPT ![K(p)].waiters = @ \cup {p}]
    BY <1>2 DEF Join, ProcInv, At
  <2>2. \A j \in Key : entry'[j].fetching = entry[j].fetching
    BY <2>1 DEF MapInv, Entry
  <2> QED BY <2>2 DEF KeepsFetches
<1>3. CASE Claim(p)
  <2>1. K(p) \in Key /\ entry' = [entry EXCEPT ![K(p)] = FetchingEntry]
    BY <1>3 DEF Claim, ProcInv, At
  <2>2. \A j \in Key : entry[j].fetching => entry'[j].fetching
    BY <2>1 DEF MapInv, FetchingEntry, NoEntry
  <2> QED BY <2>2 DEF KeepsFetches
<1>4. CASE ~(FinishErr(p) \/ FinishOk(p) \/ Join(p) \/ Claim(p))
  <2>1. entry' = entry
    BY <1>4 DEF Lookup, Hit, StatHit, Fetch, RemoveTmp, CreateTmp, CreateFails, Write,
       Retry, FetchOk, FetchFail, CloseTmp, StatTmp, RenameTmp, Discard, EvictLock,
       OpenBlob, BlobGone, Cancel, Call, memVars
  <2> QED BY <2>1 DEF KeepsFetches
<1> QED BY <1>1, <1>2, <1>3, <1>4

(* The published blobs stay whole whenever fetches are alone on their file. *)
LEMMA BlobStep ==
    ASSUME IInv, FetchInv, BlobInv, [Next]_vars
    PROVE  BlobInv'
<1>1. CASE UNCHANGED vars
  BY <1>1 DEF BlobInv, TmpOf, At, K, Partial, vars, diskVars
<1> QED BY <1>1, BlobFetch, BlobOther

(* Together: nothing leaves the cache, and no fetch is dropped.             *)
LEMMA RoomyStep ==
    ASSUME Roomy, RoomyInv, [Next]_vars
    PROVE  RoomyInv' /\ KeepsFetches
<1>1. BlobInv' /\ IInv' /\ ExactInv'
  BY BlobStep, IInvStep, ExactStep DEF RoomyInv
<1>2. RoomInv' /\ KeepsFetches
  <2>1. CASE \/ Evict \/ Restart \/ UNCHANGED vars
             \/ \E p \in Proc : \/ Recheck(p) \/ StoreInstall(p)
                                \/ \E k \in Key : StoreRename(p, k)
    BY <1>1, <2>1, RoomOther
  <2>2. ASSUME NEW p \in Proc,
               \/ Lookup(p) \/ StatHit(p) \/ Fetch(p) \/ EvictLock(p) \/ OpenBlob(p)
               \/ BlobGone(p) \/ Cancel(p) \/ \E k \in Key : Call(p, k)
        PROVE  RoomInv' /\ KeepsFetches
    BY <2>2, RoomKeeps, RoomIdle, RoomLookup, RoomPublish DEF Lookup, Fetch
  <2> QED BY <2>1, <2>2 DEF Next, Run
<1>3. FetchInv'
  BY <1>2, FetchStep DEF RoomyInv
<1> QED BY <1>1, <1>2, <1>3 DEF RoomyInv

(* A roomy cache starts empty.                                             *)
LEMMA RoomyInit == Init => RoomyInv
<1> SUFFICES ASSUME Init PROVE RoomyInv
  OBVIOUS
<1>1. FetchInv /\ BlobInv
  BY DEF Init, FetchInv, Owner, SingleFetcher, Fetcher, Idle, BlobInv, TmpOf, At
<1>2. RoomInv
  BY DEF Init, RoomInv, RoomOf, EntryTrue, Accounted, Ready, NoEntry, NoFile, Idle
<1>3. ExactInv
  BY ExactEmpty DEF Init
<1> QED BY <1>1, <1>2, <1>3, IInvInit DEF RoomyInv

(* With room for every object and no stores, no running fetch is dropped:   *)
(* the executions of such a cache are executions of KeepSpec, so that what  *)
(* KeepSpec guarantees (serialized fetches, whole blobs, an exact count) it *)
(* has without further condition.                                          *)
THEOREM RoomKeepsFetches ==
    ASSUME Roomy
    PROVE  Spec => FetchesKept /\ KeepSpec
<1>1. RoomyInv /\ [Next]_vars => RoomyInv'
  BY RoomyStep
<1>2. RoomyInv /\ [Next]_vars => [KeepsFetches]_vars /\ [Next /\ KeepsFetches]_vars
  BY RoomyStep
<1> QED BY RoomyInit, <1>1, <1>2, PTL DEF Spec, KeepSpec, FetchesKept

(* In such a cache, and until a restart, every blob on disk is in the map   *)
(* or on its way there: no file escapes the cap.                           *)
THEOREM RoomNoOrphan ==
    ASSUME Roomy
    PROVE  Spec => []NoOrphanBlob
<1>1. RoomyInv /\ [Next]_vars => RoomyInv'
  BY RoomyStep
<1>2. RoomyInv => NoOrphanBlob
  BY DEF RoomyInv, RoomInv, Accounted, NoOrphanBlob, At
<1> QED BY RoomyInit, <1>1, <1>2, PTL DEF Spec
=============================================================================
