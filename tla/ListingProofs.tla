---------------------------- MODULE ListingProofs ----------------------------
(********************************************************************************)
(* For any deployment, searchers and objects: what an answer of the search      *)
(* lacks is what the strategy that answered does not see.  And for any paths:   *)
(* the two caches above a container's listing come to show the container.       *)
(********************************************************************************)
EXTENDS SearchMemo, DirListing, Sequences, FiniteSetTheorems, TLAPS

(* SearchMemo: a search misses nothing. *)

SearchRecord ==
    [pc : {"idle", "asks", "listed", "answered"}, by : Nat, via : {"memo", "order"},
     cursor : 0..LastObject, all : SUBSET (1..LastObject), kept : SUBSET (1..LastObject),
     failed : SUBSET Nat]

\* What a strategy has listed when it has come to its end without an error.
Complete(r) == r.kept \cap Sees[r.by] \subseteq r.all

\* What a call knows.  While it asks, it has what lies before the cursor; a
\* strategy that has ended has failed or listed all; those tried before in this
\* round had nothing to list, or failed.
SearchOK(r, there) ==
    /\ r \in SearchRecord
    /\ r.kept \subseteq there
    /\ r.pc # "idle" => r.by \in Strategy
    /\ r.pc = "asks" =>
           /\ r.by \notin r.failed
           /\ \A o \in r.kept \cap Sees[r.by] : o <= r.cursor => o \in r.all
    /\ r.pc \in {"listed", "answered"} =>
           IF r.by \in r.failed THEN r.all = {} ELSE Complete(r)
    /\ r.pc # "idle" /\ r.via = "order" =>
           \A s \in Strategy \ r.failed : s < r.by => r.kept \cap Sees[s] = {}
    /\ r.pc = "answered" /\ r.all = {} => r.via = "order" /\ r.by + 1 \notin Strategy

SearchInv ==
    /\ held \subseteq 1..LastObject
    /\ searchStrategy \in Strategy \cup {Unknown}
    /\ search \in [Searcher -> SearchRecord]
    /\ \A p \in Searcher : SearchOK(search[p], held)

(* The strategies are numbered from 1, and each sees objects. *)
LEMMA Strategies ==
    \E n \in Nat \ {0} : /\ Strategy = 1..n
                         /\ \A s \in Strategy : Sees[s] \subseteq 1..LastObject
<1>1. Len(Sees) \in Nat \ {0} /\ Strategy = 1..Len(Sees)
  BY SearchAssumption DEF Strategy
<1>2. \A s \in 1..Len(Sees) : Sees[s] \in SUBSET (1..LastObject)
  BY SearchAssumption
<1> QED BY <1>1, <1>2

(* A step of one call that leaves the container alone. *)
LEMMA OneSearch ==
    ASSUME SearchInv, NEW p \in Searcher, NEW r, SearchOK(r, held),
           search' = [search EXCEPT ![p] = r], held' = held,
           searchStrategy' \in Strategy \cup {Unknown}
    PROVE  SearchInv'
<1>1. r \in SearchRecord
  BY DEF SearchOK
<1>2. search' \in [Searcher -> SearchRecord]
  BY <1>1 DEF SearchInv
<1>3. \A q \in Searcher : search'[q] = IF q = p THEN r ELSE search[q]
  BY DEF SearchInv
<1>4. \A q \in Searcher : SearchOK(search'[q], held')
  BY <1>3 DEF SearchInv
<1> QED BY <1>2, <1>4 DEF SearchInv

(* An object that comes or goes is not kept from begin to end. *)
LEMMA ChangesInv ==
    ASSUME SearchInv, NEW o \in 1..LastObject, Changes(o)
    PROVE  SearchInv'
<1>1. held' \subseteq 1..LastObject
  BY DEF SearchInv, Changes
<1>2. ASSUME NEW p \in Searcher
      PROVE  search'[p] \in SearchRecord /\ SearchOK(search'[p], held')
  <2> DEFINE r == search[p]
             t == [r EXCEPT !.kept = r.kept \cap held']
  <2>1. search'[p] = t
    BY DEF Changes
  <2>2. r \in SearchRecord /\ SearchOK(r, held)
    BY DEF SearchInv
  <2>3. /\ t \in SearchRecord /\ t.kept = r.kept \cap held'
        /\ t.pc = r.pc /\ t.by = r.by /\ t.via = r.via /\ t.cursor = r.cursor
        /\ t.all = r.all /\ t.failed = r.failed
    BY <2>2 DEF SearchRecord
  <2> HIDE DEF r, t
  <2>4. SearchOK(t, held')
    BY <2>2, <2>3 DEF SearchOK, Complete
  <2> QED BY <2>1, <2>3, <2>4
<1>3. search' \in [Searcher -> SearchRecord]
  BY <1>2 DEF Changes
<1>4. searchStrategy' = searchStrategy
  BY DEF Changes
<1> QED BY <1>1, <1>2, <1>3, <1>4 DEF SearchInv

(* A search begins with the memo's strategy, or with the first. *)
LEMMA BeginsInv ==
    ASSUME SearchInv, NEW p \in Searcher, SearchBegins(p)
    PROVE  SearchInv'
<1> DEFINE known == searchStrategy # Unknown
           via == IF known THEN "memo" ELSE "order"
           by == IF known THEN searchStrategy ELSE 1
           r == [NoSearch EXCEPT !.pc = "asks", !.kept = held, !.via = via, !.by = by]
<1>1. PICK n \in Nat \ {0} : Strategy = 1..n
  BY Strategies
<1>2. held \subseteq 1..LastObject /\ searchStrategy \in Strategy \cup {Unknown}
  BY DEF SearchInv
<1>3. /\ via \in {"memo", "order"} /\ by \in Nat /\ by \in Strategy
      /\ via = "order" => by = 1
  BY <1>1, <1>2
<1>4. search' = [search EXCEPT ![p] = r] /\ held' = held /\ searchStrategy' = searchStrategy
  BY DEF SearchBegins
<1> HIDE DEF via, by
<1>5. /\ r.pc = "asks" /\ r.kept = held /\ r.via = via /\ r.cursor = 0 /\ r.all = {}
      /\ r.failed = {} /\ r.by = by
  BY DEF NoSearch
<1>6. r \in SearchRecord
  <2>1. NoSearch \in SearchRecord
    BY SearchAssumption DEF NoSearch, SearchRecord, Unknown
  <2> QED BY <1>2, <1>3, <2>1 DEF SearchRecord
<1>7. \A o \in held : ~(o <= 0)
  BY <1>2, SearchAssumption
<1>8. \A s \in Strategy : ~(s < 1)
  BY <1>1
<1> HIDE DEF r
<1>9. SearchOK(r, held)
  BY <1>3, <1>5, <1>6, <1>7, <1>8 DEF SearchOK
<1> QED BY <1>2, <1>4, <1>9, OneSearch

(* A page adds the objects that come next, so nothing before the cursor is missed. *)
LEMMA PageInv ==
    ASSUME SearchInv, NEW p \in Searcher, PageComes(p)
    PROVE  SearchInv'
<1>1. PICK o \in Rest(p) :
          /\ \A q \in Rest(p) : o <= q
          /\ search' = [search EXCEPT ![p] =
                          [@ EXCEPT !.all = search[p].all \cup {o}, !.cursor = o,
                                    !.pc = IF LastPage(p, o) THEN "listed" ELSE "asks"]]
  BY DEF PageComes
<1> DEFINE r == search[p]
           label == IF LastPage(p, o) THEN "listed" ELSE "asks"
           t == [r EXCEPT !.all = r.all \cup {o}, !.cursor = o, !.pc = label]
<1>2. r \in SearchRecord /\ SearchOK(r, held) /\ r.pc = "asks" /\ held \subseteq 1..LastObject
  BY DEF SearchInv, PageComes
<1>3. o \in held \cap Sees[r.by] /\ o > r.cursor /\ o \in 1..LastObject
  BY <1>1, <1>2 DEF Rest
<1>5. search' = [search EXCEPT ![p] = t]
  BY <1>1
<1>10. label \in {"listed", "asks"} /\ (label = "listed" => LastPage(p, o))
  OBVIOUS
<1>11. o \in 0..LastObject /\ r.all \cup {o} \subseteq 1..LastObject
  BY <1>2, <1>3, SearchAssumption DEF SearchRecord
<1> HIDE DEF label
<1>4. /\ t \in SearchRecord /\ t.all = r.all \cup {o} /\ t.cursor = o /\ t.pc = label
      /\ t.by = r.by /\ t.via = r.via /\ t.kept = r.kept /\ t.failed = r.failed
  BY <1>2, <1>10, <1>11 DEF SearchRecord
<1>6. ASSUME NEW q \in r.kept \cap Sees[r.by], q <= o PROVE q \in t.all
  <2>1. q \in 1..LastObject /\ q \in held /\ r.cursor \in 0..LastObject
    BY <1>2 DEF SearchOK, SearchRecord
  <2>2. CASE q <= r.cursor
    BY <1>2, <1>4, <2>2 DEF SearchOK
  <2>3. CASE ~(q <= r.cursor)
    <3>1. q > r.cursor
      BY <2>1, <2>3, SearchAssumption
    <3>2. q \in Rest(p)
      BY <2>1, <3>1 DEF Rest
    <3>3. q = o
      BY <1>1, <1>3, <1>6, <2>1, <3>2, SearchAssumption
    <3> QED BY <1>4, <3>3
  <2> QED BY <2>2, <2>3
<1>7. ASSUME LastPage(p, o), NEW q \in r.kept \cap Sees[r.by] PROVE q <= o
  <2>1. q \in 1..LastObject /\ q \in held /\ r.cursor \in 0..LastObject
    BY <1>2 DEF SearchOK, SearchRecord
  <2>2. CASE q > r.cursor
    BY <1>7, <2>1, <2>2 DEF LastPage, Rest
  <2>3. CASE ~(q > r.cursor)
    BY <1>3, <2>1, <2>3, SearchAssumption
  <2> QED BY <2>2, <2>3
<1> HIDE DEF r, t
<1>8. SearchOK(t, held)
  <2>1. r.by \in Strategy /\ r.by \notin r.failed /\ r.kept \subseteq held
    BY <1>2 DEF SearchOK
  <2>2. t.pc = "asks" => \A q \in t.kept \cap Sees[t.by] : q <= t.cursor => q \in t.all
    BY <1>4, <1>6
  <2>3. t.pc = "listed" => Complete(t)
    BY <1>4, <1>6, <1>7, <1>10 DEF Complete
  <2>4. t.via = "order" => \A s \in Strategy \ t.failed : s < t.by => t.kept \cap Sees[s] = {}
    BY <1>2, <1>4 DEF SearchOK
  <2> QED BY <1>4, <1>10, <2>1, <2>2, <2>3, <2>4 DEF SearchOK
<1>9. held' = held /\ searchStrategy' = searchStrategy
  BY DEF PageComes
<1> QED BY <1>5, <1>8, <1>9, OneSearch DEF SearchInv

(* A strategy ends: it has listed all it sees, or counts as failed. *)
LEMMA PageEndsInv ==
    ASSUME SearchInv, NEW p \in Searcher, PageEmpty(p) \/ PageFails(p)
    PROVE  SearchInv'
<1> DEFINE r == search[p]
           empty == [r EXCEPT !.pc = "listed"]
           failing == [r EXCEPT !.pc = "listed", !.all = {}, !.failed = r.failed \cup {r.by}]
<1>1. r \in SearchRecord /\ SearchOK(r, held) /\ r.pc = "asks" /\ held \subseteq 1..LastObject
  BY DEF SearchInv, PageEmpty, PageFails
<1>2. held' = held /\ searchStrategy' = searchStrategy
  BY DEF PageEmpty, PageFails
<1>3. CASE PageEmpty(p)
  <2>1. search' = [search EXCEPT ![p] = empty]
    BY <1>3 DEF PageEmpty
  <2>2. /\ empty \in SearchRecord /\ empty.pc = "listed" /\ empty.all = r.all
        /\ empty.by = r.by /\ empty.via = r.via /\ empty.kept = r.kept
        /\ empty.failed = r.failed
    BY <1>1 DEF SearchRecord
  <2>3. ASSUME NEW q \in r.kept \cap Sees[r.by] PROVE q \in r.all
    <3>1. q \in 1..LastObject /\ q \in held /\ r.cursor \in 0..LastObject
      BY <1>1 DEF SearchOK, SearchRecord
    <3>2. ~(q > r.cursor)
      BY <1>3, <3>1 DEF PageEmpty, Rest
    <3>3. q <= r.cursor
      BY <3>1, <3>2, SearchAssumption
    <3> QED BY <1>1, <3>3 DEF SearchOK
  <2> HIDE DEF r, empty
  <2>4. SearchOK(empty, held)
    BY <1>1, <2>2, <2>3 DEF SearchOK, Complete
  <2> QED BY <1>2, <2>1, <2>4, OneSearch DEF SearchInv
<1>4. CASE PageFails(p)
  <2>1. search' = [search EXCEPT ![p] = failing]
    BY <1>4 DEF PageFails
  <2>2. /\ failing \in SearchRecord /\ failing.pc = "listed" /\ failing.all = {}
        /\ failing.by = r.by /\ failing.via = r.via /\ failing.kept = r.kept
        /\ failing.failed = r.failed \cup {r.by}
    BY <1>1 DEF SearchRecord
  <2> HIDE DEF r, failing
  <2>3. SearchOK(failing, held)
    BY <1>1, <2>2 DEF SearchOK
  <2> QED BY <1>2, <2>1, <2>3, OneSearch DEF SearchInv
<1> QED BY <1>3, <1>4

(* The next strategy begins: those before it had nothing to list, or failed. *)
LEMMA TriesInv ==
    ASSUME SearchInv, NEW p \in Searcher, ForgetsMemo(p) \/ TriesNext(p)
    PROVE  SearchInv'
<1> DEFINE r == search[p]
           Again(s) == [r EXCEPT !.pc = "asks", !.by = s, !.via = "order", !.cursor = 0,
                                 !.all = {}, !.failed = r.failed \ {s}]
<1>1. /\ r \in SearchRecord /\ SearchOK(r, held) /\ r.pc = "listed" /\ r.all = {}
      /\ held \subseteq 1..LastObject
  BY DEF SearchInv, ForgetsMemo, TriesNext, Taken
<1>2. PICK n \in Nat \ {0} : Strategy = 1..n
  BY Strategies
<1>3. ASSUME NEW s \in Strategy,
             \A u \in Strategy \ (r.failed \ {s}) : u < s => r.kept \cap Sees[u] = {}
      PROVE  SearchOK(Again(s), held)
  <2>1. s \in Nat /\ 0 \in 0..LastObject
    BY <1>2, SearchAssumption
  <2> DEFINE t == Again(s)
  <2>2. /\ t \in SearchRecord /\ t.pc = "asks" /\ t.by = s /\ t.via = "order" /\ t.cursor = 0
        /\ t.all = {} /\ t.failed = r.failed \ {s} /\ t.kept = r.kept
    BY <1>1, <2>1 DEF SearchRecord
  <2>3. r.kept \subseteq held /\ \A o \in r.kept : ~(o <= 0)
    BY <1>1, SearchAssumption DEF SearchOK, SearchRecord
  <2> HIDE DEF t
  <2>4. \A u \in Strategy \ t.failed : u < t.by => t.kept \cap Sees[u] = {}
    BY <1>3, <2>2
  <2>5. t.by \in Strategy /\ t.by \notin t.failed /\ t.kept \subseteq held
    BY <1>3, <2>2, <2>3
  <2>6. t.pc = "asks" => \A o \in t.kept \cap Sees[t.by] : o <= t.cursor => o \in t.all
    BY <2>2, <2>3
  <2>7. SearchOK(t, held)
    BY <2>2, <2>4, <2>5, <2>6 DEF SearchOK
  <2> QED BY <2>7 DEF t
<1>4. held' = held
  BY DEF ForgetsMemo, TriesNext
<1>5. CASE ForgetsMemo(p)
  <2>1. search' = [search EXCEPT ![p] = Again(1)]
    BY <1>5 DEF ForgetsMemo, Asks
  <2>2. 1 \in Strategy /\ \A u \in Strategy : ~(u < 1)
    BY <1>2
  <2>4. SearchOK(Again(1), held)
    BY <1>3, <2>2
  <2>3. searchStrategy' = Unknown
    BY <1>5 DEF ForgetsMemo
  <2> HIDE DEF Again
  <2> QED BY <1>4, <2>1, <2>3, <2>4, OneSearch
<1>6. CASE TriesNext(p)
  <2>1. search' = [search EXCEPT ![p] = Again(r.by + 1)] /\ searchStrategy' = searchStrategy
    BY <1>6 DEF TriesNext, Asks
  <2>2. r.via = "order" /\ r.by + 1 \in Strategy /\ r.by \in Strategy
    BY <1>1, <1>6 DEF TriesNext, SearchOK
  <2>3. ASSUME NEW u \in Strategy \ (r.failed \ {r.by + 1}), u < r.by + 1
        PROVE  r.kept \cap Sees[u] = {}
    <3>1. u \notin r.failed /\ (u < r.by \/ u = r.by)
      BY <1>2, <2>2, <2>3
    <3>2. CASE u < r.by
      BY <1>1, <2>2, <3>1, <3>2 DEF SearchOK
    <3>3. CASE u = r.by
      BY <1>1, <3>1, <3>3 DEF SearchOK, Complete
    <3> QED BY <3>1, <3>2, <3>3
  <2>4. SearchOK(Again(r.by + 1), held)
    BY <1>3, <2>2, <2>3
  <2> HIDE DEF Again, r
  <2> QED BY <1>4, <2>1, <2>4, OneSearch DEF SearchInv
<1> QED BY <1>5, <1>6

(* The search answers, and the memo may change. *)
LEMMA AnswersInv ==
    ASSUME SearchInv, NEW p \in Searcher, Answers(p) \/ AnswersNothing(p) \/ SearchReturns(p)
    PROVE  SearchInv'
<1> DEFINE r == search[p]
           t == [r EXCEPT !.pc = "answered"]
<1>1. r \in SearchRecord /\ SearchOK(r, held) /\ held' = held
  BY DEF SearchInv, Answers, AnswersNothing, SearchReturns
<1>2. /\ t \in SearchRecord /\ t.pc = "answered" /\ t.by = r.by /\ t.via = r.via
      /\ t.all = r.all /\ t.failed = r.failed /\ t.kept = r.kept
  BY <1>1 DEF SearchRecord
<1>3. CASE Answers(p)
  <2>1. search' = [search EXCEPT ![p] = t] /\ r.pc = "listed" /\ r.all # {}
    BY <1>3 DEF Answers, Taken
  <2>2. searchStrategy' \in {searchStrategy, r.by}
    BY <1>3 DEF Answers
  <2> HIDE DEF r, t
  <2>3. SearchOK(t, held) /\ r.by \in Strategy
    BY <1>1, <1>2, <2>1 DEF SearchOK, Complete
  <2> QED BY <1>1, <2>1, <2>2, <2>3, OneSearch DEF SearchInv
<1>4. CASE AnswersNothing(p)
  <2>1. /\ search' = [search EXCEPT ![p] = t] /\ searchStrategy' = searchStrategy
        /\ r.pc = "listed" /\ r.via = "order" /\ r.by + 1 \notin Strategy
    BY <1>4 DEF AnswersNothing
  <2> HIDE DEF r, t
  <2>2. SearchOK(t, held)
    BY <1>1, <1>2, <2>1 DEF SearchOK, Complete
  <2> QED BY <1>1, <2>1, <2>2, OneSearch DEF SearchInv
<1>5. CASE SearchReturns(p)
  <2>1. search' = [search EXCEPT ![p] = NoSearch] /\ searchStrategy' = searchStrategy
    BY <1>5 DEF SearchReturns
  <2>2. SearchOK(NoSearch, held)
    BY SearchAssumption DEF SearchOK, NoSearch, SearchRecord, Unknown
  <2> QED BY <1>1, <2>1, <2>2, OneSearch DEF SearchInv
<1> QED BY <1>3, <1>4, <1>5

(* The invariant, for any deployment and searchers. *)
LEMMA SearchInvariant == SearchSpec => []SearchInv
<1>1. SearchInit => SearchInv
  <2>1. NoSearch \in SearchRecord /\ \A there : SearchOK(NoSearch, there)
    BY SearchAssumption DEF SearchOK, NoSearch, SearchRecord, Unknown
  <2> QED BY <2>1 DEF SearchInit, SearchInv
<1>2. SearchInv /\ [SearchNext]_searchVars => SearchInv'
  <2> SUFFICES ASSUME SearchInv, [SearchNext]_searchVars PROVE SearchInv'
    OBVIOUS
  <2>1. CASE UNCHANGED searchVars
    BY <2>1 DEF searchVars, SearchInv
  <2> QED BY <2>1, ChangesInv, BeginsInv, PageInv, PageEndsInv, TriesInv, AnswersInv
          DEF SearchNext
<1> QED BY <1>1, <1>2, PTL DEF SearchSpec

(* A search finds every object that was in the container all the time      *)
(* (client.go:467), by the strategy that answers, whatever pages, changes, *)
(* errors and other searches do.                                           *)
THEOREM NothingMissed == SearchSpec => []SearchFinds
<1>1. SearchInv => SearchFinds
  <2> SUFFICES ASSUME SearchInv, NEW p \in Searcher, search[p].pc = "answered"
               PROVE  /\ search[p].all # {} =>
                             search[p].kept \cap Sees[search[p].by] \subseteq search[p].all
                      /\ search[p].all = {} => \A s \in Strategy \ search[p].failed :
                             search[p].kept \cap Sees[s] = {}
    BY DEF SearchFinds
  <2> DEFINE r == search[p]
  <2>1. SearchOK(r, held) /\ r.pc = "answered" /\ r.by \in Strategy
    BY DEF SearchInv, SearchOK
  <2>2. PICK n \in Nat \ {0} : Strategy = 1..n
    BY Strategies
  <2> HIDE DEF r
  <2>3. r.all # {} => r.kept \cap Sees[r.by] \subseteq r.all
    BY <2>1 DEF SearchOK, Complete
  <2>4. ASSUME r.all = {}, NEW s \in Strategy \ r.failed PROVE r.kept \cap Sees[s] = {}
    <3>1. r.via = "order" /\ r.by + 1 \notin Strategy
      BY <2>1, <2>4 DEF SearchOK
    <3>2. s < r.by \/ s = r.by
      BY <2>1, <2>2, <3>1
    <3>3. CASE s < r.by
      BY <2>1, <3>1, <3>3 DEF SearchOK
    <3>4. CASE s = r.by
      BY <2>1, <2>4, <3>4 DEF SearchOK, Complete
    <3> QED BY <3>2, <3>3, <3>4
  <2> QED BY <2>3, <2>4 DEF r
<1> QED BY <1>1, SearchInvariant, PTL
-----------------------------------------------------------------------------

(* DirListing: two caches, one above the other. *)

\* A change that has not dropped the directories yet.
Drops(w) == worker[w].pc \in {"dropScan", "dropDirsLast", "dropDirs"}

WorkerField == {"pc", "dir", "raced", "children"}
EntryField  == {"present", "raced", "children"}

\* Where a goroutine is that lists a directory.
Listing == {"put", "scan", "read", "again", "listed"}

DirShape ==
    /\ DOMAIN worker = Worker /\ DOMAIN dirCache = Dirs
    /\ \A w \in Worker : WorkerField \subseteq DOMAIN worker[w]
    /\ \A d \in Dirs : EntryField \subseteq DOMAIN dirCache[d]
    /\ \A w \in Worker : worker[w].pc \in Listing => worker[w].dir \in Dirs

\* What a pass over the objects, in some order, makes of a directory.
Shown(objects, d) == {ListChildren(entries, d) : entries \in Orders(objects)}

\* What ListEntriesByPrefix makes of it.
Answered(objects, d) ==
    {ListByTrie(BuildListingTrie(entries), entries, d) : entries \in Orders(objects)}
    \cup {ListLinear(entries, d) : entries \in Orders(objects)}

\* What goroutine r has made of a directory, to cache it or to answer with.
IsCurrent(r) ==
    /\ r.pc = "put" /\ ~r.raced => r.children \in Shown(stored, r.dir)
    /\ r.pc = "listed" /\ ~r.raced => r.children \in Answered(stored, r.dir)

\* It shows the container, or it has raced.
MadeCurrent == \A w \in Worker : IsCurrent(worker[w])

\* And so does what is cached, or it is about to be dropped.
CacheCurrent ==
    \A d \in Dirs :
        dirCache[d].present /\ ~dirCache[d].raced
        => \/ dirCache[d].children \in Shown(stored, d)
           \/ \E w \in Worker : Drops(w)

Known ==
    /\ stored \subseteq DirObject
    /\ scan \in [present : BOOLEAN, fresh : BOOLEAN, objects : SUBSET DirObject]

DirInv == Known /\ DirShape /\ MadeCurrent /\ CacheCurrent

(* One goroutine goes on, and the container stays. *)
LEMMA OneWorker ==
    ASSUME DirShape, NEW w \in Worker, NEW r, worker' = [worker EXCEPT ![w] = r],
           WorkerField \subseteq DOMAIN r, r.pc \in Listing => r.dir \in Dirs
    PROVE  /\ DOMAIN worker' = Worker /\ worker'[w] = r
           /\ \A v \in Worker \ {w} : worker'[v] = worker[v]
           /\ \A v \in Worker : /\ WorkerField \subseteq DOMAIN worker'[v]
                                /\ worker'[v].pc \in Listing => worker'[v].dir \in Dirs
BY DEF DirShape

(* A goroutine that does nothing. *)
LEMMA IdleFields ==
    /\ Idle.pc = "idle" /\ WorkerField \subseteq DOMAIN Idle /\ ~NoEntry.present
    /\ EntryField \subseteq DOMAIN NoEntry
    /\ "idle" \notin Listing /\ IsCurrent(Idle) /\ IsCurrent(Idle)'
BY DEF Idle, NoEntry, WorkerField, EntryField, Listing, IsCurrent

(* One goroutine goes on, and with it at most the scan: what it has made shows the
   container or has raced, and it has dropped nothing. *)
LEMMA OneListing ==
    ASSUME DirInv, NEW w \in Worker, NEW r, worker' = [worker EXCEPT ![w] = r],
           WorkerField \subseteq DOMAIN r, r.pc \in Listing => r.dir \in Dirs,
           IsCurrent(r), ~Drops(w), UNCHANGED <<stored, dirCache>>, Known'
    PROVE  DirInv'
<1>1. /\ DOMAIN worker' = Worker /\ worker'[w] = r
      /\ \A v \in Worker \ {w} : worker'[v] = worker[v]
      /\ \A v \in Worker : /\ WorkerField \subseteq DOMAIN worker'[v]
                           /\ worker'[v].pc \in Listing => worker'[v].dir \in Dirs
  <2>1. DirShape
    BY DEF DirInv
  <2> QED BY <2>1, OneWorker
<1>2. DirShape'
  BY <1>1 DEF DirInv, DirShape
<1>3. MadeCurrent'
  BY <1>1 DEF DirInv, MadeCurrent, IsCurrent
<1>4. \A v \in Worker : Drops(v) => Drops(v)'
  BY <1>1 DEF Drops
<1>5. CacheCurrent'
  BY <1>4 DEF DirInv, CacheCurrent
<1> QED BY <1>2, <1>3, <1>5 DEF DirInv

(* The scan that is read or made is one of the container's objects. *)
LEMMA ScanKnown ==
    ASSUME DirInv
    PROVE  /\ Scanned \subseteq DirObject
           /\ ScanFills /\ UNCHANGED stored => Known'
           /\ UNCHANGED <<stored, scan>> => Known'
<1>1. stored \subseteq DirObject
      /\ scan \in [present : BOOLEAN, fresh : BOOLEAN, objects : SUBSET DirObject]
  BY DEF DirInv, Known
<1>2. Scanned \subseteq DirObject
  BY <1>1 DEF Scanned
<1>3. ASSUME ScanFills, UNCHANGED stored PROVE Known'
  BY <1>1, <1>2, <1>3 DEF Known, ScanFills
<1>4. ASSUME UNCHANGED <<stored, scan>> PROVE Known'
  BY <1>1, <1>4 DEF Known
<1> QED BY <1>2, <1>3, <1>4

(* What has been made of a scan shows the container, or the scan was of another time. *)
LEMMA MadeFields ==
    ASSUME NEW pc \in Listing, NEW d \in Dirs, NEW objects, NEW children,
           pc = "put" => children \in Shown(objects, d),
           pc = "listed" => children \in Answered(objects, d)
    PROVE  /\ WorkerField \subseteq DOMAIN Made(pc, d, objects, children)
           /\ Made(pc, d, objects, children).dir \in Dirs
           /\ Made(pc, d, objects, children).pc = pc
           /\ IsCurrent(Made(pc, d, objects, children))
<1> DEFINE r == Made(pc, d, objects, children)
<1>1. /\ WorkerField \subseteq DOMAIN r /\ r.dir = d /\ r.pc = pc
      /\ r.children = children /\ r.raced = (objects # stored)
  BY DEF Made, WorkerField
<1> HIDE DEF r
<1>2. IsCurrent(r)
  BY <1>1 DEF IsCurrent
<1> QED BY <1>1, <1>2 DEF r

(* A listing is made.  It is of another time when the scan is. *)
LEMMA DirLists ==
    ASSUME DirInv, NEW w \in Worker, NEW d \in Dirs, ListScans(w, d)
    PROVE  DirInv'
<1>1. PICK entries \in Orders(Scanned) :
          worker' = [worker EXCEPT ![w] = Made("put", d, Scanned, ListChildren(entries, d))]
  BY DEF ListScans
<1>2. UNCHANGED <<stored, dirCache>> /\ ~Drops(w) /\ Known'
  BY ScanKnown, IdleFields DEF ListScans, Drops
<1> DEFINE r == Made("put", d, Scanned, ListChildren(entries, d))
<1>3. WorkerField \subseteq DOMAIN r /\ r.dir \in Dirs /\ IsCurrent(r)
  BY MadeFields DEF Shown, Listing
<1> HIDE DEF r
<1> QED BY <1>1, <1>2, <1>3, OneListing DEF r

(* ListEntriesByPrefix goes on: it reads the cache, scans, reads the trie, scans again,
   answers. *)
LEMMA DirPrefixes ==
    ASSUME DirInv, NEW w \in Worker,
           \/ \E d \in Dirs : PrefixHits(w, d) \/ PrefixMisses(w, d)
           \/ PrefixScans(w) \/ PrefixReads(w) \/ PrefixFindsNone(w)
           \/ PrefixScansAgain(w) \/ PrefixReturns(w)
    PROVE  DirInv'
<1>0. /\ DirShape /\ WorkerField \subseteq DOMAIN worker[w]
      /\ worker[w].pc \in Listing => worker[w].dir \in Dirs
  BY DEF DirInv, DirShape
<1>1. ASSUME NEW d \in Dirs, NEW objects, NEW entries \in Orders(objects), ~Drops(w),
             UNCHANGED <<stored, dirCache>>, Known',
             \/ worker' = [worker EXCEPT ![w] =
                  Made("listed", d, objects, ListByTrie(BuildListingTrie(entries), entries, d))]
             \/ worker' = [worker EXCEPT ![w] =
                  Made("listed", d, objects, ListLinear(entries, d))]
      PROVE  DirInv'
  <2>1. PICK children \in Answered(objects, d) :
           worker' = [worker EXCEPT ![w] = Made("listed", d, objects, children)]
    BY <1>1 DEF Answered
  <2> DEFINE r == Made("listed", d, objects, children)
  <2>2. WorkerField \subseteq DOMAIN r /\ r.dir \in Dirs /\ IsCurrent(r)
    BY MadeFields DEF Listing
  <2> HIDE DEF r
  <2> QED BY <1>1, <2>1, <2>2, OneListing DEF r
<1>2. ASSUME NEW d \in Dirs, PrefixHits(w, d) PROVE DirInv'
  <2>1. /\ UNCHANGED <<stored, dirCache>> /\ Known' /\ ~Drops(w)
        /\ \E entries \in Orders(scan.objects) :
              worker' = [worker EXCEPT ![w] =
                           Made("listed", d, scan.objects,
                                ListByTrie(BuildListingTrie(entries), entries, d))]
    BY <1>2, ScanKnown, IdleFields DEF PrefixHits, Drops
  <2> QED BY <1>1, <2>1
<1>3. CASE PrefixReads(w)
  <2>1. /\ UNCHANGED <<stored, dirCache>> /\ Known' /\ ~Drops(w) /\ worker[w].dir \in Dirs
        /\ \E entries \in Orders(scan.objects) :
              worker' = [worker EXCEPT ![w] =
                           Made("listed", worker[w].dir, scan.objects,
                                ListByTrie(BuildListingTrie(entries), entries, worker[w].dir))]
    BY <1>0, <1>3, ScanKnown DEF PrefixReads, Drops, Listing
  <2> QED BY <1>1, <2>1
<1>4. CASE PrefixScansAgain(w)
  <2>1. /\ UNCHANGED <<stored, dirCache>> /\ Known' /\ ~Drops(w) /\ worker[w].dir \in Dirs
        /\ \E entries \in Orders(Scanned) :
              worker' = [worker EXCEPT ![w] =
                           Made("listed", worker[w].dir, Scanned,
                                ListLinear(entries, worker[w].dir))]
    BY <1>0, <1>4, ScanKnown DEF PrefixScansAgain, Drops, Listing
  <2> QED BY <1>1, <2>1
<1>5. ASSUME NEW d \in Dirs, PrefixMisses(w, d) PROVE DirInv'
  <2> DEFINE r == [Idle EXCEPT !.pc = "scan", !.dir = d]
  <2>1. WorkerField \subseteq DOMAIN r /\ r.dir \in Dirs /\ r.pc = "scan"
    BY DEF Idle, WorkerField
  <2>2. /\ UNCHANGED <<stored, dirCache>> /\ Known' /\ ~Drops(w)
        /\ worker' = [worker EXCEPT ![w] = r]
    BY <1>5, ScanKnown, IdleFields DEF PrefixMisses, Drops
  <2> HIDE DEF r
  <2>3. IsCurrent(r)
    BY <2>1 DEF IsCurrent
  <2> QED BY <2>1, <2>2, <2>3, OneListing
<1>6. ASSUME NEW l \in {"read", "again"}, worker[w].pc \in {"scan", "read"},
             worker' = [worker EXCEPT ![w].pc = l], UNCHANGED <<stored, dirCache>>, Known'
      PROVE  DirInv'
  <2> DEFINE r == [worker[w] EXCEPT !.pc = l]
  <2>1. /\ WorkerField \subseteq DOMAIN r /\ r.dir = worker[w].dir /\ r.pc = l
        /\ worker[w].dir \in Dirs
    BY <1>0, <1>6 DEF WorkerField, Listing
  <2>2. worker' = [worker EXCEPT ![w] = r] /\ ~Drops(w)
    BY <1>6 DEF Drops
  <2> HIDE DEF r
  <2>3. IsCurrent(r)
    BY <1>6, <2>1 DEF IsCurrent
  <2> QED BY <1>6, <2>1, <2>2, <2>3, OneListing
<1>7. CASE PrefixScans(w) \/ PrefixFindsNone(w)
  <2>1. /\ UNCHANGED <<stored, dirCache>> /\ Known' /\ worker[w].pc \in {"scan", "read"}
        /\ \E l \in {"read", "again"} : worker' = [worker EXCEPT ![w].pc = l]
    BY <1>7, ScanKnown DEF PrefixScans, PrefixFindsNone
  <2> QED BY <1>6, <2>1
<1>8. CASE PrefixReturns(w)
  <2>1. /\ UNCHANGED <<stored, dirCache>> /\ Known' /\ ~Drops(w)
        /\ worker' = [worker EXCEPT ![w] = Idle]
    BY <1>8, ScanKnown DEF PrefixReturns, Drops
  <2> QED BY <2>1, IdleFields, OneListing
<1> QED BY <1>2, <1>3, <1>4, <1>5, <1>7, <1>8

(* What was listed is cached. *)
LEMMA DirPuts ==
    ASSUME DirInv, NEW w \in Worker, ListPuts(w)
    PROVE  DirInv'
<1> DEFINE d == worker[w].dir
           e == [present |-> TRUE, raced |-> worker[w].raced, children |-> worker[w].children]
<1>1. /\ DirShape /\ worker[w].pc = "put" /\ UNCHANGED <<stored, scan>>
      /\ dirCache' = [dirCache EXCEPT ![d] = e] /\ worker' = [worker EXCEPT ![w] = Idle]
  BY DEF ListPuts, DirInv
<1>2. /\ d \in Dirs /\ EntryField \subseteq DOMAIN e
      /\ ~e.raced => e.children \in Shown(stored, d)
  BY <1>1 DEF DirInv, DirShape, MadeCurrent, IsCurrent, EntryField, Listing
<1> HIDE DEF e
<1>3. /\ DOMAIN worker' = Worker /\ worker'[w] = Idle
      /\ \A v \in Worker \ {w} : worker'[v] = worker[v]
      /\ \A v \in Worker : /\ WorkerField \subseteq DOMAIN worker'[v]
                           /\ worker'[v].pc \in Listing => worker'[v].dir \in Dirs
  BY <1>1, OneWorker, IdleFields
<1>4. /\ DOMAIN dirCache' = Dirs /\ dirCache'[d] = e
      /\ \A x \in Dirs \ {d} : dirCache'[x] = dirCache[x]
  BY <1>1, <1>2 DEF DirShape
<1>5. DirShape'
  BY <1>1, <1>2, <1>3, <1>4 DEF DirShape
<1>6. MadeCurrent'
  BY <1>1, <1>3, IdleFields DEF DirInv, MadeCurrent, IsCurrent
<1>7. \A v \in Worker : Drops(v) => Drops(v)'
  BY <1>1, <1>3 DEF Drops
<1>8. CacheCurrent'
  <2>1. ASSUME NEW x \in Dirs, dirCache'[x].present, ~dirCache'[x].raced
        PROVE  dirCache'[x].children \in Shown(stored, x) \/ \E v \in Worker : Drops(v)'
    <3>1. CASE x = d
      BY <1>2, <1>4, <2>1, <3>1
    <3>2. CASE x # d
      BY <1>4, <1>7, <2>1, <3>2 DEF DirInv, CacheCurrent
    <3> QED BY <3>1, <3>2
  <2> QED BY <1>1, <2>1 DEF CacheCurrent
<1> QED BY <1>1, <1>5, <1>6, <1>8 DEF DirInv, Known

(* The container changes: what others are about to cache or to answer has raced, and what
   is cached is about to be dropped. *)
LEMMA DirEditsInv ==
    ASSUME DirInv, NEW w \in Worker, NEW o \in DirObject, Edits(w, o)
    PROVE  DirInv'
<1> DEFINE r == [Idle EXCEPT !.pc = IF o \in stored THEN "dropDirs" ELSE "dropScan",
                             !.dir = Upto(PathOf[o], Len(PathOf[o]) - 1)]
           Late(v) == [worker[v] EXCEPT !.raced = TRUE]
<1>1. /\ DirShape /\ UNCHANGED <<scan, dirCache>>
      /\ stored' = (IF o \in stored THEN stored \ {o} ELSE stored \cup {o})
      /\ worker' = [v \in Worker |-> IF v = w THEN r
                                    ELSE IF worker[v].pc \in {"put", "listed"} THEN Late(v)
                                    ELSE worker[v]]
  BY DEF Edits, DirInv
<1>2. r.pc \in {"dropDirs", "dropScan"} /\ WorkerField \subseteq DOMAIN r
  BY DEF Idle, WorkerField
<1>3. \A v \in Worker : /\ WorkerField \subseteq DOMAIN Late(v) /\ Late(v).raced
                       /\ Late(v).pc = worker[v].pc /\ Late(v).dir = worker[v].dir
  BY <1>1 DEF DirShape, WorkerField
<1> HIDE DEF r, Late
<1>4. /\ DOMAIN worker' = Worker /\ worker'[w] = r
      /\ \A v \in Worker \ {w} :
             worker'[v] = IF worker[v].pc \in {"put", "listed"} THEN Late(v) ELSE worker[v]
  BY <1>1
<1>5. DirShape'
  <2>1. ASSUME NEW v \in Worker
        PROVE  /\ WorkerField \subseteq DOMAIN worker'[v]
               /\ worker'[v].pc \in Listing => worker'[v].dir \in Dirs
    BY <1>1, <1>2, <1>3, <1>4 DEF DirShape, Listing
  <2> QED BY <1>1, <1>4, <2>1 DEF DirShape
<1>6. MadeCurrent'
  BY <1>2, <1>3, <1>4 DEF MadeCurrent, IsCurrent
<1>7. Drops(w)'
  BY <1>2, <1>4 DEF Drops
<1>8. CacheCurrent'
  BY <1>7 DEF CacheCurrent
<1>9. Known'
  BY <1>1 DEF DirInv, Known
<1> QED BY <1>5, <1>6, <1>8, <1>9 DEF DirInv

(* A change drops the directories, all of them. *)
LEMMA DirDrops ==
    ASSUME DirInv, NEW w \in Worker, InvalidateContainer(w)
    PROVE  DirInv'
<1>1. /\ DirShape /\ UNCHANGED <<stored, scan>>
      /\ dirCache' = [d \in Dirs |-> NoEntry]
      /\ \E r : /\ worker' = [worker EXCEPT ![w] = r] /\ WorkerField \subseteq DOMAIN r
                /\ r.pc \in {"idle", "dropScanLast"}
  <2>1. WorkerField \subseteq DOMAIN worker[w]
    BY DEF DirInv, DirShape
  <2> DEFINE r == IF worker[w].pc = "dropDirs" THEN [worker[w] EXCEPT !.pc = "dropScanLast"]
                  ELSE Idle
  <2>2. WorkerField \subseteq DOMAIN r /\ r.pc \in {"idle", "dropScanLast"}
    BY <2>1, IdleFields DEF WorkerField
  <2>3. worker' = [worker EXCEPT ![w] = r]
    BY DEF InvalidateContainer
  <2> QED BY <2>2, <2>3 DEF InvalidateContainer, DirsDropped, DirInv
<1>2. PICK r : /\ worker' = [worker EXCEPT ![w] = r] /\ WorkerField \subseteq DOMAIN r
               /\ r.pc \in {"idle", "dropScanLast"}
  BY <1>1
<1>3. /\ DOMAIN worker' = Worker /\ worker'[w] = r
      /\ \A v \in Worker \ {w} : worker'[v] = worker[v]
      /\ \A v \in Worker : /\ WorkerField \subseteq DOMAIN worker'[v]
                           /\ worker'[v].pc \in Listing => worker'[v].dir \in Dirs
  BY <1>1, <1>2, OneWorker DEF Listing
<1>4. DirShape'
  BY <1>1, <1>3, IdleFields DEF DirShape
<1>5. MadeCurrent'
  BY <1>1, <1>2, <1>3 DEF DirInv, MadeCurrent, IsCurrent
<1>6. CacheCurrent'
  BY <1>1, IdleFields DEF CacheCurrent
<1> QED BY <1>1, <1>4, <1>5, <1>6 DEF DirInv, Known

(* A change drops the scan: before the directories, or last. *)
LEMMA DirScanDrops ==
    ASSUME DirInv, NEW w \in Worker, InvalidateScan(w)
    PROVE  DirInv'
<1>1. /\ DirShape /\ UNCHANGED <<stored, dirCache>> /\ scan' = NoScan
      /\ \E r : /\ worker' = [worker EXCEPT ![w] = r] /\ WorkerField \subseteq DOMAIN r
                /\ r.pc \in {"idle", "dropDirsLast"}
                /\ Drops(w) => r.pc = "dropDirsLast"
  <2>1. WorkerField \subseteq DOMAIN worker[w]
    BY DEF DirInv, DirShape
  <2> DEFINE r == IF worker[w].pc = "dropScan" THEN [worker[w] EXCEPT !.pc = "dropDirsLast"]
                  ELSE Idle
  <2>2. WorkerField \subseteq DOMAIN r /\ r.pc \in {"idle", "dropDirsLast"}
    BY <2>1, IdleFields DEF WorkerField
  <2>3. Drops(w) => r.pc = "dropDirsLast"
    BY <2>1 DEF InvalidateScan, Drops, WorkerField
  <2>4. worker' = [worker EXCEPT ![w] = r]
    BY DEF InvalidateScan
  <2>5. UNCHANGED <<stored, dirCache>> /\ scan' = NoScan /\ DirShape
    BY DEF InvalidateScan, DirInv
  <2> HIDE DEF r
  <2> QED BY <2>2, <2>3, <2>4, <2>5
<1>2. PICK r : /\ worker' = [worker EXCEPT ![w] = r] /\ WorkerField \subseteq DOMAIN r
               /\ r.pc \in {"idle", "dropDirsLast"}
               /\ Drops(w) => r.pc = "dropDirsLast"
  BY <1>1
<1>3. /\ DOMAIN worker' = Worker /\ worker'[w] = r
      /\ \A v \in Worker \ {w} : worker'[v] = worker[v]
      /\ \A v \in Worker : /\ WorkerField \subseteq DOMAIN worker'[v]
                           /\ worker'[v].pc \in Listing => worker'[v].dir \in Dirs
  BY <1>1, <1>2, OneWorker DEF Listing
<1>4. DirShape'
  BY <1>1, <1>3 DEF DirShape
<1>5. MadeCurrent'
  BY <1>1, <1>2, <1>3 DEF DirInv, MadeCurrent, IsCurrent
<1>6. \A v \in Worker : Drops(v) => Drops(v)'
  BY <1>2, <1>3 DEF Drops
<1>7. CacheCurrent'
  BY <1>1, <1>6 DEF DirInv, CacheCurrent
<1>8. Known'
  BY <1>1 DEF DirInv, Known, NoScan
<1> QED BY <1>4, <1>5, <1>7, <1>8 DEF DirInv

(* Time passes, in either cache. *)
LEMMA DirTime ==
    ASSUME DirInv, ScanExpires \/ (\E d \in Dirs : DirExpires(d)) \/ UNCHANGED dirVars
    PROVE  DirInv'
<1>1. CASE ScanExpires \/ UNCHANGED dirVars
  <2>1. UNCHANGED <<stored, dirCache, worker>>
    BY <1>1 DEF ScanExpires, dirVars
  <2>2. Known'
    BY <1>1 DEF DirInv, Known, ScanExpires, dirVars
  <2> QED BY <2>1, <2>2 DEF DirInv, DirShape, MadeCurrent, IsCurrent, CacheCurrent, Drops
<1>2. ASSUME NEW d \in Dirs, DirExpires(d) PROVE DirInv'
  <2>1. /\ UNCHANGED <<stored, scan, worker>> /\ dirCache' = [dirCache EXCEPT ![d] = NoEntry]
        /\ DirShape
    BY <1>2 DEF DirExpires, DirInv
  <2>2. /\ DOMAIN dirCache' = Dirs /\ dirCache'[d] = NoEntry
        /\ \A x \in Dirs \ {d} : dirCache'[x] = dirCache[x]
    BY <2>1 DEF DirShape
  <2>3. DirShape'
    BY <2>1, <2>2, IdleFields DEF DirShape
  <2>4. CacheCurrent'
    BY <2>1, <2>2, IdleFields DEF DirInv, CacheCurrent, Drops
  <2> QED BY <2>1, <2>3, <2>4 DEF DirInv, Known, MadeCurrent, IsCurrent
<1> QED BY <1>1, <1>2

(* The caches are current at the start. *)
LEMMA DirStarts ==
    ASSUME DirInit
    PROVE  DirInv
BY IdleFields DEF DirInit, DirInv, Known, DirShape, MadeCurrent, CacheCurrent, NoScan

(* And stay so. *)
LEMMA DirStep ==
    ASSUME DirInv, [DirNext]_dirVars
    PROVE  DirInv'
BY DirLists, DirPrefixes, DirPuts, DirEditsInv, DirDrops, DirScanDrops, DirTime DEF DirNext

(* DirListing: the three front ends. *)

(* Induction over the positions of a sequence, by a set and not by an operator: finite
   sets are well-founded under inclusion. *)
LEMMA Induct ==
    ASSUME NEW T, 0 \in T, \A n \in Nat : n \in T => n + 1 \in T
    PROVE  Nat \subseteq T
<1> DEFINE Bad == {0..n : n \in Nat \ T}
           R   == StrictSubsetOrdering(Nat)
<1> SUFFICES ASSUME Nat \ T # {} PROVE FALSE
  OBVIOUS
<1>1. Bad \subseteq FiniteSubsetsOf(Nat)
  <2> SUFFICES ASSUME NEW n \in Nat PROVE 0..n \in FiniteSubsetsOf(Nat)
    OBVIOUS
  <2>1. IsFiniteSet(0..n)
    BY FS_Interval
  <2> QED BY <2>1 DEF FiniteSubsetsOf
<1>2. PICK x \in Bad : \A y \in Bad : <<y, x>> \notin R
  <2>1. Bad # {}
    OBVIOUS
  <2>2. IsWellFoundedOn(R, FiniteSubsetsOf(Nat))
    BY FS_StrictSubsetOrderingWellFounded
  <2> HIDE DEF Bad, R
  <2> QED BY <1>1, <2>1, <2>2, WFMin
<1>3. PICK n \in Nat \ T : x = 0..n
  OBVIOUS
<1>4. n # 0 /\ n - 1 \in Nat \ T
  <2>1. n # 0 /\ n - 1 \in Nat
    BY <1>3
  <2>2. n - 1 + 1 = n
    BY <1>3
  <2> QED BY <2>1, <2>2
<1>5. <<0..(n - 1), 0..n>> \in R
  <2>1. n \in 0..n /\ n \notin 0..(n - 1) /\ 0..(n - 1) \subseteq 0..n
    BY <1>4
  <2>2. 0..(n - 1) \in SUBSET Nat /\ 0..n \in SUBSET Nat
    BY <1>4
  <2> QED BY <2>1, <2>2 DEF StrictSubsetOrdering
<1> QED BY <1>2, <1>3, <1>4, <1>5

(* What tells children apart. *)
LEMMA Kinds ==
    /\ \A m, n : Directory(m) # Regular(n)
    /\ \A m, n : Directory(m) = Directory(n) <=> m = n
    /\ \A m, n : Regular(m) = Regular(n) <=> m = n
    /\ \A n : Directory(n).name = n /\ Regular(n).name = n
BY DEF Directory, Regular

(* Paths and directories are sequences of names (client.go:71). *)
LEMMA Paths ==
    /\ \A o \in DirObject : PathOf[o] \in Seq(Names) /\ Len(PathOf[o]) \in Nat \ {0}
    /\ \A d \in Dirs : d \in Seq(Names) /\ Len(d) \in Nat
<1>1. ASSUME NEW o \in DirObject PROVE PathOf[o] \in Seq(Names) /\ Len(PathOf[o]) \in Nat \ {0}
  BY DirAssumption
<1>2. ASSUME NEW d \in Dirs PROVE d \in Seq(Names) /\ Len(d) \in Nat
  <2>1. PICK o \in DirObject : \E n \in 0..Len(PathOf[o]) - 1 : d = SubSeq(PathOf[o], 1, n)
    BY DEF Dirs, Ups, Upto
  <2>2. PICK n \in 0..Len(PathOf[o]) - 1 : d = SubSeq(PathOf[o], 1, n)
    BY <2>1
  <2> QED BY <2>2, <1>1
<1> QED BY <1>1, <1>2

(* Below, name by name. *)
LEMMA BelowMeans ==
    ASSUME NEW s \in Seq(Names), NEW t \in Seq(Names)
    PROVE  Below(s, t) <=> Len(s) < Len(t) /\ \A i \in 1..Len(s) : t[i] = s[i]
<1>1. ASSUME Len(s) < Len(t) PROVE SubSeq(t, 1, Len(s)) = s <=> \A i \in 1..Len(s) : t[i] = s[i]
  BY <1>1
<1> QED BY <1>1 DEF Below, Upto

\* The names below a directory, and those of them that are directories.
NamesBelow(objects, d) ==
    {NameIn(d, PathOf[o]) : o \in {o \in objects : Below(d, PathOf[o])}}
Inner(objects, d) ==
    {NameIn(d, PathOf[o]) :
        o \in {o \in objects : Below(d, PathOf[o]) /\ Len(PathOf[o]) > Len(d) + 1}}

(* Children, by the names below a directory and those that something lies below of. *)
LEMMA TreeIs ==
    ASSUME NEW objects, NEW d
    PROVE  /\ Inner(objects, d) \subseteq NamesBelow(objects, d)
           /\ Tree(objects, d) =
                {Directory(n) : n \in Inner(objects, d)}
                \cup {Regular(n) : n \in NamesBelow(objects, d) \ Inner(objects, d)}
<1> DEFINE below == {PathOf[o] : o \in {o \in objects : Below(d, PathOf[o])}}
           names == {NameIn(d, q) : q \in below}
           inner == {NameIn(d, q) : q \in {q \in below : Len(q) > Len(d) + 1}}
<1>1. names = NamesBelow(objects, d)
  BY Zenon DEF NamesBelow
<1>2. inner = Inner(objects, d)
  BY Zenon DEF Inner
<1>3. Inner(objects, d) \subseteq NamesBelow(objects, d)
  BY Zenon DEF Inner, NamesBelow
<1>4. Tree(objects, d) = {Directory(n) : n \in inner} \cup {Regular(n) : n \in names \ inner}
  BY Zenon DEF Tree
<1> HIDE DEF names, inner
<1> QED BY Zenon, <1>1, <1>2, <1>3, <1>4

(* And without the hidden names. *)
LEMMA ChildrenAre ==
    ASSUME NEW objects, NEW d
    PROVE  /\ Inner(objects, d) \subseteq NamesBelow(objects, d)
           /\ Children(objects, d) =
                {Directory(n) : n \in Inner(objects, d) \ Hidden}
                \cup {Regular(n) : n \in (NamesBelow(objects, d) \ Hidden) \ Inner(objects, d)}
BY TreeIs, Kinds DEF Children

(* One more object is one more round of the pass (tree.go:747). *)
LEMMA ChildrenAdd ==
    ASSUME NEW objects \in SUBSET DirObject, NEW o \in DirObject, NEW d \in Dirs
    PROVE  Children(objects \cup {o}, d) = Adds(Children(objects, d), PathOf[o], d)
<1> DEFINE n     == NameIn(d, PathOf[o])
           deep  == Len(PathOf[o]) > Len(d) + 1
           names == NamesBelow(objects, d)
           inner == Inner(objects, d)
           found == Children(objects, d)
           more  == objects \cup {o}
<1>0. /\ found = {Directory(m) : m \in inner \ Hidden} \cup {Regular(m) : m \in (names \ Hidden) \ inner}
      /\ inner \subseteq names
      /\ Children(more, d) = {Directory(m) : m \in Inner(more, d) \ Hidden}
                             \cup {Regular(m) : m \in (NamesBelow(more, d) \ Hidden) \ Inner(more, d)}
  BY ChildrenAre
<1>1. CASE ~Below(d, PathOf[o])
  <2>1. NamesBelow(more, d) = names /\ Inner(more, d) = inner
    BY <1>1 DEF NamesBelow, Inner
  <2> QED BY <1>0, <1>1, <2>1 DEF Adds
<1>2. CASE Below(d, PathOf[o])
  <2>1. NamesBelow(more, d) = names \cup {n}
    BY <1>2, Zenon DEF NamesBelow
  <2>2. Inner(more, d) = IF deep THEN inner \cup {n} ELSE inner
    <3>1. CASE deep
      BY <1>2, <3>1, Zenon DEF Inner
    <3>2. CASE ~deep
      BY <1>2, <3>2, Zenon DEF Inner
    <3> QED BY <3>1, <3>2
  <2> HIDE DEF names, inner, found, more, n, deep
  <2>3. CASE n \in Hidden
    <3>1. Adds(found, PathOf[o], d) = found
      BY <2>3 DEF Adds, n
    <3>2. Inner(more, d) \ Hidden = inner \ Hidden
      BY <2>2, <2>3
    <3>3. (NamesBelow(more, d) \ Hidden) \ Inner(more, d) = (names \ Hidden) \ inner
      BY <2>1, <2>2, <2>3
    <3> QED BY <1>0, <3>1, <3>2, <3>3 DEF found, more
  <2>4. CASE n \notin Hidden
    <3>1. Adds(found, PathOf[o], d) = Seen(found, n, deep)
      BY <1>2, <2>4 DEF Adds, n, deep
    <3>2. Directory(n) \in found <=> n \in inner
      BY <1>0, <2>4, Kinds
    <3>3. Without(found, n) = {Directory(m) : m \in (inner \ Hidden) \ {n}}
                              \cup {Regular(m) : m \in ((names \ Hidden) \ inner) \ {n}}
      BY <1>0, Kinds DEF Without
    <3>4. CASE deep \/ n \in inner
      <4>1. Inner(more, d) = inner \cup {n}
        BY <2>2, <3>4
      <4>2. Seen(found, n, deep) = Without(found, n) \cup {Directory(n)}
        BY <3>2, <3>4 DEF Seen
      <4>3. Inner(more, d) \ Hidden = ((inner \ Hidden) \ {n}) \cup {n}
        BY <4>1, <2>4
      <4>4. (NamesBelow(more, d) \ Hidden) \ Inner(more, d) = ((names \ Hidden) \ inner) \ {n}
        BY <4>1, <2>1
      <4>5. {Directory(m) : m \in Inner(more, d) \ Hidden}
            = {Directory(m) : m \in (inner \ Hidden) \ {n}} \cup {Directory(n)}
        BY <4>3, Zenon
      <4>6. {Regular(m) : m \in (NamesBelow(more, d) \ Hidden) \ Inner(more, d)}
            = {Regular(m) : m \in ((names \ Hidden) \ inner) \ {n}}
        BY <4>4, Zenon
      <4>7. Children(more, d) = Without(found, n) \cup {Directory(n)}
        BY <1>0, <3>3, <4>5, <4>6
      <4> QED BY <3>1, <4>2, <4>7 DEF found, more
    <3>5. CASE ~deep /\ n \notin inner
      <4>1. Inner(more, d) = inner
        BY <2>2, <3>5
      <4>2. Seen(found, n, deep) = found \cup {Regular(n)}
        BY <3>2, <3>5 DEF Seen
      <4>3. (NamesBelow(more, d) \ Hidden) \ Inner(more, d) = ((names \ Hidden) \ inner) \cup {n}
        BY <4>1, <2>1, <2>4, <3>5
      <4>4. {Regular(m) : m \in (NamesBelow(more, d) \ Hidden) \ Inner(more, d)}
            = {Regular(m) : m \in (names \ Hidden) \ inner} \cup {Regular(n)}
        BY <4>3, Zenon
      <4>5. Children(more, d) = found \cup {Regular(n)}
        BY <1>0, <4>1, <4>4
      <4> QED BY <3>1, <4>2, <4>5 DEF found, more
    <3> QED BY <3>4, <3>5
  <2> QED BY <2>3, <2>4 DEF found, more
<1> QED BY <1>1, <1>2

\* What a loop over entries has seen after n rounds.
First(entries, n) == {entries[i] : i \in 1..n}

(* The entries a loop has seen, round by round. *)
LEMMA FirstAre ==
    ASSUME NEW entries \in Seq(DirObject)
    PROVE  /\ First(entries, 0) = {}
           /\ \A n \in 0..Len(entries) - 1 :
                 /\ First(entries, n) \in SUBSET DirObject
                 /\ entries[n + 1] \in DirObject
                 /\ First(entries, n + 1) = First(entries, n) \cup {entries[n + 1]}
           /\ First(entries, Len(entries)) = Range(entries)
<1>1. First(entries, 0) = {}
  BY DEF First
<1>2. ASSUME NEW n \in 0..Len(entries) - 1
      PROVE  /\ First(entries, n) \in SUBSET DirObject
             /\ entries[n + 1] \in DirObject
             /\ First(entries, n + 1) = First(entries, n) \cup {entries[n + 1]}
  <2>1. n + 1 \in 1..Len(entries) /\ \A i \in 1..n : i \in 1..Len(entries)
    BY <1>2
  <2>2. 1..(n + 1) = 1..n \cup {n + 1}
    BY <1>2
  <2> QED BY <2>1, <2>2 DEF First
<1>3. First(entries, Len(entries)) = Range(entries)
  BY DEF First, Range
<1> QED BY <1>1, <1>2, <1>3

(* The pass of listChildren makes the children, whatever the order (tree.go:747-807). *)
LEMMA PassShows ==
    ASSUME NEW entries \in Seq(DirObject), NEW d \in Dirs
    PROVE  ListChildren(entries, d) = Children(Range(entries), d)
<1> DEFINE N == Len(entries)
           Body(g) == [i \in 0..N |-> IF i = 0 THEN {}
                                      ELSE Adds(g[i - 1], PathOf[entries[i]], d)]
           found == CHOOSE g : g = Body(g)
           closed == [i \in 0..N |-> Children(First(entries, i), d)]
<1>0. N \in Nat
  OBVIOUS
<1>1. ListChildren(entries, d) = found[N]
  BY DEF ListChildren
<1>2. Children({}, d) = {}
  BY DEF Children, Tree
<1>3. closed = Body(closed)
  <2> SUFFICES ASSUME NEW i \in 0..N PROVE closed[i] = Body(closed)[i]
    OBVIOUS
  <2>1. CASE i = 0
    BY <1>2, <2>1, FirstAre
  <2>2. CASE i # 0
    <3>1. i - 1 \in 0..N - 1 /\ i - 1 + 1 = i
      BY <1>0, <2>2
    <3>2. closed[i] = Adds(closed[i - 1], PathOf[entries[i]], d)
      BY <3>1, FirstAre, ChildrenAdd
    <3> QED BY <2>2, <3>2
  <2> QED BY <2>1, <2>2
<1>4. found = Body(found)
  <2> HIDE DEF Body, closed
  <2> QED BY <1>3, Zenon
<1>5. /\ found[0] = {} /\ closed[0] = {}
      /\ \A i \in 0..N : i # 0 => /\ found[i] = Adds(found[i - 1], PathOf[entries[i]], d)
                                  /\ closed[i] = Adds(closed[i - 1], PathOf[entries[i]], d)
  <2> HIDE DEF found, closed
  <2>1. ASSUME NEW g, g = Body(g)
        PROVE  /\ g[0] = {}
               /\ \A i \in 0..N : i # 0 => g[i] = Adds(g[i - 1], PathOf[entries[i]], d)
    <3> SUFFICES ASSUME NEW i \in 0..N
                 PROVE  g[i] = IF i = 0 THEN {} ELSE Adds(g[i - 1], PathOf[entries[i]], d)
      <4>1. 0 \in 0..N
        BY <1>0
      <4> QED BY <4>1, Zenon
    <3>1. Body(g)[i] = IF i = 0 THEN {} ELSE Adds(g[i - 1], PathOf[entries[i]], d)
      BY Zenon
    <3> QED BY <2>1, <3>1, Zenon DEF Body
  <2> QED BY <1>3, <1>4, <2>1, Zenon
<1> HIDE DEF found, closed
<1> DEFINE T == {n \in Nat : n <= N => found[n] = closed[n]}
<1>6. 0 \in T /\ \A n \in Nat : n \in T => n + 1 \in T
  <2>1. ASSUME NEW n \in Nat, n \in T, n + 1 <= N PROVE found[n + 1] = closed[n + 1]
    <3>1. n + 1 \in 0..N /\ n + 1 # 0 /\ n + 1 - 1 = n /\ found[n] = closed[n]
      BY <1>0, <2>1
    <3> QED BY <1>5, <3>1
  <2>2. 0 \in T
    BY <1>5
  <2>3. ASSUME NEW n \in Nat, n \in T PROVE n + 1 \in T
    BY <2>1, <2>3
  <2> QED BY <2>2, <2>3
<1>7. N \in T
  <2> HIDE DEF T
  <2> QED BY <1>0, <1>6, Induct
<1> QED BY <1>0, <1>1, <1>7, FirstAre DEF closed

(* A listing in any order is a sequence of just its objects. *)
LEMMA OrdersAre ==
    ASSUME NEW objects \in SUBSET DirObject, NEW entries \in Orders(objects)
    PROVE  entries \in Seq(DirObject) /\ Range(entries) = objects
<1>1. IsFiniteSet(objects) /\ Cardinality(objects) \in Nat
  BY DirAssumption, FS_Subset, FS_CardinalityType
<1>2. /\ entries \in [1..Cardinality(objects) -> objects]
      /\ \A o \in objects : \E i \in 1..Cardinality(objects) : entries[i] = o
  BY DEF Orders, Bijection, Injection, Surjection
<1>3. entries \in Seq(DirObject)
  BY <1>1, <1>2
<1>4. Range(entries) = objects
  BY <1>2 DEF Range
<1> QED BY <1>3, <1>4

\* The trie of objects: their paths and what these go through; and of the paths,
\* those that nothing is below.
TriePaths(objects) == {PathOf[o] : o \in objects}
TrieNodes(objects) == {<<>>} \cup UNION {Ups(q) \cup {q} : q \in TriePaths(objects)}
TrieFiles(objects) ==
    {p \in TriePaths(objects) : \A q \in TriePaths(objects) : ~Below(p, q)}
TrieOf(objects) == [nodes |-> TrieNodes(objects), files |-> TrieFiles(objects)]

(* The directories of a path are what it lies below. *)
LEMMA UpsAre ==
    ASSUME NEW t \in Seq(Names), Len(t) # 0
    PROVE  /\ \A s \in Ups(t) : s \in Seq(Names)
           /\ \A s \in Seq(Names) : s \in Ups(t) <=> Below(s, t)
           /\ \A s \in Ups(t) : Below(s, t)
<1>1. ASSUME NEW s \in Ups(t) PROVE s \in Seq(Names) /\ Below(s, t)
  <2>1. PICK n \in 0..Len(t) - 1 : s = SubSeq(t, 1, n)
    BY DEF Ups, Upto
  <2>2. s \in Seq(Names) /\ Len(s) = n
    BY <2>1
  <2> QED BY <2>1, <2>2 DEF Below, Upto
<1>2. ASSUME NEW s \in Seq(Names), Below(s, t) PROVE s \in Ups(t)
  <2>1. Len(s) \in 0..Len(t) - 1 /\ SubSeq(t, 1, Len(s)) = s
    BY <1>2 DEF Below, Upto
  <2> QED BY <2>1 DEF Ups, Upto
<1> QED BY <1>1, <1>2

(* What is below something below is below. *)
LEMMA BelowTrans ==
    ASSUME NEW r \in Seq(Names), NEW s \in Seq(Names), NEW t \in Seq(Names),
           Below(r, s), Below(s, t)
    PROVE  Below(r, t)
BY BelowMeans

(* A node lies below p just when the path it belongs to does. *)
LEMMA NodesBelow ==
    ASSUME NEW objects \in SUBSET DirObject, NEW p \in Seq(Names)
    PROVE  /\ \A q \in TrieNodes(objects) : q \in Seq(Names)
           /\ (\A q \in TrieNodes(objects) : ~Below(p, q))
              <=> (\A q \in TriePaths(objects) : ~Below(p, q))
<1>1. \A q \in TriePaths(objects) : q \in Seq(Names) /\ Len(q) # 0
  BY Paths DEF TriePaths
<1>2. <<>> \in Seq(Names) /\ ~Below(p, <<>>)
  BY DEF Below
<1>3. ASSUME NEW q \in TrieNodes(objects), q # <<>>
      PROVE  \E r \in TriePaths(objects) : q = r \/ q \in Ups(r)
  BY <1>3 DEF TrieNodes
<1>4. ASSUME NEW q \in TrieNodes(objects) PROVE q \in Seq(Names)
  BY <1>1, <1>2, <1>3, UpsAre
<1>5. ASSUME NEW q \in TrieNodes(objects), Below(p, q)
      PROVE  \E r \in TriePaths(objects) : Below(p, r)
  <2>1. PICK r \in TriePaths(objects) : q = r \/ q \in Ups(r)
    BY <1>2, <1>3, <1>5
  <2>2. q \in Ups(r) => Below(q, r)
    BY <1>1, UpsAre
  <2> QED BY <1>1, <1>4, <1>5, <2>1, <2>2, BelowTrans
<1>6. TriePaths(objects) \subseteq TrieNodes(objects)
  BY DEF TrieNodes
<1> QED BY <1>4, <1>5, <1>6

(* One more object is one more insertion (client.go:120-143): a file stays at its node
   while nothing is below it, and the longer path may come first or last. *)
LEMMA TrieAdd ==
    ASSUME NEW objects \in SUBSET DirObject, NEW o \in DirObject
    PROVE  TrieOf(objects \cup {o}) = InsertSegments(TrieOf(objects), o)
<1> DEFINE path == PathOf[o]
           paths == TriePaths(objects)
           more == objects \cup {o}
<1>0. /\ path \in Seq(Names) /\ Len(path) # 0
      /\ \A q \in paths : q \in Seq(Names) /\ Len(q) # 0
  BY Paths DEF TriePaths
<1>1. TriePaths(more) = paths \cup {path}
  BY DEF TriePaths
<1>2. TrieNodes(more) = TrieNodes(objects) \cup Ups(path) \cup {path}
  <2>1. ASSUME NEW objs, NEW x
        PROVE  x \in TrieNodes(objs)
               <=> x = <<>> \/ \E q \in TriePaths(objs) : x \in Ups(q) \/ x = q
    BY DEF TrieNodes
  <2> HIDE DEF path, paths, more
  <2>2. ASSUME NEW x
        PROVE  x \in TrieNodes(more) <=> x \in TrieNodes(objects) \cup Ups(path) \cup {path}
    <3>1. x \in TrieNodes(more) <=> x = <<>> \/ \E q \in paths \cup {path} : x \in Ups(q) \/ x = q
      BY <1>1, <2>1, Zenon
    <3>2. x \in TrieNodes(objects) <=> x = <<>> \/ \E q \in paths : x \in Ups(q) \/ x = q
      BY <2>1, Zenon DEF paths
    <3> QED BY <3>1, <3>2, Zenon
  <2> QED BY <2>2, Zenon
<1>3. (\A q \in TrieNodes(objects) : ~Below(path, q)) <=> (\A q \in paths : ~Below(path, q))
  BY <1>0, NodesBelow
<1>4. ~Below(path, path) /\ path \notin Ups(path)
  BY <1>0, UpsAre DEF Below
<1>5. \A p \in paths : p \in Ups(path) <=> Below(p, path)
  BY <1>0, UpsAre
<1>6. TrieFiles(more)
      = (TrieFiles(objects) \ Ups(path))
        \cup (IF \A q \in TrieNodes(objects) : ~Below(path, q) THEN {path} ELSE {})
  <2> HIDE DEF path, paths, more
  <2>1. TrieFiles(more) = {p \in paths \cup {path} : (\A q \in paths : ~Below(p, q)) /\ ~Below(p, path)}
    BY <1>1 DEF TrieFiles
  <2>2. TrieFiles(objects) \ Ups(path) = {p \in paths : (\A q \in paths : ~Below(p, q)) /\ ~Below(p, path)}
    BY <1>5 DEF TrieFiles, paths
  <2> QED BY <1>3, <1>4, <2>1, <2>2
<1> QED BY <1>2, <1>6 DEF TrieOf, InsertSegments

(* The trie does not depend on the order of the entries (client.go:98-118). *)
LEMMA TrieBuilt ==
    ASSUME NEW entries \in Seq(DirObject)
    PROVE  BuildListingTrie(entries) = TrieOf(Range(entries))
<1> DEFINE N == Len(entries)
           Body(g) == [i \in 0..N |-> IF i = 0 THEN EmptyTrie
                                      ELSE InsertSegments(g[i - 1], entries[i])]
           trie == CHOOSE g : g = Body(g)
           closed == [i \in 0..N |-> TrieOf(First(entries, i))]
<1>0. N \in Nat
  OBVIOUS
<1>1. BuildListingTrie(entries) = trie[N]
  BY DEF BuildListingTrie
<1>2. TrieOf({}) = EmptyTrie
  BY DEF TrieOf, TrieNodes, TrieFiles, TriePaths, EmptyTrie
<1>3. closed = Body(closed)
  <2> SUFFICES ASSUME NEW i \in 0..N PROVE closed[i] = Body(closed)[i]
    OBVIOUS
  <2>1. CASE i = 0
    BY <1>2, <2>1, FirstAre
  <2>2. CASE i # 0
    <3>1. i - 1 \in 0..N - 1 /\ i - 1 + 1 = i
      BY <1>0, <2>2
    <3>2. closed[i] = InsertSegments(closed[i - 1], entries[i])
      BY <3>1, FirstAre, TrieAdd
    <3> QED BY <2>2, <3>2
  <2> QED BY <2>1, <2>2
<1>4. trie = Body(trie)
  <2> HIDE DEF Body, closed
  <2> QED BY <1>3, Zenon
<1>5. /\ trie[0] = EmptyTrie /\ closed[0] = EmptyTrie
      /\ \A i \in 0..N : i # 0 => /\ trie[i] = InsertSegments(trie[i - 1], entries[i])
                                  /\ closed[i] = InsertSegments(closed[i - 1], entries[i])
  <2> HIDE DEF trie, closed
  <2>1. ASSUME NEW g, g = Body(g)
        PROVE  /\ g[0] = EmptyTrie
               /\ \A i \in 0..N : i # 0 => g[i] = InsertSegments(g[i - 1], entries[i])
    <3> SUFFICES ASSUME NEW i \in 0..N
                 PROVE  g[i] = IF i = 0 THEN EmptyTrie ELSE InsertSegments(g[i - 1], entries[i])
      <4>1. 0 \in 0..N
        BY <1>0
      <4> QED BY <4>1, Zenon
    <3>1. Body(g)[i] = IF i = 0 THEN EmptyTrie ELSE InsertSegments(g[i - 1], entries[i])
      BY Zenon
    <3> QED BY <2>1, <3>1, Zenon DEF Body
  <2> QED BY <1>3, <1>4, <2>1, Zenon
<1> HIDE DEF trie, closed
<1> DEFINE T == {n \in Nat : n <= N => trie[n] = closed[n]}
<1>6. 0 \in T /\ \A n \in Nat : n \in T => n + 1 \in T
  <2>1. ASSUME NEW n \in Nat, n \in T, n + 1 <= N PROVE trie[n + 1] = closed[n + 1]
    <3>1. n + 1 \in 0..N /\ n + 1 # 0 /\ n + 1 - 1 = n /\ trie[n] = closed[n]
      BY <1>0, <2>1
    <3> QED BY <1>5, <3>1
  <2>2. 0 \in T
    BY <1>5
  <2>3. ASSUME NEW n \in Nat, n \in T PROVE n + 1 \in T
    BY <2>1, <2>3
  <2> QED BY <2>2, <2>3
<1>7. N \in T
  <2> HIDE DEF T
  <2> QED BY <1>0, <1>6, Induct
<1> QED BY <1>0, <1>1, <1>7, FirstAre DEF closed

\* The node of directory d that a path below d goes through.
Step(d, path) == Upto(path, Len(d) + 1)

(* That node lies between the directory and the path, and has the child's name. *)
LEMMA StepIs ==
    ASSUME NEW d \in Dirs, NEW path \in Seq(Names), Below(d, path)
    PROVE  /\ Step(d, path) \in Seq(Names) /\ Len(Step(d, path)) = Len(d) + 1
           /\ Below(d, Step(d, path)) /\ NameIn(d, Step(d, path)) = NameIn(d, path)
           /\ Len(path) = Len(d) + 1 => Step(d, path) = path
           /\ Len(path) > Len(d) + 1 => Below(Step(d, path), path)
<1> DEFINE s == SubSeq(path, 1, Len(d) + 1)
<1>1. d \in Seq(Names) /\ Len(d) \in Nat /\ Len(d) < Len(path)
      /\ \A i \in 1..Len(d) : path[i] = d[i]
  BY Paths, BelowMeans
<1>2. s \in Seq(Names) /\ Len(s) = Len(d) + 1 /\ \A i \in 1..Len(s) : s[i] = path[i]
  BY <1>1
<1>3. Below(d, s)
  <2>1. \A i \in 1..Len(d) : s[i] = d[i]
    BY <1>1, <1>2
  <2> HIDE DEF s
  <2> QED BY <1>1, <1>2, <2>1, BelowMeans
<1>4. s[Len(d) + 1] = path[Len(d) + 1]
  BY <1>1, <1>2
<1>5. Len(path) = Len(d) + 1 => s = path
  BY <1>1, <1>2
<1>6. Len(path) > Len(d) + 1 => Below(s, path)
  BY <1>2 DEF Below, Upto
<1> QED BY <1>2, <1>3, <1>4, <1>5, <1>6 DEF Step, Upto, NameIn

(* A node just below d is known by its name. *)
LEMMA StepOf ==
    ASSUME NEW d \in Dirs, NEW p \in Seq(Names), NEW q \in Seq(Names),
           Below(d, p), Len(p) = Len(d) + 1, Below(d, q), NameIn(d, q) = NameIn(d, p)
    PROVE  p = Step(d, q)
<1>1. d \in Seq(Names) /\ Len(d) \in Nat /\ Len(d) < Len(q)
      /\ (\A i \in 1..Len(d) : p[i] = d[i]) /\ (\A i \in 1..Len(d) : q[i] = d[i])
  BY Paths, BelowMeans
<1>2. SubSeq(q, 1, Len(d) + 1) \in Seq(Names) /\ Len(SubSeq(q, 1, Len(d) + 1)) = Len(d) + 1
      /\ \A i \in 1..Len(d) + 1 : SubSeq(q, 1, Len(d) + 1)[i] = q[i]
  BY <1>1
<1>3. ASSUME NEW i \in 1..Len(d) + 1 PROVE p[i] = q[i]
  BY <1>1 DEF NameIn
<1> QED BY <1>1, <1>2, <1>3 DEF Step, Upto

(* Listing a node of the trie makes the tree's children (client.go:145-185). *)
LEMMA TrieShows ==
    ASSUME NEW objects \in SUBSET DirObject, NEW d \in Dirs
    PROVE  ListImmediateChildren(TrieOf(objects), d) = Tree(objects, d)
<1> DEFINE nodes == TrieNodes(objects)
           paths == TriePaths(objects)
           children == {q \in nodes : Below(d, q) /\ Len(q) = Len(d) + 1}
           inner == {q \in children : \E r \in nodes : Below(q, r)}
           files == (children \ inner) \cap TrieFiles(objects)
           innerNames == {NameIn(d, q) : q \in inner}
           fileNames == {NameIn(d, q) : q \in files}
<1>0. /\ \A q \in paths : q \in Seq(Names) /\ Len(q) \in Nat /\ Len(q) # 0 /\ q \in nodes
      /\ \A q \in nodes : q \in Seq(Names) /\ Len(q) \in Nat
      /\ d \in Seq(Names) /\ Len(d) \in Nat
  <2>1. ASSUME NEW q \in paths PROVE q \in Seq(Names) /\ Len(q) \in Nat /\ Len(q) # 0 /\ q \in nodes
    BY Paths DEF TriePaths, TrieNodes
  <2>2. d \in Seq(Names) /\ Len(d) \in Nat
    BY Paths
  <2>3. \A q \in nodes : q \in Seq(Names)
    BY <2>2, NodesBelow
  <2> HIDE DEF paths, nodes
  <2> QED BY <2>1, <2>2, <2>3
<1>1. /\ \A n : n \in NamesBelow(objects, d)
                <=> \E q \in paths : Below(d, q) /\ n = NameIn(d, q)
      /\ \A n : n \in Inner(objects, d)
                <=> \E q \in paths : Below(d, q) /\ n = NameIn(d, q) /\ Len(q) > Len(d) + 1
  BY Zenon DEF NamesBelow, Inner, TriePaths
<1>2. \A q \in paths : Below(d, q) => Step(d, q) \in children
  <2> SUFFICES ASSUME NEW q \in paths, Below(d, q) PROVE Step(d, q) \in nodes
    BY <1>0, StepIs
  <2>1. Len(q) > Len(d)
    BY <1>0 DEF Below
  <2>2. CASE Len(q) = Len(d) + 1
    BY <1>0, <2>2, StepIs
  <2>3. CASE Len(q) > Len(d) + 1
    <3>1. Step(d, q) \in Ups(q)
      BY <1>0, <2>3, StepIs, UpsAre
    <3> QED BY <3>1 DEF TrieNodes
  <2> QED BY <1>0, <2>1, <2>2, <2>3
<1>3. \A q \in inner : \E r \in paths : Below(q, r)
  BY <1>0, NodesBelow
<1>4. innerNames = Inner(objects, d)
  <2>1. ASSUME NEW n \in innerNames PROVE n \in Inner(objects, d)
    <3>1. PICK q \in inner : n = NameIn(d, q)
      BY <2>1
    <3>2. PICK r \in paths : Below(q, r)
      BY <1>3, <3>1
    <3>3. /\ q \in Seq(Names) /\ r \in Seq(Names) /\ Len(q) = Len(d) + 1 /\ Len(r) > Len(d) + 1
          /\ Below(d, q)
      BY <1>0, <3>2 DEF Below
    <3>4. Below(d, r)
      BY <1>0, <3>2, <3>3, BelowTrans
    <3>5. NameIn(d, r) = NameIn(d, q)
      <4>1. Len(d) + 1 \in 1..Len(q) /\ \A i \in 1..Len(q) : r[i] = q[i]
        BY <1>0, <3>2, <3>3, BelowMeans
      <4> QED BY <4>1 DEF NameIn
    <3> QED BY <1>1, <3>1, <3>3, <3>4, <3>5
  <2>2. ASSUME NEW n \in Inner(objects, d) PROVE n \in innerNames
    <3>1. PICK q \in paths : Below(d, q) /\ n = NameIn(d, q) /\ Len(q) > Len(d) + 1
      BY <1>1, <2>2
    <3>2. Step(d, q) \in children /\ Below(Step(d, q), q) /\ NameIn(d, Step(d, q)) = n
      BY <1>0, <1>2, <3>1, StepIs
    <3> QED BY <1>0, <3>1, <3>2
  <2> QED BY <2>1, <2>2
<1>5. fileNames = NamesBelow(objects, d) \ Inner(objects, d)
  <2>1. ASSUME NEW n \in fileNames PROVE n \in NamesBelow(objects, d) \ Inner(objects, d)
    <3>1. PICK q \in files : n = NameIn(d, q)
      BY <2>1
    <3>2. q \in paths /\ q \in Seq(Names) /\ Below(d, q) /\ Len(q) = Len(d) + 1
          /\ \A r \in nodes : ~Below(q, r)
      BY <1>0, <3>1 DEF TrieFiles
    <3>3. ASSUME n \in Inner(objects, d) PROVE FALSE
      <4>1. PICK r \in paths : Below(d, r) /\ n = NameIn(d, r) /\ Len(r) > Len(d) + 1
        BY <1>1, <3>3
      <4>2. q = Step(d, r)
        BY <1>0, <3>1, <3>2, <4>1, StepOf
      <4>3. Below(q, r)
        BY <1>0, <4>1, <4>2, StepIs
      <4> QED BY <1>0, <3>2, <4>1, <4>3
    <3> QED BY <1>1, <3>1, <3>2, <3>3
  <2>2. ASSUME NEW n \in NamesBelow(objects, d), n \notin Inner(objects, d) PROVE n \in fileNames
    <3>1. PICK q \in paths : Below(d, q) /\ n = NameIn(d, q)
      BY <1>1, <2>2
    <3>2. Len(q) = Len(d) + 1
      BY <1>0, <1>1, <2>2, <3>1 DEF Below
    <3>3. ASSUME NEW r \in paths, Below(q, r) PROVE FALSE
      <4>1. Below(d, r) /\ Len(r) > Len(d) + 1
        BY <1>0, <3>1, <3>2, <3>3, BelowTrans DEF Below
      <4>2. NameIn(d, r) = NameIn(d, q)
        BY <1>0, <3>2, <3>3, BelowMeans DEF NameIn
      <4> QED BY <1>1, <2>2, <3>1, <4>1, <4>2
    <3>4. q \in TrieFiles(objects)
      BY <3>3 DEF TrieFiles
    <3>5. \A r \in nodes : ~Below(q, r)
      BY <1>0, <3>3, NodesBelow
    <3> QED BY <1>0, <3>1, <3>2, <3>4, <3>5
  <2> QED BY <2>1, <2>2
<1>6. ListImmediateChildren(TrieOf(objects), d)
      = {Directory(NameIn(d, q)) : q \in inner} \cup {Regular(NameIn(d, q)) : q \in files}
  BY Zenon DEF ListImmediateChildren, TrieOf
<1>7. /\ {Directory(NameIn(d, q)) : q \in inner} = {Directory(n) : n \in innerNames}
      /\ {Regular(NameIn(d, q)) : q \in files} = {Regular(n) : n \in fileNames}
  <2> HIDE DEF inner, files
  <2> QED BY Zenon
<1> HIDE DEF inner, files, innerNames, fileNames
<1>8. ListImmediateChildren(TrieOf(objects), d)
      = {Directory(n) : n \in Inner(objects, d)}
        \cup {Regular(n) : n \in NamesBelow(objects, d) \ Inner(objects, d)}
  BY <1>4, <1>5, <1>6, <1>7
<1> QED BY <1>8, TreeIs

(* Looking up a child finds what the listing shows of it (tree.go:299-342). *)
LEMMA LookupShows ==
    ASSUME NEW entries \in Seq(DirObject), NEW d \in Dirs, NEW c \in Children(Range(entries), d)
    PROVE  LookupIn(entries, d, c.name) = {c}
<1> DEFINE objects == Range(entries)
           paths == TriePaths(objects)
           n == c.name
           path == Append(d, n)
<1>0. /\ objects \in SUBSET DirObject
      /\ \A q \in paths : q \in Seq(Names) /\ Len(q) \in Nat
      /\ d \in Seq(Names) /\ Len(d) \in Nat
  BY Paths DEF TriePaths, Range
<1>1. n \notin Hidden /\ \/ c = Directory(n) /\ n \in Inner(objects, d)
                         \/ c = Regular(n) /\ n \in NamesBelow(objects, d) \ Inner(objects, d)
  BY ChildrenAre, Kinds
<1>2. PICK q \in paths : Below(d, q) /\ n = NameIn(d, q)
                         /\ (n \in Inner(objects, d) => Len(q) > Len(d) + 1)
                         /\ (n \notin Inner(objects, d) => Len(q) = Len(d) + 1)
  BY <1>0, <1>1 DEF NamesBelow, Inner, TriePaths, Below
<1>3. n \in Names
  <2>1. Len(d) + 1 \in 1..Len(q)
    BY <1>0, <1>2 DEF Below
  <2> QED BY <1>0, <1>2, <2>1 DEF NameIn
<1>4. path \in Seq(Names) /\ Len(path) = Len(d) + 1 /\ path[Len(d) + 1] = n
      /\ \A i \in 1..Len(d) : path[i] = d[i]
  BY <1>0, <1>3
<1>5. Below(d, path) /\ NameIn(d, path) = n
  <2> HIDE DEF path
  <2> QED BY <1>0, <1>4, BelowMeans DEF NameIn
<1>6. path = Step(d, q)
  <2> HIDE DEF path
  <2> QED BY <1>0, <1>2, <1>4, <1>5, StepOf
<1>7. CASE n \in Inner(objects, d)
  <2>1. Below(path, q)
    BY <1>0, <1>2, <1>6, <1>7, StepIs
  <2> HIDE DEF path
  <2> QED BY <1>1, <1>7, <2>1 DEF LookupIn, TriePaths, path
<1>8. CASE n \notin Inner(objects, d)
  <2>1. path = q
    BY <1>0, <1>2, <1>6, <1>8, StepIs
  <2>2. ASSUME NEW r \in paths, Below(path, r) PROVE FALSE
    <3> HIDE DEF path
    <3>1. Below(d, r) /\ Len(r) > Len(d) + 1
      BY <1>0, <1>4, <1>5, <2>2, BelowTrans DEF Below
    <3>2. NameIn(d, r) = n
      BY <1>0, <1>4, <2>2, BelowMeans DEF NameIn
    <3> QED BY <1>8, <3>1, <3>2 DEF Inner, TriePaths
  <2> QED BY <1>1, <1>2, <1>8, <2>1, <2>2 DEF LookupIn, TriePaths
<1> QED BY <1>7, <1>8

(* What the pass of ListEntriesByPrefix has found of some objects, in whatever order it
   took them: their names below the directory, each once, and of each name what one of
   its objects makes of it. *)
Found(found, objects, d) ==
    /\ {c.name : c \in found} = NamesBelow(objects, d)
    /\ \A b, c \in found : b.name = c.name => b = c
    /\ \A c \in found : \E o \in objects : Below(d, PathOf[o]) /\ c = Child(d, PathOf[o])

(* One more object is one more round (client.go:738). *)
LEMMA FoundAdd ==
    ASSUME NEW objects \in SUBSET DirObject, NEW o \in DirObject, NEW d \in Dirs, NEW found,
           Found(found, objects, d)
    PROVE  Found(AddsFirst(found, PathOf[o], d), objects \cup {o}, d)
<1> DEFINE path == PathOf[o]
           n    == NameIn(d, path)
           more == AddsFirst(found, path, d)
<1>1. CASE ~Below(d, path)
  <2>1. NamesBelow(objects \cup {o}, d) = NamesBelow(objects, d)
    BY <1>1, Zenon DEF NamesBelow
  <2>2. more = found
    BY <1>1 DEF AddsFirst
  <2> HIDE DEF more
  <2>3. \A c \in found : \E x \in objects \cup {o} :
            Below(d, PathOf[x]) /\ c = Child(d, PathOf[x])
    BY DEF Found
  <2> QED BY <2>1, <2>2, <2>3, Zenon DEF Found, more
<1>2. CASE Below(d, path)
  <2>1. NamesBelow(objects \cup {o}, d) = NamesBelow(objects, d) \cup {n}
    BY <1>2, Zenon DEF NamesBelow
  <2>2. CASE \E c \in found : c.name = n
    <3>1. more = found
      BY <2>2 DEF AddsFirst
    <3>2. n \in NamesBelow(objects, d)
      BY <2>2 DEF Found
    <3> HIDE DEF more, n
    <3>3. NamesBelow(objects \cup {o}, d) = NamesBelow(objects, d)
      BY <2>1, <3>2
    <3>4. \A c \in found : \E x \in objects \cup {o} :
              Below(d, PathOf[x]) /\ c = Child(d, PathOf[x])
      BY DEF Found
    <3> QED BY <3>1, <3>3, <3>4, Zenon DEF Found, more
  <2>3. CASE \A c \in found : c.name # n
    <3>1. more = found \cup {Child(d, path)}
      BY <1>2, <2>3 DEF AddsFirst
    <3>2. Child(d, path).name = n
      BY Kinds DEF Child
    <3> HIDE DEF more, n, path
    <3>3. {c.name : c \in more} = NamesBelow(objects \cup {o}, d)
      BY <2>1, <3>1, <3>2 DEF Found
    <3>4. \A b, c \in more : b.name = c.name => b = c
      BY <2>3, <3>1, <3>2 DEF Found
    <3>5. \A c \in more : \E x \in objects \cup {o} :
              Below(d, PathOf[x]) /\ c = Child(d, PathOf[x])
      BY <1>2, <3>1 DEF Found, path
    <3> QED BY <3>3, <3>4, <3>5, Zenon DEF Found, more, path
  <2> QED BY <2>2, <2>3
<1> QED BY <1>1, <1>2

(* The rounds of the pass, up to any of them, are those of some function: the recursive
   definition has a solution. *)
LEMMA LinearExists ==
    ASSUME NEW entries \in Seq(DirObject), NEW d
    PROVE  \E g : g = [i \in 0..Len(entries) |->
                         IF i = 0 THEN {} ELSE AddsFirst(g[i - 1], PathOf[entries[i]], d)]
<1> DEFINE More(s, i) == AddsFirst(s, PathOf[entries[i]], d)
           Is(g, n) == g = [i \in 0..n |-> IF i = 0 THEN {} ELSE More(g[i - 1], i)]
           T == {n \in Nat : \E g : Is(g, n)}
<1>1. 0 \in T
  <2> DEFINE g == [i \in 0..0 |-> {}]
  <2>1. Is(g, 0)
    OBVIOUS
  <2> QED BY <2>1
<1>2. ASSUME NEW n \in Nat, n \in T PROVE n + 1 \in T
  <2> HIDE DEF More
  <2>1. PICK g : Is(g, n)
    BY <1>2
  <2> DEFINE h == [i \in 0..n + 1 |-> IF i = n + 1 THEN More(g[n], n + 1) ELSE g[i]]
  <2>2. /\ \A i \in 0..n : h[i] = g[i] /\ h[n + 1] = More(g[n], n + 1)
        /\ \A i \in 0..n : g[i] = IF i = 0 THEN {} ELSE More(g[i - 1], i)
    BY <2>1
  <2>3. ASSUME NEW i \in 0..n + 1 PROVE h[i] = IF i = 0 THEN {} ELSE More(h[i - 1], i)
    <3>1. CASE i = n + 1
      <4>1. i # 0 /\ i - 1 = n /\ n \in 0..n
        BY <3>1
      <4> HIDE DEF h
      <4> QED BY <2>2, <3>1, <4>1
    <3>2. CASE i \in 0..n
      <4>1. i # 0 => i - 1 \in 0..n
        BY <3>2
      <4> HIDE DEF h
      <4> QED BY <2>2, <3>2, <4>1
    <3> QED BY <3>1, <3>2
  <2>4. Is(h, n + 1)
    <3>1. h = [i \in 0..n + 1 |-> h[i]]
      OBVIOUS
    <3> HIDE DEF h
    <3> QED BY <2>3, <3>1
  <2> HIDE DEF h, Is
  <2> QED BY <2>4
<1>3. Len(entries) \in T
  <2> HIDE DEF T
  <2> QED BY <1>1, <1>2, Induct
<1> QED BY <1>3

(* What the pass has found when it ends (client.go:735-778). *)
LEMMA LinearFinds ==
    ASSUME NEW entries \in Seq(DirObject), NEW d \in Dirs
    PROVE  Found(ListLinear(entries, d), Range(entries), d)
<1> DEFINE N == Len(entries)
           Body(g) == [i \in 0..N |-> IF i = 0 THEN {}
                                      ELSE AddsFirst(g[i - 1], PathOf[entries[i]], d)]
           found == CHOOSE g : g = Body(g)
<1>0. N \in Nat
  OBVIOUS
<1>1. ListLinear(entries, d) = found[N]
  BY DEF ListLinear
<1>2. found = Body(found)
  <2>1. \E g : g = Body(g)
    BY LinearExists
  <2> HIDE DEF Body
  <2> QED BY <2>1, Zenon
<1>3. /\ found[0] = {}
      /\ \A i \in 0..N : i # 0 => found[i] = AddsFirst(found[i - 1], PathOf[entries[i]], d)
  <2> HIDE DEF found
  <2> SUFFICES ASSUME NEW i \in 0..N
               PROVE  found[i] = IF i = 0 THEN {} ELSE AddsFirst(found[i - 1], PathOf[entries[i]], d)
    <3>1. 0 \in 0..N
      BY <1>0
    <3> QED BY <3>1, Zenon
  <2>1. Body(found)[i] = IF i = 0 THEN {} ELSE AddsFirst(found[i - 1], PathOf[entries[i]], d)
    BY Zenon
  <2> QED BY <1>2, <2>1, Zenon DEF Body
<1> HIDE DEF found
<1> DEFINE T == {n \in Nat : n <= N => Found(found[n], First(entries, n), d)}
<1>4. 0 \in T
  BY <1>3, FirstAre DEF Found, NamesBelow
<1>5. ASSUME NEW n \in Nat, n \in T PROVE n + 1 \in T
  <2> SUFFICES ASSUME n + 1 <= N PROVE Found(found[n + 1], First(entries, n + 1), d)
    OBVIOUS
  <2>1. n + 1 \in 0..N /\ n + 1 # 0 /\ n + 1 - 1 = n /\ n \in 0..N - 1
        /\ Found(found[n], First(entries, n), d)
    BY <1>0, <1>5
  <2>2. found[n + 1] = AddsFirst(found[n], PathOf[entries[n + 1]], d)
    BY <1>3, <2>1
  <2>3. /\ First(entries, n) \in SUBSET DirObject /\ entries[n + 1] \in DirObject
        /\ First(entries, n + 1) = First(entries, n) \cup {entries[n + 1]}
    BY <2>1, FirstAre
  <2>4. Found(AddsFirst(found[n], PathOf[entries[n + 1]], d),
              First(entries, n) \cup {entries[n + 1]}, d)
    BY <2>1, <2>3, FoundAdd
  <2> QED BY <2>2, <2>3, <2>4
<1>6. N \in T
  <2> HIDE DEF T
  <2> QED BY <1>0, <1>4, <1>5, Induct
<1> QED BY <1>0, <1>1, <1>6, FirstAre

(* So it has the names of the tree, and differs where a name is a directory's and it has
   met the file first. *)
LEMMA FoundShows ==
    ASSUME NEW objects \in SUBSET DirObject, NEW d \in Dirs, NEW found,
           Found(found, objects, d)
    PROVE  NamesTree(found, Tree(objects, d))
<1> DEFINE tree == Tree(objects, d)
<1>1. /\ Inner(objects, d) \subseteq NamesBelow(objects, d)
      /\ tree = {Directory(n) : n \in Inner(objects, d)}
                \cup {Regular(n) : n \in NamesBelow(objects, d) \ Inner(objects, d)}
  BY TreeIs
<1>2. {c.name : c \in tree} = NamesBelow(objects, d)
  <2> HIDE DEF tree
  <2>1. ASSUME NEW n \in NamesBelow(objects, d) PROVE \E c \in tree : c.name = n
    <3>1. CASE n \in Inner(objects, d)
      BY <1>1, <3>1, Kinds
    <3>2. CASE n \notin Inner(objects, d)
      BY <1>1, <3>2, Kinds
    <3> QED BY <3>1, <3>2
  <2>2. ASSUME NEW c \in tree PROVE c.name \in NamesBelow(objects, d)
    BY <1>1, Kinds
  <2> QED BY <2>1, <2>2
<1>3. ASSUME NEW c \in found, c \notin tree
      PROVE  c = Regular(c.name) /\ Directory(c.name) \in tree
  <2>1. PICK o \in objects : Below(d, PathOf[o]) /\ c = Child(d, PathOf[o])
    BY DEF Found
  <2> DEFINE n == NameIn(d, PathOf[o])
  <2>2. n \in NamesBelow(objects, d)
    BY <2>1 DEF NamesBelow
  <2>3. Len(PathOf[o]) > Len(d) + 1 => n \in Inner(objects, d)
    BY <2>1 DEF Inner
  <2>4. c = Directory(n) \/ c = Regular(n)
    BY <2>1 DEF Child
  <2>5. c = Directory(n) => n \in Inner(objects, d)
    BY <2>1, <2>3, Kinds DEF Child
  <2> HIDE DEF n, tree
  <2>6. c = Regular(n) /\ c.name = n
    BY <1>1, <1>3, <2>4, <2>5, Kinds
  <2>7. n \in Inner(objects, d)
    BY <1>1, <1>3, <2>2, <2>6
  <2> QED BY <1>1, <2>6, <2>7
<1> HIDE DEF tree
<1> QED BY <1>2, <1>3 DEF NamesTree, Found, tree

(* The tree itself has its names once. *)
LEMMA TreeNames ==
    ASSUME NEW objects, NEW d
    PROVE  NamesTree(Tree(objects, d), Tree(objects, d))
<1>1. ASSUME NEW b \in Tree(objects, d), NEW c \in Tree(objects, d), b.name = c.name
      PROVE  b = c
  BY <1>1, TreeIs, Kinds
<1> QED BY <1>1 DEF NamesTree

(* The listings of ListEntriesByPrefix, for any objects and paths, in every order of the
   objects: by trie the tree, and without it the tree's names.  The pass that stands in
   for an empty list of children finds none either (client.go:702-706). *)
LEMMA PrefixShows ==
    ASSUME NEW objects \in SUBSET DirObject, NEW entries \in Orders(objects), NEW d \in Dirs
    PROVE  /\ ListByTrie(BuildListingTrie(entries), entries, d) = Tree(objects, d)
           /\ NamesTree(ListLinear(entries, d), Tree(objects, d))
<1>1. entries \in Seq(DirObject) /\ Range(entries) = objects
  BY OrdersAre
<1>2. ListImmediateChildren(BuildListingTrie(entries), d) = Tree(objects, d)
  BY <1>1, TrieBuilt, TrieShows
<1>3. NamesTree(ListLinear(entries, d), Tree(objects, d))
  BY <1>1, LinearFinds, FoundShows
<1>4. Tree(objects, d) = {} => ListLinear(entries, d) = {}
  BY <1>3 DEF NamesTree
<1> QED BY <1>2, <1>3, <1>4 DEF ListByTrie

(* The front ends of a mount agree with the tree, for any objects and paths, in every
   order of the objects, also where a file has the name of a directory. *)
LEMMA OneTree ==
    ASSUME NEW objects \in SUBSET DirObject, NEW entries \in Orders(objects), NEW d \in Dirs
    PROVE  /\ ListChildren(entries, d) = Children(objects, d)
           /\ \A c \in Children(objects, d) : LookupIn(entries, d, c.name) = {c}
<1>1. entries \in Seq(DirObject) /\ Range(entries) = objects
  BY OrdersAre
<1> QED BY <1>1, PassShows, LookupShows

(* FrontEndsAgree, for any objects and paths (client.go:98-185, 735, tree.go:299, 747): in
   every reachable state and for every order of the objects, the listing by trie, the
   pass of FUSE and the lookup show one tree, and the pass that stands in for a lost trie
   has its names and differs from it at most by a file for a directory. *)
THEOREM FrontEndsOne == DirSpec => []FrontEndsAgree
<1>1. DirInit => DirInv
  BY DirStarts
<1>2. DirInv /\ [DirNext]_dirVars => DirInv'
  BY DirStep
<1>3. DirInv => FrontEndsAgree
  <2> DEFINE tree  == [d \in Dirs |-> Tree(stored, d)]
             shown == [d \in Dirs |-> Children(stored, d)]
  <2> SUFFICES ASSUME DirInv, NEW entries \in Orders(stored), NEW d \in Dirs
               PROVE  /\ ListByTrie(BuildListingTrie(entries), entries, d) = tree[d]
                      /\ ListChildren(entries, d) = shown[d]
                      /\ \A c \in shown[d] : LookupIn(entries, d, c.name) = {c}
                      /\ NamesTree(ListLinear(entries, d), tree[d])
    BY Zenon DEF FrontEndsAgree
  <2>1. stored \in SUBSET DirObject
    BY DEF DirInv, Known
  <2>2. tree[d] = Tree(stored, d) /\ shown[d] = Children(stored, d)
    OBVIOUS
  <2> HIDE DEF tree, shown
  <2> QED BY <2>1, <2>2, OneTree, PrefixShows
<1> QED BY <1>1, <1>2, <1>3, PTL DEF DirSpec

(* PrefixAnswers, for any objects, paths and goroutines (client.go:688-733): whatever way
   ListEntriesByPrefix takes between the scans, expiries and invalidations of others, its
   answer has the names of the directory, each once. *)
THEOREM PrefixesAnswered == DirSpec => []PrefixAnswers
<1>1. DirInit => DirInv
  BY DirStarts
<1>2. DirInv /\ [DirNext]_dirVars => DirInv'
  BY DirStep
<1>3. DirInv => PrefixAnswers
  <2> SUFFICES ASSUME DirInv, NEW w \in Worker, worker[w].pc = "listed", ~worker[w].raced
               PROVE  NamesTree(worker[w].children, Tree(stored, worker[w].dir))
    BY DEF PrefixAnswers
  <2>1. /\ stored \in SUBSET DirObject /\ worker[w].dir \in Dirs
        /\ worker[w].children \in Answered(stored, worker[w].dir)
    BY DEF DirInv, Known, DirShape, MadeCurrent, IsCurrent, Listing
  <2>2. PICK entries \in Orders(stored) :
           \/ worker[w].children
              = ListByTrie(BuildListingTrie(entries), entries, worker[w].dir)
           \/ worker[w].children = ListLinear(entries, worker[w].dir)
    BY <2>1 DEF Answered
  <2> QED BY <2>1, <2>2, PrefixShows, TreeNames
<1> QED BY <1>1, <1>2, <1>3, PTL DEF DirSpec

(* DirsCurrent, for any objects, paths and goroutines (tree.go:718, dircache.go:77): once
   every change has dropped both caches, a cached directory that has not raced shows what
   the container has. *)
THEOREM DirectoriesCurrent == DirSpec => []DirsCurrent
<1>1. DirInit => DirInv
  BY DirStarts
<1>2. DirInv /\ [DirNext]_dirVars => DirInv'
  BY DirStep
<1>3. DirInv => DirsCurrent
  <2> SUFFICES ASSUME DirInv,
                      \A w \in Worker : worker[w].pc \notin {"dropScan", "dropDirs",
                                                          "dropScanLast", "dropDirsLast"},
                      NEW d \in Dirs, dirCache[d].present, ~dirCache[d].raced
               PROVE  dirCache[d].children = Children(stored, d)
    BY DEF DirsCurrent
  <2>1. dirCache[d].children \in Shown(stored, d)
    BY DEF DirInv, CacheCurrent, Drops
  <2>2. PICK entries \in Orders(stored) : dirCache[d].children = ListChildren(entries, d)
    BY <2>1 DEF Shown
  <2>3. stored \in SUBSET DirObject
    BY DEF DirInv, Known
  <2> QED BY <2>2, <2>3, OneTree
<1> QED BY <1>1, <1>2, <1>3, PTL DEF DirSpec

\* A change that has not dropped the scan yet.
DropsScan(w) == worker[w].pc \in {"dropScan", "dropDirs", "dropScanLast"}

\* A cached scan that lacks a change is about to be dropped.
ScanCurrent ==
    scan.present => scan.objects = stored \/ \E w \in Worker : DropsScan(w)

(* A goroutine's step that keeps the container and the scan, and drops no scan. *)
LEMMA ScanKept ==
    ASSUME DirShape, ScanCurrent, NEW w \in Worker, NEW r, worker' = [worker EXCEPT ![w] = r],
           UNCHANGED <<stored, scan>>,
           DropsScan(w) => r.pc = "dropScanLast"
    PROVE  ScanCurrent'
<1>1. worker'[w] = r /\ \A v \in Worker \ {w} : worker'[v] = worker[v]
  BY DEF DirShape
<1>2. ASSUME NEW v \in Worker, DropsScan(v) PROVE DropsScan(v)'
  BY <1>1, <1>2 DEF DropsScan
<1> QED BY <1>2 DEF ScanCurrent

(* Whatever a listing that DirsCurrent excepts has missed, the change it has missed is
   still on its way, for any objects, paths and goroutines: a scan of another time than
   the container's is followed by a step that drops it (client.go:380). *)
THEOREM ScansCurrent == DirSpec => []ScanCurrent
<1>1. DirInit => DirInv /\ ScanCurrent
  BY DirStarts DEF DirInit, ScanCurrent, NoScan
<1>2. ASSUME DirInv, ScanCurrent, [DirNext]_dirVars PROVE ScanCurrent'
  <2>0. DirShape
    BY <1>2 DEF DirInv
  <2>1. ASSUME NEW w \in Worker, ~DropsScan(w), \E r : worker' = [worker EXCEPT ![w] = r],
               UNCHANGED stored, ScanFills \/ UNCHANGED scan
        PROVE  ScanCurrent'
    <3>1. ASSUME NEW v \in Worker, DropsScan(v) PROVE DropsScan(v)'
      BY <2>0, <2>1, <3>1 DEF DropsScan, DirShape
    <3> QED BY <1>2, <2>1, <3>1 DEF ScanCurrent, ScanFills, Scanned, ScanHit
  <2>7. ASSUME NEW w \in Worker,
               \/ \E d \in Dirs : ListScans(w, d) \/ PrefixHits(w, d) \/ PrefixMisses(w, d)
               \/ PrefixScans(w) \/ PrefixReads(w) \/ PrefixFindsNone(w)
               \/ PrefixScansAgain(w) \/ PrefixReturns(w)
        PROVE  ScanCurrent'
    <3>1. CASE \E d \in Dirs : ListScans(w, d) \/ PrefixHits(w, d) \/ PrefixMisses(w, d)
      <4>1. /\ \E r : worker' = [worker EXCEPT ![w] = r]
            /\ UNCHANGED stored /\ worker[w] = Idle /\ (ScanFills \/ UNCHANGED scan)
        BY <3>1 DEF ListScans, PrefixHits, PrefixMisses
      <4> QED BY <2>1, <4>1, IdleFields DEF DropsScan
    <3>2. CASE PrefixScans(w) \/ PrefixReads(w) \/ PrefixFindsNone(w)
      <4>1. /\ \E r : worker' = [worker EXCEPT ![w] = r]
            /\ UNCHANGED stored /\ worker[w].pc \in {"scan", "read"}
            /\ ScanFills \/ UNCHANGED scan
        BY <3>2 DEF PrefixScans, PrefixReads, PrefixFindsNone
      <4> QED BY <2>1, <4>1 DEF DropsScan
    <3>3. CASE PrefixScansAgain(w) \/ PrefixReturns(w)
      <4>1. /\ \E r : worker' = [worker EXCEPT ![w] = r]
            /\ UNCHANGED stored /\ worker[w].pc \in {"scan", "again", "listed"}
            /\ ScanFills \/ UNCHANGED scan
        BY <3>3 DEF PrefixScansAgain, PrefixReturns
      <4> QED BY <2>1, <4>1 DEF DropsScan
    <3> QED BY <2>7, <3>1, <3>2, <3>3
  <2>2. ASSUME NEW w \in Worker, ListPuts(w) PROVE ScanCurrent'
    <3>1. /\ worker' = [worker EXCEPT ![w] = Idle] /\ UNCHANGED <<stored, scan>>
          /\ worker[w].pc = "put"
      BY <2>2 DEF ListPuts
    <3> QED BY <1>2, <2>0, <3>1, ScanKept DEF DropsScan
  <2>3. ASSUME NEW w \in Worker, NEW o \in DirObject, Edits(w, o) PROVE ScanCurrent'
    <3> DEFINE r == [Idle EXCEPT !.pc = IF o \in stored THEN "dropDirs" ELSE "dropScan",
                                 !.dir = Upto(PathOf[o], Len(PathOf[o]) - 1)]
    <3>1. r.pc \in {"dropDirs", "dropScan"}
      BY DEF Idle
    <3>2. worker'[w] = r
      BY <2>3 DEF Edits
    <3> HIDE DEF r
    <3>3. DropsScan(w)'
      BY <3>1, <3>2 DEF DropsScan
    <3> QED BY <3>3 DEF ScanCurrent
  <2>4. ASSUME NEW w \in Worker, InvalidateContainer(w) PROVE ScanCurrent'
    <3> DEFINE r == IF worker[w].pc = "dropDirs" THEN [worker[w] EXCEPT !.pc = "dropScanLast"]
                    ELSE Idle
    <3>1. DropsScan(w) => r.pc = "dropScanLast"
      BY <2>0, <2>4 DEF DropsScan, InvalidateContainer, DirShape, WorkerField
    <3>2. worker' = [worker EXCEPT ![w] = r] /\ UNCHANGED <<stored, scan>>
      BY <2>4 DEF InvalidateContainer
    <3> HIDE DEF r
    <3> QED BY <1>2, <2>0, <3>1, <3>2, ScanKept
  <2>5. CASE \E w \in Worker : InvalidateScan(w)
    BY <2>5 DEF InvalidateScan, ScanCurrent, NoScan
  <2>8. CASE ScanExpires
    <3>1. /\ scan'.present = scan.present /\ scan'.objects = scan.objects
          /\ UNCHANGED <<stored, worker>>
      BY <1>2, <2>8 DEF ScanExpires, DirInv, Known
    <3> QED BY <1>2, <3>1 DEF ScanCurrent, DropsScan
  <2>6. CASE (\E d \in Dirs : DirExpires(d)) \/ UNCHANGED dirVars
    BY <1>2, <2>6 DEF DirExpires, dirVars, ScanCurrent, DropsScan
  <2> QED BY <1>2, <2>2, <2>3, <2>4, <2>5, <2>6, <2>7, <2>8 DEF DirNext
<1> QED BY <1>1, <1>2, DirStep, PTL DEF DirSpec
==============================================================================
