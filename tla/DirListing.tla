------------------------------ MODULE DirListing ------------------------------
(***************************************************************************)
(* The tree of directories over a container's flat listing.  There are no   *)
(* directories in a container: a directory is what longer paths have in     *)
(* common.  The Windows and macOS front ends list one by a trie kept with   *)
(* the scan, and by a pass over the entries when that trie is gone          *)
(* (ListEntriesByPrefix of internal/neofs/client.go); the FUSE front end    *)
(* lists by a pass of its own (listChildren and Lookup of                   *)
(* internal/fs/tree.go) with a directory cache (internal/fs/dircache.go)    *)
(* above the scan cache.                                                    *)
(*                                                                         *)
(* A DirObject stands for its one path; two objects of one path look alike. *)
(* A scan of the container is one step here: module HeadScan has the rest.  *)
(***************************************************************************)
EXTENDS Naturals, FiniteSets, Functions
LOCAL INSTANCE Sequences

CONSTANTS
    DirObject, \* objects
    PathOf,    \* PathOf[o]: the path of o, a sequence of names
    Hidden,    \* names that editors give to their temporary files
    Worker,    \* goroutines that list or change the container
    MaxDirEdit    \* bound on the changes

Names == UNION {Range(PathOf[o]) : o \in DirObject}

ASSUME DirAssumption ==
    /\ IsFiniteSet(DirObject)
    /\ \A o \in DirObject : PathOf[o] \in Seq(Names) \ {<<>>}
    /\ MaxDirEdit \in Nat

VARIABLES
    stored,     \* the objects of the container
    dirEdits,      \* changes so far
    scan,       \* the scan cache of the client
    dirCache,   \* dirCache[d]: the cached children of directory d
    worker      \* worker[w]: what goroutine w does

dirVars == <<stored, dirEdits, scan, dirCache, worker>>

Upto(path, n)   == SubSeq(path, 1, n)
Below(d, path)  == Len(d) < Len(path) /\ Upto(path, Len(d)) = d
NameIn(d, path) == path[Len(d) + 1]

\* The directories a path goes through, and all there may be.
Ups(path) == {Upto(path, n) : n \in 0..Len(path) - 1}
Dirs      == UNION {Ups(PathOf[o]) : o \in DirObject}

Directory(n) == [name |-> n, kind |-> "dir"]
Regular(n)   == [name |-> n, kind |-> "file"]

-----------------------------------------------------------------------------
(* insertSegments: a node per prefix.  A file stays at its node only while  *)
(* nothing is below it.                                                     *)
EmptyTrie == [nodes |-> {<<>>}, files |-> {}]

InsertSegments(trie, o) ==
    LET path == PathOf[o]
        leaf == \A q \in trie.nodes : ~Below(path, q)
    IN  [nodes |-> trie.nodes \cup Ups(path) \cup {path},
         files |-> (trie.files \ Ups(path)) \cup (IF leaf THEN {path} ELSE {})]

BuildListingTrie(entries) ==
    LET trie[i \in 0..Len(entries)] ==
            IF i = 0 THEN EmptyTrie ELSE InsertSegments(trie[i - 1], entries[i])
    IN  trie[Len(entries)]

ListImmediateChildren(trie, d) ==
    LET children == {q \in trie.nodes : Below(d, q) /\ Len(q) = Len(d) + 1}
        inner    == {q \in children : \E r \in trie.nodes : Below(q, r)}
    IN  {Directory(NameIn(d, q)) : q \in inner}
        \cup {Regular(NameIn(d, q)) : q \in (children \ inner) \cap trie.files}

(* listEntriesByPrefixLinear: what is below a name first decides its kind.  *)
Child(d, path) ==
    IF Len(path) > Len(d) + 1 THEN Directory(NameIn(d, path)) ELSE Regular(NameIn(d, path))

\* Mutant: what has been seen is remembered of directories alone.
AddsEach(found, path, d) ==
    IF Below(d, path) THEN found \cup {Child(d, path)} ELSE found

AddsFirst(found, path, d) ==
    IF Below(d, path) /\ \A c \in found : c.name # NameIn(d, path)
    THEN found \cup {Child(d, path)} ELSE found

ListLinear(entries, d) ==
    LET found[i \in 0..Len(entries)] ==
            IF i = 0 THEN {} ELSE AddsFirst(found[i - 1], PathOf[entries[i]], d)
    IN  found[Len(entries)]

(* The trie's children, or the pass's where it has none.                    *)
ListByTrie(trie, entries, d) ==
    LET children == ListImmediateChildren(trie, d)
    IN  IF children = {} THEN ListLinear(entries, d) ELSE children

(* listChildren: a name that has been seen as a directory stays one.        *)
Without(found, n) == {c \in found : c.name # n}

\* Mutant: whatever is seen last is shown.
SeenLast(found, n, deeper) ==
    Without(found, n) \cup {IF deeper THEN Directory(n) ELSE Regular(n)}

Seen(found, n, deeper) ==
    IF deeper \/ Directory(n) \in found THEN Without(found, n) \cup {Directory(n)}
                                        ELSE found \cup {Regular(n)}

Adds(found, path, d) ==
    IF Below(d, path) /\ NameIn(d, path) \notin Hidden
    THEN Seen(found, NameIn(d, path), Len(path) > Len(d) + 1) ELSE found

ListChildren(entries, d) ==
    LET found[i \in 0..Len(entries)] ==
            IF i = 0 THEN {} ELSE Adds(found[i - 1], PathOf[entries[i]], d)
    IN  found[Len(entries)]

\* The objects of a scan come in any order.
Orders(objects) == Bijection(1..Cardinality(objects), objects)

(* Lookup of a name: a directory if a path goes on below it, else a file.   *)
LookupIn(entries, d, n) ==
    LET path  == Append(d, n)
        paths == {PathOf[o] : o \in Range(entries)}
    IN  IF n \in Hidden THEN {}
        ELSE IF \E q \in paths : Below(path, q) THEN {Directory(n)}
        ELSE IF path \in paths THEN {Regular(n)} ELSE {}

-----------------------------------------------------------------------------
NoScan  == [present |-> FALSE, fresh |-> FALSE, objects |-> {}]
NoEntry == [present |-> FALSE, raced |-> FALSE, children |-> {}]
Idle    == [pc |-> "idle", dir |-> <<>>, raced |-> FALSE, children |-> {}]

DirInit ==
    /\ stored \in SUBSET DirObject /\ dirEdits = 0 /\ scan = NoScan
    /\ dirCache = [d \in Dirs |-> NoEntry]
    /\ worker = [w \in Worker |-> Idle]

(* The scan cache answers with what it has, and else lists the container.   *)
ScanHit   == scan.present /\ scan.fresh
Scanned   == IF ScanHit THEN scan.objects ELSE stored
ScanFills == scan' = [present |-> TRUE, fresh |-> TRUE, objects |-> Scanned]

(* What a goroutine has made of the objects of a scan, which has raced when *)
(* they are no longer the container's.                                      *)
Made(pc, d, objects, children) ==
    [pc |-> pc, dir |-> d, raced |-> objects # stored, children |-> children]

(* dirCache.Get misses: listChildren asks the scan cache, and the container *)
(* when that has no listing, whose objects come in any order.               *)
ListScans(w, d) ==
    /\ worker[w] = Idle /\ ~dirCache[d].present
    /\ ScanFills
    /\ \E entries \in Orders(Scanned) :
          worker' = [worker EXCEPT ![w] = Made("put", d, Scanned, ListChildren(entries, d))]
    /\ UNCHANGED <<stored, dirEdits, dirCache>>

(* And puts what it found into the directory cache.                         *)
ListPuts(w) ==
    /\ worker[w].pc = "put"
    /\ dirCache' = [dirCache EXCEPT ![worker[w].dir] =
                      [present |-> TRUE, raced |-> worker[w].raced,
                       children |-> worker[w].children]]
    /\ worker' = [worker EXCEPT ![w] = Idle]
    /\ UNCHANGED <<stored, dirEdits, scan>>

(* ListEntriesByPrefix reads the trie of a scan it finds in the cache.      *)
PrefixHits(w, d) ==
    /\ worker[w] = Idle /\ ScanHit
    /\ \E entries \in Orders(scan.objects) :
          worker' = [worker EXCEPT ![w] =
                       Made("listed", d, scan.objects,
                            ListByTrie(BuildListingTrie(entries), entries, d))]
    /\ UNCHANGED <<stored, dirEdits, scan, dirCache>>

PrefixMisses(w, d) ==
    /\ worker[w] = Idle /\ ~ScanHit
    /\ worker' = [worker EXCEPT ![w] = [Idle EXCEPT !.pc = "scan", !.dir = d]]
    /\ UNCHANGED <<stored, dirEdits, scan, dirCache>>

(* Else it fills the cache, and reads the trie there by a lock of its own,  *)
(* whatever the trie's age.                                                 *)
PrefixScans(w) ==
    /\ worker[w].pc = "scan"
    /\ ScanFills
    /\ worker' = [worker EXCEPT ![w].pc = "read"]
    /\ UNCHANGED <<stored, dirEdits, dirCache>>

PrefixReads(w) ==
    /\ worker[w].pc = "read" /\ scan.present
    /\ \E entries \in Orders(scan.objects) :
          worker' = [worker EXCEPT ![w] =
                       Made("listed", @.dir, scan.objects,
                            ListByTrie(BuildListingTrie(entries), entries, @.dir))]
    /\ UNCHANGED <<stored, dirEdits, scan, dirCache>>

(* Where a change has dropped it in between, it lists the entries of one    *)
(* more scan.                                                               *)
PrefixFindsNone(w) ==
    /\ worker[w].pc = "read" /\ ~scan.present
    /\ worker' = [worker EXCEPT ![w].pc = "again"]
    /\ UNCHANGED <<stored, dirEdits, scan, dirCache>>

PrefixScansAgain(w) ==
    /\ worker[w].pc = "again"
    /\ ScanFills
    /\ \E entries \in Orders(Scanned) :
          worker' = [worker EXCEPT ![w] =
                       Made("listed", @.dir, Scanned, ListLinear(entries, @.dir))]
    /\ UNCHANGED <<stored, dirEdits, dirCache>>

(* With what it found, or with the error of a scan.                         *)
PrefixReturns(w) ==
    /\ worker[w].pc \in {"scan", "again", "listed"}
    /\ worker' = [worker EXCEPT ![w] = Idle]
    /\ UNCHANGED <<stored, dirEdits, scan, dirCache>>

(* A goroutine puts an object and then drops the scan and the directories   *)
(* (the upload), or deletes one and drops the directories first (Unlink,    *)
(* Rename).                                                                 *)
Edits(w, o) ==
    /\ worker[w] = Idle /\ dirEdits < MaxDirEdit
    /\ dirEdits' = dirEdits + 1
    /\ stored' = IF o \in stored THEN stored \ {o} ELSE stored \cup {o}
    /\ worker' = [v \in Worker |->
                    IF v = w
                    THEN [Idle EXCEPT
                            !.pc = IF o \in stored THEN "dropDirs" ELSE "dropScan",
                            !.dir = Upto(PathOf[o], Len(PathOf[o]) - 1)]
                    ELSE IF worker[v].pc \in {"put", "listed"}
                    THEN [worker[v] EXCEPT !.raced = TRUE]
                    ELSE worker[v]]
    /\ UNCHANGED <<scan, dirCache>>

\* Mutant: only the directory of the object is dropped.
DroppedAlone(w) == {worker[w].dir}

DirsDropped(w) == Dirs

InvalidateContainer(w) ==
    /\ worker[w].pc \in {"dropDirs", "dropDirsLast"}
    /\ dirCache' = [d \in Dirs |-> IF d \in DirsDropped(w) THEN NoEntry ELSE dirCache[d]]
    /\ worker' = [worker EXCEPT ![w] = IF @.pc = "dropDirs"
                                       THEN [@ EXCEPT !.pc = "dropScanLast"] ELSE Idle]
    /\ UNCHANGED <<stored, dirEdits, scan>>

InvalidateScan(w) ==
    /\ worker[w].pc \in {"dropScan", "dropScanLast"}
    /\ scan' = NoScan
    /\ worker' = [worker EXCEPT ![w] = IF @.pc = "dropScan"
                                       THEN [@ EXCEPT !.pc = "dropDirsLast"] ELSE Idle]
    /\ UNCHANGED <<stored, dirEdits, dirCache>>

(* A scan grows old in the cache; nothing takes it out.                     *)
ScanExpires ==
    /\ ScanHit /\ scan' = [scan EXCEPT !.fresh = FALSE]
    /\ UNCHANGED <<stored, dirEdits, dirCache, worker>>

DirExpires(d) ==
    /\ dirCache[d].present
    /\ dirCache' = [dirCache EXCEPT ![d] = NoEntry]
    /\ UNCHANGED <<stored, dirEdits, scan, worker>>

DirNext ==
    \/ \E w \in Worker : \/ \E d \in Dirs : ListScans(w, d)
                         \/ ListPuts(w)
                         \/ \E d \in Dirs : PrefixHits(w, d) \/ PrefixMisses(w, d)
                         \/ PrefixScans(w)
                         \/ PrefixReads(w)
                         \/ PrefixFindsNone(w)
                         \/ PrefixScansAgain(w)
                         \/ PrefixReturns(w)
                         \/ \E o \in DirObject : Edits(w, o)
                         \/ InvalidateContainer(w)
                         \/ InvalidateScan(w)
    \/ ScanExpires
    \/ \E d \in Dirs : DirExpires(d)

DirSpec == DirInit /\ [][DirNext]_dirVars

-----------------------------------------------------------------------------
(* Properties *)

\* What directory d is to show of objects: a directory for each name that a path
\* goes on below, a file for each other one.  FUSE hides the names that editors give
\* to their temporary files.
Tree(objects, d) ==
    LET below == {PathOf[o] : o \in {o \in objects : Below(d, PathOf[o])}}
        names == {NameIn(d, q) : q \in below}
        inner == {NameIn(d, q) : q \in {q \in below : Len(q) > Len(d) + 1}}
    IN  {Directory(n) : n \in inner} \cup {Regular(n) : n \in names \ inner}

Children(objects, d) == {c \in Tree(objects, d) : c.name \notin Hidden}

\* Every name of the tree once, if maybe as a file what is a directory as well.
NamesTree(listed, tree) ==
    /\ {c.name : c \in listed} = {c.name : c \in tree}
    /\ \A b, c \in listed : b.name = c.name => b = c
    /\ \A c \in listed \ tree : c = Regular(c.name) /\ Directory(c.name) \in tree

\* The front ends show the tree that the paths make, in whatever order the objects
\* come: the listing by trie, the pass of FUSE and the lookup of a name agree on every
\* child of every directory, also where a file has the name of a directory, as the
\* marker object of a made directory has.  The pass that stands in for a lost trie
\* (client.go:735) is the exception: it has the same names, each once, but takes such
\* a name for a file when the file comes first.
FrontEndsAgree ==
    LET tree  == [d \in Dirs |-> Tree(stored, d)]
        shown == [d \in Dirs |-> Children(stored, d)]
    IN  \A entries \in Orders(stored) :
          LET trie == BuildListingTrie(entries)
          IN  \A d \in Dirs :
                /\ ListByTrie(trie, entries, d) = tree[d]
                /\ ListChildren(entries, d) = shown[d]
                /\ \A c \in shown[d] : LookupIn(entries, d, c.name) = {c}
                /\ NamesTree(ListLinear(entries, d), tree[d])

\* Whatever way ListEntriesByPrefix has taken between the scans, expiries and
\* invalidations of others (client.go:688-733), it answers with every name that the
\* container has in the directory, once, and with no other; its trie may be gone or
\* older than its scan.  Excepted are answers of a scan that a change has overtaken.
PrefixAnswers ==
    \A w \in Worker :
        worker[w].pc = "listed" /\ ~worker[w].raced
        => NamesTree(worker[w].children, Tree(stored, worker[w].dir))

\* Once every change has dropped both caches, a cached directory shows what the
\* container has, the parents included, which appear and disappear with what is
\* below them.  Excepted are listings that raced with a change: made while one was
\* not yet dropped from the scan cache, or cached after one that they had missed.
DirsCurrent ==
    (\A w \in Worker :
        worker[w].pc \notin {"dropScan", "dropDirs", "dropScanLast", "dropDirsLast"})
    => \A d \in Dirs :
          dirCache[d].present /\ ~dirCache[d].raced
          => dirCache[d].children = Children(stored, d)

\* The pass that stands in for a lost trie shows what a trie would have: "matches
\* linear scan first-wins" (client.go:139).
LinearMatchesTrie ==
    \A w \in Worker :
        worker[w].pc = "listed" /\ ~worker[w].raced
        => \A entries \in Orders(stored) :
              worker[w].children
              = ListImmediateChildren(BuildListingTrie(entries), worker[w].dir)
===============================================================================
