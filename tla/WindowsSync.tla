----------------------------- MODULE WindowsSync -----------------------------
(***************************************************************************)
(* How a local change reaches the container under Windows                   *)
(* (internal/fs/mount_windows.go, upload_watch_windows.go,                  *)
(* restore_placeholder_windows.go, delete_neofs.go).  Cloud Files callbacks *)
(* and the directory watcher start goroutines that upload, delete, rename   *)
(* and restore.  Uploads of a path take its lock; deletions take none.      *)
(*                                                                         *)
(* The user and Windows are the environment.  An upload holds the file open *)
(* without FILE_SHARE_DELETE: meanwhile it may be written, but not moved or *)
(* removed.  Scans of the container are atomic: HeadScan has their races.   *)
(* Directories are left out: a path is a file.                              *)
(***************************************************************************)
EXTENDS Naturals, FiniteSets

CONSTANTS
    WinPath,     \* the paths below one container's folder
    Size,        \* Size[v]: the size of the content saved by the user's v-th operation
    MaxOp,       \* bound on the user's operations
    MaxPut,      \* bound on the objects put
    Job,         \* goroutines
    NoJob, NoWinPath

ASSUME WindowsAssumption ==
    /\ MaxOp \in Nat /\ MaxPut \in Nat
    /\ Size \in [1..MaxOp -> Nat \ {0}]
    /\ NoJob \notin Job /\ NoWinPath \notin WinPath

VARIABLES
    file,       \* file[p]: the content at p on disk, 0 for none
    ops,        \* the user's operations so far
    container,  \* the container: objects with a number, a path and a content
    putCount,   \* objects put so far
    listing,    \* the client's cached listing, or none
    lockOf,     \* uploadLocks: the job that holds a path's lock
    dedupe,     \* uploadDedupe: the size put at a path less than 900 ms ago, or 0
    deleted,    \* recentDeletes younger than recentDeleteTTL
    timers,     \* pathDebouncer: the paths with an armed timer
    removals,   \* the paths whose removal the watcher handles in 150 ms
    job,        \* job[j]: what goroutine j does
    want,       \* history: the content the user left at a path, or 0
    doubt       \* history: doubt[p]: why the container may differ from want:
                \* an edit taken for a "duplicate", a deletion that "raced" with
                \* an upload, or an "other" one of the exceptions of Mirrors

disk     == <<file, ops, want>>
remote   == <<container, putCount, listing>>
provider == <<lockOf, dedupe, deleted, timers, removals>>
winVars  == <<disk, remote, provider, job, doubt>>

Content == 1..MaxOp
Stored  == [id : 1..MaxPut, path : WinPath, content : Content]

NoList    == [present |-> FALSE, entries |-> {}]
Cached(s) == [present |-> TRUE, entries |-> s]

NoWork == [kind |-> "none", pc |-> "end", path |-> NoWinPath, src |-> NoWinPath,
           size |-> 0, opened |-> 0, found |-> {}, since |-> 0, changed |-> FALSE]

WinInit ==
    /\ file = [p \in WinPath |-> 0] /\ want = file /\ ops = 0
    /\ container = {} /\ putCount = 0 /\ listing = NoList
    /\ lockOf = [p \in WinPath |-> NoJob] /\ dedupe = [p \in WinPath |-> 0]
    /\ deleted = {} /\ timers = {} /\ removals = {}
    /\ job = [j \in Job |-> NoWork]
    /\ doubt = [p \in WinPath |-> {}]

-----------------------------------------------------------------------------
Runs(j, k, l) == job[j].kind \in k /\ job[j].pc = l

\* A rename uploads its destination, then deletes its source.
Uploads == {"upload", "rename"}
Deletes == {"delete", "rename"}

\* History, for a rename: the user has changed its destination since.
Changes(paths) ==
    [i \in Job |-> IF job[i].kind = "rename" /\ job[i].path \in paths
                   THEN [job[i] EXCEPT !.changed = TRUE] ELSE job[i]]

\* "since" tells objects put before the goroutine began from later ones.
Spawn(j, k, l, p, s, paths) ==
    /\ job[j] = NoWork
    /\ job' = [Changes(paths) EXCEPT ![j] =
                  [NoWork EXCEPT !.kind = k, !.pc = l, !.path = p, !.src = s,
                                 !.since = putCount]]

Ends(j) == job' = [job EXCEPT ![j] = NoWork]

\* After a put, or what is taken for its duplicate.
Uploaded(j) ==
    job' = [job EXCEPT ![j] = IF @.kind = "rename"
                              THEN [@ EXCEPT !.pc = "list", !.found = {}]
                              ELSE NoWork]

Open(p) == \E j \in Job : job[j].pc \in {"put", "replace"} /\ job[j].path = p

Works(p) == \E j \in Job : job[j] # NoWork /\ p \in {job[j].path, job[j].src}

Quiescent(p) == ~Works(p) /\ p \notin timers \cup removals

Deleting(p) == \E j \in Job : job[j].kind \in Deletes /\ job[j].src = p

ObjectsAt(p, objects) == {o \in objects : o.path = p}

\* The newest object of the path has the content.
Holds(p, c, objects) ==
    \E o \in ObjectsAt(p, objects) :
        o.content = c /\ \A n \in ObjectsAt(p, objects) : n.id <= o.id

(* ListEntriesByHeadScan: the cached listing, or a scan that is cached.     *)
Entries == IF listing.present THEN listing.entries ELSE container
List    == listing' = Cached(Entries)

\* Mutant: the listing survives what changes the container.
KeepListing == listing' = listing

\* InvalidateContainerScan.
DropListing == listing' = NoList

Doubt(paths, why) ==
    doubt' = [p \in WinPath |-> IF p \in paths THEN doubt[p] \cup {why} ELSE doubt[p]]

-----------------------------------------------------------------------------
Operates == ops < MaxOp /\ ops' = ops + 1

(* The user saves: the close callback uploads, and the watcher's event arms *)
(* the debouncer's timer.                                                   *)
Save(j, p) ==
    /\ Operates
    /\ file' = [file EXCEPT ![p] = ops'] /\ want' = [want EXCEPT ![p] = ops']
    /\ timers' = timers \cup {p}
    /\ Spawn(j, "upload", "lock", p, NoWinPath, {p})
    /\ UNCHANGED <<remote, lockOf, dedupe, deleted, removals, doubt>>

(* Closing a file uploads it, whether or not it has changed.  Closing it    *)
(* while something is under way for it is what Save and the timer do.       *)
Close(j, p) ==
    /\ Operates
    /\ file[p] # 0 /\ Quiescent(p)
    /\ Spawn(j, "upload", "lock", p, NoWinPath, {})
    /\ UNCHANGED <<file, want, remote, provider, doubt>>

(* The watcher sees a path go: its timer is cancelled, and in 150 ms it may *)
(* be restored.                                                             *)
Leaves(p) ==
    /\ Operates
    /\ file[p] # 0 /\ ~Open(p)
    /\ want' = [want EXCEPT ![p] = 0]
    /\ removals' = removals \cup {p}

(* Deleted in Explorer, for good or into the recycle bin.                   *)
Remove(j, p) ==
    /\ Leaves(p)
    /\ file' = [file EXCEPT ![p] = 0]
    /\ timers' = timers \ {p}
    /\ Spawn(j, "delete", "list", NoWinPath, p, {p})
    /\ UNCHANGED <<remote, lockOf, dedupe, deleted, doubt>>

(* Moved to another path of the container.                                  *)
Move(j, p, q) ==
    /\ Operates
    /\ p # q /\ ~Open(q)
    /\ file[p] # 0 /\ ~Open(p)
    /\ file' = [file EXCEPT ![p] = 0, ![q] = file[p]]
    /\ want' = [want EXCEPT ![p] = 0, ![q] = file[p]]
    /\ removals' = removals \cup {p}
    /\ timers' = (timers \ {p}) \cup {q}
    /\ Spawn(j, "rename", "lock", q, p, {p, q})
    /\ UNCHANGED <<remote, lockOf, dedupe, deleted, doubt>>

(* Moved out of the sync root: the object is to stay, and its placeholder   *)
(* to come back.                                                            *)
MoveOut(p) ==
    /\ Leaves(p)
    /\ file' = [file EXCEPT ![p] = 0]
    /\ timers' = timers \ {p}
    /\ Doubt({p}, "other")
    /\ job' = Changes({p})
    /\ UNCHANGED <<remote, lockOf, dedupe, deleted>>

(* The debounced callback uploads the file.  There is one: whatever takes   *)
(* it away cancels the timer.                                               *)
TimerFires(j, p) ==
    /\ p \in timers /\ file[p] # 0
    /\ timers' = timers \ {p}
    /\ Spawn(j, "upload", "lock", p, NoWinPath, {})
    /\ UNCHANGED <<disk, remote, lockOf, dedupe, deleted, removals, doubt>>

-----------------------------------------------------------------------------
\* Mutant: the upload does not take the path's lock.
LocksNothing(j) == Runs(j, Uploads, "lock")

(* uploadClosedFile takes the path's lock and looks at the file.            *)
Locks(j) == Runs(j, Uploads, "lock") /\ lockOf[job[j].path] = NoJob

Gone(j)  == file[job[j].path] = 0

\* shouldSkipRapidDuplicatePut: only the sizes are compared.
IsDuplicate(p) == dedupe[p] = Size[file[p]]

\* A rename whose destination is gone again leaves its source.
UploadGone(j) ==
    /\ Locks(j) /\ Gone(j)
    /\ Doubt({job[j].src}, "other")
    /\ Ends(j)
    /\ UNCHANGED <<disk, remote, provider>>

UploadSkipped(j) ==
    /\ Locks(j) /\ ~Gone(j)
    /\ LET p == job[j].path
       IN  /\ IsDuplicate(p)
           /\ IF Holds(p, file[p], container) THEN UNCHANGED doubt ELSE Doubt({p}, "duplicate")
    /\ Uploaded(j)
    /\ UNCHANGED <<disk, remote, provider>>

Unlocks(j) == lockOf' = [lockOf EXCEPT ![job[j].path] = NoJob]

(* Else it keeps the lock, lists the objects to replace and opens the file. *)
Opens(j, f) ==
    /\ Locks(j) /\ ~Gone(j)
    /\ LET p == job[j].path
       IN  /\ ~IsDuplicate(p)
           /\ lockOf' = [lockOf EXCEPT ![p] = j]
           /\ job' = [job EXCEPT ![j] = [@ EXCEPT !.pc = "put", !.size = Size[file[p]],
                                                  !.opened = file[p], !.found = f]]
    /\ UNCHANGED <<disk, container, putCount, dedupe, deleted, timers, removals, doubt>>

UploadOpen(j) == List /\ Opens(j, ObjectsAt(job[j].path, Entries))

\* An error of the listing counts as no old objects.
UploadListFails(j) == ~listing.present /\ Opens(j, {}) /\ UNCHANGED listing

(* The object holds the content opened, or what was saved over it since: a  *)
(* mixture of both is as wrong as the older one.                            *)
Puts(j, v) ==
    /\ Runs(j, Uploads, "put") /\ putCount < MaxPut
    /\ v \in {job[j].opened, file[job[j].path]}
    /\ putCount' = putCount + 1
    /\ container' = container \cup {[id |-> putCount', path |-> job[j].path, content |-> v]}
    /\ job' = [job EXCEPT ![j].pc = "replace"]
    /\ UNCHANGED <<disk, listing, provider, doubt>>

\* Mutant: a rename goes on to delete its source.
PutFailsOn(j) ==
    /\ Runs(j, Uploads, "put")
    /\ Doubt({job[j].path, job[j].src}, "other")
    /\ Uploaded(j) /\ Unlocks(j)
    /\ UNCHANGED <<disk, remote, dedupe, deleted, timers, removals>>

PutFails(j) ==
    /\ Runs(j, Uploads, "put")
    /\ Doubt({job[j].path, job[j].src}, "other")
    /\ Ends(j) /\ Unlocks(j)
    /\ UNCHANGED <<disk, remote, dedupe, deleted, timers, removals>>

(* The old objects are deleted, whether or not a deletion fails, and the    *)
(* size read before the put is recorded for the next 900 ms.                *)
UploadReplace(j, kept) ==
    /\ Runs(j, Uploads, "replace")
    /\ kept \subseteq job[j].found
    /\ LET p == job[j].path
       IN  /\ container' = container \ (job[j].found \ kept)
           /\ DropListing
           /\ dedupe' = [dedupe EXCEPT ![p] = job[j].size]
           /\ deleted' = deleted \ {p}
           /\ doubt' = IF Holds(p, want[p], container') /\ ~Deleting(p)
                       THEN [doubt EXCEPT ![p] = {}] ELSE doubt
    /\ Uploaded(j) /\ Unlocks(j)
    /\ UNCHANGED <<disk, putCount, timers, removals>>

-----------------------------------------------------------------------------
(* handleCloudFileDeleted, and the end of a rename.  Only the former notes  *)
(* the path, so that the watcher does not restore it.                       *)
Noted(j) == deleted' = IF job[j].kind = "delete" THEN deleted \cup {job[j].src} ELSE deleted

DeleteList(j) ==
    /\ Runs(j, Deletes, "list")
    /\ List /\ Noted(j)
    /\ job' = [job EXCEPT ![j] = [@ EXCEPT !.pc = "drop",
                                           !.found = ObjectsAt(job[j].src, Entries)]]
    /\ UNCHANGED <<disk, container, putCount, lockOf, dedupe, timers, removals, doubt>>

DeleteListFails(j) ==
    /\ Runs(j, Deletes, "list") /\ ~listing.present
    /\ Noted(j)
    /\ Doubt({job[j].src}, "other")
    /\ Ends(j)
    /\ UNCHANGED <<disk, remote, lockOf, dedupe, timers, removals>>

\* An object put, or a file saved or restored, since the deletion began.
Overlap(j) ==
    file[job[j].src] # 0 \/ \E o \in job[j].found : o.id > job[j].since

Races(j) == IF Overlap(j) THEN {"raced"} ELSE {}

DeleteDrop(j) ==
    /\ Runs(j, Deletes, "drop")
    /\ LET p == job[j].src
       IN  /\ container' = container \ job[j].found
           /\ DropListing
           /\ dedupe' = [dedupe EXCEPT ![p] = 0]
           /\ doubt' = [doubt EXCEPT ![p] = @ \cup Races(j)]
    /\ Ends(j)
    /\ UNCHANGED <<disk, putCount, lockOf, deleted, timers, removals>>

\* The first error ends it, and the listing stays.
DeleteDropFails(j, kept) ==
    /\ Runs(j, Deletes, "drop")
    /\ kept \subseteq job[j].found /\ kept # {}
    /\ container' = container \ (job[j].found \ kept)
    /\ doubt' = [doubt EXCEPT ![job[j].src] = @ \cup {"other"} \cup Races(j)]
    /\ Ends(j)
    /\ UNCHANGED <<disk, putCount, listing, provider>>

-----------------------------------------------------------------------------
(* tryRestorePlaceholderAfterRemove.  150 ms are enough for the callback of *)
(* a deletion to note it.                                                   *)
Restores(p) ==
    /\ p \in removals
    /\ \A i \in Job : ~(Runs(i, {"delete"}, "list") /\ job[i].src = p)
    /\ removals' = removals \ {p}

\* Suppressed, taken by a new file, or not to be listed.
RestoreStops(p) ==
    /\ Restores(p)
    /\ p \in deleted \/ file[p] # 0 \/ ~listing.present
    /\ UNCHANGED <<disk, remote, lockOf, dedupe, deleted, timers, job, doubt>>

RestoreFind(j, p) ==
    /\ Restores(p)
    /\ p \notin deleted /\ file[p] = 0
    /\ List
    /\ job[j] = NoWork
    /\ job' = [job EXCEPT ![j] = IF ObjectsAt(p, Entries) = {} THEN NoWork
                 ELSE [NoWork EXCEPT !.kind = "restore", !.pc = "head", !.path = p,
                                     !.found = ObjectsAt(p, Entries)]]
    /\ UNCHANGED <<disk, container, putCount, lockOf, dedupe, deleted, timers, doubt>>

(* The first listed object whose header is answered becomes a placeholder,  *)
(* unless there is a file again; the watcher arms the timer for what it sees *)
(* added.                                                                   *)
RestoreHead(j, o) ==
    /\ Runs(j, {"restore"}, "head")
    /\ LET p == job[j].path
       IN  /\ o \in job[j].found \cap container
           /\ IF file[p] = 0
              THEN /\ file' = [file EXCEPT ![p] = o.content]
                   /\ timers' = timers \cup {p}
                   /\ Doubt({p}, "other")
                   /\ DropListing
              ELSE UNCHANGED <<file, timers, doubt, listing>>
    /\ Ends(j)
    /\ UNCHANGED <<ops, want, container, putCount, lockOf, dedupe, deleted, removals>>

RestoreNoHead(j) ==
    /\ Runs(j, {"restore"}, "head")
    /\ DropListing
    /\ Ends(j)
    /\ UNCHANGED <<disk, container, putCount, provider, doubt>>

-----------------------------------------------------------------------------
WindowElapses(p) ==
    /\ dedupe[p] # 0
    /\ dedupe' = [dedupe EXCEPT ![p] = 0]
    /\ UNCHANGED <<disk, remote, lockOf, deleted, timers, removals, job, doubt>>

\* A deletion ends within 30 s, recentDeleteTTL is 120 s.
DeleteForgotten(p) ==
    /\ p \in deleted /\ Quiescent(p)
    /\ deleted' = deleted \ {p}
    /\ UNCHANGED <<disk, remote, lockOf, dedupe, timers, removals, job, doubt>>

ListingExpires ==
    /\ listing.present
    /\ DropListing
    /\ UNCHANGED <<disk, container, putCount, provider, job, doubt>>

(* The process ends, and starts again: nothing is resumed.                  *)
Restart ==
    /\ \E j \in Job : job[j] # NoWork
    /\ listing' = NoList
    /\ lockOf' = [p \in WinPath |-> NoJob] /\ dedupe' = [p \in WinPath |-> 0]
    /\ deleted' = {} /\ timers' = {} /\ removals' = {}
    /\ job' = [j \in Job |-> NoWork]
    /\ doubt' = [p \in WinPath |-> IF Quiescent(p) THEN doubt[p]
                              ELSE doubt[p] \cup {"other"}]
    /\ UNCHANGED <<disk, container, putCount>>

-----------------------------------------------------------------------------
User(j) ==
    \E p \in WinPath : \/ Save(j, p) \/ Close(j, p) \/ Remove(j, p) \/ MoveOut(p)
                    \/ \E q \in WinPath : Move(j, p, q)

Watcher(j) ==
    \E p \in WinPath : TimerFires(j, p) \/ RestoreStops(p) \/ RestoreFind(j, p)

Goroutine(j) ==
    \/ UploadGone(j) \/ UploadSkipped(j) \/ UploadOpen(j) \/ UploadListFails(j)
    \/ \E v \in Content : Puts(j, v)
    \/ PutFails(j)
    \/ \E kept \in SUBSET job[j].found : UploadReplace(j, kept) \/ DeleteDropFails(j, kept)
    \/ DeleteList(j) \/ DeleteListFails(j) \/ DeleteDrop(j)
    \/ \E o \in job[j].found : RestoreHead(j, o)
    \/ RestoreNoHead(j)

WinNext ==
    \/ \E j \in Job : User(j) \/ Watcher(j) \/ Goroutine(j)
    \/ \E p \in WinPath : WindowElapses(p) \/ DeleteForgotten(p)
    \/ ListingExpires
    \/ Restart

WinSpec == WinInit /\ [][WinNext]_winVars

-----------------------------------------------------------------------------
(* Properties *)

Mirrored(p) ==
    /\ file[p] = want[p]
    /\ IF want[p] = 0 THEN ObjectsAt(p, container) = {} ELSE Holds(p, want[p], container)

\* When nothing is under way for a path, the disk and the container hold what
\* the user left there: the content saved or moved there last, in the newest
\* object, or nothing.  The exceptions are all of these: a call that failed or
\* a restart before it was made, an edit taken for a duplicate, a deletion that
\* overlapped the path's next upload, a file moved out or a restored
\* placeholder, a file gone again before the rename that brought it.
Mirrors ==
    \A p \in WinPath :
        Quiescent(p) /\ doubt[p] = {} => Mirrored(p)

\* "serializes Put/Delete to avoid races when the watcher and CfApi callbacks
\* overlap (e.g. rapid moves)" (mount_windows.go:196): that a deletion overlaps
\* an upload of its path is no exception.
RapidMovesMirror ==
    \A p \in WinPath :
        Quiescent(p) /\ doubt[p] \subseteq {"raced"} => Mirrored(p)

\* Objects "at the pre-rename path" are removed "after a successful upload to the
\* destination" (mount_windows.go:1112): when a rename deletes its source, and the
\* user has left the destination alone since, the destination has what was put
\* since, or has the content already.  An edit taken for a duplicate and a deletion
\* that overlapped the upload may explain that it has not, but not a failed put.
SourceLast ==
    [][\A j \in Job :
          /\ Runs(j, {"rename"}, "drop") /\ ~job[j].changed
          /\ job'[j] = NoWork /\ container' # container
          => LET q == job[j].path
             IN  \/ \E o \in ObjectsAt(q, container') : o.id > job[j].since
                 \/ Holds(q, file[q], container')
                 \/ doubt[q] \cap {"duplicate", "raced"} # {}]_winVars

\* "serializes Put/Delete to avoid races when the watcher and CfApi callbacks
\* overlap" (mount_windows.go:196): of the uploads of a path, one is between
\* its search for old objects and the end of their deletion.
UploadsSerialized ==
    \A i, j \in Job :
        /\ job[i].pc \in {"put", "replace"}
        /\ job[j].pc \in {"put", "replace"}
        /\ job[i].path = job[j].path
        => i = j
=============================================================================
