----------------------------- MODULE FuseWrites -----------------------------
(***************************************************************************)
(* The operations of internal/fs/tree.go that change one container through *)
(* the FUSE mount: the upload a closed file starts, unlink and rmdir,      *)
(* rename, mkdir.  Each finds the objects of a path in a listing of        *)
(* HeadScan, which may be stale, and then changes the container one object *)
(* at a time.  Uploads are goroutines of their own; the kernel holds the   *)
(* lock of the directory over the others.                                  *)
(*                                                                         *)
(* Objects are numbered in the order they are put.  Every object a process *)
(* puts carries a path for ever; several objects may carry the same one.   *)
(***************************************************************************)
EXTENDS HeadScan

CONSTANTS
    Path, NoPath

ASSUME WritesAssumption ==
    /\ Object \subseteq Nat /\ 0 \notin Object /\ Initial = {}
    /\ NoPath \notin Path

VARIABLES
    path,      \* path[o]: the FilePath attribute of object o
    origin,    \* origin[o]: the object whose content o was put with
    puts,      \* how many objects were put
    op,        \* op[p]: the operation goroutine p performs
    nsLock,    \* who holds the kernel's lock of the directory
    tracker,   \* the paths uploads.Tracker lists
    unlinked   \* what a user removed: by unlink, or by renaming over it

objVars  == <<path, origin, puts>>
fuseVars == <<op, nsLock, tracker, unlinked>>
allVars  == <<vars, objVars, fuseVars>>

\* rest: objects to delete; from: objects to copy; new: the object the operation
\* put last; must: the objects a successful unlink or upload deletes.
OpState ==
    [kind : {"none", "upload", "unlink", "rename", "mkdir"},
     pc : {"idle", "list", "put", "delete", "listdst", "clear", "copy", "drop",
           "finish"},
     src : Path \cup {NoPath}, dst : Path \cup {NoPath},
     rest : SUBSET Object, from : SUBSET Object, new : Object \cup {0},
     must : SUBSET Object]

NoOp == [kind |-> "none", pc |-> "idle", src |-> NoPath, dst |-> NoPath,
         rest |-> {}, from |-> {}, new |-> 0, must |-> {}]

Doing(p, kind, label) == op[p].kind = kind /\ op[p].pc = label

Idle(p) == op[p] = NoOp /\ At(p, "idle")

Used == store \cup removed

FuseInit ==
    /\ Init
    /\ path = [o \in Object |-> NoPath] /\ origin = [o \in Object |-> 0]
    /\ puts = 0
    /\ op = [p \in Proc |-> NoOp]
    /\ nsLock = NoProc /\ tracker = {} /\ unlinked = {}

-----------------------------------------------------------------------------
(* Shared pieces *)

\* Mutant: the search stops at the first object that has the path.
MatchesFirst(p, f) ==
    {o \in call[p].ids : /\ path[o] = f
                         /\ \A x \in call[p].ids : path[x] = f => o <= x}

\* findObjectsByExactPath, on what ListEntriesByHeadScan has returned to p
Matches(p, f) == {o \in call[p].ids : path[o] = f}

Start(p, kind, f, d, must) ==
    /\ Idle(p)
    /\ op' = [op EXCEPT ![p] = [NoOp EXCEPT !.kind = kind, !.pc = "list",
                                            !.src = f, !.dst = d, !.must = must]]
    /\ Goto(p, "lookup")
    /\ UNCHANGED <<serverVars, scanVars, objVars, unlinked>>

\* ObjectDelete with a positive answer; the object may be gone already.
DeleteObject(o) == IF o \in store THEN Delete(o) ELSE UNCHANGED serverVars

Lock(p) == nsLock = NoProc /\ nsLock' = p

End(p) == op' = [op EXCEPT ![p] = NoOp]

Forget(p) == call' = [call EXCEPT ![p] = NoCall]

\* ObjectPut: the server stores one more object at f.
PutObject(o, f, content) ==
    /\ o = puts + 1 /\ o \in Object
    /\ puts' = o
    /\ Put(o)
    /\ path' = [path EXCEPT ![o] = f]
    /\ origin' = [origin EXCEPT ![o] = content]

Unlock(p) == nsLock' = IF nsLock = p THEN NoProc ELSE nsLock

\* Mutant: the cached listing outlives the operation.
EndAndKeep(p) == End(p) /\ UNCHANGED scanCache

(* The cached listing is dropped only where the code calls                  *)
(* InvalidateContainerScan: at the end of an operation that succeeded.      *)
EndAndInvalidate(p) == End(p) /\ scanCache' = Dropped

-----------------------------------------------------------------------------
(* The goroutine that uploadFileHandle.Release starts *)

\* The objects at f that no running operation has put.
Settled(f) ==
    {o \in store : /\ path[o] = f
                   /\ \A q \in Proc : op[q].new # o /\ op[q].dst # f}

UploadStart(p, f) ==
    /\ Start(p, "upload", f, NoPath, Settled(f))
    /\ tracker' = tracker \cup {f}    \* Tracker.Register
    /\ UNCHANGED nsLock

UploadListed(p) ==
    /\ Doing(p, "upload", "list") /\ At(p, "done")
    /\ op' = [op EXCEPT ![p].pc = "put",
                        ![p].rest = IF call[p].err THEN {} ELSE Matches(p, op[p].src)]
    /\ Forget(p)
    /\ UNCHANGED <<serverVars, scanVars, objVars, nsLock, tracker, unlinked>>

\* Mutant: the object just put is not skipped.
ObsoleteWithNew(p, o) == op[p].rest

\* for _, id := range oldIDs { if id == newID { continue } ... }
Obsolete(p, o) == op[p].rest \ {o}

UploadPut(p, o) ==
    /\ Doing(p, "upload", "put")
    /\ PutObject(o, op[p].src, o)
    /\ op' = [op EXCEPT ![p].pc = "delete", ![p].rest = Obsolete(p, o), ![p].new = o]
    /\ UNCHANGED <<scanVars, call, nsLock, tracker, unlinked>>

(* The header and the content of an object determine its ID: the same       *)
(* content at the same path is the same object.                             *)
UploadPutSame(p, o) ==
    /\ Doing(p, "upload", "put") /\ o \in store /\ path[o] = op[p].src
    /\ op' = [op EXCEPT ![p].pc = "delete", ![p].rest = Obsolete(p, o), ![p].new = o]
    /\ UNCHANGED <<vars, objVars, nsLock, tracker, unlinked>>

\* Mutant: only a successful upload is taken off the list.
UntrackedWhenDone(p) ==
    IF op[p].pc = "put" THEN tracker ELSE tracker \ {op[p].src}

Untracked(p) == tracker \ {op[p].src}  \* the deferred Tracker.Finish

\* Mutant: the old objects are deleted whether or not the put succeeded.
UploadPutFailsIgnored(p) ==
    /\ Doing(p, "upload", "put")
    /\ op' = [op EXCEPT ![p].pc = "delete"]
    /\ UNCHANGED <<vars, objVars, nsLock, tracker, unlinked>>

(* The spooled file cannot be opened, or ObjectPut returns an error, before *)
(* or after the server has stored the object.                               *)
UploadPutFails(p) ==
    /\ Doing(p, "upload", "put")
    /\ \/ UNCHANGED <<serverVars, objVars>>
       \/ \E o \in Object : PutObject(o, op[p].src, o)
    /\ End(p) /\ tracker' = Untracked(p)
    /\ UNCHANGED <<scanVars, call, nsLock, unlinked>>

UploadDelete(p, o) ==
    /\ Doing(p, "upload", "delete") /\ o \in op[p].rest
    /\ DeleteObject(o)
    /\ op' = [op EXCEPT ![p].rest = @ \ {o}]
    /\ UNCHANGED <<scanVars, call, objVars, nsLock, tracker, unlinked>>

(* The error of the delete is ignored. *)
UploadDeleteFails(p, o) ==
    /\ Doing(p, "upload", "delete") /\ o \in op[p].rest
    /\ op' = [op EXCEPT ![p].rest = @ \ {o}]
    /\ UNCHANGED <<vars, objVars, nsLock, tracker, unlinked>>

UploadFinish(p) ==
    /\ Doing(p, "upload", "delete") /\ op[p].rest = {}
    /\ EndAndInvalidate(p) /\ tracker' = Untracked(p)
    /\ UNCHANGED <<serverVars, scanInflight, call, objVars, nsLock, unlinked>>

-----------------------------------------------------------------------------
(* Unlink, and Rmdir, which calls it *)

UnlinkStart(p, f) ==
    /\ Lock(p)
    /\ Start(p, "unlink", f, NoPath, Settled(f))
    /\ UNCHANGED tracker

UnlinkListed(p) ==
    /\ Doing(p, "unlink", "list") /\ At(p, "done")
    /\ LET ids == Matches(p, op[p].src)
       IN  IF call[p].err \/ ids = {}
           THEN End(p) /\ Unlock(p)
           ELSE /\ op' = [op EXCEPT ![p].pc = "delete", ![p].rest = ids]
                /\ UNCHANGED nsLock
    /\ Forget(p)
    /\ UNCHANGED <<serverVars, scanVars, objVars, tracker, unlinked>>

UnlinkDelete(p, o) ==
    /\ Doing(p, "unlink", "delete") /\ o \in op[p].rest
    /\ DeleteObject(o)
    /\ op' = [op EXCEPT ![p].rest = @ \ {o}]
    /\ unlinked' = unlinked \cup {o}
    /\ UNCHANGED <<scanVars, call, objVars, nsLock, tracker>>

(* ObjectDelete returns an error; the server may have deleted the object.   *)
UnlinkFails(p, o) ==
    /\ Doing(p, "unlink", "delete") /\ o \in op[p].rest
    /\ \/ UNCHANGED <<serverVars, unlinked>>
       \/ DeleteObject(o) /\ unlinked' = unlinked \cup {o}
    /\ End(p) /\ Unlock(p)
    /\ UNCHANGED <<scanVars, call, objVars, tracker>>

UnlinkFinish(p) ==
    /\ Doing(p, "unlink", "delete") /\ op[p].rest = {}
    /\ EndAndInvalidate(p) /\ Unlock(p)
    /\ UNCHANGED <<serverVars, scanInflight, call, objVars, tracker, unlinked>>

-----------------------------------------------------------------------------
(* Rename: delete what is at the destination, then copy and delete each     *)
(* object of the source.  An error returns at once.                         *)
RenameStart(p, s, d) ==
    /\ s # d
    /\ Lock(p)
    /\ Start(p, "rename", s, d, {})
    /\ UNCHANGED tracker

RenameListed(p) ==
    /\ Doing(p, "rename", "list") /\ At(p, "done")
    /\ LET ids == Matches(p, op[p].src)
       IN  IF call[p].err \/ ids = {}
           THEN End(p) /\ Unlock(p) /\ Forget(p)
           ELSE /\ op' = [op EXCEPT ![p].pc = "listdst", ![p].from = ids]
                /\ call' = [call EXCEPT ![p] = [NoCall EXCEPT !.pc = "lookup"]]
                /\ UNCHANGED nsLock
    /\ UNCHANGED <<serverVars, scanVars, objVars, tracker, unlinked>>

RenameListedDst(p) ==
    /\ Doing(p, "rename", "listdst") /\ At(p, "done")
    /\ op' = [op EXCEPT ![p].pc = "clear",
                        ![p].rest = IF call[p].err THEN {} ELSE Matches(p, op[p].dst)]
    /\ Forget(p)
    /\ UNCHANGED <<serverVars, scanVars, objVars, nsLock, tracker, unlinked>>

RenameClear(p, o) ==
    /\ Doing(p, "rename", "clear") /\ o \in op[p].rest
    /\ DeleteObject(o)
    /\ unlinked' = unlinked \cup {o}
    /\ op' = [op EXCEPT ![p].rest = @ \ {o}]
    /\ UNCHANGED <<scanVars, call, objVars, nsLock, tracker>>

(* The error of the delete is ignored. *)
RenameClearFails(p, o) ==
    /\ Doing(p, "rename", "clear") /\ o \in op[p].rest
    /\ op' = [op EXCEPT ![p].rest = @ \ {o}]
    /\ UNCHANGED <<vars, objVars, nsLock, tracker, unlinked>>

RenameCleared(p) ==
    /\ Doing(p, "rename", "clear") /\ op[p].rest = {}
    /\ op' = [op EXCEPT ![p].pc = "copy"]
    /\ UNCHANGED <<vars, objVars, nsLock, tracker, unlinked>>

(* ObjectGet of o, streamed into ObjectPut at the destination. *)
RenameCopy(p, o, n) ==
    /\ Doing(p, "rename", "copy") /\ o \in op[p].from \cap store
    /\ PutObject(n, op[p].dst, origin[o])
    /\ op' = [op EXCEPT ![p].pc = "drop", ![p].rest = {o}, ![p].new = n]
    /\ UNCHANGED <<scanVars, call, nsLock, tracker, unlinked>>

RenameCopyFails(p, o) ==
    /\ Doing(p, "rename", "copy") /\ o \in op[p].from
    /\ \/ UNCHANGED <<serverVars, objVars>>
       \/ o \in store /\ \E n \in Object : PutObject(n, op[p].dst, origin[o])
    /\ End(p) /\ Unlock(p)
    /\ UNCHANGED <<scanVars, call, tracker, unlinked>>

RenameDrop(p, o) ==
    /\ Doing(p, "rename", "drop") /\ o \in op[p].rest
    /\ DeleteObject(o)
    /\ op' = [op EXCEPT ![p].pc = "copy", ![p].rest = {}, ![p].from = @ \ {o}]
    /\ UNCHANGED <<scanVars, call, objVars, nsLock, tracker, unlinked>>

RenameDropFails(p, o) ==
    /\ Doing(p, "rename", "drop") /\ o \in op[p].rest
    /\ DeleteObject(o) \/ UNCHANGED serverVars
    /\ End(p) /\ Unlock(p)
    /\ UNCHANGED <<scanVars, call, objVars, tracker, unlinked>>

RenameFinish(p) ==
    /\ Doing(p, "rename", "copy") /\ op[p].from = {}
    /\ EndAndInvalidate(p) /\ Unlock(p)
    /\ UNCHANGED <<serverVars, scanInflight, call, objVars, tracker, unlinked>>

-----------------------------------------------------------------------------
(* Mkdir puts an empty object. *)
Mkdir(p, f, o) ==
    /\ Lock(p)
    /\ Idle(p)
    /\ PutObject(o, f, o)
    /\ op' = [op EXCEPT ![p] = [NoOp EXCEPT !.kind = "mkdir", !.pc = "finish",
                                            !.src = f, !.new = o]]
    /\ UNCHANGED <<scanVars, call, tracker, unlinked>>

MkdirFinish(p) ==
    /\ Doing(p, "mkdir", "finish")
    /\ EndAndInvalidate(p) /\ Unlock(p)
    /\ UNCHANGED <<serverVars, scanInflight, call, objVars, tracker, unlinked>>

(* Its put returns an error although the server has stored the object. *)
MkdirFails(f, o) ==
    /\ nsLock = NoProc
    /\ PutObject(o, f, o)
    /\ UNCHANGED <<scanVars, call, fuseVars>>

(* Create, and Release of an editor's hidden file, only drop the listing. *)
Create ==
    /\ scanCache.present
    /\ scanCache' = Dropped
    /\ UNCHANGED <<serverVars, scanInflight, call, objVars, fuseVars>>

(* Lookup and Readdir list the container and change nothing. *)
Browse(p) ==
    /\ op[p] = NoOp
    /\ Call(p) \/ Return(p)
    /\ UNCHANGED <<objVars, fuseVars>>

(* The process dies; the container stays as it is. *)
Crash ==
    /\ call' = [p \in Proc |-> NoCall] /\ op' = [p \in Proc |-> NoOp]
    /\ scanCache' = NoListing /\ scanInflight' = NoProc
    /\ nsLock' = NoProc /\ tracker' = {}
    /\ UNCHANGED <<serverVars, objVars, unlinked>>

-----------------------------------------------------------------------------
Scan(p) == Step(p) /\ UNCHANGED <<objVars, fuseVars>>

Upload(p) ==
    \/ UploadListed(p) \/ UploadFinish(p)
    \/ \E o \in Object : UploadPut(p, o) \/ UploadDelete(p, o)

Unlink(p) ==
    \/ UnlinkListed(p) \/ UnlinkFinish(p)
    \/ \E o \in Object : UnlinkDelete(p, o)

Rename(p) ==
    \/ RenameListed(p) \/ RenameListedDst(p) \/ RenameCleared(p) \/ RenameFinish(p)
    \/ \E o \in Object : RenameClear(p, o) \/ RenameDrop(p, o)
    \/ \E o, n \in Object : RenameCopy(p, o, n)

Fault(p) ==
    \/ UploadPutFails(p)
    \/ \E o \in Object : \/ UploadDeleteFails(p, o) \/ UnlinkFails(p, o)
                         \/ RenameClearFails(p, o) \/ RenameCopyFails(p, o)
                         \/ RenameDropFails(p, o)
    \/ \E f \in Path, o \in Object : Idle(p) /\ MkdirFails(f, o)

Begin(p) ==
    \/ \E f \in Path : UploadStart(p, f) \/ UnlinkStart(p, f)
    \/ \E s, d \in Path : RenameStart(p, s, d)
    \/ \E f \in Path, o \in Object : Mkdir(p, f, o)

Work ==
    \/ \E p \in Proc : \/ Browse(p) \/ Scan(p) \/ Begin(p)
                       \/ Upload(p) \/ Unlink(p) \/ Rename(p) \/ MkdirFinish(p)
    \/ Create
    \/ Expire /\ UNCHANGED <<objVars, fuseVars>>

(* Every put of an upload stores another object: the case of equal content  *)
(* is CalmSpec's.                                                           *)
FuseNext == Work \/ (\E p \in Proc : Fault(p)) \/ Crash

FuseSpec == FuseInit /\ [][FuseNext]_allVars

\* The kernel makes a directory only under a name that Lookup did not find.
NameIsFree ==
    \A p \in Proc : op[p] = NoOp /\ op'[p].kind = "mkdir" =>
        /\ \A o \in store : path[o] # op'[p].src
        /\ \A q \in Proc : op[q].src # op'[p].src

(* The executions in which every change of the container succeeds. *)
WorkSpec == FuseInit /\ [][Work /\ NameIsFree]_allVars

(* The executions in which the network answers, no scan runs while the      *)
(* container changes, and no listing is dropped before the followers of its *)
(* scan have read it.  An upload may repeat the content of an object.       *)
Calm ==
    /\ Quiet
    /\ \A p \in Proc : call'[p].err => call[p].err
    /\ scanCache.present /\ ~scanCache'.present => \A q \in Proc : ~At(q, "woken")

RepeatPut == \E p \in Proc, o \in Object : UploadPutSame(p, o)

CalmSpec == FuseInit /\ [][(Work \/ RepeatPut) /\ Calm]_allVars

-----------------------------------------------------------------------------
(* Properties *)

FuseTypeOK ==
    /\ TypeOK
    /\ path \in [Object -> Path \cup {NoPath}] /\ origin \in [Object -> Object \cup {0}]
    /\ puts \in Nat /\ \A o \in Used : o <= puts /\ path[o] \in Path
    /\ op \in [Proc -> OpState]
    /\ nsLock \in Proc \cup {NoProc}
    /\ tracker \subseteq Path /\ unlinked \subseteq Used
    /\ \A p \in Proc : op[p].kind \in {"unlink", "rename", "mkdir"} <=> nsLock = p

\* "we attempt to delete older objects with the same FilePath"
\* (docs/SEMANTICS.md): whatever uploads, renames, failures and crashes
\* interleave, an object nobody removed is in the container unless a newer
\* object has its path, or is a copy of its content.
ContentKept ==
    \A o \in Used :
        \/ o \in store \cup unlinked
        \/ \E n \in Used : n > o /\ (path[n] = path[o] \/ origin[n] = origin[o])

Running(f) == \E p \in Proc : op[p].kind = "upload" /\ op[p].src = f

\* The list of uploads in flight drains: a path on it is being uploaded, also
\* after uploads that failed.
TrackerDrains == \A f \in tracker : Running(f)

\* Every operation drops the cached listing after its last change: with no
\* operation running, a cached listing is the content of the container.
ListingCurrent ==
    scanCache.present /\ (\A p \in Proc : op[p] = NoOp) => scanCache.entries = store

\* "`unlink` deletes NeoFS objects whose `FilePath` exactly matches the path."
\* (docs/SEMANTICS.md): when it succeeds, it has deleted every object that had
\* the path when it began and whose upload had returned.
UnlinkComplete ==
    \A p \in Proc : Doing(p, "unlink", "delete") /\ op[p].rest = {} =>
        op[p].must \cap store = {}

\* An upload replaces: when it ends, of the versions that were at its path when
\* it began there is none left but its own, which it never deletes, also when
\* others upload, unlink and rename meanwhile, and when the content, and so the
\* object, is an old one.
UploadReplaces ==
    [][\A p \in Proc : Doing(p, "upload", "delete") /\ op'[p] # op[p] =>
          /\ op[p].new \in store => op[p].new \in store'
          /\ op'[p] = NoOp => op[p].must \cap store \subseteq {op[p].new}]_allVars
=============================================================================
