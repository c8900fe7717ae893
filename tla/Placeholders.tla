----------------------------- MODULE Placeholders -----------------------------
(***************************************************************************)
(* How a directory is filled when Explorer opens it (FetchPlaceholders of   *)
(* internal/fs/mount_windows.go under goFetchPlaceholders of                *)
(* internal/cfapi/cfapi.go).  Windows calls back, several times for one     *)
(* transfer key if it likes; the first callback of a key lists the          *)
(* directory and transfers a placeholder per name, the others wait for it   *)
(* and complete with nothing.  A listing that was made also removes         *)
(* placeholders without an object, in a goroutine of its own.               *)
(*                                                                         *)
(* One directory, the root or one of a container's.  A listing is one       *)
(* answer of the network here: HeadScan has its races.                      *)
(***************************************************************************)
EXTENDS Naturals

CONSTANTS
    Name,        \* names of containers or objects
    Callback,    \* callbacks of Windows: 1, 2, ... in the order they come
    Transfer,    \* transfer keys: 1, 2, ... in the order Windows uses them
    MaxEdit,     \* bound on changes of the container
    NoCallback, NoTransfer

ASSUME PlaceholdersAssumption ==
    /\ MaxEdit \in Nat /\ Callback \subseteq Nat /\ Transfer \subseteq Nat
    /\ NoCallback \notin Callback /\ NoTransfer \notin Transfer

VARIABLES
    isRoot,     \* whether the directory is the sync root
    names,      \* what the container holds
    edits,      \* changes of the container so far
    shown,      \* the placeholders on disk
    linked,     \* the session is registered and the provider has it
    resolved,   \* containerUI knows the directory's container
    dirEntry,   \* fetchDirLocks[dir], or the cached container list
    entryLock,  \* who holds its mutex
    waits,      \* fetchPHByTransfer
    cb,         \* cb[c]: the state of callback c
    cleaners    \* running calls of cleanupStalePlaceholders

phWorld == <<isRoot, names, edits, linked>>
phCache == <<resolved, dirEntry, entryLock>>
phVars  == <<phWorld, phCache, shown, waits, cb, cleaners>>

NoWait == [leader |-> NoCallback, done |-> FALSE, err |-> FALSE]

\* todo: the names to transfer; ops: whether CfExecute was called; by: the
\* callback whose transfer Windows holds up until this one ends.
NotCalled == [pc |-> "none", tx |-> NoTransfer, todo |-> {}, ops |-> FALSE,
              by |-> NoCallback]

PhInit ==
    /\ isRoot \in BOOLEAN
    /\ names = Name /\ edits = 0
    /\ shown = {}
    /\ linked = FALSE
    /\ resolved = FALSE
    /\ dirEntry = [age |-> "never", kids |-> {}, err |-> FALSE]
    /\ entryLock = NoCallback
    /\ waits = [t \in Transfer |-> NoWait]
    /\ cb = [c \in Callback |-> NotCalled]
    /\ cleaners = {}

-----------------------------------------------------------------------------
Is(c, l) == cb[c].pc = l

Goes(c, l) == cb' = [cb EXCEPT ![c].pc = l]

Called(c, t, d) ==
    /\ Is(c, "none") /\ \A e \in Callback : e < c => ~Is(e, "none")
    /\ cb' = [cb EXCEPT ![c] = IF linked THEN [@ EXCEPT !.pc = "enter", !.tx = t, !.by = d]
                               ELSE [@ EXCEPT !.pc = "fail"]]
    /\ UNCHANGED <<phWorld, phCache, shown, waits, cleaners>>

(* goFetchPlaceholders finds the session, or answers with nothing.          *)
Used(t) == \E c \in Callback : cb[c].tx = t

Calls(c, t) ==
    /\ \A u \in Transfer : u < t => Used(u)
    /\ Called(c, t, NoCallback)

(* "CfApi can re-enter FetchPlaceholders for the same dir": a transfer of   *)
(* its own, for which Windows holds up the transfer that provoked it.       *)
Reenters(c, t, d) ==
    /\ Is(d, "transfer") /\ ~Used(t)
    /\ Called(c, t, d)

HeldUp(c) == \E d \in Callback : cb[d].by = c /\ ~Is(d, "end")

\* Mutant: every callback lists and transfers.
LoadOrStoreNothing(c) ==
    /\ Is(c, "enter")
    /\ waits' = [waits EXCEPT ![cb[c].tx] = [NoWait EXCEPT !.leader = c]]
    /\ Goes(c, "list")
    /\ UNCHANGED <<phWorld, phCache, shown, cleaners>>

(* fetchPHByTransfer.LoadOrStore: records stay.                             *)
LoadOrStore(c) ==
    /\ Is(c, "enter")
    /\ IF waits[cb[c].tx] = NoWait
       THEN /\ waits' = [waits EXCEPT ![cb[c].tx] = [NoWait EXCEPT !.leader = c]]
            /\ Goes(c, "list")
       ELSE Goes(c, "wait") /\ UNCHANGED waits
    /\ UNCHANGED <<phWorld, phCache, shown, cleaners>>

(* The leader leaves FetchPlaceholders: its error is the followers', and    *)
(* the channel is closed.                                                   *)
Closed(c, err) ==
    waits' = [waits EXCEPT ![cb[c].tx] = [@ EXCEPT !.done = TRUE, !.err = err]]

Transfers(c, kids) == cb' = [cb EXCEPT ![c] = [@ EXCEPT !.pc = "transfer", !.todo = kids]]

Outcome(c, kids, err) ==
    IF err THEN Goes(c, "fail") /\ Closed(c, TRUE)
           ELSE Transfers(c, kids) /\ UNCHANGED waits

\* Mutant: the mutex is held until the placeholders are transferred.
FreeAfterTransfer == entryLock = NoCallback /\ \A c \in Callback : ~Is(c, "transfer")

Free == entryLock = NoCallback

(* fetchObjectsCached and cachedContainerList hold the entry's mutex, also  *)
(* while they list.  An error is cached for a directory, not for the root.  *)
FetchCached(c) ==
    /\ Is(c, "list") /\ Free
    /\ dirEntry.age = "fresh"
    /\ Outcome(c, dirEntry.kids, dirEntry.err)
    /\ UNCHANGED <<phWorld, phCache, shown, cleaners>>

FetchLocks(c) ==
    /\ Is(c, "list") /\ Free
    /\ dirEntry.age # "fresh"
    /\ entryLock' = c
    /\ Goes(c, "fetch")
    /\ UNCHANGED <<phWorld, resolved, dirEntry, shown, waits, cleaners>>

\* "since": the listed names that have been in the container ever since.
Cleaner(kids, known) == [kids |-> kids, since |-> IF known THEN names ELSE {}]

Fetched(c, kids, known) ==
    /\ Is(c, "fetch")
    /\ dirEntry' = [age |-> "fresh", kids |-> kids, err |-> FALSE]
    /\ entryLock' = NoCallback
    /\ cleaners' = IF isRoot THEN cleaners ELSE cleaners \cup {Cleaner(kids, known)}
    /\ Outcome(c, kids, FALSE)
    /\ UNCHANGED <<phWorld, shown>>

(* The container's folder is looked up, and the containers are listed when  *)
(* it is not known; then its objects are.                                   *)
FetchLists(c) ==
    /\ Fetched(c, names, TRUE)
    /\ resolved' = TRUE

\* When the containers cannot be listed, the listing is empty, without error.
FetchUnknown(c) ==
    /\ ~isRoot /\ ~resolved
    /\ Fetched(c, {}, FALSE)
    /\ UNCHANGED resolved

\* Mutant: a failed listing is cleaned up after like any other.
FetchFailsCleaned(c) ==
    /\ Is(c, "fetch") /\ ~isRoot
    /\ dirEntry' = [age |-> "fresh", kids |-> {}, err |-> TRUE]
    /\ entryLock' = NoCallback
    /\ cleaners' = cleaners \cup {Cleaner({}, TRUE)}
    /\ Outcome(c, {}, TRUE)
    /\ UNCHANGED <<phWorld, resolved, shown>>

FetchFails(c) ==
    /\ Is(c, "fetch")
    /\ dirEntry' = IF isRoot THEN dirEntry ELSE [age |-> "fresh", kids |-> {}, err |-> TRUE]
    /\ entryLock' = NoCallback
    /\ Outcome(c, dirEntry.kids, ~isRoot \/ dirEntry.age = "never")
    /\ UNCHANGED <<phWorld, resolved, shown, cleaners>>

-----------------------------------------------------------------------------
Ended(c) == [cb EXCEPT ![c] = [@ EXCEPT !.pc = "end", !.ops = TRUE]]

(* CreatePlaceholders: one CfExecute per name, or one without any.  It      *)
(* returns when the last is done, or when one answers that Windows wants no *)
(* more of them.                                                            *)
TransferOne(c, n) ==
    /\ Is(c, "transfer") /\ n \in cb[c].todo /\ ~HeldUp(c)
    /\ cb' = [cb EXCEPT ![c] = [@ EXCEPT !.todo = cb[c].todo \ {n}, !.ops = TRUE]]
    /\ shown' = shown \cup {n}
    /\ UNCHANGED <<phWorld, phCache, waits, cleaners>>

TransferEnds(c) ==
    /\ Is(c, "transfer") /\ ~HeldUp(c)
    /\ cb' = Ended(c)
    /\ Closed(c, FALSE)
    /\ UNCHANGED <<phWorld, phCache, shown, cleaners>>

\* CfExecute fails, or the provider has no session yet.
TransferFails(c) ==
    /\ Is(c, "transfer") /\ ~HeldUp(c)
    /\ Goes(c, "fail") /\ Closed(c, TRUE)
    /\ UNCHANGED <<phWorld, phCache, shown, cleaners>>

(* A follower completes with an empty transfer, or gets the leader's error. *)
FollowerReturns(c) ==
    /\ Is(c, "wait") /\ waits[cb[c].tx].done
    /\ \/ /\ ~waits[cb[c].tx].err
          /\ cb' = Ended(c)
       \/ Goes(c, "fail")
    /\ UNCHANGED <<phWorld, phCache, shown, waits, cleaners>>

(* goFetchPlaceholders completes with nothing after an error.               *)
Completes(c) ==
    /\ Is(c, "fail")
    /\ cb' = Ended(c)
    /\ UNCHANGED <<phWorld, phCache, shown, waits, cleaners>>

-----------------------------------------------------------------------------
(* cleanupStalePlaceholders, at any time after the listing.                 *)
CleansUp(k) ==
    /\ k \in cleaners
    /\ cleaners' = cleaners \ {k}
    /\ shown' = shown \cap k.kids
    /\ UNCHANGED <<phWorld, phCache, waits, cb>>

\* The root is not cleaned up: a change of the containers makes no difference.
ContainerChanges(n) ==
    /\ ~isRoot
    /\ edits < MaxEdit /\ edits' = edits + 1
    /\ names' = IF n \in names THEN names \ {n} ELSE names \cup {n}
    /\ cleaners' = {[k EXCEPT !.since = @ \cap names'] : k \in cleaners}
    /\ UNCHANGED <<isRoot, linked, phCache, shown, waits, cb>>

EntryExpires ==
    /\ dirEntry.age = "fresh" /\ Free
    /\ dirEntry' = [dirEntry EXCEPT !.age = "old"]
    /\ UNCHANGED <<phWorld, resolved, entryLock, shown, waits, cb, cleaners>>

(* Windows may call back before Connect registers the session and Mount     *)
(* gives it to the provider.  Disconnect unregisters it when Windows calls  *)
(* no more.                                                                 *)
Connect ==
    /\ ~linked /\ linked' = TRUE
    /\ UNCHANGED <<isRoot, names, edits, phCache, shown, waits, cb, cleaners>>

-----------------------------------------------------------------------------
PhStep(c) ==
    \/ LoadOrStore(c) \/ FetchCached(c) \/ FetchLocks(c)
    \/ FetchLists(c) \/ FetchUnknown(c) \/ FetchFails(c)
    \/ \E n \in Name : TransferOne(c, n)
    \/ TransferEnds(c) \/ TransferFails(c)
    \/ FollowerReturns(c) \/ Completes(c)

PhNext ==
    \/ \E c \in Callback : \/ PhStep(c)
                           \/ \E t \in Transfer :
                                 Calls(c, t) \/ \E d \in Callback : Reenters(c, t, d)
    \/ \E k \in cleaners : CleansUp(k)
    \/ \E n \in Name : ContainerChanges(n)
    \/ EntryExpires \/ Connect

PhSpec == PhInit /\ [][PhNext]_phVars

(* Every network call and every CfExecute returns.                          *)
PhFairSpec == PhSpec /\ \A c \in Callback : WF_phVars(PhStep(c))

-----------------------------------------------------------------------------
(* Properties *)

\* "Only one TRANSFER_PLACEHOLDERS sequence may carry data per transfer key;
\* others must use an empty op" (cfapi.go:632), after it: when a callback has
\* completed a key without an error, nobody transfers or will transfer names
\* under it, and two callbacks never do.
OneFill ==
    \A c, d \in Callback :
        cb[c].tx = cb[d].tx /\ c # d /\ Is(d, "transfer") =>
            cb[c].pc \in {"enter", "wait"}

\* "Every code path must complete the CfApi placeholder transfer"
\* (mount_windows.go:340): whoever calls back, leader, follower, re-entered or
\* without a session, is answered, whatever fails and whoever else waits.
TransfersAnswered ==
    \A c \in Callback : Is(c, "enter") \/ Is(c, "fail") ~> Is(c, "end") /\ cb[c].ops

\* cleanupStalePlaceholders removes "placeholders whose backing NeoFS object no
\* longer exists" (mount_windows.go:587): not one whose object was there when
\* the directory was listed and is there still.  A listing of a container whose
\* folder could not be looked up is excepted: it is empty without an error, and
\* the cleanup then removes everything.
CleanupSpares ==
    [][\A k \in cleaners : k \notin cleaners' /\ shown' # shown
           => shown \cap k.since \subseteq shown']_phVars
===============================================================================
