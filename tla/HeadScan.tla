------------------------------ MODULE HeadScan ------------------------------
(***************************************************************************)
(* ListEntriesByHeadScan of internal/neofs/client.go for one container: a  *)
(* cached listing with a time to live, and a single flight that concurrent *)
(* callers of an expired listing share.                                    *)
(*                                                                         *)
(* The container on the NeoFS side is `store`, the objects it holds.  An   *)
(* object is put once; a removed one never comes back.  A step is a        *)
(* critical section of scanMu, or one answer of the network.               *)
(***************************************************************************)
EXTENDS Naturals

CONSTANTS
    Object,    \* object identifiers
    Initial,   \* the objects of the container at the start
    Proc,      \* goroutines that list the container, or change it
    NoProc

ASSUME ScanAssumption == Initial \subseteq Object /\ NoProc \notin Proc

VARIABLES
    store,         \* the objects of the container
    removed,       \* the objects it had
    scanCache,     \* the container's entry in Client.scanCache
    scanInflight,  \* the leader of the flight in Client.scanInflight
    call           \* call[p]: the ListEntriesByHeadScan call of goroutine p

serverVars == <<store, removed>>
scanVars   == <<scanCache, scanInflight>>
vars       == <<serverVars, scanVars, call>>

Listing == [present : BOOLEAN, expired : BOOLEAN, entries : SUBSET Object]

NoListing == [present |-> FALSE, expired |-> FALSE, entries |-> {}]

\* ids: what the call has listed; todo: the objects whose header is missing;
\* err: the error of the call or, for a follower, of its flight; ok: no answer
\* of the network was an error; leader: whose flight a follower waits for.
CallState ==
    [pc : {"idle", "lookup", "search", "heads", "wait", "woken", "done", "dirty"},
     ids : SUBSET Object, todo : SUBSET Object,
     err : BOOLEAN, ok : BOOLEAN, leader : Proc \cup {NoProc}]

NoCall == [pc |-> "idle", ids |-> {}, todo |-> {}, err |-> FALSE, ok |-> TRUE,
           leader |-> NoProc]

At(p, label) == call[p].pc = label

Goto(p, label) == call' = [call EXCEPT ![p].pc = label]

Lists(p, ids, ok) ==
    call' = [call EXCEPT ![p] = [NoCall EXCEPT !.pc = "heads", !.ids = ids,
                                               !.todo = ids, !.ok = ok]]

Returned(ids, err) == [NoCall EXCEPT !.pc = "done", !.ids = ids, !.err = err]

Init ==
    /\ store = Initial /\ removed = {}
    /\ scanCache = NoListing /\ scanInflight = NoProc
    /\ call = [p \in Proc |-> NoCall]

-----------------------------------------------------------------------------
Call(p) ==
    /\ At(p, "idle")
    /\ Goto(p, "lookup")
    /\ UNCHANGED <<serverVars, scanVars>>

\* ent, ok := c.scanCache[key], with the age of the entry
Valid == scanCache.present /\ ~scanCache.expired

\* Mutant: a caller does not look for a running scan.
InFlightUnseen == FALSE

InFlight == scanInflight # NoProc

CacheHit(p) ==
    /\ At(p, "lookup") /\ Valid
    /\ call' = [call EXCEPT ![p] = Returned(scanCache.entries, FALSE)]
    /\ UNCHANGED <<serverVars, scanVars>>

Follow(p) ==
    /\ At(p, "lookup") /\ ~Valid /\ InFlight
    /\ call' = [call EXCEPT ![p].pc = "wait", ![p].leader = scanInflight]
    /\ UNCHANGED <<serverVars, scanVars>>

Lead(p) ==
    /\ At(p, "lookup") /\ ~Valid /\ ~InFlight
    /\ scanInflight' = p
    /\ Goto(p, "search")
    /\ UNCHANGED <<serverVars, scanCache>>

(* searchAllObjectIDs tries four ways to list the container.  When every    *)
(* one of them fails it returns an empty list and no error.                 *)
Search(p) ==
    /\ At(p, "search")
    /\ Lists(p, store, TRUE)
    /\ UNCHANGED <<serverVars, scanVars>>

SearchFails(p) ==
    /\ At(p, "search")
    /\ Lists(p, {}, FALSE)
    /\ UNCHANGED <<serverVars, scanVars>>

(* entriesFromHeadsParallel: one ObjectHead per object, in any order; the   *)
(* first error is the error of the scan.                                    *)
Head(p, o) ==
    /\ At(p, "heads") /\ o \in call[p].todo \cap store
    /\ call' = [call EXCEPT ![p].todo = @ \ {o}]
    /\ UNCHANGED <<serverVars, scanVars>>

HeadFails(p, o) ==
    /\ At(p, "heads") /\ o \in call[p].todo
    /\ call' = [call EXCEPT ![p].todo = @ \ {o}, ![p].err = TRUE, ![p].ok = FALSE]
    /\ UNCHANGED <<serverVars, scanVars>>

\* Mutant: the channel is closed only when there is a listing to read.
WokenOnSuccess(p, q) == At(q, "wait") /\ call[q].leader = p /\ ~call[p].err

Woken(p, q) == At(q, "wait") /\ call[q].leader = p

(* The deferred function: the leader stores its listing, or the error in    *)
(* its flight, and closes the channel its followers wait for.               *)
Publish(p) ==
    /\ At(p, "heads") /\ call[p].todo = {}
    /\ LET err == call[p].err
           ids == IF err THEN {} ELSE call[p].ids
       IN  /\ scanCache' = IF err THEN scanCache
                           ELSE [present |-> TRUE, expired |-> FALSE, entries |-> ids]
           /\ call' = [q \in Proc |->
                         IF q = p THEN Returned(ids, err)
                         ELSE IF Woken(p, q)
                              THEN [call[q] EXCEPT !.pc = "woken", !.err = err]
                              ELSE call[q]]
    /\ scanInflight' = NoProc
    /\ UNCHANGED serverVars

(* A follower reads the cache, or else the error of the flight. *)
FollowerReads(p) ==
    /\ At(p, "woken")
    /\ call' = [call EXCEPT ![p] = IF scanCache.present
                                   THEN Returned(scanCache.entries, FALSE)
                                   ELSE Returned({}, call[p].err)]
    /\ UNCHANGED <<serverVars, scanVars>>

Return(p) ==
    /\ At(p, "done")
    /\ call' = [call EXCEPT ![p] = NoCall]
    /\ UNCHANGED <<serverVars, scanVars>>

(* A goroutine changes the container, then drops the cached listing. *)
Put(o) ==
    /\ o \in Object \ (store \cup removed)
    /\ store' = store \cup {o}
    /\ UNCHANGED removed

Delete(o) ==
    /\ o \in store
    /\ store' = store \ {o} /\ removed' = removed \cup {o}

Change(p, o) ==
    /\ At(p, "idle")
    /\ Put(o) \/ Delete(o)
    /\ Goto(p, "dirty")
    /\ UNCHANGED scanVars

\* Mutant: the cached listing outlives the change.
DroppedNever == scanCache

Dropped == NoListing

InvalidateContainerScan(p) ==
    /\ At(p, "dirty")
    /\ scanCache' = Dropped
    /\ call' = [call EXCEPT ![p] = NoCall]
    /\ UNCHANGED <<serverVars, scanInflight>>

(* The listing becomes older than headScanCacheTTL.  It stays in the map. *)
Expire ==
    /\ Valid
    /\ scanCache' = [scanCache EXCEPT !.expired = TRUE]
    /\ UNCHANGED <<serverVars, scanInflight, call>>

-----------------------------------------------------------------------------
\* What a call does on its own once it has begun.
Step(p) ==
    \/ CacheHit(p) \/ Follow(p) \/ Lead(p) \/ Search(p) \/ SearchFails(p)
    \/ \E o \in Object : Head(p, o) \/ HeadFails(p, o)
    \/ Publish(p) \/ FollowerReads(p)

Next ==
    \/ \E p \in Proc : Call(p) \/ Step(p) \/ Return(p) \/ InvalidateContainerScan(p)
    \/ \E p \in Proc, o \in Object : Change(p, o)
    \/ Expire

Spec == Init /\ [][Next]_vars

(* Every remote call returns, with an answer or an error. *)
FairSpec == Spec /\ \A p \in Proc : WF_vars(Step(p))

(* The executions in which the container changes only while nobody scans   *)
(* it, and the search answers.                                             *)
Quiet ==
    /\ store' # store => scanInflight = NoProc
    /\ \A p \in Proc : At(p, "search") /\ call'[p].pc = "heads" => call'[p].ok

QuietSpec == Init /\ [][Next /\ Quiet]_vars

-----------------------------------------------------------------------------
(* Properties *)

TypeOK ==
    /\ store \subseteq Object /\ removed \subseteq Object
    /\ scanCache \in Listing /\ scanInflight \in Proc \cup {NoProc}
    /\ call \in [Proc -> CallState]
    /\ store \cap removed = {}
    /\ \A p \in Proc : /\ call[p].todo \subseteq call[p].ids
                       /\ call[p].pc \in {"wait", "woken"} => call[p].leader \in Proc

Leads(p) == call[p].pc \in {"search", "heads"}

\* Parallel callers share one listing and head pass (client.go:187): whoever
\* scans is the registered flight, and whoever waits, waits for a scan that
\* still runs and will close its channel.
SingleFlight ==
    \A p \in Proc :
        /\ Leads(p) <=> scanInflight = p
        /\ At(p, "wait") => call[p].leader = scanInflight /\ InFlight

\* Between changes, a cached listing is the content of the container: after
\* its own invalidation a goroutine lists what it put and deleted.
Fresh ==
    scanCache.present /\ (\A p \in Proc : ~At(p, "dirty")) =>
        scanCache.entries = store

\* Every listing call returns, also when the scan it waits for fails.
ListReturns == \A p \in Proc : At(p, "lookup") ~> At(p, "done")

\* "set when listing/heads fail (no cache entry)" (client.go:192): a follower
\* that finds no entry reads an error.
NoEntryMeansError ==
    \A p \in Proc : At(p, "woken") /\ ~scanCache.present => call[p].err
=============================================================================
