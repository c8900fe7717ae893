---------------------------- MODULE WindowsProofs ----------------------------
(*********************************************************************************)
(* For any callbacks, transfers, goroutines and paths: one callback fills a      *)
(* directory under a transfer key, a cleanup spares what the container has, one  *)
(* upload at a time replaces a path's objects, the container comes to mirror the *)
(* disk, and a rename leaves its source last.                                    *)
(*********************************************************************************)
EXTENDS Placeholders, WindowsSync, TLAPS

(* Placeholders: one callback fills under a transfer key. *)

PhShape ==
    /\ DOMAIN cb = Callback /\ DOMAIN waits = Transfer
    /\ \A c \in Callback : {"pc", "tx", "todo", "ops", "by"} \subseteq DOMAIN cb[c]
    /\ \A t \in Transfer : {"leader", "done", "err"} \subseteq DOMAIN waits[t]

Leads(c) == cb[c].pc \in {"list", "fetch", "transfer"}

\* What the map of transfers knows of a callback.
CallbackOK(c) ==
    /\ cb[c].pc \in {"none", "enter", "wait", "list", "fetch", "transfer", "fail", "end"}
    /\ cb[c].pc = "none" => cb[c].tx = NoTransfer
    /\ (cb[c].pc \in {"enter", "wait"} \/ Leads(c)) => cb[c].tx \in Transfer
    /\ Leads(c) => (waits[cb[c].tx].leader = c /\ ~waits[cb[c].tx].done)
    /\ cb[c].pc \in {"fail", "end"} =>
           cb[c].tx = NoTransfer \/ (cb[c].tx \in Transfer /\ waits[cb[c].tx].done)

PhInv == PhShape /\ \A c \in Callback : CallbackOK(c)

(* A step of one callback that leaves the map of transfers alone. *)
LEMMA OneCallback ==
    ASSUME PhInv, NEW c \in Callback, DOMAIN cb' = Callback,
           {"pc", "tx", "todo", "ops", "by"} \subseteq DOMAIN cb'[c],
           \A e \in Callback \ {c} : cb'[e] = cb[e], UNCHANGED waits, CallbackOK(c)'
    PROVE  PhInv'
BY DEF PhInv, PhShape, CallbackOK, Leads

(* What Goes changes. *)
LEMMA MovesTo ==
    ASSUME PhInv, NEW c \in Callback, NEW l, Goes(c, l)
    PROVE  /\ cb'[c].pc = l /\ cb'[c].tx = cb[c].tx
           /\ \A e \in Callback \ {c} : cb'[e] = cb[e]
           /\ DOMAIN cb' = Callback
           /\ {"pc", "tx", "todo", "ops", "by"} \subseteq DOMAIN cb'[c]
BY DEF Goes, PhInv, PhShape

(* What Ended changes. *)
LEMMA EndsAt ==
    ASSUME PhInv, NEW c \in Callback, cb' = Ended(c)
    PROVE  /\ cb'[c].pc = "end" /\ cb'[c].tx = cb[c].tx
           /\ \A e \in Callback \ {c} : cb'[e] = cb[e]
           /\ DOMAIN cb' = Callback
           /\ {"pc", "tx", "todo", "ops", "by"} \subseteq DOMAIN cb'[c]
BY DEF Ended, PhInv, PhShape

(* A callback of Windows begins, or fails without a session. *)
LEMMA CalledInv ==
    ASSUME PhInv, NEW c \in Callback, NEW t \in Transfer, NEW d, Called(c, t, d)
    PROVE  PhInv'
<1>1. cb[c].pc = "none" /\ cb[c].tx = NoTransfer /\ UNCHANGED waits
  BY DEF Called, Is, PhInv, CallbackOK
<1>2. CASE linked
  <2>1. cb' = [cb EXCEPT ![c] = [[[cb[c] EXCEPT !.pc = "enter"] EXCEPT !.tx = t] EXCEPT !.by = d]]
    BY <1>2 DEF Called
  <2>2. /\ cb'[c].pc = "enter" /\ cb'[c].tx = t
        /\ \A e \in Callback \ {c} : cb'[e] = cb[e]
        /\ DOMAIN cb' = Callback
        /\ {"pc", "tx", "todo", "ops", "by"} \subseteq DOMAIN cb'[c]
    BY <2>1 DEF PhInv, PhShape
  <2>3. CallbackOK(c)'
    BY <2>2 DEF CallbackOK, Leads
  <2> QED BY <1>1, <2>2, <2>3, OneCallback
<1>3. CASE ~linked
  <2>1. Goes(c, "fail")
    BY <1>3 DEF Called, Goes
  <2>2. /\ cb'[c].pc = "fail" /\ cb'[c].tx = cb[c].tx
        /\ \A e \in Callback \ {c} : cb'[e] = cb[e]
        /\ DOMAIN cb' = Callback
        /\ {"pc", "tx", "todo", "ops", "by"} \subseteq DOMAIN cb'[c]
    BY <2>1, MovesTo
  <2>3. CallbackOK(c)'
    BY <1>1, <2>2 DEF CallbackOK, Leads
  <2> QED BY <1>1, <2>2, <2>3, OneCallback
<1> QED BY <1>2, <1>3

(* The first callback of a key leads, the others wait. *)
LEMMA EntersInv ==
    ASSUME PhInv, NEW c \in Callback, LoadOrStore(c)
    PROVE  PhInv'
<1> DEFINE t == cb[c].tx
<1>1. cb[c].pc = "enter" /\ t \in Transfer
  BY DEF LoadOrStore, Is, PhInv, CallbackOK
<1>2. CASE waits[t] = NoWait
  <2>1. waits' = [waits EXCEPT ![t] = [NoWait EXCEPT !.leader = c]] /\ Goes(c, "list")
    BY <1>2 DEF LoadOrStore
  <2>2. /\ cb'[c].pc = "list" /\ cb'[c].tx = t
        /\ \A e \in Callback \ {c} : cb'[e] = cb[e]
        /\ DOMAIN cb' = Callback
        /\ {"pc", "tx", "todo", "ops", "by"} \subseteq DOMAIN cb'[c]
    BY <2>1, MovesTo
  <2>3. /\ waits'[t].leader = c /\ ~waits'[t].done
        /\ DOMAIN waits' = Transfer /\ {"leader", "done", "err"} \subseteq DOMAIN waits'[t]
        /\ \A u \in Transfer \ {t} : waits'[u] = waits[u]
    BY <1>1, <2>1 DEF PhInv, PhShape, NoWait
  <2>4. waits[t].leader = NoCallback /\ ~waits[t].done
    BY <1>2 DEF NoWait
  <2>5. PhShape'
    BY <2>2, <2>3 DEF PhInv, PhShape
  <2>6. CallbackOK(c)'
    BY <1>1, <2>2, <2>3 DEF CallbackOK, Leads
  <2>7. ASSUME NEW e \in Callback \ {c} PROVE CallbackOK(e)'
    <3>1. CallbackOK(e) /\ cb'[e] = cb[e] /\ e # NoCallback
      BY <2>2, <2>7, PlaceholdersAssumption DEF PhInv
    <3>2. cb[e].tx = t => ~Leads(e) /\ cb[e].pc \notin {"fail", "end"}
      BY <1>1, <2>4, <3>1, PlaceholdersAssumption DEF CallbackOK
    <3> QED BY <2>3, <3>1, <3>2 DEF CallbackOK, Leads
  <2> QED BY <2>5, <2>6, <2>7 DEF PhInv
<1>3. CASE waits[t] # NoWait
  <2>1. Goes(c, "wait") /\ UNCHANGED waits
    BY <1>3 DEF LoadOrStore
  <2>2. /\ cb'[c].pc = "wait" /\ cb'[c].tx = t
        /\ \A e \in Callback \ {c} : cb'[e] = cb[e]
        /\ DOMAIN cb' = Callback
        /\ {"pc", "tx", "todo", "ops", "by"} \subseteq DOMAIN cb'[c]
    BY <2>1, MovesTo
  <2>3. CallbackOK(c)'
    BY <1>1, <2>2 DEF CallbackOK, Leads
  <2> QED BY <2>1, <2>2, <2>3, OneCallback
<1> QED BY <1>2, <1>3

(* The leader goes on. *)
LEMMA LeaderInv ==
    ASSUME PhInv, NEW c \in Callback, Leads(c), UNCHANGED waits,
           DOMAIN cb' = Callback, {"pc", "tx", "todo", "ops", "by"} \subseteq DOMAIN cb'[c],
           \A e \in Callback \ {c} : cb'[e] = cb[e],
           cb'[c].pc \in {"list", "fetch", "transfer"}, cb'[c].tx = cb[c].tx
    PROVE  PhInv'
<1>1. CallbackOK(c)'
  BY DEF PhInv, CallbackOK, Leads
<1> QED BY <1>1, OneCallback

(* The leader leaves. *)
LEMMA ClosedInv ==
    ASSUME PhInv, NEW c \in Callback, Leads(c), NEW err, Closed(c, err),
           DOMAIN cb' = Callback, {"pc", "tx", "todo", "ops", "by"} \subseteq DOMAIN cb'[c],
           \A e \in Callback \ {c} : cb'[e] = cb[e],
           cb'[c].pc \in {"fail", "end"}, cb'[c].tx = cb[c].tx
    PROVE  PhInv'
<1> DEFINE t == cb[c].tx
<1>1. t \in Transfer /\ waits[t].leader = c
  BY DEF PhInv, CallbackOK, Leads
<1>2. /\ waits'[t].done /\ \A u \in Transfer \ {t} : waits'[u] = waits[u]
      /\ DOMAIN waits' = Transfer /\ {"leader", "done", "err"} \subseteq DOMAIN waits'[t]
  BY <1>1 DEF Closed, PhInv, PhShape
<1>3. PhShape'
  BY <1>2 DEF PhInv, PhShape
<1>4. CallbackOK(c)'
  BY <1>1, <1>2 DEF CallbackOK, Leads
<1>5. ASSUME NEW e \in Callback \ {c} PROVE CallbackOK(e)'
  <2>1. CallbackOK(e) /\ cb'[e] = cb[e]
    BY <1>5 DEF PhInv
  <2>2. cb[e].tx = t => ~Leads(e)
    BY <1>1, <2>1 DEF CallbackOK
  <2> QED BY <1>2, <2>1, <2>2 DEF CallbackOK, Leads
<1> QED BY <1>3, <1>4, <1>5 DEF PhInv

(* The leader has its listing, or leaves with an error. *)
LEMMA OutcomeInv ==
    ASSUME PhInv, NEW c \in Callback, Leads(c), NEW kids, NEW err, Outcome(c, kids, err)
    PROVE  PhInv'
<1>1. CASE err
  <2>1. Goes(c, "fail") /\ Closed(c, TRUE)
    BY <1>1 DEF Outcome
  <2> QED BY <2>1, MovesTo, ClosedInv
<1>2. CASE ~err
  <2>1. cb' = [cb EXCEPT ![c] = [[cb[c] EXCEPT !.pc = "transfer"] EXCEPT !.todo = kids]]
        /\ UNCHANGED waits
    BY <1>2 DEF Outcome, Transfers
  <2>2. /\ cb'[c].pc = "transfer" /\ cb'[c].tx = cb[c].tx
        /\ \A e \in Callback \ {c} : cb'[e] = cb[e]
        /\ DOMAIN cb' = Callback
        /\ {"pc", "tx", "todo", "ops", "by"} \subseteq DOMAIN cb'[c]
    BY <2>1 DEF PhInv, PhShape
  <2> QED BY <2>1, <2>2, LeaderInv
<1> QED BY <1>1, <1>2

(* The listing, cached or fetched. *)
LEMMA FetchInv ==
    ASSUME PhInv, NEW c \in Callback,
           FetchCached(c) \/ FetchLocks(c) \/ FetchLists(c) \/ FetchUnknown(c) \/ FetchFails(c)
    PROVE  PhInv'
<1>1. Leads(c)
  BY DEF Leads, Is, FetchCached, FetchLocks, FetchLists, FetchUnknown, FetchFails, Fetched
<1>2. CASE FetchLocks(c)
  <2>1. Goes(c, "fetch") /\ UNCHANGED waits
    BY <1>2 DEF FetchLocks
  <2> QED BY <1>1, <2>1, MovesTo, LeaderInv
<1>3. CASE FetchCached(c)
  BY <1>1, <1>3, OutcomeInv DEF FetchCached
<1>4. CASE FetchLists(c) \/ FetchUnknown(c)
  BY <1>1, <1>4, OutcomeInv DEF FetchLists, FetchUnknown, Fetched
<1>5. CASE FetchFails(c)
  BY <1>1, <1>5, OutcomeInv DEF FetchFails
<1> QED BY <1>2, <1>3, <1>4, <1>5

(* The leader transfers and leaves. *)
LEMMA TransferInv ==
    ASSUME PhInv, NEW c \in Callback,
           (\E n \in Name : TransferOne(c, n)) \/ TransferEnds(c) \/ TransferFails(c)
    PROVE  PhInv'
<1>1. Leads(c)
  BY DEF Leads, Is, TransferOne, TransferEnds, TransferFails
<1>2. ASSUME NEW n \in Name, TransferOne(c, n) PROVE PhInv'
  <2>1. cb' = [cb EXCEPT ![c] = [[cb[c] EXCEPT !.todo = cb[c].todo \ {n}] EXCEPT !.ops = TRUE]]
        /\ UNCHANGED waits
    BY <1>2 DEF TransferOne
  <2>2. /\ cb'[c].pc = cb[c].pc /\ cb'[c].tx = cb[c].tx
        /\ \A e \in Callback \ {c} : cb'[e] = cb[e]
        /\ DOMAIN cb' = Callback
        /\ {"pc", "tx", "todo", "ops", "by"} \subseteq DOMAIN cb'[c]
    BY <2>1 DEF PhInv, PhShape
  <2> QED BY <1>1, <2>1, <2>2, LeaderInv DEF Leads
<1>3. CASE TransferEnds(c)
  BY <1>1, <1>3, EndsAt, ClosedInv DEF TransferEnds
<1>4. CASE TransferFails(c)
  BY <1>1, <1>4, MovesTo, ClosedInv DEF TransferFails
<1> QED BY <1>2, <1>3, <1>4

(* A follower, or who completes after an error. *)
LEMMA ReturnsInv ==
    ASSUME PhInv, NEW c \in Callback, FollowerReturns(c) \/ Completes(c)
    PROVE  PhInv'
<1>1. UNCHANGED waits /\ (Goes(c, "fail") \/ cb' = Ended(c))
  BY DEF FollowerReturns, Completes
<1>2. /\ cb'[c].pc \in {"fail", "end"} /\ cb'[c].tx = cb[c].tx
      /\ \A e \in Callback \ {c} : cb'[e] = cb[e]
      /\ DOMAIN cb' = Callback
      /\ {"pc", "tx", "todo", "ops", "by"} \subseteq DOMAIN cb'[c]
  BY <1>1, MovesTo, EndsAt
<1>3. cb[c].tx = NoTransfer \/ (cb[c].tx \in Transfer /\ waits[cb[c].tx].done)
  BY DEF FollowerReturns, Completes, Is, PhInv, CallbackOK
<1>4. CallbackOK(c)'
  BY <1>1, <1>2, <1>3 DEF CallbackOK, Leads
<1> QED BY <1>1, <1>2, <1>4, OneCallback

(* The invariant, for any callbacks, transfers and names. *)
LEMMA PhInvariant == PhSpec => []PhInv
<1>1. PhInit => PhInv
  BY DEF PhInit, PhInv, PhShape, CallbackOK, Leads, NotCalled, NoWait
<1>2. PhInv /\ [PhNext]_phVars => PhInv'
  <2> SUFFICES ASSUME PhInv, [PhNext]_phVars PROVE PhInv'
    OBVIOUS
  <2>1. ASSUME NEW c \in Callback, PhStep(c) PROVE PhInv'
    BY <2>1, EntersInv, FetchInv, TransferInv, ReturnsInv DEF PhStep
  <2>2. ASSUME NEW c \in Callback, NEW t \in Transfer,
               Calls(c, t) \/ \E d \in Callback : Reenters(c, t, d)
        PROVE  PhInv'
    BY <2>2, CalledInv DEF Calls, Reenters
  <2>3. CASE \/ \E k \in cleaners : CleansUp(k)
             \/ \E n \in Name : ContainerChanges(n)
             \/ EntryExpires \/ Connect \/ UNCHANGED phVars
    <3>1. UNCHANGED <<cb, waits>>
      BY <2>3 DEF CleansUp, ContainerChanges, EntryExpires, Connect, phVars
    <3> QED BY <3>1 DEF PhInv, PhShape, CallbackOK, Leads
  <2> QED BY <2>1, <2>2, <2>3 DEF PhNext
<1> QED BY <1>1, <1>2, PTL DEF PhSpec

(* OneFill, for any callbacks and transfers: while one transfers names under a key,
   no other has completed it or will transfer under it. *)
THEOREM OneCallbackFills == PhSpec => []OneFill
<1>1. PhInv => OneFill
  BY PlaceholdersAssumption DEF PhInv, CallbackOK, Leads, OneFill, Is
<1> QED BY <1>1, PhInvariant, PTL

(* Placeholders: what a cleanup spares. *)

\* What a cleanup knows to have stayed is among the names it was given.
CleanerShape(k) == k = [kids |-> k.kids, since |-> k.since]

CleanerKnows ==
    \A k \in cleaners : CleanerShape(k) /\ k.since \subseteq k.kids

(* A listing only adds a cleanup, which knows the names it was given.       *)
LEMMA ListingCleans ==
    ASSUME CleanerKnows, NEW c \in Callback, FetchLists(c) \/ FetchUnknown(c)
    PROVE  CleanerKnows' /\ cleaners \subseteq cleaners'
<1>1. PICK kids, known : /\ Fetched(c, kids, known)
                         /\ (known => kids = names)
  BY DEF FetchLists, FetchUnknown
<1>2. \/ cleaners' = cleaners
      \/ cleaners' = cleaners \cup {Cleaner(kids, known)}
  BY <1>1 DEF Fetched
<1>3. CleanerShape(Cleaner(kids, known)) /\ Cleaner(kids, known).since \subseteq Cleaner(kids, known).kids
  BY <1>1 DEF Cleaner, CleanerShape
<1> QED BY <1>2, <1>3 DEF CleanerKnows, CleanerShape

(* A change of the container takes from what the cleanups know to have      *)
(* stayed.                                                                  *)
LEMMA ChangeCleans ==
    ASSUME CleanerKnows, NEW n \in Name, ContainerChanges(n)
    PROVE  CleanerKnows' /\ shown' = shown
<1>1. cleaners' = {[k EXCEPT !.since = @ \cap names'] : k \in cleaners} /\ shown' = shown
  BY DEF ContainerChanges
<1>2. ASSUME NEW k \in cleaners
      PROVE  LET m == [k EXCEPT !.since = @ \cap names']
             IN  CleanerShape(m) /\ m.since \subseteq m.kids
  <2>1. k = [kids |-> k.kids, since |-> k.since] /\ k.since \subseteq k.kids
    BY <1>2 DEF CleanerKnows, CleanerShape
  <2>2. [k EXCEPT !.since = @ \cap names'] = [kids |-> k.kids, since |-> k.since \cap names']
    BY <2>1
  <2> QED BY <2>1, <2>2 DEF CleanerShape
<1> QED BY <1>1, <1>2 DEF CleanerKnows, CleanerShape

(* The steps of a callback that lists nothing, and those of the rest of     *)
(* Windows, leave the cleanups alone.                                       *)
LEMMA OthersClean ==
    ASSUME NEW c \in Callback,
           \/ LoadOrStore(c) \/ FetchCached(c) \/ FetchLocks(c) \/ FetchFails(c)
           \/ \E n \in Name : TransferOne(c, n)
           \/ TransferEnds(c) \/ TransferFails(c) \/ FollowerReturns(c) \/ Completes(c)
           \/ \E t \in Transfer : Calls(c, t) \/ \E d \in Callback : Reenters(c, t, d)
           \/ EntryExpires \/ Connect
    PROVE  cleaners' = cleaners
BY DEF LoadOrStore, FetchCached, FetchLocks, FetchFails, TransferOne, TransferEnds,
       TransferFails, FollowerReturns, Completes, Calls, Called, Reenters, EntryExpires, Connect

(* One step: only the cleanup that ends takes placeholders away, and it     *)
(* keeps those of the names it was given.                                   *)
LEMMA CleanStep ==
    ASSUME CleanerKnows, [PhNext]_phVars
    PROVE  /\ CleanerKnows'
           /\ \A k \in cleaners : k \notin cleaners' /\ shown' # shown
                  => shown \cap k.since \subseteq shown'
<1>1. CASE UNCHANGED phVars
  BY <1>1 DEF phVars, CleanerKnows, CleanerShape
<1>2. CASE \E c \in Callback : FetchLists(c) \/ FetchUnknown(c)
  BY <1>2, ListingCleans
<1>3. CASE \E n \in Name : ContainerChanges(n)
  BY <1>3, ChangeCleans
<1>4. CASE \E k \in cleaners : CleansUp(k)
  <2>1. PICK m \in cleaners : cleaners' = cleaners \ {m} /\ shown' = shown \cap m.kids
    BY <1>4 DEF CleansUp
  <2> QED BY <2>1 DEF CleanerKnows, CleanerShape
<1>5. ASSUME NEW c \in Callback,
             \/ LoadOrStore(c) \/ FetchCached(c) \/ FetchLocks(c) \/ FetchFails(c)
             \/ \E n \in Name : TransferOne(c, n)
             \/ TransferEnds(c) \/ TransferFails(c) \/ FollowerReturns(c) \/ Completes(c)
             \/ \E t \in Transfer : Calls(c, t) \/ \E d \in Callback : Reenters(c, t, d)
      PROVE  cleaners' = cleaners
  BY <1>5, OthersClean
<1>6. CASE EntryExpires \/ Connect
  BY <1>6 DEF EntryExpires, Connect, CleanerKnows, CleanerShape
<1>7. CASE cleaners' = cleaners
  BY <1>7 DEF CleanerKnows, CleanerShape
<1> QED BY <1>1, <1>2, <1>3, <1>4, <1>5, <1>6, <1>7 DEF PhNext, PhStep

(* A cleanup removes no placeholder of an object that was there when its    *)
(* directory was listed and has been there ever since, however listings,    *)
(* transfers and changes of the container interleave and however many       *)
(* cleanups of older listings are still to run.                             *)
THEOREM CleanupKeeps == PhSpec => CleanupSpares
<1>1. PhInit => CleanerKnows
  BY DEF PhInit, CleanerKnows
<1>2. CleanerKnows /\ [PhNext]_phVars => CleanerKnows'
  BY CleanStep
<1>3. CleanerKnows /\ [PhNext]_phVars
        => [\A k \in cleaners : k \notin cleaners' /\ shown' # shown
               => shown \cap k.since \subseteq shown']_phVars
  BY CleanStep
<1> QED BY <1>1, <1>2, <1>3, PTL DEF PhSpec, CleanupSpares
-----------------------------------------------------------------------------

(* WindowsSync: uploads of a path are serialized. *)

WorkField == {"kind", "pc", "path", "src", "size", "opened", "found", "since", "changed"}

Holding(j) == job[j].pc \in {"put", "replace"}

\* Who uploads has the lock of its path.
JobOK(j) ==
    /\ WorkField \subseteq DOMAIN job[j]
    /\ Runs(j, Uploads, "lock") => job[j].path \in WinPath
    /\ Holding(j) => /\ job[j].kind \in Uploads
                     /\ job[j].path \in WinPath
                     /\ lockOf[job[j].path] = j

WinInv ==
    /\ DOMAIN job = Job /\ DOMAIN lockOf = WinPath
    /\ \A j \in Job : JobOK(j)

(* The fields of a goroutine that does nothing. *)
LEMMA NoWorkShape ==
    WorkField \subseteq DOMAIN NoWork /\ NoWork.pc = "end"
BY DEF NoWork, WorkField

(* A step of one goroutine that leaves the locks alone. *)
LEMMA OneJob ==
    ASSUME WinInv, NEW j \in Job, NEW r, job' = [job EXCEPT ![j] = r],
           WorkField \subseteq DOMAIN r, UNCHANGED lockOf,
           (r.kind \in Uploads /\ r.pc = "lock") => r.path \in WinPath,
           r.pc \notin {"put", "replace"}
    PROVE  WinInv'
<1>1. DOMAIN job' = Job /\ job'[j] = r /\ \A i \in Job \ {j} : job'[i] = job[i]
  BY DEF WinInv
<1>2. JobOK(j)'
  BY <1>1 DEF JobOK, Runs, Holding
<1>3. \A i \in Job \ {j} : JobOK(i)'
  BY <1>1 DEF WinInv, JobOK, Runs, Holding
<1> QED BY <1>1, <1>2, <1>3 DEF WinInv

(* An upload leaves and unlocks. *)
LEMMA OneUnlocks ==
    ASSUME WinInv, NEW j \in Job, Holding(j), NEW r, job' = [job EXCEPT ![j] = r],
           WorkField \subseteq DOMAIN r, Unlocks(j), r.pc \notin {"lock", "put", "replace"}
    PROVE  WinInv'
<1> DEFINE p == job[j].path
<1>1. DOMAIN job' = Job /\ job'[j] = r /\ \A i \in Job \ {j} : job'[i] = job[i]
  BY DEF WinInv
<1>2. p \in WinPath /\ lockOf[p] = j
  BY DEF WinInv, JobOK
<1>3. DOMAIN lockOf' = WinPath /\ \A q \in WinPath \ {p} : lockOf'[q] = lockOf[q]
  BY <1>2 DEF Unlocks, WinInv
<1>4. JobOK(j)'
  BY <1>1 DEF JobOK, Runs, Holding
<1>5. ASSUME NEW i \in Job \ {j} PROVE JobOK(i)'
  <2>1. JobOK(i) /\ job'[i] = job[i]
    BY <1>1, <1>5 DEF WinInv
  <2>2. Holding(i) => job[i].path # p
    BY <1>2, <2>1 DEF JobOK
  <2> QED BY <1>3, <2>1, <2>2 DEF JobOK, Runs, Holding
<1> QED BY <1>1, <1>3, <1>4, <1>5 DEF WinInv

(* What a user's operation tells the renames under way changes nothing else of them. *)
LEMMA ChangesKeep ==
    ASSUME WinInv, NEW paths, NEW i \in Job
    PROVE  LET c == Changes(paths)[i]
           IN  /\ WorkField \subseteq DOMAIN c
               /\ c.kind = job[i].kind /\ c.pc = job[i].pc /\ c.path = job[i].path
               /\ c.src = job[i].src /\ c.opened = job[i].opened
               /\ c.found = job[i].found /\ c.since = job[i].since
               /\ c.kind # "rename" => c = job[i]
               /\ (c.kind = "rename" /\ ~c.changed) => (c.path \notin paths /\ c = job[i])
<1>1. WorkField \subseteq DOMAIN job[i]
  BY DEF WinInv, JobOK
<1>2. CASE job[i].kind = "rename" /\ job[i].path \in paths
  <2> DEFINE c == [job[i] EXCEPT !.changed = TRUE]
  <2>1. Changes(paths)[i] = c
    BY <1>2 DEF Changes
  <2>2. /\ WorkField \subseteq DOMAIN c /\ c.changed = TRUE
        /\ c.kind = job[i].kind /\ c.pc = job[i].pc /\ c.path = job[i].path
        /\ c.src = job[i].src /\ c.opened = job[i].opened
        /\ c.found = job[i].found /\ c.since = job[i].since
    BY <1>1 DEF WorkField
  <2> HIDE DEF c
  <2> QED BY <1>2, <2>1, <2>2
<1>3. CASE ~(job[i].kind = "rename" /\ job[i].path \in paths)
  <2>1. Changes(paths)[i] = job[i]
    BY <1>3 DEF Changes
  <2> QED BY <1>1, <1>3, <2>1
<1> QED BY <1>2, <1>3

(* A goroutine starts before the lock, or before a deletion's listing. *)
LEMMA SpawnInv ==
    ASSUME WinInv, NEW j \in Job, NEW k, NEW l \in {"lock", "list"}, NEW p, NEW s, NEW paths,
           Spawn(j, k, l, p, s, paths), l = "lock" => p \in WinPath, UNCHANGED lockOf
    PROVE  WinInv'
<1> DEFINE r == [NoWork EXCEPT !.kind = k, !.pc = l, !.path = p, !.src = s, !.since = putCount]
           c == Changes(paths)
<1>1. job' = [c EXCEPT ![j] = r] /\ DOMAIN c = Job
  BY DEF Spawn, Changes
<1>2. WorkField \subseteq DOMAIN r /\ r.pc = l /\ r.path = p
  BY DEF NoWork, WorkField
<1> HIDE DEF r, c
<1>3. DOMAIN job' = Job /\ job'[j] = r /\ \A i \in Job \ {j} : job'[i] = c[i]
  BY <1>1
<1>4. JobOK(j)'
  BY <1>2, <1>3 DEF JobOK, Runs, Holding
<1>5. ASSUME NEW i \in Job \ {j} PROVE JobOK(i)'
  <2>1. /\ WorkField \subseteq DOMAIN c[i]
        /\ c[i].kind = job[i].kind /\ c[i].pc = job[i].pc /\ c[i].path = job[i].path
    BY ChangesKeep DEF c
  <2> QED BY <1>3, <1>5, <2>1 DEF WinInv, JobOK, Runs, Holding
<1> QED BY <1>3, <1>4, <1>5 DEF WinInv

(* A goroutine ends, and unlocks if it holds a lock. *)
LEMMA EndsInv ==
    ASSUME WinInv, NEW j \in Job, Ends(j), UNCHANGED lockOf \/ (Holding(j) /\ Unlocks(j))
    PROVE  WinInv'
<1>1. job' = [job EXCEPT ![j] = NoWork]
  BY DEF Ends
<1>2. CASE UNCHANGED lockOf
  BY <1>1, <1>2, NoWorkShape, OneJob
<1>3. CASE Holding(j) /\ Unlocks(j)
  BY <1>1, <1>3, NoWorkShape, OneUnlocks
<1> QED BY <1>2, <1>3

(* An upload is through: a rename goes on, without the lock. *)
LEMMA UploadedInv ==
    ASSUME WinInv, NEW j \in Job, Uploaded(j), UNCHANGED lockOf \/ (Holding(j) /\ Unlocks(j))
    PROVE  WinInv'
<1>1. CASE job[j].kind = "rename"
  <2> DEFINE r == [job[j] EXCEPT !.pc = "list", !.found = {}]
  <2>1. job' = [job EXCEPT ![j] = r]
    BY <1>1 DEF Uploaded
  <2>2. WorkField \subseteq DOMAIN r /\ r.pc = "list"
    BY DEF WinInv, JobOK, WorkField
  <2> HIDE DEF r
  <2>3. CASE UNCHANGED lockOf
    BY <2>1, <2>2, <2>3, OneJob
  <2>4. CASE Holding(j) /\ Unlocks(j)
    BY <2>1, <2>2, <2>4, OneUnlocks
  <2> QED BY <2>3, <2>4
<1>2. CASE job[j].kind # "rename"
  <2>1. Ends(j)
    BY <1>2 DEF Uploaded, Ends
  <2> QED BY <2>1, EndsInv
<1> QED BY <1>1, <1>2

(* What the user does takes no lock. *)
LEMMA UserInv ==
    ASSUME WinInv, NEW j \in Job, User(j)
    PROVE  WinInv'
<1>1. PICK p \in WinPath : \/ Save(j, p) \/ Close(j, p) \/ Remove(j, p) \/ MoveOut(p)
                           \/ \E q \in WinPath : Move(j, p, q)
  BY DEF User
<1>2. CASE Save(j, p)
  <2>1. Spawn(j, "upload", "lock", p, NoWinPath, {p}) /\ UNCHANGED lockOf
    BY <1>2 DEF Save
  <2> QED BY <2>1, SpawnInv
<1>3. CASE Close(j, p)
  <2>1. Spawn(j, "upload", "lock", p, NoWinPath, {}) /\ UNCHANGED lockOf
    BY <1>3 DEF Close, provider
  <2> QED BY <2>1, SpawnInv
<1>4. CASE Remove(j, p)
  <2>1. Spawn(j, "delete", "list", NoWinPath, p, {p}) /\ UNCHANGED lockOf
    BY <1>4 DEF Remove
  <2> QED BY <2>1, SpawnInv
<1>5. CASE MoveOut(p)
  <2>1. job' = Changes({p}) /\ UNCHANGED lockOf /\ DOMAIN job' = Job
    BY <1>5 DEF MoveOut, Changes
  <2>2. ASSUME NEW i \in Job PROVE JobOK(i)'
    <3>1. /\ WorkField \subseteq DOMAIN job'[i]
          /\ job'[i].kind = job[i].kind /\ job'[i].pc = job[i].pc /\ job'[i].path = job[i].path
      BY <2>1, ChangesKeep
    <3> QED BY <2>1, <3>1 DEF WinInv, JobOK, Runs, Holding
  <2> QED BY <2>1, <2>2 DEF WinInv
<1>6. ASSUME NEW q \in WinPath, Move(j, p, q) PROVE WinInv'
  <2>1. Spawn(j, "rename", "lock", q, p, {p, q}) /\ UNCHANGED lockOf
    BY <1>6 DEF Move
  <2> QED BY <2>1, SpawnInv
<1> QED BY <1>1, <1>2, <1>3, <1>4, <1>5, <1>6

(* Nor does the watcher. *)
LEMMA WatcherInv ==
    ASSUME WinInv, NEW j \in Job, Watcher(j)
    PROVE  WinInv'
<1>1. PICK p \in WinPath : TimerFires(j, p) \/ RestoreStops(p) \/ RestoreFind(j, p)
  BY DEF Watcher
<1>2. CASE TimerFires(j, p)
  <2>1. Spawn(j, "upload", "lock", p, NoWinPath, {}) /\ UNCHANGED lockOf
    BY <1>2 DEF TimerFires
  <2> QED BY <2>1, SpawnInv
<1>3. CASE RestoreStops(p)
  <2>1. UNCHANGED <<job, lockOf>>
    BY <1>3 DEF RestoreStops
  <2> QED BY <2>1 DEF WinInv, JobOK, Runs, Holding
<1>4. CASE RestoreFind(j, p)
  <2> DEFINE t == [NoWork EXCEPT !.kind = "restore", !.pc = "head", !.path = p,
                                 !.found = ObjectsAt(p, Entries)]
             r == IF ObjectsAt(p, Entries) = {} THEN NoWork ELSE t
  <2>1. job' = [job EXCEPT ![j] = r] /\ UNCHANGED lockOf
    BY <1>4 DEF RestoreFind
  <2>2. WorkField \subseteq DOMAIN t /\ t.pc = "head"
    BY DEF NoWork, WorkField
  <2>3. WorkField \subseteq DOMAIN r /\ r.pc \in {"end", "head"}
    BY <2>2, NoWorkShape
  <2> HIDE DEF r
  <2> QED BY <2>1, <2>3, OneJob
<1> QED BY <1>1, <1>2, <1>3, <1>4

(* An upload takes a lock that nobody holds. *)
LEMMA OpensInv ==
    ASSUME WinInv, NEW j \in Job, NEW f, Opens(j, f)
    PROVE  WinInv'
<1> DEFINE p == job[j].path
           r == [job[j] EXCEPT !.pc = "put", !.size = Size[file[p]], !.opened = file[p],
                               !.found = f]
<1>1. /\ job' = [job EXCEPT ![j] = r] /\ lockOf' = [lockOf EXCEPT ![p] = j]
      /\ job[j].kind \in Uploads /\ p \in WinPath /\ lockOf[p] = NoJob
  BY DEF Opens, Locks, Runs, WinInv, JobOK
<1>2. WorkField \subseteq DOMAIN r /\ r.pc = "put" /\ r.path = p /\ r.kind = job[j].kind
  BY DEF WinInv, JobOK, WorkField
<1> HIDE DEF r
<1>3. DOMAIN job' = Job /\ job'[j] = r /\ \A i \in Job \ {j} : job'[i] = job[i]
  BY <1>1 DEF WinInv
<1>4. /\ DOMAIN lockOf' = WinPath /\ lockOf'[p] = j
      /\ \A q \in WinPath \ {p} : lockOf'[q] = lockOf[q]
  BY <1>1 DEF WinInv
<1>5. JobOK(j)'
  BY <1>1, <1>2, <1>3, <1>4 DEF JobOK, Runs, Holding
<1>6. ASSUME NEW i \in Job \ {j} PROVE JobOK(i)'
  <2>1. JobOK(i) /\ job'[i] = job[i] /\ i # NoJob
    BY <1>3, <1>6, WindowsAssumption DEF WinInv
  <2>2. Holding(i) => job[i].path # p
    BY <1>1, <2>1 DEF JobOK
  <2> QED BY <1>4, <2>1, <2>2 DEF JobOK, Runs, Holding
<1> QED BY <1>3, <1>4, <1>5, <1>6 DEF WinInv

(* It keeps the lock over its put. *)
LEMMA PutsInv ==
    ASSUME WinInv, NEW j \in Job, NEW v, Puts(j, v)
    PROVE  WinInv'
<1> DEFINE r == [job[j] EXCEPT !.pc = "replace"]
<1>1. job' = [job EXCEPT ![j] = r] /\ UNCHANGED lockOf /\ Holding(j)
  BY DEF Puts, Runs, Holding, provider
<1>2. /\ WorkField \subseteq DOMAIN r /\ r.pc = "replace" /\ r.path = job[j].path
      /\ r.kind = job[j].kind
  BY DEF WinInv, JobOK, WorkField
<1> HIDE DEF r
<1>3. DOMAIN job' = Job /\ job'[j] = r /\ \A i \in Job \ {j} : job'[i] = job[i]
  BY <1>1 DEF WinInv
<1>4. \A i \in Job : JobOK(i)'
  BY <1>1, <1>2, <1>3 DEF WinInv, JobOK, Runs, Holding
<1> QED BY <1>1, <1>3, <1>4 DEF WinInv

(* Where uploads end, their locks are free again. *)
LEMMA UploadsInv ==
    ASSUME WinInv, NEW j \in Job,
           \/ UploadGone(j) \/ UploadSkipped(j) \/ PutFails(j)
           \/ \E kept \in SUBSET job[j].found : UploadReplace(j, kept)
    PROVE  WinInv'
<1>1. CASE UploadGone(j)
  <2>1. Ends(j) /\ UNCHANGED lockOf
    BY <1>1 DEF UploadGone, provider
  <2> QED BY <2>1, EndsInv
<1>2. CASE UploadSkipped(j)
  <2>1. Uploaded(j) /\ UNCHANGED lockOf
    BY <1>2 DEF UploadSkipped, provider
  <2> QED BY <2>1, UploadedInv
<1>3. CASE PutFails(j)
  <2>1. Ends(j) /\ Unlocks(j) /\ Holding(j)
    BY <1>3 DEF PutFails, Runs, Holding
  <2> QED BY <2>1, EndsInv
<1>4. ASSUME NEW kept, UploadReplace(j, kept) PROVE WinInv'
  <2>1. Uploaded(j) /\ Unlocks(j) /\ Holding(j)
    BY <1>4 DEF UploadReplace, Runs, Holding
  <2> QED BY <2>1, UploadedInv
<1> QED BY <1>1, <1>2, <1>3, <1>4

(* Deletions take no lock. *)
LEMMA DeletesInv ==
    ASSUME WinInv, NEW j \in Job,
           \/ DeleteList(j) \/ DeleteListFails(j) \/ DeleteDrop(j)
           \/ \E kept \in SUBSET job[j].found : DeleteDropFails(j, kept)
    PROVE  WinInv'
<1>1. CASE DeleteList(j)
  <2> DEFINE r == [job[j] EXCEPT !.pc = "drop", !.found = ObjectsAt(job[j].src, Entries)]
  <2>1. job' = [job EXCEPT ![j] = r] /\ UNCHANGED lockOf
    BY <1>1 DEF DeleteList
  <2>2. WorkField \subseteq DOMAIN r /\ r.pc = "drop"
    BY DEF WinInv, JobOK, WorkField
  <2> HIDE DEF r
  <2> QED BY <2>1, <2>2, OneJob
<1>2. CASE DeleteListFails(j)
  <2>1. Ends(j) /\ UNCHANGED lockOf
    BY <1>2 DEF DeleteListFails
  <2> QED BY <2>1, EndsInv
<1>3. CASE DeleteDrop(j)
  <2>1. Ends(j) /\ UNCHANGED lockOf
    BY <1>3 DEF DeleteDrop
  <2> QED BY <2>1, EndsInv
<1>4. ASSUME NEW kept, DeleteDropFails(j, kept) PROVE WinInv'
  <2>1. Ends(j) /\ UNCHANGED lockOf
    BY <1>4 DEF DeleteDropFails, provider
  <2> QED BY <2>1, EndsInv
<1> QED BY <1>1, <1>2, <1>3, <1>4

(* Nor do restorations. *)
LEMMA RestoresInv ==
    ASSUME WinInv, NEW j \in Job, RestoreNoHead(j) \/ \E o \in job[j].found : RestoreHead(j, o)
    PROVE  WinInv'
<1>1. Ends(j) /\ UNCHANGED lockOf
  BY DEF RestoreNoHead, RestoreHead, provider
<1> QED BY <1>1, EndsInv

(* After a restart no lock is held and nobody works. *)
LEMMA RestartInv ==
    ASSUME WinInv, Restart
    PROVE  WinInv'
<1>1. job' = [j \in Job |-> NoWork] /\ lockOf' = [p \in WinPath |-> NoJob]
  BY DEF Restart
<1>2. \A j \in Job : JobOK(j)'
  BY <1>1, NoWorkShape DEF JobOK, Runs, Holding
<1> QED BY <1>1, <1>2 DEF WinInv

(* A step keeps the invariant. *)
LEMMA WinStep ==
    ASSUME WinInv, [WinNext]_winVars
    PROVE  WinInv'
<1>1. ASSUME NEW j \in Job, User(j) \/ Watcher(j) PROVE WinInv'
  BY <1>1, UserInv, WatcherInv
<1>2. ASSUME NEW j \in Job, Goroutine(j) PROVE WinInv'
  <2>1. CASE UploadOpen(j) \/ UploadListFails(j)
    BY <2>1, OpensInv DEF UploadOpen, UploadListFails
  <2>2. CASE \E v \in Content : Puts(j, v)
    BY <2>2, PutsInv
  <2>3. CASE \E kept \in SUBSET job[j].found : UploadReplace(j, kept) \/ DeleteDropFails(j, kept)
    BY <2>3, UploadsInv, DeletesInv
  <2>4. CASE UploadGone(j) \/ UploadSkipped(j) \/ PutFails(j)
    BY <2>4, UploadsInv
  <2>5. CASE DeleteList(j) \/ DeleteListFails(j) \/ DeleteDrop(j)
    BY <2>5, DeletesInv
  <2>6. CASE RestoreNoHead(j) \/ \E o \in job[j].found : RestoreHead(j, o)
    BY <2>6, RestoresInv
  <2> QED BY <1>2, <2>1, <2>2, <2>3, <2>4, <2>5, <2>6 DEF Goroutine
<1>3. CASE \/ \E p \in WinPath : WindowElapses(p) \/ DeleteForgotten(p)
           \/ ListingExpires \/ UNCHANGED winVars
  <2>1. UNCHANGED <<job, lockOf>>
    BY <1>3 DEF WindowElapses, DeleteForgotten, ListingExpires, winVars, provider
  <2> QED BY <2>1 DEF WinInv, JobOK, Runs, Holding
<1>4. CASE Restart
  BY <1>4, RestartInv
<1> QED BY <1>1, <1>2, <1>3, <1>4 DEF WinNext

(* The invariant, for any goroutines and paths. *)
LEMMA WinInvariant == WinSpec => []WinInv
<1>1. WinInit => WinInv
  BY NoWorkShape DEF WinInit, WinInv, JobOK, Runs, Holding
<1>2. WinInv /\ [WinNext]_winVars => WinInv'
  BY WinStep
<1> QED BY <1>1, <1>2, PTL DEF WinSpec

(* UploadsSerialized, for any goroutines and paths: two uploads of a path are never
   both between their search for old objects and the end of their deletion. *)
THEOREM UploadsAlone == WinSpec => []UploadsSerialized
<1>1. WinInv => UploadsSerialized
  BY DEF WinInv, JobOK, Holding, UploadsSerialized
<1> QED BY <1>1, WinInvariant, PTL
-----------------------------------------------------------------------------

(* WindowsSync: what the objects, the cached listing and the goroutines know of one
   another. *)

ObjectOK(o) == o.id \in Nat /\ o.id <= putCount /\ o.content # 0

ObjectsOK ==
    /\ putCount \in Nat
    /\ \A o \in container : ObjectOK(o)
    /\ listing.present => \A o \in listing.entries : ObjectOK(o)

\* A goroutine has found objects of its own path.
FoundOK ==
    \A j \in Job :
        /\ \A o \in job[j].found : ObjectOK(o)
        /\ Holding(j) => \A o \in job[j].found : o.path = job[j].path
        /\ job[j].pc = "drop" => \A o \in job[j].found : o.path = job[j].src

\* A cached listing lacks at most what has been put and not been followed by the
\* invalidation yet.
ListOK ==
    listing.present =>
        \A o \in container :
            \/ o \in listing.entries
            \/ \E j \in Job : job[j].pc = "replace" /\ job[j].path = o.path

BaseInv ==
    /\ WinInv /\ ObjectsOK /\ FoundOK /\ ListOK
    /\ ops \in Nat
    /\ DOMAIN file = WinPath /\ DOMAIN want = WinPath /\ DOMAIN doubt = WinPath

\* What counts of a goroutine, for its path and its source.
SameWork(i) ==
    /\ job'[i].kind = job[i].kind /\ job'[i].pc = job[i].pc
    /\ job'[i].path = job[i].path /\ job'[i].src = job[i].src
    /\ job'[i].opened = job[i].opened /\ job'[i].found = job[i].found
    /\ job'[i].since = job[i].since

DomainsSame ==
    /\ ops' \in Nat
    /\ DOMAIN file' = WinPath /\ DOMAIN want' = WinPath /\ DOMAIN doubt' = WinPath

\* The listing is kept, dropped, or made.
ListingMoves == listing' = listing \/ ~listing'.present \/ List

(* A listing has sound objects. *)
LEMMA EntriesOK ==
    ASSUME BaseInv
    PROVE  \A o \in Entries : ObjectOK(o)
BY DEF BaseInv, ObjectsOK, Entries

(* A listing has all objects of a path where nothing is being replaced. *)
LEMMA EntriesComplete ==
    ASSUME BaseInv, NEW o \in container,
           \A j \in Job : ~(job[j].pc = "replace" /\ job[j].path = o.path)
    PROVE  o \in Entries
BY DEF BaseInv, ListOK, Entries

(* A step that puts nothing: one goroutine moves, and knows what it finds.  It leaves
   the end of its upload only with the listing dropped. *)
LEMMA BaseMoves ==
    ASSUME BaseInv, WinInv', NEW j \in Job, DomainsSame,
           container' \subseteq container, putCount' = putCount, ListingMoves,
           \A i \in Job \ {j} : SameWork(i),
           \A o \in job'[j].found : ObjectOK(o),
           Holding(j)' => \A o \in job'[j].found : o.path = job'[j].path,
           job'[j].pc = "drop" => \A o \in job'[j].found : o.path = job'[j].src,
           job[j].pc = "replace" => ~listing'.present
    PROVE  BaseInv'
<1>1. ObjectsOK /\ FoundOK /\ ListOK /\ putCount \in Nat
  BY DEF BaseInv, ObjectsOK
<1>2. \A o : ObjectOK(o)' <=> ObjectOK(o)
  BY DEF ObjectOK
<1>3. List => listing'.present /\ listing'.entries = Entries
  BY DEF List, Cached
<1>4. ObjectsOK'
  BY <1>1, <1>2, <1>3, EntriesOK DEF ObjectsOK, ListingMoves
<1>5. FoundOK'
  <2>1. ASSUME NEW i \in Job \ {j}
        PROVE  /\ \A o \in job'[i].found : ObjectOK(o)
               /\ Holding(i)' => \A o \in job'[i].found : o.path = job'[i].path
               /\ job'[i].pc = "drop" => \A o \in job'[i].found : o.path = job'[i].src
    BY <1>1, <2>1 DEF FoundOK, SameWork, Holding
  <2> QED BY <1>2, <2>1 DEF FoundOK
<1>6. ASSUME listing'.present, NEW o \in container'
      PROVE  \/ o \in listing'.entries
             \/ \E i \in Job : job'[i].pc = "replace" /\ job'[i].path = o.path
  <2>1. o \in container /\ job[j].pc # "replace"
    BY <1>6
  <2>2. \/ o \in listing'.entries
        \/ \E i \in Job : job[i].pc = "replace" /\ job[i].path = o.path
    BY <1>1, <1>3, <1>6, <2>1 DEF ListOK, ListingMoves, Entries
  <2>3. ASSUME NEW i \in Job, job[i].pc = "replace", job[i].path = o.path
        PROVE  job'[i].pc = "replace" /\ job'[i].path = o.path
    BY <2>1, <2>3 DEF SameWork
  <2> QED BY <2>2, <2>3
<1>7. ListOK'
  BY <1>6 DEF ListOK
<1> QED BY <1>4, <1>5, <1>7 DEF BaseInv, DomainsSame

LeftAlone(j) == job[j].kind = "rename" /\ ~job[j].changed

(* The fields of a goroutine that does nothing. *)
LEMMA NoWorkFields ==
    /\ NoWork.kind = "none" /\ NoWork.pc = "end" /\ NoWork.found = {}
    /\ NoWork.path = NoWinPath /\ NoWork.src = NoWinPath
BY DEF NoWork

(* A goroutine starts, and the user's operation may be news for renames. *)
LEMMA Spawns ==
    ASSUME WinInv, NEW j \in Job, NEW k, NEW l, NEW p, NEW s, NEW paths,
           Spawn(j, k, l, p, s, paths)
    PROVE  /\ job[j] = NoWork
           /\ job'[j].kind = k /\ job'[j].pc = l /\ job'[j].path = p /\ job'[j].src = s
           /\ job'[j].found = {} /\ job'[j].since = putCount
           /\ \A i \in Job \ {j} : /\ SameWork(i)
                                   /\ LeftAlone(i)' => (job[i].path \notin paths /\ job'[i] = job[i])
<1> DEFINE r == [NoWork EXCEPT !.kind = k, !.pc = l, !.path = p, !.src = s, !.since = putCount]
           c == Changes(paths)
<1>1. job[j] = NoWork /\ job' = [c EXCEPT ![j] = r] /\ DOMAIN c = Job
  BY DEF Spawn, Changes
<1>2. /\ r.kind = k /\ r.pc = l /\ r.path = p /\ r.src = s
      /\ r.found = {} /\ r.since = putCount
  BY DEF NoWork
<1> HIDE DEF r, c
<1>3. job'[j] = r /\ \A i \in Job \ {j} : job'[i] = c[i]
  BY <1>1
<1>4. ASSUME NEW i \in Job \ {j}
      PROVE  /\ SameWork(i)
             /\ LeftAlone(i)' => (job[i].path \notin paths /\ job'[i] = job[i])
  <2>1. /\ c[i].kind = job[i].kind /\ c[i].pc = job[i].pc /\ c[i].path = job[i].path
        /\ c[i].src = job[i].src /\ c[i].opened = job[i].opened
        /\ c[i].found = job[i].found /\ c[i].since = job[i].since
        /\ (c[i].kind = "rename" /\ ~c[i].changed) => (c[i].path \notin paths /\ c[i] = job[i])
    BY ChangesKeep DEF c
  <2> QED BY <1>3, <1>4, <2>1 DEF SameWork, LeftAlone
<1> QED BY <1>1, <1>2, <1>3, <1>4

(* One goroutine moves. *)
LEMMA OthersSame ==
    ASSUME WinInv, NEW j \in Job, NEW r, job' = [job EXCEPT ![j] = r]
    PROVE  /\ job'[j] = r
           /\ \A i \in Job \ {j} : job'[i] = job[i] /\ SameWork(i)
BY DEF WinInv, SameWork

(* An upload is through: a rename goes on to its source. *)
LEMMA UploadedMoves ==
    ASSUME WinInv, NEW j \in Job, Uploaded(j)
    PROVE  /\ \A i \in Job \ {j} : job'[i] = job[i] /\ SameWork(i)
           /\ job'[j].found = {}
           /\ \/ /\ job[j].kind = "rename" /\ job'[j].kind = "rename" /\ job'[j].pc = "list"
                 /\ job'[j].path = job[j].path /\ job'[j].src = job[j].src
                 /\ job'[j].since = job[j].since /\ job'[j].changed = job[j].changed
              \/ job[j].kind # "rename" /\ job'[j] = NoWork
<1>1. CASE job[j].kind = "rename"
  <2> DEFINE r == [job[j] EXCEPT !.pc = "list", !.found = {}]
  <2>1. job' = [job EXCEPT ![j] = r]
    BY <1>1 DEF Uploaded
  <2>2. /\ r.kind = "rename" /\ r.pc = "list" /\ r.found = {} /\ r.path = job[j].path
        /\ r.src = job[j].src /\ r.since = job[j].since /\ r.changed = job[j].changed
    BY <1>1 DEF WinInv, JobOK, WorkField
  <2> HIDE DEF r
  <2> QED BY <1>1, <2>1, <2>2, OthersSame
<1>2. CASE job[j].kind # "rename"
  <2>1. job' = [job EXCEPT ![j] = NoWork]
    BY <1>2 DEF Uploaded
  <2> QED BY <1>2, <2>1, OthersSame, NoWorkFields
<1> QED BY <1>1, <1>2

(* An upload begins. *)
LEMMA OpensMoves ==
    ASSUME WinInv, NEW j \in Job, NEW f, Opens(j, f)
    PROVE  /\ \A i \in Job \ {j} : job'[i] = job[i] /\ SameWork(i)
           /\ job[j].pc = "lock" /\ job[j].kind \in Uploads /\ job[j].path \in WinPath
           /\ lockOf[job[j].path] = NoJob /\ file[job[j].path] # 0
           /\ job'[j].pc = "put" /\ job'[j].kind = job[j].kind
           /\ job'[j].path = job[j].path /\ job'[j].src = job[j].src
           /\ job'[j].since = job[j].since /\ job'[j].changed = job[j].changed
           /\ job'[j].opened = file[job[j].path] /\ job'[j].found = f
<1> DEFINE p == job[j].path
           r == [job[j] EXCEPT !.pc = "put", !.size = Size[file[p]], !.opened = file[p],
                               !.found = f]
<1>1. job' = [job EXCEPT ![j] = r]
  BY DEF Opens
<1>2. /\ r.pc = "put" /\ r.kind = job[j].kind /\ r.path = job[j].path /\ r.src = job[j].src
      /\ r.since = job[j].since /\ r.changed = job[j].changed
      /\ r.opened = file[p] /\ r.found = f
  BY DEF WinInv, JobOK, WorkField
<1>3. /\ job[j].pc = "lock" /\ job[j].kind \in Uploads /\ p \in WinPath
      /\ lockOf[p] = NoJob /\ file[p] # 0
  BY DEF Opens, Locks, Gone, Runs, WinInv, JobOK
<1> HIDE DEF r
<1> QED BY <1>1, <1>2, <1>3, OthersSame

(* While a path's lock is free, nobody puts or replaces there. *)
LEMMA LockFree ==
    ASSUME WinInv, NEW p \in WinPath, lockOf[p] = NoJob
    PROVE  \A i \in Job : job[i].path = p => ~Holding(i)
BY WindowsAssumption DEF WinInv, JobOK

(* And while one does, nobody else does. *)
LEMMA LockHeld ==
    ASSUME WinInv, NEW j \in Job, Holding(j)
    PROVE  /\ job[j].path \in WinPath
           /\ \A i \in Job \ {j} : job[i].path = job[j].path => ~Holding(i)
BY DEF WinInv, JobOK

(* A step that puts nothing and moves nobody. *)
LEMMA BaseKeeps ==
    ASSUME BaseInv, WinInv', DomainsSame, container' \subseteq container, putCount' = putCount,
           listing' = listing \/ ~listing'.present, \A i \in Job : SameWork(i)
    PROVE  BaseInv'
<1>1. ObjectsOK /\ FoundOK /\ ListOK /\ putCount \in Nat
  BY DEF BaseInv, ObjectsOK
<1>2. \A o : ObjectOK(o)' <=> ObjectOK(o)
  BY DEF ObjectOK
<1>3. ObjectsOK'
  BY <1>1, <1>2 DEF ObjectsOK
<1>4. FoundOK'
  BY <1>1, <1>2 DEF FoundOK, SameWork, Holding
<1>5. ListOK'
  BY <1>1 DEF ListOK, SameWork
<1> QED BY <1>3, <1>4, <1>5 DEF BaseInv, DomainsSame

(* The user's operations. *)
LEMMA BaseUser ==
    ASSUME BaseInv, WinInv', NEW j \in Job, User(j) \/ \E p \in WinPath : TimerFires(j, p)
    PROVE  BaseInv'
<1>1. /\ WinInv /\ ops \in Nat
      /\ DOMAIN file = WinPath /\ DOMAIN want = WinPath /\ DOMAIN doubt = WinPath
  BY DEF BaseInv
<1>2. ASSUME NEW k, NEW l \in {"lock", "list"}, NEW p, NEW s, NEW paths,
             Spawn(j, k, l, p, s, paths), DomainsSame, UNCHANGED remote
      PROVE  BaseInv'
  <2>1. /\ container' \subseteq container /\ putCount' = putCount /\ listing' = listing
    BY <1>2 DEF remote
  <2>2. /\ \A i \in Job \ {j} : SameWork(i)
        /\ job'[j].found = {} /\ job[j].pc = "end"
    BY <1>1, <1>2, Spawns, NoWorkFields
  <2> QED BY <2>1, <2>2, BaseMoves, <1>2 DEF ListingMoves
<1>3. ASSUME NEW p \in WinPath, Save(j, p) PROVE BaseInv'
  <2>1. Spawn(j, "upload", "lock", p, NoWinPath, {p}) /\ UNCHANGED remote
    BY <1>3 DEF Save
  <2>2. DomainsSame
    BY <1>1, <1>3 DEF Save, Operates, DomainsSame
  <2> QED BY <1>2, <2>1, <2>2
<1>4. ASSUME NEW p \in WinPath, Close(j, p) PROVE BaseInv'
  <2>1. Spawn(j, "upload", "lock", p, NoWinPath, {}) /\ UNCHANGED remote
    BY <1>4 DEF Close
  <2>2. DomainsSame
    BY <1>1, <1>4 DEF Close, Operates, DomainsSame
  <2> QED BY <1>2, <2>1, <2>2
<1>5. ASSUME NEW p \in WinPath, Remove(j, p) PROVE BaseInv'
  <2>1. Spawn(j, "delete", "list", NoWinPath, p, {p}) /\ UNCHANGED remote
    BY <1>5 DEF Remove
  <2>2. DomainsSame
    BY <1>1, <1>5 DEF Remove, Leaves, Operates, DomainsSame
  <2> QED BY <1>2, <2>1, <2>2
<1>6. ASSUME NEW p \in WinPath, NEW q \in WinPath, Move(j, p, q) PROVE BaseInv'
  <2>1. Spawn(j, "rename", "lock", q, p, {p, q}) /\ UNCHANGED remote
    BY <1>6 DEF Move
  <2>2. DomainsSame
    BY <1>1, <1>6 DEF Move, Operates, DomainsSame
  <2> QED BY <1>2, <2>1, <2>2
<1>7. ASSUME NEW p \in WinPath, MoveOut(p) PROVE BaseInv'
  <2>1. job' = Changes({p}) /\ UNCHANGED <<container, putCount, listing>>
    BY <1>7 DEF MoveOut, remote
  <2>4. DOMAIN doubt' = WinPath
    <3>1. Doubt({p}, "other")
      BY <1>7 DEF MoveOut
    <3> QED BY <3>1 DEF Doubt
  <2>5. /\ ops' = ops + 1 /\ file' = [file EXCEPT ![p] = 0] /\ want' = [want EXCEPT ![p] = 0]
    BY <1>7 DEF MoveOut, Leaves, Operates
  <2>2. DomainsSame
    BY <1>1, <2>4, <2>5 DEF DomainsSame
  <2>3. \A i \in Job : SameWork(i)
    BY <1>1, <2>1, ChangesKeep DEF SameWork
  <2> QED BY <2>1, <2>2, <2>3, BaseKeeps
<1>8. ASSUME NEW p \in WinPath, TimerFires(j, p) PROVE BaseInv'
  <2>1. Spawn(j, "upload", "lock", p, NoWinPath, {}) /\ UNCHANGED remote
    BY <1>8 DEF TimerFires
  <2>2. DomainsSame
    BY <1>1, <1>8 DEF TimerFires, disk, DomainsSame
  <2> QED BY <1>2, <2>1, <2>2
<1> QED BY <1>3, <1>4, <1>5, <1>6, <1>7, <1>8 DEF User

(* Doubts keep their paths. *)
LEMMA DoubtDomain ==
    ASSUME BaseInv, UNCHANGED disk, NEW paths, NEW why,
           doubt' = doubt \/ Doubt(paths, why)
    PROVE  DomainsSame
BY DEF BaseInv, DomainsSame, disk, Doubt

(* Who ends has nothing to know, but may have to drop the listing. *)
LEMMA BaseEnds ==
    ASSUME BaseInv, WinInv', NEW j \in Job, Ends(j), DomainsSame,
           container' \subseteq container, putCount' = putCount,
           listing' = listing \/ ~listing'.present,
           job[j].pc = "replace" => ~listing'.present
    PROVE  BaseInv'
<1>1. job' = [job EXCEPT ![j] = NoWork] /\ WinInv
  BY DEF Ends, BaseInv
<1>2. /\ job'[j] = NoWork
      /\ \A i \in Job \ {j} : SameWork(i)
  BY <1>1, OthersSame
<1>3. job'[j].found = {}
  BY <1>2, NoWorkFields
<1> QED BY <1>2, <1>3, BaseMoves DEF ListingMoves

(* The uploads' steps but the put. *)
LEMMA BaseUpload ==
    ASSUME BaseInv, WinInv', NEW j \in Job,
           \/ UploadGone(j) \/ UploadSkipped(j) \/ UploadOpen(j) \/ UploadListFails(j)
           \/ PutFails(j) \/ \E kept \in SUBSET job[j].found : UploadReplace(j, kept)
    PROVE  BaseInv'
<1>1. WinInv /\ DOMAIN doubt = WinPath
  BY DEF BaseInv
<1>2. CASE UploadGone(j)
  <2>1. /\ Ends(j) /\ UNCHANGED <<container, putCount, listing>> /\ job[j].pc = "lock"
    BY <1>2 DEF UploadGone, Locks, Runs, remote
  <2>2. DomainsSame
    BY <1>2, DoubtDomain DEF UploadGone
  <2> QED BY <2>1, <2>2, BaseEnds
<1>3. CASE UploadSkipped(j)
  <2>1. /\ Uploaded(j) /\ UNCHANGED <<container, putCount, listing>> /\ job[j].pc = "lock"
    BY <1>3 DEF UploadSkipped, Locks, Runs, remote
  <2>2. DomainsSame
    BY <1>3, DoubtDomain DEF UploadSkipped
  <2>3. job'[j].found = {} /\ \A i \in Job \ {j} : SameWork(i)
    BY <1>1, <2>1, UploadedMoves
  <2> QED BY <2>1, <2>2, <2>3, BaseMoves DEF ListingMoves
<1>4. CASE UploadOpen(j)
  <2>1. /\ List /\ Opens(j, ObjectsAt(job[j].path, Entries))
        /\ UNCHANGED <<disk, container, putCount, doubt>>
    BY <1>4 DEF UploadOpen, Opens
  <2>2. DomainsSame
    BY <2>1, DoubtDomain
  <2>3. /\ \A i \in Job \ {j} : SameWork(i)
        /\ job[j].pc = "lock" /\ job'[j].pc = "put" /\ job'[j].path = job[j].path
        /\ job'[j].found = ObjectsAt(job[j].path, Entries)
    BY <1>1, <2>1, OpensMoves
  <2>4. \A o \in job'[j].found : ObjectOK(o) /\ o.path = job'[j].path
    BY <2>3, EntriesOK DEF ObjectsAt
  <2> QED BY <2>1, <2>2, <2>3, <2>4, BaseMoves DEF ListingMoves
<1>5. CASE UploadListFails(j)
  <2>1. /\ Opens(j, {}) /\ UNCHANGED listing
        /\ UNCHANGED <<disk, container, putCount, doubt>>
    BY <1>5 DEF UploadListFails, Opens
  <2>2. DomainsSame
    BY <2>1, DoubtDomain
  <2>3. /\ \A i \in Job \ {j} : SameWork(i)
        /\ job[j].pc = "lock" /\ job'[j].pc = "put" /\ job'[j].found = {}
    BY <1>1, <2>1, OpensMoves
  <2> QED BY <2>1, <2>2, <2>3, BaseMoves DEF ListingMoves
<1>6. CASE PutFails(j)
  <2>1. /\ Ends(j) /\ UNCHANGED <<container, putCount, listing>> /\ job[j].pc = "put"
    BY <1>6 DEF PutFails, Runs, remote
  <2>2. DomainsSame
    BY <1>6, DoubtDomain DEF PutFails
  <2> QED BY <2>1, <2>2, BaseEnds
<1>7. ASSUME NEW kept \in SUBSET job[j].found, UploadReplace(j, kept) PROVE BaseInv'
  <2>1. /\ Uploaded(j) /\ container' \subseteq container /\ putCount' = putCount
        /\ listing' = NoList /\ UNCHANGED disk
    BY <1>7 DEF UploadReplace, DropListing
  <2>2. doubt' = doubt \/ doubt' = [doubt EXCEPT ![job[j].path] = {}]
    BY <1>7 DEF UploadReplace
  <2>3. DomainsSame
    BY <1>1, <2>1, <2>2 DEF BaseInv, DomainsSame, disk
  <2>4. job'[j].found = {} /\ \A i \in Job \ {j} : SameWork(i)
    BY <1>1, <2>1, UploadedMoves
  <2>5. ~listing'.present
    BY <2>1 DEF NoList
  <2> QED BY <2>1, <2>3, <2>4, <2>5, BaseMoves DEF ListingMoves
<1> QED BY <1>2, <1>3, <1>4, <1>5, <1>6, <1>7

(* The put: the listing now lacks what it has put. *)
LEMMA BasePuts ==
    ASSUME BaseInv, WinInv', NEW j \in Job, NEW v \in Content, Puts(j, v)
    PROVE  /\ BaseInv'
           /\ \A i \in Job \ {j} : job'[i] = job[i] /\ SameWork(i)
           /\ job[j].pc = "put" /\ job'[j].pc = "replace" /\ job[j].path \in WinPath
           /\ job'[j].kind = job[j].kind /\ job'[j].path = job[j].path
           /\ job'[j].src = job[j].src /\ job'[j].since = job[j].since
           /\ job'[j].changed = job[j].changed /\ job'[j].found = job[j].found
           /\ \E o : /\ container' = container \cup {o} /\ o.id = putCount + 1
                     /\ o.path = job[j].path /\ o.content = v /\ v # 0
                     /\ \A i \in Job : o \notin job[i].found
<1> DEFINE r == [job[j] EXCEPT !.pc = "replace"]
<1>0. PICK o : o = [id |-> putCount + 1, path |-> job[j].path, content |-> v]
  OBVIOUS
<1>1. /\ WinInv /\ ObjectsOK /\ FoundOK /\ ListOK /\ putCount \in Nat
      /\ ops \in Nat /\ DOMAIN doubt = WinPath
  BY DEF BaseInv, ObjectsOK
<1>2. /\ job' = [job EXCEPT ![j] = r] /\ job[j].pc = "put"
      /\ container' = container \cup {o} /\ putCount' = putCount + 1
      /\ UNCHANGED <<disk, listing, doubt>>
  BY <1>0 DEF Puts, Runs
<1>3. /\ r.pc = "replace" /\ r.kind = job[j].kind /\ r.path = job[j].path
      /\ r.src = job[j].src /\ r.since = job[j].since /\ r.changed = job[j].changed
      /\ r.found = job[j].found
  BY <1>1 DEF WinInv, JobOK, WorkField
<1>4. v # 0
  BY DEF Content
<1>5. /\ o.id = putCount + 1 /\ o.path = job[j].path /\ o.content = v
  BY <1>0
<1>6. job[j].path \in WinPath
  BY <1>1, <1>2 DEF WinInv, JobOK, Holding
<1> HIDE DEF r
<1>7. /\ job'[j] = r /\ \A i \in Job \ {j} : job'[i] = job[i] /\ SameWork(i)
  BY <1>1, <1>2, OthersSame
<1>8. \A x : ObjectOK(x) => ObjectOK(x)'
  BY <1>1, <1>2 DEF ObjectOK
<1>9. ObjectOK(o)'
  BY <1>1, <1>2, <1>4, <1>5 DEF ObjectOK
<1>10. ObjectsOK'
  BY <1>1, <1>2, <1>8, <1>9 DEF ObjectsOK
<1>11. FoundOK'
  <2>1. ASSUME NEW i \in Job
        PROVE  /\ \A x \in job'[i].found : ObjectOK(x)
               /\ Holding(i)' => \A x \in job'[i].found : x.path = job'[i].path
               /\ job'[i].pc = "drop" => \A x \in job'[i].found : x.path = job'[i].src
    BY <1>1, <1>2, <1>3, <1>7 DEF FoundOK, Holding
  <2> QED BY <1>8, <2>1 DEF FoundOK
<1>12. ListOK'
  <2>1. job'[j].pc = "replace" /\ job'[j].path = o.path
    BY <1>3, <1>5, <1>7
  <2>2. ASSUME NEW i \in Job, job[i].pc = "replace"
        PROVE  job'[i].pc = "replace" /\ job'[i].path = job[i].path
    BY <1>2, <1>7, <2>2
  <2> QED BY <1>1, <1>2, <2>1, <2>2 DEF ListOK
<1>13. \A i \in Job : o \notin job[i].found
  BY <1>1, <1>5 DEF FoundOK, ObjectOK
<1>14. DomainsSame
  BY <1>2, DoubtDomain
<1>15. BaseInv'
  BY <1>10, <1>11, <1>12, <1>14 DEF BaseInv, DomainsSame
<1> QED BY <1>2, <1>3, <1>4, <1>5, <1>6, <1>7, <1>13, <1>15

(* The deletions' steps. *)
LEMMA BaseDelete ==
    ASSUME BaseInv, WinInv', NEW j \in Job,
           \/ DeleteList(j) \/ DeleteListFails(j) \/ DeleteDrop(j)
           \/ \E kept \in SUBSET job[j].found : DeleteDropFails(j, kept)
    PROVE  BaseInv'
<1>1. WinInv /\ DOMAIN doubt = WinPath
  BY DEF BaseInv
<1>2. CASE DeleteList(j)
  <2> DEFINE r == [job[j] EXCEPT !.pc = "drop", !.found = ObjectsAt(job[j].src, Entries)]
  <2>1. /\ job' = [job EXCEPT ![j] = r] /\ job[j].pc = "list" /\ List
        /\ UNCHANGED <<disk, container, putCount, doubt>>
    BY <1>2 DEF DeleteList, Runs
  <2>2. r.pc = "drop" /\ r.src = job[j].src /\ r.found = ObjectsAt(job[j].src, Entries)
    BY <1>1 DEF WinInv, JobOK, WorkField
  <2> HIDE DEF r
  <2>3. DomainsSame
    BY <2>1, DoubtDomain
  <2>4. job'[j] = r /\ \A i \in Job \ {j} : SameWork(i)
    BY <1>1, <2>1, OthersSame
  <2>5. \A o \in job'[j].found : ObjectOK(o) /\ o.path = job'[j].src
    BY <2>2, <2>4, EntriesOK DEF ObjectsAt
  <2>6. ~Holding(j)'
    BY <2>2, <2>4 DEF Holding
  <2> QED BY <2>1, <2>3, <2>4, <2>5, <2>6, BaseMoves DEF ListingMoves
<1>3. CASE DeleteListFails(j)
  <2>1. /\ Ends(j) /\ UNCHANGED <<container, putCount, listing>> /\ job[j].pc = "list"
    BY <1>3 DEF DeleteListFails, Runs, remote
  <2>2. DomainsSame
    BY <1>3, DoubtDomain DEF DeleteListFails
  <2> QED BY <2>1, <2>2, BaseEnds
<1>4. CASE DeleteDrop(j)
  <2>1. /\ Ends(j) /\ container' \subseteq container /\ putCount' = putCount
        /\ listing' = NoList /\ job[j].pc = "drop" /\ UNCHANGED disk
        /\ DOMAIN doubt' = WinPath
    BY <1>1, <1>4 DEF DeleteDrop, Runs, DropListing
  <2>2. DomainsSame
    BY <2>1 DEF BaseInv, DomainsSame, disk
  <2>3. ~listing'.present
    BY <2>1 DEF NoList
  <2> QED BY <2>1, <2>2, <2>3, BaseEnds
<1>5. ASSUME NEW kept \in SUBSET job[j].found, DeleteDropFails(j, kept) PROVE BaseInv'
  <2>1. /\ Ends(j) /\ container' \subseteq container /\ putCount' = putCount
        /\ listing' = listing /\ job[j].pc = "drop" /\ UNCHANGED disk
        /\ DOMAIN doubt' = WinPath
    BY <1>1, <1>5 DEF DeleteDropFails, Runs
  <2>2. DomainsSame
    BY <2>1 DEF BaseInv, DomainsSame, disk
  <2> QED BY <2>1, <2>2, BaseEnds
<1> QED BY <1>2, <1>3, <1>4, <1>5

(* The restorations' steps. *)
LEMMA BaseRestore ==
    ASSUME BaseInv, WinInv', NEW j \in Job,
           \/ \E p \in WinPath : RestoreStops(p) \/ RestoreFind(j, p)
           \/ RestoreNoHead(j) \/ \E o \in job[j].found : RestoreHead(j, o)
    PROVE  BaseInv'
<1>1. /\ WinInv /\ ops \in Nat
      /\ DOMAIN file = WinPath /\ DOMAIN want = WinPath /\ DOMAIN doubt = WinPath
  BY DEF BaseInv
<1>2. ASSUME NEW p \in WinPath, RestoreStops(p) PROVE BaseInv'
  <2>1. UNCHANGED <<disk, container, putCount, listing, job, doubt>>
    BY <1>2 DEF RestoreStops, remote
  <2>2. DomainsSame /\ \A i \in Job : SameWork(i)
    BY <2>1, DoubtDomain DEF SameWork
  <2> QED BY <2>1, <2>2, BaseKeeps
<1>3. ASSUME NEW p \in WinPath, RestoreFind(j, p) PROVE BaseInv'
  <2> DEFINE t == [NoWork EXCEPT !.kind = "restore", !.pc = "head", !.path = p,
                                 !.found = ObjectsAt(p, Entries)]
             r == IF ObjectsAt(p, Entries) = {} THEN NoWork ELSE t
  <2>1. /\ job' = [job EXCEPT ![j] = r] /\ job[j] = NoWork /\ List
        /\ UNCHANGED <<disk, container, putCount, doubt>>
    BY <1>3 DEF RestoreFind
  <2>2. t.pc = "head" /\ t.found = ObjectsAt(p, Entries)
    BY DEF NoWork
  <2>3. r.pc \in {"end", "head"} /\ r.found \subseteq ObjectsAt(p, Entries)
    BY <2>2, NoWorkFields
  <2> HIDE DEF r
  <2>4. DomainsSame
    BY <2>1, DoubtDomain
  <2>5. job'[j] = r /\ \A i \in Job \ {j} : SameWork(i)
    BY <1>1, <2>1, OthersSame
  <2>6. /\ \A o \in job'[j].found : ObjectOK(o)
        /\ ~Holding(j)' /\ job'[j].pc # "drop" /\ job[j].pc # "replace"
    BY <2>1, <2>3, <2>5, EntriesOK, NoWorkFields DEF ObjectsAt, Holding
  <2> QED BY <2>1, <2>4, <2>5, <2>6, BaseMoves DEF ListingMoves
<1>4. CASE RestoreNoHead(j)
  <2>1. /\ Ends(j) /\ UNCHANGED <<disk, container, putCount, doubt>>
        /\ listing' = NoList
    BY <1>4 DEF RestoreNoHead, DropListing
  <2>2. DomainsSame /\ ~listing'.present
    BY <2>1, DoubtDomain DEF NoList
  <2> QED BY <2>1, <2>2, BaseEnds
<1>5. ASSUME NEW o \in job[j].found, RestoreHead(j, o) PROVE BaseInv'
  <2>1. /\ Ends(j) /\ UNCHANGED <<ops, want, container, putCount>> /\ job[j].pc = "head"
        /\ listing' = NoList \/ listing' = listing
    BY <1>5 DEF RestoreHead, DropListing, Runs
  <2>2. DOMAIN file' = WinPath
    BY <1>1, <1>5 DEF RestoreHead
  <2>3. DOMAIN doubt' = WinPath
    <3>1. Doubt({job[j].path}, "other") \/ UNCHANGED doubt
      BY <1>5 DEF RestoreHead
    <3> QED BY <1>1, <3>1 DEF Doubt
  <2>4. DomainsSame
    BY <1>1, <2>1, <2>2, <2>3 DEF DomainsSame
  <2>5. listing' = listing \/ ~listing'.present
    BY <2>1 DEF NoList
  <2> QED BY <2>1, <2>4, <2>5, BaseEnds
<1> QED BY <1>2, <1>3, <1>4, <1>5

(* What passes with time, and a restart. *)
LEMMA BaseWorld ==
    ASSUME BaseInv, WinInv',
           \/ \E p \in WinPath : WindowElapses(p) \/ DeleteForgotten(p)
           \/ ListingExpires \/ Restart \/ UNCHANGED winVars
    PROVE  BaseInv'
<1>1. CASE \/ \E p \in WinPath : WindowElapses(p) \/ DeleteForgotten(p)
           \/ ListingExpires \/ UNCHANGED winVars
  <2>1. /\ UNCHANGED <<disk, container, putCount, job, doubt>>
        /\ listing' = listing \/ listing' = NoList
    BY <1>1 DEF WindowElapses, DeleteForgotten, ListingExpires, DropListing, winVars, remote
  <2>2. /\ DomainsSame /\ \A i \in Job : SameWork(i)
        /\ listing' = listing \/ ~listing'.present
    BY <2>1, DoubtDomain DEF SameWork, NoList
  <2> QED BY <2>1, <2>2, BaseKeeps
<1>2. CASE Restart
  <2>1. /\ UNCHANGED <<disk, container, putCount>> /\ listing' = NoList
        /\ job' = [j \in Job |-> NoWork] /\ DOMAIN doubt' = WinPath
    BY <1>2 DEF Restart
  <2>2. ~listing'.present
    BY <2>1 DEF NoList
  <2>3. \A o : ObjectOK(o)' <=> ObjectOK(o)
    BY <2>1 DEF ObjectOK
  <2>4. ObjectsOK' /\ ListOK'
    BY <2>1, <2>2, <2>3 DEF BaseInv, ObjectsOK, ListOK
  <2>5. FoundOK'
    BY <2>1, NoWorkFields DEF FoundOK, Holding
  <2> QED BY <2>1, <2>4, <2>5 DEF BaseInv, disk
<1> QED BY <1>1, <1>2
-----------------------------------------------------------------------------

(* WindowsSync: how the container comes to mirror the disk. *)

\* The upload of what is at a path is still to begin.
Pending(p) == p \in timers \/ \E j \in Job : Runs(j, Uploads, "lock") /\ job[j].path = p

PutsAt(j, p) == job[j].pc = "put" /\ job[j].path = p

\* The newest object of a path has what the user left there, and no upload takes it
\* for an old one.
KeptAt(o, p) ==
    /\ o \in ObjectsAt(p, container) /\ o.content = want[p]
    /\ \A n \in ObjectsAt(p, container) : n.id <= o.id
    /\ \A j \in Job : job[j].pc = "replace" /\ job[j].path = p => o \notin job[j].found

\* A goroutine that will delete whatever the path has.
Removes(j, p) ==
    /\ job[j].kind \in Deletes /\ job[j].src = p
    /\ \/ job[j].pc \in {"lock", "put", "replace", "list"}
       \/ job[j].pc = "drop" /\ ObjectsAt(p, container) \subseteq job[j].found

\* What is on disk is what the user left, but for a placeholder that came back.
SameOK(p) == file[p] = want[p] \/ (want[p] = 0 /\ doubt[p] # {})

\* What is to be in the container is there, or is on its way.
WantedOK(p) ==
    want[p] # 0 /\ doubt[p] = {} =>
        \/ Pending(p)
        \/ /\ \A j \in Job : PutsAt(j, p) => job[j].opened = want[p]
           /\ (\E o \in container : KeptAt(o, p)) \/ (\E j \in Job : PutsAt(j, p))

\* What is not to be there is not, or is about to go; and nobody puts it again.
UnwantedOK(p) ==
    want[p] = 0 /\ doubt[p] = {} =>
        /\ ~Open(p)
        /\ ObjectsAt(p, container) = {} \/ (\E j \in Job : Removes(j, p))

PathOK(p) == SameOK(p) /\ WantedOK(p) /\ UnwantedOK(p)

MirrorInv == BaseInv /\ \A p \in WinPath : PathOK(p)

\* A goroutine that may put something at the path.
Uploading(j, p) == job[j].path = p /\ job[j].pc \in {"lock", "put", "replace"}

(* A step that leaves a path alone: its content, its objects and its uploads; and who
   was to delete them still is. *)
LEMMA PathUntouched ==
    ASSUME NEW p \in WinPath, PathOK(p),
           file'[p] = file[p], want'[p] = want[p], doubt'[p] = doubt[p],
           p \in timers => p \in timers',
           ObjectsAt(p, container') = ObjectsAt(p, container),
           \A i \in Job : (Uploading(i, p) \/ Uploading(i, p)') => SameWork(i),
           want[p] = 0 /\ doubt[p] = {} /\ ~Open(p)
               => \A i \in Job : Removes(i, p) => Removes(i, p)'
    PROVE  PathOK(p)'
<1>1. SameOK(p)'
  BY DEF PathOK, SameOK
<1>2. ASSUME Pending(p) PROVE Pending(p)'
  BY <1>2 DEF Pending, Runs, Uploading, SameWork
<1>3. \A i \in Job : PutsAt(i, p)' <=> PutsAt(i, p)
  BY DEF PutsAt, Uploading, SameWork
<1>4. \A i \in Job : PutsAt(i, p) => job'[i].opened = job[i].opened
  BY DEF PutsAt, Uploading, SameWork
<1>5. ASSUME NEW o \in container, KeptAt(o, p) PROVE o \in container' /\ KeptAt(o, p)'
  <2>1. o \in container'
    BY <1>5 DEF KeptAt, ObjectsAt
  <2>2. ASSUME NEW i \in Job, job'[i].pc = "replace", job'[i].path = p
        PROVE  o \notin job'[i].found
    <3>1. SameWork(i)
      BY <2>2 DEF Uploading
    <3> QED BY <1>5, <2>2, <3>1 DEF KeptAt, SameWork
  <2> QED BY <1>5, <2>1, <2>2 DEF KeptAt
<1>6. WantedOK(p)'
  BY <1>2, <1>3, <1>4, <1>5 DEF PathOK, WantedOK
<1>7. Open(p)' => Open(p)
  BY DEF Open, Uploading, SameWork
<1>8. UnwantedOK(p)'
  BY <1>7 DEF PathOK, UnwantedOK
<1> QED BY <1>1, <1>6, <1>8 DEF PathOK

(* A step that gives a reason to doubt a path. *)
LEMMA PathDoubted ==
    ASSUME NEW p \in WinPath, SameOK(p), file'[p] = file[p], want'[p] = want[p], doubt'[p] # {}
    PROVE  PathOK(p)'
BY DEF PathOK, SameOK, WantedOK, UnwantedOK

(* An upload of a path that is to be there is yet to begin. *)
LEMMA PathPending ==
    ASSUME NEW p \in WinPath, SameOK(p)', want'[p] # 0, Pending(p)'
    PROVE  PathOK(p)'
BY DEF PathOK, WantedOK, UnwantedOK

(* A goroutine is about to delete what the user has taken away. *)
LEMMA PathLeft ==
    ASSUME NEW p \in WinPath, file'[p] = 0, want'[p] = 0, ~Open(p)',
           NEW j \in Job, Removes(j, p)'
    PROVE  PathOK(p)'
BY DEF PathOK, SameOK, WantedOK, UnwantedOK

(* A goroutine starts: what it is to do about other paths is nothing. *)
LEMMA SpawnOthers ==
    ASSUME MirrorInv, NEW j \in Job, NEW k, NEW l, NEW q, NEW s, NEW paths,
           Spawn(j, k, l, q, s, paths), UNCHANGED <<container, doubt>>,
           NEW p \in WinPath, p # q,
           file'[p] = file[p], want'[p] = want[p], p \in timers => p \in timers'
    PROVE  PathOK(p)'
<1>1. WinInv /\ PathOK(p)
  BY DEF MirrorInv, BaseInv
<1>2. /\ job[j] = NoWork /\ job'[j].path = q
      /\ \A i \in Job \ {j} : SameWork(i)
  BY <1>1, Spawns
<1>3. \A i \in Job : (Uploading(i, p) \/ Uploading(i, p)') => SameWork(i)
  BY <1>2, NoWorkFields DEF Uploading
<1>4. \A i \in Job : Removes(i, p) => Removes(i, p)'
  BY <1>2, NoWorkFields DEF Removes, SameWork, Deletes
<1> QED BY <1>1, <1>3, <1>4, PathUntouched

(* A path whose upload starts, with a file there. *)
LEMMA SpawnUploads ==
    ASSUME MirrorInv, NEW j \in Job, NEW k \in Uploads, NEW p \in WinPath, NEW s, NEW paths,
           Spawn(j, k, "lock", p, s, paths), file'[p] # 0,
           file'[p] = want'[p] \/ (file'[p] = file[p] /\ want'[p] = want[p] /\ doubt' = doubt)
    PROVE  PathOK(p)'
<1>1. WinInv /\ SameOK(p)
  BY DEF MirrorInv, BaseInv, PathOK
<1>2. job'[j].kind = k /\ job'[j].pc = "lock" /\ job'[j].path = p
  BY <1>1, Spawns
<1>3. Pending(p)'
  BY <1>2 DEF Pending, Runs
<1>4. SameOK(p)' /\ (want'[p] # 0 \/ doubt'[p] # {})
  BY <1>1 DEF SameOK
<1> QED BY <1>3, <1>4 DEF PathOK, WantedOK, UnwantedOK

(* A path that the user takes away, not open: a deletion starts. *)
LEMMA SpawnDeletes ==
    ASSUME MirrorInv, NEW j \in Job, NEW k \in Deletes, NEW l \in {"lock", "list"}, NEW q,
           NEW p \in WinPath, NEW paths, Spawn(j, k, l, q, p, paths), ~Open(p),
           file'[p] = 0, want'[p] = 0
    PROVE  PathOK(p)'
<1>1. WinInv
  BY DEF MirrorInv, BaseInv
<1>2. /\ job'[j].kind = k /\ job'[j].pc = l /\ job'[j].src = p
      /\ \A i \in Job \ {j} : SameWork(i)
  BY <1>1, Spawns
<1>3. Removes(j, p)'
  BY <1>2 DEF Removes
<1>4. ~Open(p)'
  BY <1>2 DEF Open, SameWork
<1> QED BY <1>3, <1>4, PathLeft

(* The user's operations, and the debounced upload. *)
LEMMA MirrorUser ==
    ASSUME MirrorInv, NEW j \in Job, User(j) \/ \E p \in WinPath : TimerFires(j, p),
           NEW r \in WinPath
    PROVE  PathOK(r)'
<1>1. /\ WinInv /\ ops \in Nat /\ PathOK(r)
      /\ DOMAIN file = WinPath /\ DOMAIN want = WinPath /\ DOMAIN doubt = WinPath
  BY DEF MirrorInv, BaseInv
<1>2. ASSUME NEW p \in WinPath, Save(j, p) PROVE PathOK(r)'
  <2>1. /\ Spawn(j, "upload", "lock", p, NoWinPath, {p}) /\ UNCHANGED <<container, doubt>>
        /\ file' = [file EXCEPT ![p] = ops'] /\ want' = [want EXCEPT ![p] = ops']
        /\ ops' # 0 /\ timers \subseteq timers'
    BY <1>1, <1>2 DEF Save, Operates, remote
  <2>2. CASE r = p
    <3>1. file'[r] # 0 /\ file'[r] = want'[r] /\ "upload" \in Uploads
      BY <1>1, <2>1, <2>2 DEF Uploads
    <3> QED BY <2>1, <2>2, <3>1, SpawnUploads
  <2>3. CASE r # p
    <3>1. file'[r] = file[r] /\ want'[r] = want[r]
      BY <1>1, <2>1, <2>3
    <3> QED BY <2>1, <2>3, <3>1, SpawnOthers
  <2> QED BY <2>2, <2>3
<1>3. ASSUME NEW p \in WinPath, Close(j, p) \/ TimerFires(j, p) PROVE PathOK(r)'
  <2>1. /\ Spawn(j, "upload", "lock", p, NoWinPath, {}) /\ UNCHANGED <<container, doubt>>
        /\ file' = file /\ want' = want /\ file[p] # 0 /\ timers \ {p} \subseteq timers'
    BY <1>3 DEF Close, TimerFires, disk, remote, provider
  <2>2. CASE r = p
    <3>1. /\ file'[r] # 0 /\ "upload" \in Uploads
          /\ file'[r] = file[r] /\ want'[r] = want[r] /\ doubt' = doubt
      BY <2>1, <2>2 DEF Uploads
    <3> QED BY <2>1, <2>2, <3>1, SpawnUploads
  <2>3. CASE r # p
    <3>1. file'[r] = file[r] /\ want'[r] = want[r] /\ (r \in timers => r \in timers')
      BY <2>1, <2>3
    <3> QED BY <2>1, <2>3, <3>1, SpawnOthers
  <2> QED BY <2>2, <2>3
<1>4. ASSUME NEW p \in WinPath, Remove(j, p) PROVE PathOK(r)'
  <2>1. /\ Spawn(j, "delete", "list", NoWinPath, p, {p}) /\ UNCHANGED <<container, doubt>>
        /\ file' = [file EXCEPT ![p] = 0] /\ want' = [want EXCEPT ![p] = 0] /\ ~Open(p)
        /\ timers' = timers \ {p}
    BY <1>4 DEF Remove, Leaves, remote
  <2>2. CASE r = p
    <3>1. file'[r] = 0 /\ want'[r] = 0 /\ "delete" \in Deletes
      BY <1>1, <2>1, <2>2 DEF Deletes
    <3> QED BY <2>1, <2>2, <3>1, SpawnDeletes
  <2>3. CASE r # p
    <3>1. file'[r] = file[r] /\ want'[r] = want[r] /\ (r \in timers => r \in timers')
      BY <1>1, <2>1, <2>3
    <3>2. r # NoWinPath
      BY WindowsAssumption
    <3> QED BY <2>1, <3>1, <3>2, SpawnOthers
  <2> QED BY <2>2, <2>3
<1>5. ASSUME NEW p \in WinPath, NEW q \in WinPath, Move(j, p, q) PROVE PathOK(r)'
  <2>1. /\ Spawn(j, "rename", "lock", q, p, {p, q}) /\ UNCHANGED <<container, doubt>>
        /\ file' = [file EXCEPT ![p] = 0, ![q] = file[p]]
        /\ want' = [want EXCEPT ![p] = 0, ![q] = file[p]]
        /\ p # q /\ file[p] # 0 /\ ~Open(p)
        /\ timers' = (timers \ {p}) \cup {q}
    BY <1>5 DEF Move, remote
  <2>2. CASE r = q
    <3>1. file'[r] # 0 /\ file'[r] = want'[r] /\ "rename" \in Uploads
      BY <1>1, <2>1, <2>2 DEF Uploads
    <3> QED BY <2>1, <2>2, <3>1, SpawnUploads
  <2>3. CASE r = p
    <3>1. file'[r] = 0 /\ want'[r] = 0 /\ "rename" \in Deletes
      BY <1>1, <2>1, <2>3 DEF Deletes
    <3> QED BY <2>1, <2>3, <3>1, SpawnDeletes
  <2>4. CASE r # p /\ r # q
    <3>1. file'[r] = file[r] /\ want'[r] = want[r] /\ (r \in timers => r \in timers')
      BY <1>1, <2>1, <2>4
    <3> QED BY <2>1, <2>4, <3>1, SpawnOthers
  <2> QED BY <2>2, <2>3, <2>4
<1>6. ASSUME NEW p \in WinPath, MoveOut(p) PROVE PathOK(r)'
  <2>1. /\ job' = Changes({p}) /\ UNCHANGED container
        /\ file' = [file EXCEPT ![p] = 0] /\ want' = [want EXCEPT ![p] = 0]
        /\ timers' = timers \ {p} /\ Doubt({p}, "other")
    BY <1>6 DEF MoveOut, Leaves, remote
  <2>2. CASE r = p
    <3>1. file'[r] = 0 /\ want'[r] = 0 /\ doubt'[r] # {}
      BY <1>1, <2>1, <2>2 DEF Doubt
    <3> QED BY <3>1 DEF PathOK, SameOK, WantedOK, UnwantedOK
  <2>3. CASE r # p
    <3>1. /\ file'[r] = file[r] /\ want'[r] = want[r] /\ doubt'[r] = doubt[r]
          /\ r \in timers => r \in timers'
      BY <1>1, <2>1, <2>3 DEF Doubt
    <3>2. \A i \in Job : SameWork(i)
      <4>1. WinInv /\ job' = Changes({p})
        BY <1>1, <2>1
      <4> QED BY <4>1, ChangesKeep DEF SameWork
    <3>3. \A i \in Job : Removes(i, r) => Removes(i, r)'
      BY <2>1, <3>2 DEF Removes, SameWork
    <3>4. ObjectsAt(r, container') = ObjectsAt(r, container)
      BY <2>1
    <3> QED BY <1>1, <3>1, <3>2, <3>3, <3>4, PathUntouched
  <2> QED BY <2>2, <2>3
<1> QED BY <1>2, <1>3, <1>4, <1>5, <1>6 DEF User

(* A step of one goroutine that is not about a path's upload. *)
LEMMA PathElse ==
    ASSUME WinInv, NEW j \in Job, NEW r \in WinPath, PathOK(r),
           \A i \in Job \ {j} : SameWork(i), ~Uploading(j, r), ~Uploading(j, r)',
           file'[r] = file[r], want'[r] = want[r], doubt'[r] = doubt[r],
           r \in timers => r \in timers',
           ObjectsAt(r, container') = ObjectsAt(r, container),
           (~Open(r) /\ Removes(j, r)) => Removes(j, r)'
    PROVE  PathOK(r)'
<1>1. \A i \in Job : (Uploading(i, r) \/ Uploading(i, r)') => SameWork(i)
  OBVIOUS
<1>2. ASSUME NEW i \in Job \ {j}, Removes(i, r) PROVE Removes(i, r)'
  BY <1>2 DEF Removes, SameWork
<1> QED BY <1>1, <1>2, PathUntouched

(* An upload that ends because its file is gone. *)
LEMMA MirrorGone ==
    ASSUME MirrorInv, NEW j \in Job, UploadGone(j), NEW r \in WinPath
    PROVE  PathOK(r)'
<1>1. /\ WinInv /\ PathOK(r) /\ SameOK(r) /\ DOMAIN doubt = WinPath
      /\ job[j].pc = "lock" /\ file[job[j].path] = 0
      /\ Doubt({job[j].src}, "other") /\ job' = [job EXCEPT ![j] = NoWork]
      /\ UNCHANGED <<file, want, container, timers>>
  BY DEF MirrorInv, BaseInv, PathOK, UploadGone, Locks, Runs, Gone, Ends, disk, remote, provider
<1>2. job'[j] = NoWork /\ \A i \in Job \ {j} : job'[i] = job[i] /\ SameWork(i)
  BY <1>1, OthersSame
<1>3. CASE r = job[j].src
  <2>1. doubt'[r] # {}
    BY <1>1, <1>3 DEF Doubt
  <2> QED BY <1>1, <2>1, PathDoubted
<1>4. CASE r # job[j].src
  <2>1. doubt'[r] = doubt[r]
    BY <1>1, <1>4 DEF Doubt
  <2>2. CASE r = job[j].path
    <3>1. want'[r] = 0 /\ want[r] = 0 /\ SameOK(r)'
      BY <1>1, <2>1, <2>2 DEF SameOK
    <3>2. Open(r)' => Open(r)
      BY <1>2, NoWorkFields DEF Open
    <3>3. ASSUME NEW i \in Job, Removes(i, r) PROVE Removes(i, r)'
      BY <1>1, <1>2, <1>4, <3>3 DEF Removes
    <3> QED BY <1>1, <2>1, <3>1, <3>2, <3>3 DEF PathOK, WantedOK, UnwantedOK
  <2>3. CASE r # job[j].path
    <3>1. ~Uploading(j, r) /\ ~Uploading(j, r)' /\ ~Removes(j, r)
      BY <1>2, <1>4, <2>3, NoWorkFields DEF Uploading, Removes
    <3> QED BY <1>1, <1>2, <2>1, <3>1, PathElse
  <2> QED BY <2>2, <2>3
<1> QED BY <1>3, <1>4

(* An upload taken for a duplicate. *)
LEMMA MirrorSkipped ==
    ASSUME MirrorInv, NEW j \in Job, UploadSkipped(j), NEW r \in WinPath
    PROVE  PathOK(r)'
<1> DEFINE p == job[j].path
<1>1. /\ WinInv /\ PathOK(r) /\ SameOK(r) /\ DOMAIN doubt = WinPath
      /\ job[j].pc = "lock" /\ job[j].kind \in Uploads
      /\ lockOf[p] = NoJob /\ file[p] # 0 /\ Uploaded(j)
      /\ UNCHANGED <<file, want, container, timers>>
  BY DEF MirrorInv, BaseInv, PathOK, UploadSkipped, Locks, Runs, Gone, disk, remote, provider
<1>2. /\ \A i \in Job \ {j} : job'[i] = job[i] /\ SameWork(i)
      /\ \/ /\ job[j].kind = "rename" /\ job'[j].kind = "rename" /\ job'[j].pc = "list"
            /\ job'[j].path = job[j].path /\ job'[j].src = job[j].src
         \/ job[j].kind # "rename" /\ job'[j] = NoWork
  BY <1>1, UploadedMoves
<1>3. IF Holds(p, file[p], container) THEN UNCHANGED doubt ELSE Doubt({p}, "duplicate")
  BY DEF UploadSkipped
<1>4. job'[j].pc \in {"list", "end"}
  BY <1>2, NoWorkFields
<1>5. CASE r = p
  <2>1. CASE doubt'[r] # {}
    BY <1>1, <2>1, PathDoubted
  <2>2. CASE doubt'[r] = {}
    <3>1. Holds(p, file[p], container) /\ doubt' = doubt
      BY <1>1, <1>3, <1>5, <2>2 DEF Doubt
    <3>2. file[r] = want[r] /\ want[r] # 0 /\ SameOK(r)'
      BY <1>1, <1>5, <2>2, <3>1 DEF SameOK
    <3>3. \A i \in Job : job[i].path = r => ~Holding(i)
      BY <1>1, <1>5, LockFree
    <3>4. \A i \in Job : job'[i].path = r => job'[i].pc \notin {"put", "replace"}
      BY <1>2, <1>4, <3>3 DEF Holding
    <3>5. PICK o \in ObjectsAt(r, container) :
              o.content = want[r] /\ \A n \in ObjectsAt(r, container) : n.id <= o.id
      BY <1>5, <3>1, <3>2 DEF Holds
    <3>6. o \in container' /\ KeptAt(o, r)'
      BY <1>1, <3>4, <3>5 DEF KeptAt, ObjectsAt
    <3>7. \A i \in Job : ~PutsAt(i, r)'
      BY <3>4 DEF PutsAt
    <3> QED BY <1>1, <3>2, <3>6, <3>7 DEF PathOK, WantedOK, UnwantedOK
  <2> QED BY <2>1, <2>2
<1>6. CASE r # p
  <2>1. doubt'[r] = doubt[r]
    BY <1>1, <1>3, <1>6 DEF Doubt
  <2>2. ~Uploading(j, r) /\ ~Uploading(j, r)'
    BY <1>4, <1>6 DEF Uploading
  <2>3. Removes(j, r) => Removes(j, r)'
    BY <1>1, <1>2 DEF Removes, Uploads, Deletes
  <2> QED BY <1>1, <1>2, <2>1, <2>2, <2>3, PathElse
<1> QED BY <1>5, <1>6

(* An upload that opens its file. *)
LEMMA MirrorOpens ==
    ASSUME MirrorInv, NEW j \in Job, NEW f, Opens(j, f), NEW r \in WinPath
    PROVE  PathOK(r)'
<1> DEFINE p == job[j].path
<1>1. /\ WinInv /\ PathOK(r) /\ SameOK(r)
      /\ UNCHANGED <<file, want, container, timers, doubt>>
  BY DEF MirrorInv, BaseInv, PathOK, Opens, disk
<1>2. /\ \A i \in Job \ {j} : job'[i] = job[i] /\ SameWork(i)
      /\ job[j].pc = "lock" /\ job[j].kind \in Uploads /\ p \in WinPath
      /\ lockOf[p] = NoJob /\ file[p] # 0
      /\ job'[j].pc = "put" /\ job'[j].kind = job[j].kind
      /\ job'[j].path = p /\ job'[j].src = job[j].src
      /\ job'[j].opened = file[p]
  BY <1>1, OpensMoves
<1>3. CASE r = p
  <2>1. CASE doubt'[r] # {}
    BY <1>1, <2>1, PathDoubted
  <2>2. CASE doubt'[r] = {}
    <3>1. file[r] = want[r] /\ want[r] # 0 /\ SameOK(r)'
      BY <1>1, <1>2, <1>3, <2>2 DEF SameOK
    <3>2. \A i \in Job : job[i].path = r => ~Holding(i)
      BY <1>1, <1>2, <1>3, LockFree
    <3>3. \A i \in Job : PutsAt(i, r)' => job'[i].opened = want'[r]
      BY <1>1, <1>2, <1>3, <3>1, <3>2 DEF PutsAt, Holding
    <3>4. PutsAt(j, r)'
      BY <1>2, <1>3 DEF PutsAt
    <3> QED BY <1>1, <3>1, <3>3, <3>4 DEF PathOK, WantedOK, UnwantedOK
  <2> QED BY <2>1, <2>2
<1>4. CASE r # p
  <2>1. ~Uploading(j, r) /\ ~Uploading(j, r)'
    BY <1>2, <1>4 DEF Uploading
  <2>2. Removes(j, r) => Removes(j, r)'
    BY <1>2 DEF Removes
  <2> QED BY <1>1, <1>2, <2>1, <2>2, PathElse
<1> QED BY <1>3, <1>4

(* The put. *)
LEMMA MirrorPuts ==
    ASSUME MirrorInv, WinInv', NEW j \in Job, NEW v \in Content, Puts(j, v),
           NEW r \in WinPath
    PROVE  PathOK(r)'
<1> DEFINE p == job[j].path
<1>1. /\ BaseInv /\ WinInv /\ PathOK(r) /\ SameOK(r) /\ ObjectsOK
      /\ UNCHANGED <<file, want, timers, doubt>> /\ v \in {job[j].opened, file[p]}
  BY DEF MirrorInv, BaseInv, PathOK, Puts, disk, provider
<1>2. /\ \A i \in Job \ {j} : job'[i] = job[i] /\ SameWork(i)
      /\ job[j].pc = "put" /\ job'[j].pc = "replace" /\ p \in WinPath
      /\ job'[j].kind = job[j].kind /\ job'[j].path = p /\ job'[j].src = job[j].src
      /\ job'[j].found = job[j].found
  BY <1>1, BasePuts
<1>3. PICK o : /\ container' = container \cup {o} /\ o.id = putCount + 1
               /\ o.path = p /\ o.content = v /\ \A i \in Job : o \notin job[i].found
  BY <1>1, BasePuts
<1>4. CASE r = p
  <2>1. CASE doubt'[r] # {}
    BY <1>1, <2>1, PathDoubted
  <2>2. CASE doubt'[r] = {}
    <3>1. Open(r)
      BY <1>2, <1>4 DEF Open
    <3>2. want[r] # 0 /\ file[r] = want[r] /\ SameOK(r)'
      BY <1>1, <2>2, <3>1 DEF PathOK, UnwantedOK, SameOK
    <3>3. CASE Pending(r)
      <4>1. Pending(r)'
        BY <1>1, <1>2, <3>3 DEF Pending, Runs
      <4> QED BY <1>1, <3>2, <4>1, PathPending
    <3>4. CASE ~Pending(r)
      <4>1. \A i \in Job : PutsAt(i, r) => job[i].opened = want[r]
        BY <1>1, <2>2, <3>2, <3>4 DEF PathOK, WantedOK
      <4>2. v = want[r]
        BY <1>1, <1>2, <1>4, <3>2, <4>1 DEF PutsAt
      <4>3. \A i \in Job : PutsAt(i, r)' => job'[i].opened = want'[r]
        BY <1>1, <1>2, <4>1 DEF PutsAt
      <4>4. o \in ObjectsAt(r, container')
        BY <1>3, <1>4 DEF ObjectsAt
      <4>5. \A n \in container' : n.id <= o.id
        BY <1>1, <1>3 DEF ObjectsOK, ObjectOK
      <4>6. \A i \in Job : o \notin job'[i].found
        BY <1>2, <1>3
      <4>7. o \in container' /\ KeptAt(o, r)'
        BY <1>1, <1>3, <4>2, <4>4, <4>5, <4>6 DEF KeptAt, ObjectsAt
      <4> QED BY <1>1, <3>2, <4>3, <4>7 DEF PathOK, WantedOK, UnwantedOK
    <3> QED BY <3>3, <3>4
  <2> QED BY <2>1, <2>2
<1>5. CASE r # p
  <2>1. ~Uploading(j, r) /\ ~Uploading(j, r)'
    BY <1>2, <1>5 DEF Uploading
  <2>2. Removes(j, r) => Removes(j, r)'
    BY <1>2 DEF Removes
  <2>3. ObjectsAt(r, container') = ObjectsAt(r, container)
    BY <1>3, <1>5 DEF ObjectsAt
  <2> QED BY <1>1, <1>2, <2>1, <2>2, <2>3, PathElse
<1> QED BY <1>4, <1>5

(* A put that fails. *)
LEMMA MirrorPutFails ==
    ASSUME MirrorInv, NEW j \in Job, PutFails(j), NEW r \in WinPath
    PROVE  PathOK(r)'
<1>1. /\ WinInv /\ PathOK(r) /\ SameOK(r) /\ DOMAIN doubt = WinPath
      /\ job[j].pc = "put" /\ job' = [job EXCEPT ![j] = NoWork]
      /\ Doubt({job[j].path, job[j].src}, "other")
      /\ UNCHANGED <<file, want, container, timers>>
  BY DEF MirrorInv, BaseInv, PathOK, PutFails, Runs, Ends, disk, remote
<1>2. job'[j] = NoWork /\ \A i \in Job \ {j} : job'[i] = job[i] /\ SameWork(i)
  BY <1>1, OthersSame
<1>3. CASE r \in {job[j].path, job[j].src}
  <2>1. doubt'[r] # {}
    BY <1>1, <1>3 DEF Doubt
  <2> QED BY <1>1, <2>1, PathDoubted
<1>4. CASE r \notin {job[j].path, job[j].src}
  <2>1. doubt'[r] = doubt[r]
    BY <1>1, <1>4 DEF Doubt
  <2>2. ~Uploading(j, r) /\ ~Uploading(j, r)' /\ ~Removes(j, r)
    BY <1>2, <1>4, NoWorkFields DEF Uploading, Removes
  <2> QED BY <1>1, <1>2, <2>1, <2>2, PathElse
<1> QED BY <1>3, <1>4

(* The end of an upload: the old objects go, and what is as the user left it is no
   longer doubted. *)
LEMMA MirrorReplace ==
    ASSUME MirrorInv, NEW j \in Job, NEW kept \in SUBSET job[j].found, UploadReplace(j, kept),
           NEW r \in WinPath
    PROVE  PathOK(r)'
<1> DEFINE p == job[j].path
           reset == Holds(p, want[p], container') /\ ~Deleting(p)
<1>1. /\ WinInv /\ PathOK(r) /\ SameOK(r) /\ DOMAIN doubt = WinPath /\ FoundOK /\ ObjectsOK
      /\ job[j].pc = "replace" /\ job[j].kind \in Uploads /\ Uploaded(j)
      /\ container' = container \ (job[j].found \ kept)
      /\ doubt' = IF reset THEN [doubt EXCEPT ![p] = {}] ELSE doubt
      /\ UNCHANGED <<file, want, timers>>
  BY DEF MirrorInv, BaseInv, PathOK, UploadReplace, Runs, disk
<1>2. /\ \A i \in Job \ {j} : job'[i] = job[i] /\ SameWork(i)
      /\ \/ /\ job[j].kind = "rename" /\ job'[j].kind = "rename" /\ job'[j].pc = "list"
            /\ job'[j].path = job[j].path /\ job'[j].src = job[j].src
         \/ job[j].kind # "rename" /\ job'[j] = NoWork
  BY <1>1, UploadedMoves
<1>3. job'[j].pc \in {"list", "end"}
  BY <1>2, NoWorkFields
<1>4. Holding(j) /\ \A o \in job[j].found : o.path = p
  BY <1>1 DEF Holding, FoundOK
<1>5. \A i \in Job : job'[i].path = p => job'[i].pc \notin {"put", "replace"}
  BY <1>1, <1>2, <1>3, <1>4, LockHeld DEF Holding
<1>6. CASE r = p
  <2>1. \A i \in Job : ~PutsAt(i, r)'
    BY <1>5, <1>6 DEF PutsAt
  <2>2. CASE reset
    <3>1. PICK o \in ObjectsAt(r, container') :
              o.content = want[r] /\ \A n \in ObjectsAt(r, container') : n.id <= o.id
      BY <1>6, <2>2 DEF Holds
    <3>2. o \in container' /\ o \in container
      BY <1>1, <3>1 DEF ObjectsAt
    <3>3. want[r] # 0
      BY <1>1, <3>1, <3>2 DEF ObjectsOK, ObjectOK
    <3>4. KeptAt(o, r)'
      BY <1>1, <1>5, <1>6, <3>1 DEF KeptAt
    <3>5. SameOK(r)'
      BY <1>1, <3>3 DEF SameOK
    <3> QED BY <1>1, <2>1, <3>2, <3>3, <3>4, <3>5 DEF PathOK, WantedOK, UnwantedOK
  <2>3. CASE ~reset /\ doubt[r] # {}
    <3>1. doubt'[r] # {}
      BY <1>1, <2>3
    <3> QED BY <1>1, <3>1, PathDoubted
  <2>4. CASE ~reset /\ doubt[r] = {}
    <3>1. Open(r) /\ doubt' = doubt
      BY <1>1, <1>6, <2>4 DEF Open
    <3>2. want[r] # 0 /\ SameOK(r)'
      BY <1>1, <2>4, <3>1 DEF PathOK, UnwantedOK, SameOK
    <3>3. CASE Pending(r)
      <4>1. Pending(r)'
        BY <1>1, <1>2, <3>3 DEF Pending, Runs
      <4> QED BY <1>1, <3>2, <4>1, PathPending
    <3>4. CASE ~Pending(r)
      <4>1. \A i \in Job : ~PutsAt(i, r)
        BY <1>1, <1>4, <1>6, LockHeld DEF PutsAt, Holding
      <4>2. PICK o \in container : KeptAt(o, r)
        BY <1>1, <2>4, <3>2, <3>4, <4>1 DEF PathOK, WantedOK
      <4>3. o \notin job[j].found
        BY <1>1, <1>6, <4>2 DEF KeptAt
      <4>4. o \in container'
        BY <1>1, <4>3
      <4>5. KeptAt(o, r)'
        BY <1>1, <1>5, <1>6, <4>2, <4>4 DEF KeptAt, ObjectsAt
      <4> QED BY <1>1, <2>1, <3>2, <4>4, <4>5 DEF PathOK, WantedOK, UnwantedOK
    <3> QED BY <3>3, <3>4
  <2> QED BY <2>2, <2>3, <2>4
<1>7. CASE r # p
  <2>1. doubt'[r] = doubt[r]
    BY <1>1, <1>7
  <2>2. ~Uploading(j, r) /\ ~Uploading(j, r)'
    BY <1>3, <1>7 DEF Uploading
  <2>3. Removes(j, r) => Removes(j, r)'
    BY <1>1, <1>2 DEF Removes, Uploads, Deletes
  <2>4. ObjectsAt(r, container') = ObjectsAt(r, container)
    BY <1>1, <1>4, <1>7 DEF ObjectsAt
  <2> QED BY <1>1, <1>2, <2>1, <2>2, <2>3, <2>4, PathElse
<1> QED BY <1>6, <1>7

(* A deletion that lists: it finds all objects of a path that nobody puts at. *)
LEMMA MirrorDeleteList ==
    ASSUME MirrorInv, NEW j \in Job, DeleteList(j), NEW r \in WinPath
    PROVE  PathOK(r)'
<1> DEFINE w == [job[j] EXCEPT !.pc = "drop", !.found = ObjectsAt(job[j].src, Entries)]
<1>1. /\ BaseInv /\ WinInv /\ PathOK(r)
      /\ job[j].pc = "list" /\ job[j].kind \in Deletes /\ job' = [job EXCEPT ![j] = w]
      /\ UNCHANGED <<file, want, container, timers, doubt>>
  BY DEF MirrorInv, BaseInv, DeleteList, Runs, disk
<1>2. /\ w.pc = "drop" /\ w.kind = job[j].kind /\ w.src = job[j].src
      /\ w.found = ObjectsAt(job[j].src, Entries)
  BY <1>1 DEF WinInv, JobOK, WorkField
<1> HIDE DEF w
<1>3. job'[j] = w /\ \A i \in Job \ {j} : SameWork(i)
  BY <1>1, OthersSame
<1>4. ~Uploading(j, r) /\ ~Uploading(j, r)'
  BY <1>1, <1>2, <1>3 DEF Uploading
<1>5. ASSUME ~Open(r), Removes(j, r) PROVE Removes(j, r)'
  <2>1. job[j].src = r
    BY <1>5 DEF Removes
  <2>2. ASSUME NEW o \in ObjectsAt(r, container) PROVE o \in w.found
    <3>1. o \in container /\ o.path = r
      BY <2>2 DEF ObjectsAt
    <3>2. \A i \in Job : ~(job[i].pc = "replace" /\ job[i].path = o.path)
      BY <1>5, <3>1 DEF Open
    <3>3. o \in Entries
      BY <1>1, <3>1, <3>2, EntriesComplete
    <3> QED BY <1>2, <2>1, <3>1, <3>3 DEF ObjectsAt
  <2>3. ObjectsAt(r, container') \subseteq job'[j].found
    BY <1>1, <1>3, <2>2
  <2> QED BY <1>1, <1>2, <1>3, <2>1, <2>3 DEF Removes
<1> QED BY <1>1, <1>3, <1>4, <1>5, PathElse

(* A deletion whose listing fails. *)
LEMMA MirrorListFails ==
    ASSUME MirrorInv, NEW j \in Job, DeleteListFails(j), NEW r \in WinPath
    PROVE  PathOK(r)'
<1>1. /\ WinInv /\ PathOK(r) /\ SameOK(r) /\ DOMAIN doubt = WinPath
      /\ job[j].pc = "list" /\ job' = [job EXCEPT ![j] = NoWork]
      /\ Doubt({job[j].src}, "other")
      /\ UNCHANGED <<file, want, container, timers>>
  BY DEF MirrorInv, BaseInv, PathOK, DeleteListFails, Runs, Ends, disk, remote
<1>2. job'[j] = NoWork /\ \A i \in Job \ {j} : SameWork(i)
  BY <1>1, OthersSame
<1>3. CASE r = job[j].src
  <2>1. doubt'[r] # {}
    BY <1>1, <1>3 DEF Doubt
  <2> QED BY <1>1, <2>1, PathDoubted
<1>4. CASE r # job[j].src
  <2>1. doubt'[r] = doubt[r]
    BY <1>1, <1>4 DEF Doubt
  <2>2. ~Uploading(j, r) /\ ~Uploading(j, r)' /\ ~Removes(j, r)
    BY <1>1, <1>2, <1>4, NoWorkFields DEF Uploading, Removes
  <2> QED BY <1>1, <1>2, <2>1, <2>2, PathElse
<1> QED BY <1>3, <1>4

(* A deletion that deletes: unless it overlapped a save, the path has been left, and
   loses all it had. *)
LEMMA MirrorDrop ==
    ASSUME MirrorInv, NEW j \in Job, DeleteDrop(j), NEW r \in WinPath
    PROVE  PathOK(r)'
<1> DEFINE p == job[j].src
<1>1. /\ WinInv /\ PathOK(r) /\ SameOK(r) /\ DOMAIN doubt = WinPath /\ FoundOK
      /\ job[j].pc = "drop" /\ job[j].kind \in Deletes /\ job' = [job EXCEPT ![j] = NoWork]
      /\ container' = container \ job[j].found
      /\ doubt' = [doubt EXCEPT ![p] = @ \cup Races(j)]
      /\ UNCHANGED <<file, want, timers>>
  BY DEF MirrorInv, BaseInv, PathOK, DeleteDrop, Runs, Ends, disk
<1>2. job'[j] = NoWork /\ \A i \in Job \ {j} : job'[i] = job[i] /\ SameWork(i)
  BY <1>1, OthersSame
<1>3. CASE r = p
  <2>1. CASE doubt'[r] # {}
    BY <1>1, <2>1, PathDoubted
  <2>2. CASE doubt'[r] = {}
    <3>1. doubt[r] = {} /\ Races(j) = {}
      BY <1>1, <1>3, <2>2
    <3>2. file[r] = 0
      BY <1>3, <3>1 DEF Races, Overlap
    <3>3. want[r] = 0 /\ SameOK(r)'
      BY <1>1, <3>1, <3>2 DEF SameOK
    <3>4. Open(r)' => Open(r)
      BY <1>2, NoWorkFields DEF Open
    <3>5. ObjectsAt(r, container') \subseteq ObjectsAt(r, container)
      BY <1>1 DEF ObjectsAt
    <3>6. ObjectsAt(r, container') = {} \/ \E i \in Job : Removes(i, r)'
      <4>1. CASE ObjectsAt(r, container) = {}
        BY <3>5, <4>1
      <4>2. ASSUME NEW i \in Job, Removes(i, r)
            PROVE  ObjectsAt(r, container') = {} \/ \E k \in Job : Removes(k, r)'
        <5>1. CASE i = j
          <6>1. ObjectsAt(r, container) \subseteq job[j].found
            BY <1>1, <4>2, <5>1 DEF Removes
          <6> QED BY <1>1, <6>1 DEF ObjectsAt
        <5>2. CASE i # j
          <6>1. Removes(i, r)'
            BY <1>2, <3>5, <4>2, <5>2 DEF Removes
          <6> QED BY <6>1
        <5> QED BY <5>1, <5>2
      <4> QED BY <1>1, <3>1, <3>3, <4>1, <4>2 DEF PathOK, UnwantedOK
    <3> QED BY <1>1, <3>1, <3>3, <3>4, <3>6 DEF PathOK, WantedOK, UnwantedOK
  <2> QED BY <2>1, <2>2
<1>4. CASE r # p
  <2>1. doubt'[r] = doubt[r]
    BY <1>1, <1>4
  <2>2. ~Uploading(j, r) /\ ~Uploading(j, r)' /\ ~Removes(j, r)
    BY <1>1, <1>2, <1>4, NoWorkFields DEF Uploading, Removes
  <2>3. ObjectsAt(r, container') = ObjectsAt(r, container)
    BY <1>1, <1>4 DEF ObjectsAt, FoundOK
  <2> QED BY <1>1, <1>2, <2>1, <2>2, <2>3, PathElse
<1> QED BY <1>3, <1>4

(* A deletion that ends with an error. *)
LEMMA MirrorDropFails ==
    ASSUME MirrorInv, NEW j \in Job, NEW kept \in SUBSET job[j].found, DeleteDropFails(j, kept),
           NEW r \in WinPath
    PROVE  PathOK(r)'
<1> DEFINE p == job[j].src
<1>1. /\ WinInv /\ PathOK(r) /\ SameOK(r) /\ DOMAIN doubt = WinPath /\ FoundOK
      /\ job[j].pc = "drop" /\ job' = [job EXCEPT ![j] = NoWork]
      /\ container' = container \ (job[j].found \ kept)
      /\ doubt' = [doubt EXCEPT ![p] = @ \cup {"other"} \cup Races(j)]
      /\ UNCHANGED <<file, want, timers>>
  BY DEF MirrorInv, BaseInv, PathOK, DeleteDropFails, Runs, Ends, disk, provider
<1>2. job'[j] = NoWork /\ \A i \in Job \ {j} : job'[i] = job[i] /\ SameWork(i)
  BY <1>1, OthersSame
<1>3. CASE r = p
  <2>1. doubt'[r] # {}
    BY <1>1, <1>3
  <2> QED BY <1>1, <2>1, PathDoubted
<1>4. CASE r # p
  <2>1. doubt'[r] = doubt[r]
    BY <1>1, <1>4
  <2>2. ~Uploading(j, r) /\ ~Uploading(j, r)' /\ ~Removes(j, r)
    BY <1>1, <1>2, <1>4, NoWorkFields DEF Uploading, Removes
  <2>3. ObjectsAt(r, container') = ObjectsAt(r, container)
    BY <1>1, <1>4 DEF ObjectsAt, FoundOK
  <2> QED BY <1>1, <1>2, <2>1, <2>2, <2>3, PathElse
<1> QED BY <1>3, <1>4

(* The restorations: a placeholder that comes back is doubted. *)
LEMMA MirrorRestore ==
    ASSUME MirrorInv, NEW j \in Job,
           \/ \E p \in WinPath : RestoreStops(p) \/ RestoreFind(j, p)
           \/ RestoreNoHead(j) \/ \E o \in job[j].found : RestoreHead(j, o),
           NEW r \in WinPath
    PROVE  PathOK(r)'
<1>1. /\ WinInv /\ PathOK(r) /\ SameOK(r)
      /\ DOMAIN doubt = WinPath /\ DOMAIN file = WinPath
  BY DEF MirrorInv, BaseInv, PathOK
<1>2. ASSUME NEW p \in WinPath, RestoreStops(p) PROVE PathOK(r)'
  <2>1. UNCHANGED <<file, want, container, timers, job, doubt>>
    BY <1>2 DEF RestoreStops, disk, remote
  <2>2. \A i \in Job : SameWork(i) /\ (Removes(i, r) => Removes(i, r)')
    BY <2>1 DEF SameWork, Removes
  <2> QED BY <1>1, <2>1, <2>2, PathUntouched
<1>3. ASSUME NEW p \in WinPath, RestoreFind(j, p) PROVE PathOK(r)'
  <2> DEFINE t == [NoWork EXCEPT !.kind = "restore", !.pc = "head", !.path = p,
                                 !.found = ObjectsAt(p, Entries)]
             w == IF ObjectsAt(p, Entries) = {} THEN NoWork ELSE t
  <2>1. /\ job' = [job EXCEPT ![j] = w] /\ job[j] = NoWork
        /\ UNCHANGED <<file, want, container, timers, doubt>>
    BY <1>3 DEF RestoreFind, disk
  <2>2. t.pc = "head"
    BY DEF NoWork
  <2>3. w.pc \in {"end", "head"}
    BY <2>2, NoWorkFields
  <2> HIDE DEF w
  <2>4. job'[j] = w /\ \A i \in Job \ {j} : SameWork(i)
    BY <1>1, <2>1, OthersSame
  <2>5. ~Uploading(j, r) /\ ~Uploading(j, r)' /\ ~Removes(j, r)
    BY <2>1, <2>3, <2>4, NoWorkFields DEF Uploading, Removes
  <2> QED BY <1>1, <2>1, <2>4, <2>5, PathElse
<1>4. ASSUME job[j].pc = "head", Ends(j)
      PROVE  /\ \A i \in Job \ {j} : SameWork(i)
             /\ ~Uploading(j, r) /\ ~Uploading(j, r)' /\ ~Removes(j, r)
  <2>1. job'[j] = NoWork /\ \A i \in Job \ {j} : SameWork(i)
    BY <1>1, <1>4, OthersSame DEF Ends
  <2> QED BY <1>4, <2>1, NoWorkFields DEF Uploading, Removes
<1>5. CASE RestoreNoHead(j)
  <2>1. job[j].pc = "head" /\ Ends(j) /\ UNCHANGED <<file, want, container, timers, doubt>>
    BY <1>5 DEF RestoreNoHead, Runs, disk, provider
  <2> QED BY <1>1, <1>4, <2>1, PathElse
<1>6. ASSUME NEW o \in job[j].found, RestoreHead(j, o) PROVE PathOK(r)'
  <2> DEFINE p == job[j].path
  <2>1. /\ job[j].pc = "head" /\ Ends(j) /\ UNCHANGED <<want, container>>
        /\ IF file[p] = 0
           THEN /\ file' = [file EXCEPT ![p] = o.content] /\ timers' = timers \cup {p}
                /\ Doubt({p}, "other")
           ELSE UNCHANGED <<file, timers, doubt>>
    BY <1>6 DEF RestoreHead, Runs
  <2>2. CASE r = p /\ file[p] = 0
    <3>1. want'[r] = 0 /\ doubt'[r] # {}
      BY <1>1, <2>1, <2>2 DEF SameOK, Doubt
    <3> QED BY <3>1 DEF PathOK, SameOK, WantedOK, UnwantedOK
  <2>3. CASE ~(r = p /\ file[p] = 0)
    <3>1. /\ file'[r] = file[r] /\ doubt'[r] = doubt[r]
          /\ r \in timers' <=> r \in timers
      BY <1>1, <2>1, <2>3 DEF Doubt
    <3> QED BY <1>1, <1>4, <2>1, <3>1, PathElse
  <2> QED BY <2>2, <2>3
<1> QED BY <1>2, <1>3, <1>5, <1>6

(* What passes with time, and a restart: who is interrupted leaves a doubt. *)
LEMMA MirrorWorld ==
    ASSUME MirrorInv, NEW r \in WinPath,
           \/ \E p \in WinPath : WindowElapses(p) \/ DeleteForgotten(p)
           \/ ListingExpires \/ Restart \/ UNCHANGED winVars
    PROVE  PathOK(r)'
<1>1. WinInv /\ PathOK(r) /\ SameOK(r)
  BY DEF MirrorInv, BaseInv, PathOK
<1>2. CASE \/ \E p \in WinPath : WindowElapses(p) \/ DeleteForgotten(p)
           \/ ListingExpires \/ UNCHANGED winVars
  <2>1. UNCHANGED <<file, want, container, timers, job, doubt>>
    BY <1>2 DEF WindowElapses, DeleteForgotten, ListingExpires, winVars, disk, remote, provider
  <2>2. \A i \in Job : SameWork(i) /\ (Removes(i, r) => Removes(i, r)')
    BY <2>1 DEF SameWork, Removes
  <2> QED BY <1>1, <2>1, <2>2, PathUntouched
<1>3. CASE Restart
  <2>1. /\ UNCHANGED <<file, want, container>> /\ job' = [i \in Job |-> NoWork]
        /\ doubt' = [p \in WinPath |-> IF Quiescent(p) THEN doubt[p]
                                       ELSE doubt[p] \cup {"other"}]
    BY <1>3 DEF Restart, disk
  <2>2. CASE ~Quiescent(r)
    <3>1. doubt'[r] # {}
      BY <2>1, <2>2
    <3> QED BY <1>1, <2>1, <3>1, PathDoubted
  <2>3. CASE Quiescent(r)
    <3>1. doubt'[r] = doubt[r] /\ r \notin timers
      BY <2>1, <2>3 DEF Quiescent
    <3>2. ASSUME NEW i \in Job, job[i].path = r \/ job[i].src = r PROVE job[i] = NoWork
      BY <2>3, <3>2 DEF Quiescent, Works
    <3>3. \A i \in Job : ~Uploading(i, r) /\ ~Removes(i, r)
      BY <3>2, NoWorkFields DEF Uploading, Removes, Deletes
    <3>4. \A i \in Job : ~Uploading(i, r)'
      BY <2>1, NoWorkFields DEF Uploading
    <3>5. ~Pending(r)
      BY <3>1, <3>3 DEF Pending, Uploading, Runs
    <3>6. SameOK(r)'
      BY <1>1, <2>1, <3>1 DEF SameOK
    <3>7. \A i \in Job : ~PutsAt(i, r) /\ ~PutsAt(i, r)'
      BY <3>3, <3>4 DEF PutsAt, Uploading
    <3>8. ASSUME NEW o \in container, KeptAt(o, r) PROVE o \in container' /\ KeptAt(o, r)'
      BY <2>1, <3>4, <3>8 DEF KeptAt, Uploading
    <3>9. WantedOK(r)'
      BY <1>1, <2>1, <3>1, <3>5, <3>7, <3>8 DEF PathOK, WantedOK
    <3>10. ~Open(r)'
      BY <3>4 DEF Open, Uploading
    <3>11. UnwantedOK(r)'
      BY <1>1, <2>1, <3>1, <3>3, <3>10 DEF PathOK, UnwantedOK
    <3> QED BY <3>6, <3>9, <3>11 DEF PathOK
  <2> QED BY <2>2, <2>3
<1> QED BY <1>2, <1>3

(* A step keeps the invariant. *)
LEMMA MirrorStep ==
    ASSUME MirrorInv, [WinNext]_winVars
    PROVE  MirrorInv'
<1>1. BaseInv /\ WinInv /\ WinInv'
  BY WinStep DEF MirrorInv, BaseInv
<1>2. ASSUME NEW j \in Job, User(j) \/ Watcher(j) \/ Goroutine(j)
      PROVE  BaseInv' /\ \A r \in WinPath : PathOK(r)'
  <2>1. CASE User(j) \/ \E p \in WinPath : TimerFires(j, p)
    BY <1>1, <2>1, BaseUser, MirrorUser
  <2>2. CASE \/ \E p \in WinPath : RestoreStops(p) \/ RestoreFind(j, p)
             \/ RestoreNoHead(j) \/ \E o \in job[j].found : RestoreHead(j, o)
    BY <1>1, <2>2, BaseRestore, MirrorRestore
  <2>3. CASE UploadGone(j)
    BY <1>1, <2>3, BaseUpload, MirrorGone
  <2>4. CASE UploadSkipped(j)
    BY <1>1, <2>4, BaseUpload, MirrorSkipped
  <2>5. CASE UploadOpen(j) \/ UploadListFails(j)
    <3>1. \E f : Opens(j, f)
      BY <2>5 DEF UploadOpen, UploadListFails
    <3> QED BY <1>1, <2>5, <3>1, BaseUpload, MirrorOpens
  <2>6. CASE \E v \in Content : Puts(j, v)
    BY <1>1, <2>6, BasePuts, MirrorPuts
  <2>7. CASE PutFails(j)
    BY <1>1, <2>7, BaseUpload, MirrorPutFails
  <2>8. CASE \E kept \in SUBSET job[j].found : UploadReplace(j, kept)
    BY <1>1, <2>8, BaseUpload, MirrorReplace
  <2>9. CASE DeleteList(j)
    BY <1>1, <2>9, BaseDelete, MirrorDeleteList
  <2>10. CASE DeleteListFails(j)
    BY <1>1, <2>10, BaseDelete, MirrorListFails
  <2>11. CASE DeleteDrop(j)
    BY <1>1, <2>11, BaseDelete, MirrorDrop
  <2>12. CASE \E kept \in SUBSET job[j].found : DeleteDropFails(j, kept)
    BY <1>1, <2>12, BaseDelete, MirrorDropFails
  <2> QED BY <1>2, <2>1, <2>2, <2>3, <2>4, <2>5, <2>6, <2>7, <2>8, <2>9, <2>10, <2>11, <2>12
          DEF Watcher, Goroutine
<1>3. CASE \/ \E p \in WinPath : WindowElapses(p) \/ DeleteForgotten(p)
           \/ ListingExpires \/ Restart \/ UNCHANGED winVars
  BY <1>1, <1>3, BaseWorld, MirrorWorld DEF MirrorInv
<1>4. CASE \E j \in Job : User(j) \/ Watcher(j) \/ Goroutine(j)
  BY <1>2, <1>4 DEF MirrorInv
<1> QED BY <1>3, <1>4 DEF WinNext

(* The invariant holds at the start. *)
LEMMA MirrorInit ==
    ASSUME WinInit
    PROVE  MirrorInv
<1>1. /\ file = [p \in WinPath |-> 0] /\ want = file /\ ops = 0
      /\ container = {} /\ putCount = 0 /\ ~listing.present
      /\ job = [j \in Job |-> NoWork] /\ doubt = [p \in WinPath |-> {}]
      /\ lockOf = [p \in WinPath |-> NoJob]
  BY DEF WinInit, NoList
<1>2. WinInv
  BY <1>1, NoWorkShape DEF WinInv, JobOK, Runs, Holding
<1>3. ObjectsOK /\ ListOK
  BY <1>1 DEF ObjectsOK, ListOK
<1>4. FoundOK
  BY <1>1, NoWorkFields DEF FoundOK, Holding
<1>5. \A p \in WinPath : ~Open(p) /\ ObjectsAt(p, container) = {}
  BY <1>1, NoWorkFields DEF Open, ObjectsAt
<1>6. \A p \in WinPath : PathOK(p)
  BY <1>1, <1>5 DEF PathOK, SameOK, WantedOK, UnwantedOK
<1> QED BY <1>1, <1>2, <1>3, <1>4, <1>6 DEF MirrorInv, BaseInv

(* The invariant, for any goroutines, paths, sizes and bounds. *)
LEMMA MirrorInvariant == WinSpec => []MirrorInv
<1>1. WinInit => MirrorInv
  BY MirrorInit
<1>2. MirrorInv /\ [WinNext]_winVars => MirrorInv'
  BY MirrorStep
<1> QED BY <1>1, <1>2, PTL DEF WinSpec

(* Mirrors, for any goroutines, paths, sizes and bounds: once nothing is under way for a
   path and none of the named reasons to doubt it is there, the disk and the container
   have what the user left (mount_windows.go:1178, :956).  With no timer, and no goroutine at
   the path, neither disjunct "on its way" of the invariant is left. *)
THEOREM ContainerMirrors == WinSpec => []Mirrors
<1>1. ASSUME MirrorInv PROVE Mirrors
  <2>1. ASSUME NEW p \in WinPath, Quiescent(p), doubt[p] = {} PROVE Mirrored(p)
    <3>1. SameOK(p) /\ WantedOK(p) /\ UnwantedOK(p)
      BY <1>1 DEF MirrorInv, PathOK
    <3>2. ASSUME NEW i \in Job, job[i].path = p \/ job[i].src = p PROVE job[i] = NoWork
      BY <2>1, <3>2 DEF Quiescent, Works
    <3>3. \A i \in Job : ~Uploading(i, p) /\ ~Removes(i, p)
      BY <3>2, NoWorkFields DEF Uploading, Removes, Deletes
    <3>4. ~Pending(p) /\ \A i \in Job : ~PutsAt(i, p)
      BY <2>1, <3>3 DEF Pending, PutsAt, Uploading, Runs, Quiescent
    <3>5. file[p] = want[p]
      BY <2>1, <3>1 DEF SameOK
    <3>6. CASE want[p] = 0
      BY <2>1, <3>1, <3>3, <3>5, <3>6 DEF UnwantedOK, Mirrored
    <3>7. CASE want[p] # 0
      <4>1. PICK o \in container : KeptAt(o, p)
        BY <2>1, <3>1, <3>4, <3>7 DEF WantedOK
      <4>2. Holds(p, want[p], container)
        BY <4>1 DEF KeptAt, Holds
      <4> QED BY <3>5, <3>7, <4>2 DEF Mirrored
    <3> QED BY <3>6, <3>7
  <2> QED BY <2>1 DEF Mirrors
<1> QED BY <1>1, MirrorInvariant, PTL
-----------------------------------------------------------------------------

(* WindowsSync: what a rename knows of its destination when it deletes its source. *)

\* An object put at a rename's destination since it began.
NewAt(o, j) == o \in ObjectsAt(job[j].path, container) /\ o.id > job[j].since

\* The destination has what was put since, or what is on disk, or says why it may not.
Vouched(j) ==
    \/ \E o \in container : NewAt(o, j)
    \/ Holds(job[j].path, file[job[j].path], container)
    \/ doubt[job[j].path] \cap {"duplicate", "raced"} # {}

\* The destination of a rename that the user has left alone has a file.  An upload that
\* replaces objects there spares one put since, unless a deletion has taken that.
RenameOK(j) ==
    LeftAlone(j) =>
        LET q == job[j].path
        IN  /\ q \in WinPath /\ q # job[j].src /\ file[q] # 0
            /\ job[j].since \in Nat /\ job[j].since <= putCount
            /\ \A k \in Job :
                   job[k].pc = "replace" /\ job[k].path = q
                   => \/ "raced" \in doubt[q]
                      \/ \E o \in container : NewAt(o, j) /\ o \notin job[k].found
            /\ job[j].pc \in {"list", "drop"} => Vouched(j)

SourceInv == MirrorInv /\ \A j \in Job : RenameOK(j)

\* A step that does not make a rename of a goroutine: it goes on, or is none.
Follows(j) ==
    job'[j].kind = "rename" =>
        /\ job[j].kind = "rename" /\ job'[j].path = job[j].path /\ job'[j].src = job[j].src
        /\ job'[j].since = job[j].since /\ job'[j].changed = job[j].changed

(* A step that leaves a rename's destination alone. *)
LEMMA RenameKeeps ==
    ASSUME NEW j \in Job, LeftAlone(j) => RenameOK(j), Follows(j),
           LeftAlone(j) => /\ file'[job[j].path] = file[job[j].path]
                           /\ ObjectsAt(job[j].path, container') = ObjectsAt(job[j].path, container)
                           /\ doubt[job[j].path] \subseteq doubt'[job[j].path],
           putCount \in Nat, putCount' = putCount \/ putCount' = putCount + 1,
           \A k \in Job : job'[k].pc = "replace" /\ job'[k].path = job[j].path =>
               /\ job[k].pc = "replace" /\ job'[k].path = job[k].path
               /\ job'[k].found = job[k].found,
           job'[j].pc \in {"list", "drop"} => job[j].pc \in {"list", "drop"}
    PROVE  RenameOK(j)'
<1> DEFINE q == job[j].path
<1> SUFFICES ASSUME LeftAlone(j)' PROVE RenameOK(j)'
  BY DEF RenameOK
<1>1. /\ LeftAlone(j) /\ RenameOK(j)
      /\ job'[j].path = q /\ job'[j].src = job[j].src /\ job'[j].since = job[j].since
  BY DEF LeftAlone, Follows
<1>2. /\ file'[q] = file[q] /\ doubt[q] \subseteq doubt'[q]
      /\ ObjectsAt(q, container') = ObjectsAt(q, container)
  BY <1>1
<1>3. \A o \in container : NewAt(o, j) => o \in container' /\ NewAt(o, j)'
  BY <1>1, <1>2 DEF NewAt, ObjectsAt
<1>4. Vouched(j) => Vouched(j)'
  BY <1>1, <1>2, <1>3 DEF Vouched, Holds
<1>5. ASSUME NEW k \in Job, job'[k].pc = "replace", job'[k].path = q
      PROVE  \/ "raced" \in doubt'[q]
             \/ \E o \in container' : NewAt(o, j)' /\ o \notin job'[k].found
  BY <1>1, <1>2, <1>3, <1>5 DEF RenameOK
<1>6. /\ q \in WinPath /\ q # job[j].src /\ file[q] # 0
      /\ job[j].since \in Nat /\ job[j].since <= putCount
      /\ job[j].pc \in {"list", "drop"} => Vouched(j)
  BY <1>1 DEF RenameOK
<1>7. job'[j].pc \in {"list", "drop"} => Vouched(j)'
  BY <1>4, <1>6
<1> QED BY <1>1, <1>2, <1>5, <1>6, <1>7 DEF RenameOK

(* A goroutine starts, not a rename, and the user has changed what is at the paths. *)
LEMMA RenameSpawns ==
    ASSUME SourceInv, NEW j \in Job, NEW k, NEW l \in {"lock", "list"}, NEW p, NEW s, NEW paths,
           Spawn(j, k, l, p, s, paths), UNCHANGED <<container, putCount, doubt>>,
           \A x \in WinPath \ paths : file'[x] = file[x],
           NEW i \in Job, i # j \/ k # "rename"
    PROVE  RenameOK(i)'
<1>1. WinInv /\ RenameOK(i) /\ putCount \in Nat
  BY DEF SourceInv, MirrorInv, BaseInv, ObjectsOK
<1>2. /\ job'[j].kind = k /\ job'[j].pc = l
      /\ \A n \in Job \ {j} : /\ SameWork(n)
                              /\ LeftAlone(n)' => (job[n].path \notin paths /\ job'[n] = job[n])
  BY <1>1, Spawns
<1> SUFFICES ASSUME LeftAlone(i)' PROVE RenameOK(i)'
  BY DEF RenameOK
<1>3. i # j
  BY <1>2 DEF LeftAlone
<1>4. job'[i] = job[i] /\ job[i].path \notin paths /\ LeftAlone(i)
  BY <1>2, <1>3 DEF LeftAlone
<1>5. job[i].path \in WinPath
  BY <1>1, <1>4 DEF RenameOK
<1>6. \A n \in Job : job'[n].pc = "replace" =>
          /\ job[n].pc = "replace" /\ job'[n].path = job[n].path
          /\ job'[n].found = job[n].found
  BY <1>2 DEF SameWork
<1>7. Follows(i)
  BY <1>4 DEF Follows
<1>8. file'[job[i].path] = file[job[i].path]
  BY <1>4, <1>5
<1> QED BY <1>1, <1>4, <1>6, <1>7, <1>8, RenameKeeps

(* The user's operations, and the debounced upload. *)
LEMMA SourceUser ==
    ASSUME SourceInv, NEW j \in Job, User(j) \/ \E p \in WinPath : TimerFires(j, p),
           NEW i \in Job
    PROVE  RenameOK(i)'
<1>1. /\ WinInv /\ RenameOK(i) /\ DOMAIN file = WinPath /\ putCount \in Nat
  BY DEF SourceInv, MirrorInv, BaseInv, ObjectsOK
<1>2. ASSUME NEW p \in WinPath, Save(j, p) PROVE RenameOK(i)'
  <2>1. /\ Spawn(j, "upload", "lock", p, NoWinPath, {p})
        /\ UNCHANGED <<container, putCount, doubt>>
        /\ file' = [file EXCEPT ![p] = ops']
    BY <1>2 DEF Save, remote
  <2>2. \A x \in WinPath \ {p} : file'[x] = file[x]
    BY <1>1, <2>1
  <2> QED BY <2>1, <2>2, RenameSpawns
<1>3. ASSUME NEW p \in WinPath, Close(j, p) \/ TimerFires(j, p) PROVE RenameOK(i)'
  <2>1. /\ Spawn(j, "upload", "lock", p, NoWinPath, {})
        /\ UNCHANGED <<file, container, putCount, doubt>>
    BY <1>3 DEF Close, TimerFires, remote, disk
  <2> QED BY <2>1, RenameSpawns
<1>4. ASSUME NEW p \in WinPath, Remove(j, p) PROVE RenameOK(i)'
  <2>1. /\ Spawn(j, "delete", "list", NoWinPath, p, {p})
        /\ UNCHANGED <<container, putCount, doubt>>
        /\ file' = [file EXCEPT ![p] = 0]
    BY <1>4 DEF Remove, remote
  <2>2. \A x \in WinPath \ {p} : file'[x] = file[x]
    BY <1>1, <2>1
  <2> QED BY <2>1, <2>2, RenameSpawns
<1>5. ASSUME NEW p \in WinPath, NEW q \in WinPath, Move(j, p, q) PROVE RenameOK(i)'
  <2>1. /\ Spawn(j, "rename", "lock", q, p, {p, q})
        /\ UNCHANGED <<container, putCount, doubt>>
        /\ file' = [file EXCEPT ![p] = 0, ![q] = file[p]]
        /\ p # q /\ file[p] # 0 /\ ~Open(q)
    BY <1>5 DEF Move, remote
  <2>2. CASE i # j
    <3>1. \A x \in WinPath \ {p, q} : file'[x] = file[x]
      BY <1>1, <2>1
    <3> QED BY <2>1, <2>2, <3>1, RenameSpawns
  <2>3. CASE i = j
    <3>1. /\ job'[j].pc = "lock" /\ job'[j].path = q /\ job'[j].src = p
          /\ job'[j].since = putCount
          /\ \A n \in Job \ {j} : SameWork(n)
      BY <1>1, <2>1, Spawns
    <3>2. file'[q] # 0
      BY <1>1, <2>1
    <3>3. \A n \in Job : ~(job'[n].pc = "replace" /\ job'[n].path = q)
      BY <2>1, <3>1 DEF Open, SameWork
    <3> QED BY <1>1, <2>1, <2>3, <3>1, <3>2, <3>3 DEF RenameOK
  <2> QED BY <2>2, <2>3
<1>6. ASSUME NEW p \in WinPath, MoveOut(p) PROVE RenameOK(i)'
  <2>1. /\ job' = Changes({p}) /\ UNCHANGED <<container, putCount>>
        /\ file' = [file EXCEPT ![p] = 0]
    BY <1>6 DEF MoveOut, Leaves, remote
  <2>2. /\ \A n \in Job : SameWork(n)
        /\ LeftAlone(i)' => (job[i].path # p /\ job'[i] = job[i])
    <3>1. WinInv /\ job' = Changes({p})
      BY <1>1, <2>1
    <3> QED BY <3>1, ChangesKeep DEF SameWork, LeftAlone
  <2> SUFFICES ASSUME LeftAlone(i)' PROVE RenameOK(i)'
    BY DEF RenameOK
  <2>3. job[i].path # p /\ job'[i] = job[i] /\ LeftAlone(i) /\ Follows(i)
    BY <2>2 DEF LeftAlone, Follows
  <2>4. job[i].path \in WinPath
    BY <1>1, <2>3 DEF RenameOK
  <2>5. Doubt({p}, "other")
    BY <1>6 DEF MoveOut
  <2>6. doubt[job[i].path] \subseteq doubt'[job[i].path]
    BY <2>4, <2>5 DEF Doubt
  <2>7. file'[job[i].path] = file[job[i].path]
    BY <1>1, <2>1, <2>3, <2>4
  <2>8. \A n \in Job : job'[n].pc = "replace" =>
            /\ job[n].pc = "replace" /\ job'[n].path = job[n].path
            /\ job'[n].found = job[n].found
    BY <2>2 DEF SameWork
  <2> QED BY <1>1, <2>1, <2>3, <2>6, <2>7, <2>8, RenameKeeps
<1> QED BY <1>2, <1>3, <1>4, <1>5, <1>6 DEF User

(* A step of one goroutine that leaves a rename's destination alone. *)
LEMMA RenameElse ==
    ASSUME SourceInv, NEW j \in Job, NEW i \in Job,
           \A n \in Job \ {j} : job'[n] = job[n], Follows(j),
           job'[j].pc # "replace" \/ job'[j].path # job[i].path,
           i # j \/ (job'[j].pc \in {"list", "drop"} => job[j].pc \in {"list", "drop"}),
           putCount' = putCount \/ putCount' = putCount + 1,
           LeftAlone(i) => /\ file'[job[i].path] = file[job[i].path]
                           /\ ObjectsAt(job[i].path, container') = ObjectsAt(job[i].path, container)
                           /\ doubt[job[i].path] \subseteq doubt'[job[i].path]
    PROVE  RenameOK(i)'
<1>1. RenameOK(i) /\ putCount \in Nat
  BY DEF SourceInv, MirrorInv, BaseInv, ObjectsOK
<1>2. Follows(i)
  BY DEF Follows
<1>3. job'[i].pc \in {"list", "drop"} => job[i].pc \in {"list", "drop"}
  OBVIOUS
<1>4. \A n \in Job : job'[n].pc = "replace" /\ job'[n].path = job[i].path =>
          /\ job[n].pc = "replace" /\ job'[n].path = job[n].path
          /\ job'[n].found = job[n].found
  OBVIOUS
<1> QED BY <1>1, <1>2, <1>3, <1>4, RenameKeeps

(* The uploads' steps but the put and the replacement. *)
LEMMA SourceUpload ==
    ASSUME SourceInv, NEW j \in Job,
           \/ UploadGone(j) \/ UploadSkipped(j) \/ UploadOpen(j) \/ UploadListFails(j)
           \/ PutFails(j),
           NEW i \in Job
    PROVE  RenameOK(i)'
<1>1. WinInv /\ DOMAIN doubt = WinPath /\ RenameOK(i) /\ putCount \in Nat
  BY DEF SourceInv, MirrorInv, BaseInv, ObjectsOK
<1>2. LeftAlone(i) => job[i].path \in WinPath
  BY <1>1 DEF RenameOK
<1>3. ASSUME NEW x \in WinPath, NEW paths, NEW why, Doubt(paths, why)
      PROVE  doubt[x] \subseteq doubt'[x]
  BY <1>3 DEF Doubt
<1>4. CASE UploadGone(j) \/ PutFails(j)
  <2>1. /\ job' = [job EXCEPT ![j] = NoWork] /\ UNCHANGED <<file, container, putCount>>
        /\ \E paths : Doubt(paths, "other")
    BY <1>4 DEF UploadGone, PutFails, Ends, disk, remote
  <2>2. job'[j] = NoWork /\ \A n \in Job \ {j} : job'[n] = job[n]
    BY <1>1, <2>1, OthersSame
  <2>3. Follows(j) /\ job'[j].pc = "end"
    BY <2>2, NoWorkFields DEF Follows
  <2>4. LeftAlone(i) => doubt[job[i].path] \subseteq doubt'[job[i].path]
    BY <1>2, <1>3, <2>1
  <2> QED BY <2>1, <2>2, <2>3, <2>4, RenameElse
<1>5. CASE UploadOpen(j) \/ UploadListFails(j)
  <2>1. PICK f : Opens(j, f)
    BY <1>5 DEF UploadOpen, UploadListFails
  <2>2. UNCHANGED <<file, container, putCount, doubt>>
    BY <2>1 DEF Opens, disk
  <2>3. /\ \A n \in Job \ {j} : job'[n] = job[n]
        /\ Follows(j) /\ job'[j].pc = "put"
    BY <1>1, <2>1, OpensMoves DEF Follows
  <2> QED BY <2>2, <2>3, RenameElse
<1>6. CASE UploadSkipped(j)
  <2> DEFINE p == job[j].path
  <2>1. /\ Uploaded(j) /\ job[j].pc = "lock" /\ UNCHANGED <<file, container, putCount>>
        /\ IF Holds(p, file[p], container) THEN UNCHANGED doubt ELSE Doubt({p}, "duplicate")
    BY <1>6 DEF UploadSkipped, Locks, Runs, disk, remote
  <2>2. /\ \A n \in Job \ {j} : job'[n] = job[n]
        /\ Follows(j) /\ job'[j].pc \in {"list", "end"}
    BY <1>1, <2>1, UploadedMoves, NoWorkFields DEF Follows
  <2>3. LeftAlone(i) => doubt[job[i].path] \subseteq doubt'[job[i].path]
    BY <1>2, <1>3, <2>1
  <2>4. CASE i # j
    BY <2>1, <2>2, <2>3, <2>4, RenameElse
  <2>5. CASE i = j
    <3> SUFFICES ASSUME LeftAlone(j)' PROVE RenameOK(j)'
      BY <2>5 DEF RenameOK
    <3>1. /\ LeftAlone(j) /\ job'[j].path = p /\ job'[j].src = job[j].src
          /\ job'[j].since = job[j].since /\ p \in WinPath
      BY <1>2, <2>2, <2>5 DEF LeftAlone, Follows
    <3>2. Vouched(j)'
      <4>1. CASE Holds(p, file[p], container)
        <5>1. Holds(p, file'[p], container')
          BY <2>1, <4>1
        <5> QED BY <3>1, <5>1 DEF Vouched
      <4>2. CASE ~Holds(p, file[p], container)
        <5>1. "duplicate" \in doubt'[p]
          BY <2>1, <3>1, <4>2 DEF Doubt
        <5> QED BY <3>1, <5>1 DEF Vouched
      <4> QED BY <4>1, <4>2
    <3>3. ASSUME NEW o \in container, NewAt(o, j) PROVE o \in container' /\ NewAt(o, j)'
      BY <2>1, <3>1, <3>3 DEF NewAt
    <3>4. ASSUME NEW n \in Job, job'[n].pc = "replace", job'[n].path = p
          PROVE  \/ "raced" \in doubt'[p]
                 \/ \E o \in container' : NewAt(o, j)' /\ o \notin job'[n].found
      <4>1. job[n].pc = "replace" /\ job[n].path = p /\ job'[n].found = job[n].found
        BY <2>2, <3>4
      <4> QED BY <1>1, <2>3, <2>5, <3>1, <3>3, <4>1 DEF RenameOK
    <3> QED BY <1>1, <2>1, <2>5, <3>1, <3>2, <3>4 DEF RenameOK
  <2> QED BY <2>4, <2>5
<1> QED BY <1>4, <1>5, <1>6

(* The put: at the destination, it is new, and nobody has found it. *)
LEMMA SourcePuts ==
    ASSUME SourceInv, WinInv', NEW j \in Job, NEW v \in Content, Puts(j, v), NEW i \in Job
    PROVE  RenameOK(i)'
<1> DEFINE p == job[j].path
<1>1. /\ BaseInv /\ WinInv /\ RenameOK(i) /\ putCount \in Nat
      /\ UNCHANGED <<file, doubt>> /\ putCount' = putCount + 1
  BY DEF SourceInv, MirrorInv, BaseInv, ObjectsOK, Puts, disk
<1>2. /\ \A n \in Job \ {j} : job'[n] = job[n]
      /\ job[j].pc = "put" /\ job'[j].pc = "replace"
      /\ job'[j].path = p /\ job'[j].found = job[j].found /\ Follows(j)
  BY <1>1, BasePuts DEF Follows
<1>3. PICK o : /\ container' = container \cup {o} /\ o.id = putCount + 1
               /\ o.path = p /\ \A n \in Job : o \notin job[n].found
  BY <1>1, BasePuts
<1>4. CASE job[i].path # p
  <2>1. ObjectsAt(job[i].path, container') = ObjectsAt(job[i].path, container)
    BY <1>3, <1>4 DEF ObjectsAt
  <2>2. i # j
    BY <1>4
  <2> QED BY <1>1, <1>2, <1>4, <2>1, <2>2, RenameElse
<1>5. CASE job[i].path = p
  <2> SUFFICES ASSUME LeftAlone(i)' PROVE RenameOK(i)'
    BY DEF RenameOK
  <2>1. /\ LeftAlone(i) /\ job'[i].path = p /\ job'[i].src = job[i].src
        /\ job'[i].since = job[i].since
    BY <1>2, <1>5 DEF LeftAlone, Follows
  <2>2. /\ p \in WinPath /\ p # job[i].src /\ file[p] # 0
        /\ job[i].since \in Nat /\ job[i].since <= putCount
    BY <1>1, <1>5, <2>1 DEF RenameOK
  <2>3. o \in container' /\ NewAt(o, i)'
    <3>1. o.id > job'[i].since
      BY <1>1, <1>3, <2>1, <2>2
    <3> QED BY <1>3, <2>1, <3>1 DEF NewAt, ObjectsAt
  <2>4. \A n \in Job : o \notin job'[n].found
    BY <1>2, <1>3
  <2>5. Vouched(i)'
    BY <2>3 DEF Vouched
  <2> QED BY <1>1, <2>1, <2>2, <2>3, <2>4, <2>5 DEF RenameOK
<1> QED BY <1>4, <1>5

(* The end of an upload at the destination. *)
LEMMA SourceReplace ==
    ASSUME SourceInv, NEW j \in Job, NEW kept \in SUBSET job[j].found, UploadReplace(j, kept),
           NEW i \in Job
    PROVE  RenameOK(i)'
<1> DEFINE p == job[j].path
           reset == Holds(p, want[p], container') /\ ~Deleting(p)
<1>1. /\ WinInv /\ RenameOK(i) /\ DOMAIN doubt = WinPath /\ FoundOK /\ ObjectsOK
      /\ \A x \in WinPath : SameOK(x)
      /\ job[j].pc = "replace" /\ Uploaded(j)
      /\ container' = container \ (job[j].found \ kept)
      /\ doubt' = IF reset THEN [doubt EXCEPT ![p] = {}] ELSE doubt
      /\ UNCHANGED <<file, want, putCount>>
  BY DEF SourceInv, MirrorInv, BaseInv, PathOK, UploadReplace, Runs, disk
<1>2. /\ \A n \in Job \ {j} : job'[n] = job[n]
      /\ Follows(j) /\ job'[j].pc \in {"list", "end"}
  BY <1>1, UploadedMoves, NoWorkFields DEF Follows
<1>3. Holding(j) /\ \A o \in job[j].found : o.path = p
  BY <1>1 DEF Holding, FoundOK
<1>4. CASE job[i].path # p
  <2>1. ObjectsAt(job[i].path, container') = ObjectsAt(job[i].path, container)
    BY <1>1, <1>3, <1>4 DEF ObjectsAt
  <2>2. LeftAlone(i) => doubt'[job[i].path] = doubt[job[i].path]
    BY <1>1, <1>4 DEF RenameOK
  <2>3. i # j
    BY <1>4
  <2> QED BY <1>1, <1>2, <2>1, <2>2, <2>3, RenameElse
<1>5. CASE job[i].path = p
  <2> SUFFICES ASSUME LeftAlone(i)' PROVE RenameOK(i)'
    BY DEF RenameOK
  <2>1. /\ LeftAlone(i) /\ job'[i].path = p /\ job'[i].src = job[i].src
        /\ job'[i].since = job[i].since
    BY <1>2, <1>5 DEF LeftAlone, Follows
  <2>2. /\ p \in WinPath /\ p # job[i].src /\ file[p] # 0
        /\ job[i].since \in Nat /\ job[i].since <= putCount
        /\ \/ "raced" \in doubt[p]
           \/ \E o \in container : NewAt(o, i) /\ o \notin job[j].found
    BY <1>1, <1>5, <2>1 DEF RenameOK
  <2>3. \A n \in Job : ~(job'[n].pc = "replace" /\ job'[n].path = p)
    BY <1>1, <1>2, <1>3, LockHeld DEF Holding
  <2>4. Vouched(i)'
    <3>1. CASE reset
      <4>1. PICK o \in ObjectsAt(p, container') : o.content = want[p]
        BY <3>1 DEF Holds
      <4>2. want[p] # 0
        BY <1>1, <4>1 DEF ObjectsOK, ObjectOK, ObjectsAt
      <4>3. want[p] = file[p]
        BY <1>1, <2>2, <4>2 DEF SameOK
      <4>4. Holds(p, file'[p], container')
        BY <1>1, <3>1, <4>3
      <4> QED BY <2>1, <4>4 DEF Vouched
    <3>2. CASE ~reset /\ "raced" \in doubt[p]
      <4>1. "raced" \in doubt'[p]
        BY <1>1, <3>2
      <4> QED BY <2>1, <4>1 DEF Vouched
    <3>3. ASSUME NEW o \in container, NewAt(o, i), o \notin job[j].found PROVE Vouched(i)'
      <4>1. o \in container' /\ NewAt(o, i)'
        BY <1>1, <1>5, <2>1, <3>3 DEF NewAt, ObjectsAt
      <4> QED BY <4>1 DEF Vouched
    <3> QED BY <2>2, <3>1, <3>2, <3>3
  <2> QED BY <1>1, <2>1, <2>2, <2>3, <2>4 DEF RenameOK
<1> QED BY <1>4, <1>5

(* The deletions' steps: one that takes the destination's objects finds a file there,
   and says that it raced. *)
LEMMA SourceDelete ==
    ASSUME SourceInv, NEW j \in Job,
           \/ DeleteList(j) \/ DeleteListFails(j) \/ DeleteDrop(j)
           \/ \E kept \in SUBSET job[j].found : DeleteDropFails(j, kept),
           NEW i \in Job
    PROVE  RenameOK(i)'
<1>1. WinInv /\ DOMAIN doubt = WinPath /\ RenameOK(i) /\ FoundOK
  BY DEF SourceInv, MirrorInv, BaseInv
<1>2. LeftAlone(i) => job[i].path \in WinPath /\ file[job[i].path] # 0
  BY <1>1 DEF RenameOK
<1>3. CASE DeleteList(j)
  <2> DEFINE w == [job[j] EXCEPT !.pc = "drop", !.found = ObjectsAt(job[j].src, Entries)]
  <2>1. /\ job' = [job EXCEPT ![j] = w] /\ job[j].pc = "list"
        /\ UNCHANGED <<file, container, putCount, doubt>>
    BY <1>3 DEF DeleteList, Runs, disk
  <2>2. /\ w.pc = "drop" /\ w.kind = job[j].kind /\ w.path = job[j].path /\ w.src = job[j].src
        /\ w.since = job[j].since /\ w.changed = job[j].changed
    BY <1>1 DEF WinInv, JobOK, WorkField
  <2> HIDE DEF w
  <2>3. job'[j] = w /\ \A n \in Job \ {j} : job'[n] = job[n]
    BY <1>1, <2>1, OthersSame
  <2>4. Follows(j)
    BY <2>2, <2>3 DEF Follows
  <2> QED BY <2>1, <2>2, <2>3, <2>4, RenameElse
<1>4. ASSUME Ends(j), UNCHANGED <<file, putCount>>,
             LeftAlone(i) => /\ ObjectsAt(job[i].path, container')
                                    = ObjectsAt(job[i].path, container)
                             /\ doubt[job[i].path] \subseteq doubt'[job[i].path]
      PROVE  RenameOK(i)'
  <2>1. job'[j] = NoWork /\ \A n \in Job \ {j} : job'[n] = job[n]
    BY <1>1, <1>4, OthersSame DEF Ends
  <2>2. Follows(j) /\ job'[j].pc = "end"
    BY <2>1, NoWorkFields DEF Follows
  <2> QED BY <1>4, <2>1, <2>2, RenameElse
<1>5. CASE DeleteListFails(j)
  <2>1. /\ Ends(j) /\ UNCHANGED <<file, container, putCount>> /\ Doubt({job[j].src}, "other")
    BY <1>5 DEF DeleteListFails, disk, remote
  <2>2. LeftAlone(i) => doubt[job[i].path] \subseteq doubt'[job[i].path]
    BY <1>2, <2>1 DEF Doubt
  <2> QED BY <1>4, <2>1, <2>2
<1>6. ASSUME NEW kept \in SUBSET job[j].found, DeleteDrop(j) \/ DeleteDropFails(j, kept)
      PROVE  RenameOK(i)'
  <2> DEFINE p == job[j].src
  <2>1. /\ Ends(j) /\ job[j].pc = "drop" /\ UNCHANGED <<file, putCount>>
        /\ \E d \in SUBSET job[j].found : container' = container \ d
        /\ \E x : doubt' = [doubt EXCEPT ![p] = @ \cup x \cup Races(j)]
    <3>1. CASE DeleteDrop(j)
      <4>1. doubt' = [doubt EXCEPT ![p] = @ \cup {} \cup Races(j)]
        BY <3>1 DEF DeleteDrop
      <4>2. container' = container \ job[j].found
        BY <3>1 DEF DeleteDrop
      <4> QED BY <3>1, <4>1, <4>2 DEF DeleteDrop, Runs, disk
    <3>2. CASE DeleteDropFails(j, kept)
      <4>1. doubt' = [doubt EXCEPT ![p] = @ \cup {"other"} \cup Races(j)]
        BY <3>2 DEF DeleteDropFails
      <4>2. container' = container \ (job[j].found \ kept)
        BY <3>2 DEF DeleteDropFails
      <4> QED BY <3>2, <4>1, <4>2 DEF DeleteDropFails, Runs, disk
    <3> QED BY <1>6, <3>1, <3>2
  <2>2. \A o \in job[j].found : o.path = p
    BY <1>1, <2>1 DEF FoundOK
  <2>3. CASE job[i].path # p
    <3>1. ObjectsAt(job[i].path, container') = ObjectsAt(job[i].path, container)
      BY <2>1, <2>2, <2>3 DEF ObjectsAt
    <3>2. LeftAlone(i) => doubt'[job[i].path] = doubt[job[i].path]
      BY <1>1, <1>2, <2>1, <2>3
    <3> QED BY <1>4, <2>1, <3>1, <3>2
  <2>4. CASE job[i].path = p
    <3> SUFFICES ASSUME LeftAlone(i)' PROVE RenameOK(i)'
      BY DEF RenameOK
    <3>1. job'[j] = NoWork /\ \A n \in Job \ {j} : job'[n] = job[n]
      BY <1>1, <2>1, OthersSame DEF Ends
    <3>2. job'[i] = job[i] /\ LeftAlone(i)
      BY <3>1, NoWorkFields DEF LeftAlone
    <3>3. "raced" \in Races(j)
      BY <1>2, <2>4, <3>2 DEF Races, Overlap
    <3>4. "raced" \in doubt'[p]
      BY <1>1, <1>2, <2>1, <2>4, <3>2, <3>3
    <3>5. Vouched(i)'
      BY <2>4, <3>2, <3>4 DEF Vouched
    <3> QED BY <1>1, <2>1, <2>4, <3>2, <3>4, <3>5 DEF RenameOK
  <2> QED BY <2>3, <2>4
<1>7. ASSUME DeleteDrop(j) PROVE RenameOK(i)'
  BY <1>6, <1>7
<1> QED BY <1>3, <1>5, <1>6, <1>7

(* The restorations: a placeholder comes where no file is. *)
LEMMA SourceRestore ==
    ASSUME SourceInv, NEW j \in Job,
           \/ \E p \in WinPath : RestoreStops(p) \/ RestoreFind(j, p)
           \/ RestoreNoHead(j) \/ \E o \in job[j].found : RestoreHead(j, o),
           NEW i \in Job
    PROVE  RenameOK(i)'
<1>1. /\ WinInv /\ RenameOK(i) /\ DOMAIN doubt = WinPath /\ DOMAIN file = WinPath
      /\ putCount \in Nat
  BY DEF SourceInv, MirrorInv, BaseInv, ObjectsOK
<1>2. LeftAlone(i) => job[i].path \in WinPath /\ file[job[i].path] # 0
  BY <1>1 DEF RenameOK
<1>3. ASSUME NEW p \in WinPath, RestoreStops(p) PROVE RenameOK(i)'
  <2>1. UNCHANGED <<file, container, putCount, job, doubt>>
    BY <1>3 DEF RestoreStops, disk, remote
  <2>2. Follows(i)
    BY <2>1 DEF Follows
  <2> QED BY <1>1, <2>1, <2>2, RenameKeeps
<1>4. ASSUME NEW p \in WinPath, RestoreFind(j, p) PROVE RenameOK(i)'
  <2> DEFINE t == [NoWork EXCEPT !.kind = "restore", !.pc = "head", !.path = p,
                                 !.found = ObjectsAt(p, Entries)]
             w == IF ObjectsAt(p, Entries) = {} THEN NoWork ELSE t
  <2>1. /\ job' = [job EXCEPT ![j] = w]
        /\ UNCHANGED <<file, container, putCount, doubt>>
    BY <1>4 DEF RestoreFind, disk
  <2>2. t.pc = "head" /\ t.kind = "restore"
    BY DEF NoWork
  <2>3. w.pc \in {"end", "head"} /\ w.kind # "rename"
    BY <2>2, NoWorkFields
  <2> HIDE DEF w
  <2>4. job'[j] = w /\ \A n \in Job \ {j} : job'[n] = job[n]
    BY <1>1, <2>1, OthersSame
  <2>5. Follows(j)
    BY <2>3, <2>4 DEF Follows
  <2> QED BY <2>1, <2>3, <2>4, <2>5, RenameElse
<1>5. ASSUME Ends(j), UNCHANGED <<container, putCount>>,
             LeftAlone(i) => /\ file'[job[i].path] = file[job[i].path]
                             /\ doubt[job[i].path] \subseteq doubt'[job[i].path]
      PROVE  RenameOK(i)'
  <2>1. job'[j] = NoWork /\ \A n \in Job \ {j} : job'[n] = job[n]
    BY <1>1, <1>5, OthersSame DEF Ends
  <2>2. Follows(j) /\ job'[j].pc = "end"
    BY <2>1, NoWorkFields DEF Follows
  <2> QED BY <1>5, <2>1, <2>2, RenameElse
<1>6. CASE RestoreNoHead(j)
  <2>1. Ends(j) /\ UNCHANGED <<file, container, putCount, doubt>>
    BY <1>6 DEF RestoreNoHead, disk
  <2> QED BY <1>5, <2>1
<1>7. ASSUME NEW o \in job[j].found, RestoreHead(j, o) PROVE RenameOK(i)'
  <2> DEFINE p == job[j].path
  <2>1. /\ Ends(j) /\ UNCHANGED <<container, putCount>>
        /\ IF file[p] = 0
           THEN file' = [file EXCEPT ![p] = o.content] /\ Doubt({p}, "other")
           ELSE UNCHANGED <<file, doubt>>
    BY <1>7 DEF RestoreHead
  <2>2. LeftAlone(i) => file'[job[i].path] = file[job[i].path]
    BY <1>1, <1>2, <2>1
  <2>3. LeftAlone(i) => doubt[job[i].path] \subseteq doubt'[job[i].path]
    BY <1>2, <2>1 DEF Doubt
  <2> QED BY <1>5, <2>1, <2>2, <2>3
<1> QED BY <1>3, <1>4, <1>6, <1>7

(* What passes with time, and a restart, that ends every rename. *)
LEMMA SourceWorld ==
    ASSUME SourceInv, NEW i \in Job,
           \/ \E p \in WinPath : WindowElapses(p) \/ DeleteForgotten(p)
           \/ ListingExpires \/ Restart \/ UNCHANGED winVars
    PROVE  RenameOK(i)'
<1>1. RenameOK(i) /\ putCount \in Nat
  BY DEF SourceInv, MirrorInv, BaseInv, ObjectsOK
<1>2. CASE \/ \E p \in WinPath : WindowElapses(p) \/ DeleteForgotten(p)
           \/ ListingExpires \/ UNCHANGED winVars
  <2>1. UNCHANGED <<file, container, putCount, job, doubt>>
    BY <1>2 DEF WindowElapses, DeleteForgotten, ListingExpires, winVars, disk, remote
  <2>2. Follows(i)
    BY <2>1 DEF Follows
  <2> QED BY <1>1, <2>1, <2>2, RenameKeeps
<1>3. CASE Restart
  <2>1. job'[i] = NoWork
    BY <1>3 DEF Restart
  <2> QED BY <2>1, NoWorkFields DEF RenameOK, LeftAlone
<1> QED BY <1>2, <1>3

(* A step keeps the invariant. *)
LEMMA SourceStep ==
    ASSUME SourceInv, [WinNext]_winVars
    PROVE  SourceInv'
<1>1. MirrorInv' /\ WinInv'
  BY MirrorStep DEF SourceInv, MirrorInv, BaseInv
<1>2. ASSUME NEW j \in Job, User(j) \/ Watcher(j) \/ Goroutine(j)
      PROVE  \A i \in Job : RenameOK(i)'
  <2>1. CASE User(j) \/ \E p \in WinPath : TimerFires(j, p)
    BY <2>1, SourceUser
  <2>2. CASE \/ \E p \in WinPath : RestoreStops(p) \/ RestoreFind(j, p)
             \/ RestoreNoHead(j) \/ \E o \in job[j].found : RestoreHead(j, o)
    BY <2>2, SourceRestore
  <2>3. CASE \/ UploadGone(j) \/ UploadSkipped(j) \/ UploadOpen(j) \/ UploadListFails(j)
             \/ PutFails(j)
    BY <2>3, SourceUpload
  <2>4. CASE \E v \in Content : Puts(j, v)
    BY <1>1, <2>4, SourcePuts
  <2>5. CASE \E kept \in SUBSET job[j].found : UploadReplace(j, kept)
    BY <2>5, SourceReplace
  <2>6. CASE \/ DeleteList(j) \/ DeleteListFails(j) \/ DeleteDrop(j)
             \/ \E kept \in SUBSET job[j].found : DeleteDropFails(j, kept)
    BY <2>6, SourceDelete
  <2> QED BY <1>2, <2>1, <2>2, <2>3, <2>4, <2>5, <2>6 DEF Watcher, Goroutine
<1>3. ASSUME \/ \E p \in WinPath : WindowElapses(p) \/ DeleteForgotten(p)
             \/ ListingExpires \/ Restart \/ UNCHANGED winVars
      PROVE  \A i \in Job : RenameOK(i)'
  BY <1>3, SourceWorld
<1>4. \A i \in Job : RenameOK(i)'
  BY <1>2, <1>3 DEF WinNext
<1> QED BY <1>1, <1>4 DEF SourceInv

(* A rename that deletes objects ends with that step, and deletes none of its
   destination's. *)
LEMMA RenameEnds ==
    ASSUME SourceInv, [WinNext]_winVars, NEW j \in Job,
           job[j].pc = "drop", job'[j] = NoWork, container' # container,
           LeftAlone(j)
    PROVE  ObjectsAt(job[j].path, container') = ObjectsAt(job[j].path, container)
<1>1. BaseInv /\ WinInv /\ WinInv' /\ FoundOK /\ RenameOK(j) /\ job[j] # NoWork
  BY WinStep, NoWorkFields DEF SourceInv, MirrorInv, BaseInv
<1>2. job[j].path # job[j].src /\ \A o \in job[j].found : o.path = job[j].src
  BY <1>1 DEF RenameOK, FoundOK
<1>3. CASE \E k \in Job : \/ \E v \in Content : Puts(k, v)
                          \/ \E kept \in SUBSET job[k].found : UploadReplace(k, kept)
  <2>1. PICK k \in Job : \/ \E v \in Content : Puts(k, v)
                         \/ \E kept \in SUBSET job[k].found : UploadReplace(k, kept)
    BY <1>3
  <2>2. k # j
    BY <2>1 DEF Puts, UploadReplace, Runs
  <2>3. job'[j] = job[j]
    <3>1. CASE \E v \in Content : Puts(k, v)
      BY <1>1, <2>2, <3>1, BasePuts
    <3>2. CASE \E kept \in SUBSET job[k].found : UploadReplace(k, kept)
      <4>1. Uploaded(k)
        BY <3>2 DEF UploadReplace
      <4> QED BY <1>1, <2>2, <4>1, UploadedMoves
    <3> QED BY <2>1, <3>1, <3>2
  <2> QED BY <1>1, <2>3
<1>4. CASE \E k \in Job : \/ DeleteDrop(k)
                          \/ \E kept \in SUBSET job[k].found : DeleteDropFails(k, kept)
  <2>1. PICK k \in Job : \/ DeleteDrop(k)
                         \/ \E kept \in SUBSET job[k].found : DeleteDropFails(k, kept)
    BY <1>4
  <2>2. Ends(k) /\ \E d \in SUBSET job[k].found : container' = container \ d
    BY <2>1 DEF DeleteDrop, DeleteDropFails
  <2>3. k = j
    BY <1>1, <2>2, OthersSame DEF Ends
  <2> QED BY <1>2, <2>2, <2>3 DEF ObjectsAt
<1>5. ASSUME NEW k \in Job, User(k) \/ Watcher(k) PROVE container' = container
  BY <1>5 DEF User, Watcher, Save, Close, Remove, MoveOut, Move, TimerFires, RestoreStops,
              RestoreFind, remote
<1>6. ASSUME NEW k \in Job,
             \/ UploadGone(k) \/ UploadSkipped(k) \/ UploadOpen(k) \/ UploadListFails(k)
             \/ PutFails(k) \/ DeleteList(k) \/ DeleteListFails(k)
             \/ RestoreNoHead(k) \/ \E o \in job[k].found : RestoreHead(k, o)
      PROVE  container' = container
  BY <1>6 DEF UploadGone, UploadSkipped, UploadOpen, UploadListFails, Opens, PutFails,
              DeleteList, DeleteListFails, RestoreNoHead, RestoreHead, remote
<1>7. ASSUME \/ \E p \in WinPath : WindowElapses(p) \/ DeleteForgotten(p)
             \/ ListingExpires \/ Restart \/ UNCHANGED winVars
      PROVE  container' = container
  BY <1>7 DEF WindowElapses, DeleteForgotten, ListingExpires, Restart, winVars, remote
<1>8. ASSUME NEW k \in Job, Goroutine(k)
      PROVE  ObjectsAt(job[j].path, container') = ObjectsAt(job[j].path, container)
  BY <1>3, <1>4, <1>6, <1>8 DEF Goroutine
<1> QED BY <1>5, <1>7, <1>8 DEF WinNext

(* SourceLast, for any goroutines, paths, sizes and bounds (mount_windows.go:1112): a
   rename deletes its source after its destination has got what the user moved there.
   The invariant says what vouches for the destination from the upload's end on; the
   user's next change of the destination is where it ends, and so does the property. *)
THEOREM RenameKeepsContent == WinSpec => SourceLast
<1> DEFINE Left(j, q) == \/ \E o \in ObjectsAt(q, container') : o.id > job[j].since
                         \/ Holds(q, file[q], container')
                         \/ doubt[q] \cap {"duplicate", "raced"} # {}
           Step == \A j \in Job :
                       /\ Runs(j, {"rename"}, "drop") /\ ~job[j].changed
                       /\ job'[j] = NoWork /\ container' # container
                       => Left(j, job[j].path)
<1>1. WinInit => SourceInv
  <2>1. ASSUME WinInit PROVE MirrorInv /\ \A j \in Job : job[j] = NoWork
    BY <2>1, MirrorInit DEF WinInit
  <2> QED BY <2>1, NoWorkFields DEF SourceInv, RenameOK, LeftAlone
<1>2. SourceInv /\ [WinNext]_winVars => SourceInv'
  BY SourceStep
<1>3. ASSUME SourceInv, [WinNext]_winVars PROVE Step
  <2>1. ASSUME NEW j \in Job, Runs(j, {"rename"}, "drop"), ~job[j].changed,
               job'[j] = NoWork, container' # container
        PROVE  Left(j, job[j].path)
    <3>1. LeftAlone(j) /\ job[j].pc = "drop" /\ RenameOK(j)
      BY <1>3, <2>1 DEF LeftAlone, Runs, SourceInv
    <3>2. Vouched(j)
      BY <3>1 DEF RenameOK
    <3>3. ObjectsAt(job[j].path, container') = ObjectsAt(job[j].path, container)
      BY <1>3, <2>1, <3>1, RenameEnds
    <3> QED BY <3>2, <3>3 DEF Vouched, NewAt, Holds
  <2> QED BY <2>1
<1>4. WinSpec => [][Step]_winVars
  BY <1>1, <1>2, <1>3, PTL DEF WinSpec
<1> QED BY <1>4 DEF SourceLast
==============================================================================
