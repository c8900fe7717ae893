--------------------------- MODULE HeadScanProofs ---------------------------
(* Theorems about HeadScan, for any objects and goroutines. *)
EXTENDS HeadScan, TLAPS

\* What the state of one call has to be, apart from the call's neighbours.
CallOK(c) ==
    /\ c \in CallState
    /\ c.todo \subseteq c.ids
    /\ c.pc \in {"wait", "woken"} => c.leader \in Proc

(* TypeOK says of every call that it is a CallOK. *)
LEMMA TypeByCall ==
    TypeOK <=> /\ store \subseteq Object /\ removed \subseteq Object
               /\ scanCache \in Listing /\ scanInflight \in Proc \cup {NoProc}
               /\ store \cap removed = {}
               /\ DOMAIN call = Proc /\ call = [p \in Proc |-> call[p]]
               /\ \A p \in Proc : CallOK(call[p])
<1>1. ASSUME TypeOK, NEW p \in Proc PROVE CallOK(call[p])
  <2>1. call[p] \in CallState
    BY <1>1 DEF TypeOK
  <2>2. call[p].todo \subseteq call[p].ids
    BY <1>1 DEF TypeOK
  <2>3. call[p].pc \in {"wait", "woken"} => call[p].leader \in Proc
    BY <1>1 DEF TypeOK
  <2> QED BY <2>1, <2>2, <2>3 DEF CallOK
<1>2. ASSUME call = [p \in Proc |-> call[p]], \A p \in Proc : CallOK(call[p])
      PROVE  call \in [Proc -> CallState]
  BY <1>2 DEF CallOK
<1>3. TypeOK => DOMAIN call = Proc /\ call = [p \in Proc |-> call[p]]
  BY DEF TypeOK
<1> QED BY <1>1, <1>2, <1>3 DEF TypeOK, CallOK

(* A state in which one call changed to a good one is well typed. *)
LEMMA OneCall ==
    ASSUME TypeOK, NEW p \in Proc, NEW c, CallOK(c), call' = [call EXCEPT ![p] = c],
           store' \subseteq Object, removed' \subseteq Object, store' \cap removed' = {},
           scanCache' \in Listing, scanInflight' \in Proc \cup {NoProc}
    PROVE  TypeOK' /\ call'[p] = c /\ \A q \in Proc : q # p => call'[q] = call[q]
<1>1. c \in CallState
  BY DEF CallOK
<1>2. call \in [Proc -> CallState]
  BY DEF TypeOK
<1>3. call' \in [Proc -> CallState]
  BY <1>1, <1>2
<1>4. call'[p] = c /\ \A q \in Proc : q # p => call'[q] = call[q]
  BY <1>2
<1>5. \A q \in Proc : /\ call'[q].todo \subseteq call'[q].ids
                      /\ call'[q].pc \in {"wait", "woken"} => call'[q].leader \in Proc
  <2>1. ASSUME NEW q \in Proc, q # p
        PROVE  /\ call'[q].todo \subseteq call'[q].ids
               /\ call'[q].pc \in {"wait", "woken"} => call'[q].leader \in Proc
    BY <1>4, <2>1 DEF TypeOK
  <2> QED BY <1>4, <2>1 DEF CallOK
<1> QED BY <1>3, <1>4, <1>5 DEF TypeOK

(* The record updates of a call that the actions write. *)
LEMMA CallUpdates ==
    ASSUME NEW c, CallOK(c)
    PROVE  /\ \A label \in {"lookup", "search", "dirty", "done", "idle"} :
                 CallOK([c EXCEPT !.pc = label])
           /\ CallOK(NoCall)
           /\ \A ids \in SUBSET Object, err \in BOOLEAN : CallOK(Returned(ids, err))
           /\ \A q \in Proc : CallOK([c EXCEPT !.pc = "wait", !.leader = q])
           /\ \A err \in BOOLEAN : c.pc = "wait" => CallOK([c EXCEPT !.pc = "woken", !.err = err])
           /\ \A ids \in SUBSET Object, ok \in BOOLEAN :
                 CallOK([NoCall EXCEPT !.pc = "heads", !.ids = ids, !.todo = ids, !.ok = ok])
           /\ \A o : CallOK([c EXCEPT !.todo = @ \ {o}])
           /\ \A o : CallOK([c EXCEPT !.todo = @ \ {o}, !.err = TRUE, !.ok = FALSE])
<1> USE DEF CallOK, CallState
<1>1. \A label \in {"lookup", "search", "dirty", "done", "idle"} :
         CallOK([c EXCEPT !.pc = label])
  OBVIOUS
<1>2. CallOK(NoCall)
  BY DEF NoCall
<1>3. \A ids \in SUBSET Object, err \in BOOLEAN : CallOK(Returned(ids, err))
  BY DEF NoCall, Returned
<1>4. \A q \in Proc : CallOK([c EXCEPT !.pc = "wait", !.leader = q])
  OBVIOUS
<1>5. \A err \in BOOLEAN : c.pc = "wait" => CallOK([c EXCEPT !.pc = "woken", !.err = err])
  OBVIOUS
<1>6. \A ids \in SUBSET Object, ok \in BOOLEAN :
         CallOK([NoCall EXCEPT !.pc = "heads", !.ids = ids, !.todo = ids, !.ok = ok])
  BY DEF NoCall
<1>7. \A o : CallOK([c EXCEPT !.todo = @ \ {o}])
  OBVIOUS
<1>8. \A o : CallOK([c EXCEPT !.todo = @ \ {o}, !.err = TRUE, !.ok = FALSE])
  OBVIOUS
<1> QED BY <1>1, <1>2, <1>3, <1>4, <1>5, <1>6, <1>7, <1>8

(* Publish changes several calls: its own and those of its followers. *)
LEMMA PublishType ==
    ASSUME TypeOK, NEW p \in Proc, Publish(p)
    PROVE  TypeOK'
<1> DEFINE err == call[p].err
           ids == IF err THEN {} ELSE call[p].ids
           after(q) == IF q = p THEN Returned(ids, err)
                       ELSE IF Woken(p, q) THEN [call[q] EXCEPT !.pc = "woken", !.err = err]
                       ELSE call[q]
<1>1. /\ call' = [q \in Proc |-> after(q)]
      /\ scanCache' = IF err THEN scanCache
                      ELSE [present |-> TRUE, expired |-> FALSE, entries |-> ids]
      /\ scanInflight' = NoProc /\ UNCHANGED serverVars
  BY DEF Publish
<1>2. \A q \in Proc : CallOK(call[q])
  BY TypeByCall
<1>3. err \in BOOLEAN /\ ids \in SUBSET Object
  BY <1>2 DEF CallOK, CallState
<1> HIDE DEF err, ids
<1>4. ASSUME NEW q \in Proc PROVE CallOK(after(q))
  <2>1. CASE q = p
    <3>1. CallOK(Returned(ids, err))
      BY <1>2, <1>3, CallUpdates
    <3> QED BY <2>1, <3>1
  <2>2. CASE q # p /\ Woken(p, q)
    <3>1. call[q].pc = "wait"
      BY <2>2 DEF Woken, At
    <3>2. CallOK([call[q] EXCEPT !.pc = "woken", !.err = err])
      BY <1>2, <1>3, <3>1, CallUpdates
    <3> QED BY <2>2, <3>2
  <2>3. CASE q # p /\ ~Woken(p, q)
    BY <1>2, <2>3
  <2> QED BY <2>1, <2>2, <2>3
<1>5. \A q \in Proc : CallOK(call'[q])
  <2> HIDE DEF after
  <2> QED BY <1>1, <1>4
<1>6. DOMAIN call' = Proc /\ call' = [q \in Proc |-> call'[q]]
  <2> HIDE DEF after
  <2> QED BY <1>1
<1>7. scanCache' \in Listing
  BY <1>1, <1>3 DEF TypeOK, Listing
<1>8. call' \in [Proc -> CallState]
  <2>1. \A q \in Proc : call'[q] \in CallState
    BY <1>5 DEF CallOK
  <2> QED BY <1>6, <2>1
<1>9. \A q \in Proc : /\ call'[q].todo \subseteq call'[q].ids
                      /\ call'[q].pc \in {"wait", "woken"} => call'[q].leader \in Proc
  BY <1>5 DEF CallOK
<1>10. UNCHANGED <<store, removed>> /\ scanInflight' = NoProc
  BY <1>1 DEF serverVars
<1> QED BY <1>7, <1>8, <1>9, <1>10 DEF TypeOK

(* What a running call does on its own keeps the state well typed. *)
LEMMA StepType ==
    ASSUME TypeOK, NEW p \in Proc, Step(p)
    PROVE  TypeOK'
<1>1. CallOK(call[p])
  BY TypeByCall
<1>2. call[p].ids \in SUBSET Object /\ store \in SUBSET Object
  BY <1>1 DEF CallOK, CallState, TypeOK
<1>3. scanCache.entries \in SUBSET Object /\ call[p].err \in BOOLEAN
  BY <1>1 DEF CallOK, CallState, TypeOK, Listing
<1> USE DEF serverVars, scanVars
<1>4. CASE CacheHit(p)
  <2>1. CallOK(Returned(scanCache.entries, FALSE))
    BY <1>1, <1>3, CallUpdates
  <2> QED BY <1>4, <2>1, OneCall DEF CacheHit, TypeOK
<1>5. CASE Follow(p)
  <2>1. scanInflight \in Proc
    BY <1>5 DEF Follow, InFlight, TypeOK
  <2>2. CallOK([call[p] EXCEPT !.pc = "wait", !.leader = scanInflight])
    BY <1>1, <2>1, CallUpdates
  <2> QED BY <1>5, <2>2, OneCall DEF Follow, TypeOK
<1>6. CASE Lead(p)
  <2>1. CallOK([call[p] EXCEPT !.pc = "search"])
    BY <1>1, CallUpdates
  <2> QED BY <1>6, <2>1, OneCall DEF Lead, Goto, TypeOK
<1>7. CASE Search(p)
  <2>1. CallOK([NoCall EXCEPT !.pc = "heads", !.ids = store, !.todo = store, !.ok = TRUE])
    BY <1>1, <1>2, CallUpdates
  <2> QED BY <1>7, <2>1, OneCall DEF Search, Lists, TypeOK
<1>8. CASE SearchFails(p)
  <2>1. CallOK([NoCall EXCEPT !.pc = "heads", !.ids = {}, !.todo = {}, !.ok = FALSE])
    BY <1>1, CallUpdates
  <2> QED BY <1>8, <2>1, OneCall DEF SearchFails, Lists, TypeOK
<1>9. CASE \E o \in Object : Head(p, o)
  <2>1. PICK o \in Object : Head(p, o)
    BY <1>9
  <2>2. CallOK([call[p] EXCEPT !.todo = @ \ {o}])
    BY <1>1, CallUpdates
  <2> QED BY <2>1, <2>2, OneCall DEF Head, TypeOK
<1>10. CASE \E o \in Object : HeadFails(p, o)
  <2>1. PICK o \in Object : HeadFails(p, o)
    BY <1>10
  <2>2. CallOK([call[p] EXCEPT !.todo = @ \ {o}, !.err = TRUE, !.ok = FALSE])
    BY <1>1, CallUpdates
  <2> QED BY <2>1, <2>2, OneCall DEF HeadFails, TypeOK
<1>11. CASE Publish(p)
  BY <1>11, PublishType
<1>12. CASE FollowerReads(p)
  <2> DEFINE c == IF scanCache.present THEN Returned(scanCache.entries, FALSE)
                  ELSE Returned({}, call[p].err)
  <2>1. CallOK(Returned(scanCache.entries, FALSE)) /\ CallOK(Returned({}, call[p].err))
    BY <1>1, <1>3, CallUpdates
  <2>2. CallOK(c)
    BY <2>1
  <2>3. call' = [call EXCEPT ![p] = c] /\ UNCHANGED <<serverVars, scanVars>>
    BY <1>12 DEF FollowerReads
  <2> HIDE DEF c
  <2> QED BY <2>2, <2>3, OneCall DEF TypeOK
<1> QED BY <1>4, <1>5, <1>6, <1>7, <1>8, <1>9, <1>10, <1>11, <1>12 DEF Step

-----------------------------------------------------------------------------
(* Type correctness *)

(* Every step keeps the state well typed. *)
LEMMA NextType ==
    ASSUME TypeOK, [Next]_vars
    PROVE  TypeOK'
<1> USE DEF serverVars, scanVars
<1>1. CASE UNCHANGED vars
  BY <1>1 DEF vars, TypeOK
<1>2. ASSUME NEW p \in Proc, Call(p) \/ Return(p) \/ InvalidateContainerScan(p)
      PROVE  TypeOK'
  <2>1. CallOK(call[p])
    BY TypeByCall
  <2>2. CallOK([call[p] EXCEPT !.pc = "lookup"]) /\ CallOK(NoCall)
    BY <2>1, CallUpdates
  <2>3. CASE Call(p)
    BY <2>2, <2>3, OneCall DEF Call, Goto, TypeOK
  <2>4. CASE Return(p)
    BY <2>2, <2>4, OneCall DEF Return, TypeOK
  <2>5. CASE InvalidateContainerScan(p)
    <3>1. scanCache' \in Listing
      BY <2>5 DEF InvalidateContainerScan, Dropped, NoListing, Listing
    <3> QED BY <2>2, <2>5, <3>1, OneCall DEF InvalidateContainerScan, TypeOK
  <2> QED BY <1>2, <2>3, <2>4, <2>5
<1>3. ASSUME NEW p \in Proc, NEW o \in Object, Change(p, o) PROVE TypeOK'
  <2>1. CallOK(call[p])
    BY TypeByCall
  <2>2. CallOK([call[p] EXCEPT !.pc = "dirty"])
    BY <2>1, CallUpdates
  <2>3. store' \subseteq Object /\ removed' \subseteq Object /\ store' \cap removed' = {}
    BY <1>3 DEF Change, Put, Delete, TypeOK
  <2> QED BY <1>3, <2>2, <2>3, OneCall DEF Change, Goto, TypeOK
<1>4. CASE Expire
  <2>1. scanCache' \in Listing
    BY <1>4 DEF Expire, TypeOK, Listing
  <2> QED BY <1>4, <2>1 DEF Expire, TypeOK
<1>5. \A p \in Proc : Step(p) => TypeOK'
  BY StepType
<1> QED BY <1>1, <1>2, <1>3, <1>4, <1>5 DEF Next

(* The listing's state is well typed, for any objects and goroutines. *)
THEOREM ScanTypeCorrect == Spec => []TypeOK
<1>1. Init => TypeOK
  <2> SUFFICES ASSUME Init PROVE TypeOK
    OBVIOUS
  <2>1. NoCall \in CallState /\ NoListing \in Listing
    BY DEF NoCall, CallState, NoListing, Listing
  <2>2. call = [p \in Proc |-> NoCall] /\ call \in [Proc -> CallState]
    BY <2>1 DEF Init
  <2>3. \A p \in Proc : /\ call[p].todo \subseteq call[p].ids
                        /\ call[p].pc \in {"wait", "woken"} => call[p].leader \in Proc
    BY <2>2 DEF NoCall
  <2> QED BY <2>1, <2>2, <2>3, ScanAssumption DEF Init, TypeOK
<1>2. TypeOK /\ [Next]_vars => TypeOK'
  BY NextType
<1> QED BY <1>1, <1>2, PTL DEF Spec

-----------------------------------------------------------------------------
(* The single flight *)

(* A step of one call that neither begins nor ends a scan. *)
LEMMA FlightKept ==
    ASSUME TypeOK, SingleFlight, NEW p \in Proc, NEW c,
           call' = [call EXCEPT ![p] = c], UNCHANGED scanInflight,
           c.pc \in {"search", "heads"} <=> call[p].pc \in {"search", "heads"},
           c.pc = "wait" => c.leader = scanInflight /\ InFlight
    PROVE  SingleFlight'
<1>1. call'[p] = c /\ \A q \in Proc : q # p => call'[q] = call[q]
  BY DEF TypeOK
<1>2. ASSUME NEW q \in Proc
      PROVE  /\ (call'[q].pc \in {"search", "heads"}) <=> scanInflight = q
             /\ call'[q].pc = "wait" => call'[q].leader = scanInflight /\ InFlight
  <2>1. CASE q = p
    BY <1>1, <2>1 DEF SingleFlight, Leads
  <2>2. CASE q # p
    BY <1>1, <2>2 DEF SingleFlight, Leads, At
  <2> QED BY <2>1, <2>2
<1> QED BY <1>2 DEF SingleFlight, Leads, At, InFlight

(* Every step keeps the flight single. *)
LEMMA NextFlight ==
    ASSUME TypeOK, SingleFlight, [Next]_vars
    PROVE  SingleFlight'
<1> USE DEF serverVars, scanVars, At
<1>1. CASE UNCHANGED vars
  BY <1>1 DEF vars, SingleFlight, Leads, InFlight
<1>2. ASSUME NEW p \in Proc,
             Call(p) \/ CacheHit(p) \/ Return(p) \/ InvalidateContainerScan(p)
             \/ FollowerReads(p) \/ \E o \in Object : Change(p, o)
      PROVE  SingleFlight'
  <2>1. PICK c : /\ call' = [call EXCEPT ![p] = c] /\ UNCHANGED scanInflight
                 /\ c.pc \in {"lookup", "done", "idle", "dirty"}
                 /\ call[p].pc \in {"idle", "lookup", "done", "dirty", "woken"}
    <3>1. CASE Call(p)
      <4> DEFINE c == [call[p] EXCEPT !.pc = "lookup"]
      <4>1. c.pc = "lookup"
        BY DEF TypeOK, CallState
      <4> QED BY <3>1, <4>1 DEF Call, Goto
    <3>2. CASE CacheHit(p)
      BY <3>2 DEF CacheHit, Returned, NoCall
    <3>3. CASE Return(p)
      BY <3>3 DEF Return, NoCall
    <3>4. CASE InvalidateContainerScan(p)
      BY <3>4 DEF InvalidateContainerScan, NoCall
    <3>5. CASE FollowerReads(p)
      <4> DEFINE c == IF scanCache.present THEN Returned(scanCache.entries, FALSE)
                      ELSE Returned({}, call[p].err)
      <4>1. c.pc = "done"
        BY DEF Returned, NoCall
      <4> QED BY <3>5, <4>1 DEF FollowerReads
    <3>6. CASE \E o \in Object : Change(p, o)
      <4> DEFINE c == [call[p] EXCEPT !.pc = "dirty"]
      <4>1. c.pc = "dirty"
        BY DEF TypeOK, CallState
      <4> QED BY <3>6, <4>1 DEF Change, Goto
    <3> QED BY <1>2, <3>1, <3>2, <3>3, <3>4, <3>5, <3>6
  <2> QED BY <2>1, FlightKept
<1>3. ASSUME NEW p \in Proc, Follow(p) PROVE SingleFlight'
  <2> DEFINE c == [call[p] EXCEPT !.pc = "wait", !.leader = scanInflight]
  <2>1. c.pc = "wait" /\ c.leader = scanInflight
    BY DEF TypeOK, CallState
  <2>2. call' = [call EXCEPT ![p] = c] /\ UNCHANGED scanInflight
        /\ call[p].pc = "lookup" /\ InFlight
    BY <1>3 DEF Follow
  <2> HIDE DEF c
  <2> QED BY <2>1, <2>2, FlightKept
<1>4. ASSUME NEW p \in Proc,
             Search(p) \/ SearchFails(p)
             \/ \E o \in Object : Head(p, o) \/ HeadFails(p, o)
      PROVE  SingleFlight'
  <2>1. PICK c : /\ call' = [call EXCEPT ![p] = c] /\ UNCHANGED scanInflight
                 /\ c.pc = "heads" /\ call[p].pc \in {"search", "heads"}
    <3>1. CASE Search(p) \/ SearchFails(p)
      BY <3>1 DEF Search, SearchFails, Lists, NoCall
    <3>2. CASE \E o \in Object : Head(p, o)
      <4>1. PICK o \in Object : Head(p, o)
        BY <3>2
      <4> DEFINE c == [call[p] EXCEPT !.todo = @ \ {o}]
      <4>2. c.pc = call[p].pc
        BY DEF TypeOK, CallState
      <4> QED BY <4>1, <4>2 DEF Head
    <3>3. CASE \E o \in Object : HeadFails(p, o)
      <4>1. PICK o \in Object : HeadFails(p, o)
        BY <3>3
      <4> DEFINE c == [call[p] EXCEPT !.todo = @ \ {o}, !.err = TRUE, !.ok = FALSE]
      <4>2. c.pc = call[p].pc
        BY DEF TypeOK, CallState
      <4> QED BY <4>1, <4>2 DEF HeadFails
    <3> QED BY <1>4, <3>1, <3>2, <3>3
  <2> QED BY <2>1, FlightKept
<1>5. ASSUME NEW p \in Proc, Lead(p) PROVE SingleFlight'
  <2> DEFINE c == [call[p] EXCEPT !.pc = "search"]
  <2>1. c.pc = "search"
    BY DEF TypeOK, CallState
  <2>2. call' = [call EXCEPT ![p] = c] /\ scanInflight' = p
    BY <1>5 DEF Lead, Goto
  <2> HIDE DEF c
  <2>3. call'[p] = c /\ \A q \in Proc : q # p => call'[q] = call[q]
    BY <2>2 DEF TypeOK
  <2>4. scanInflight = NoProc
    BY <1>5 DEF Lead, InFlight
  <2>5. \A q \in Proc : call[q].pc \notin {"search", "heads", "wait"}
    BY <2>4, ScanAssumption DEF SingleFlight, Leads, InFlight
  <2> QED BY <2>1, <2>2, <2>3, <2>5 DEF SingleFlight, Leads, InFlight
<1>6. ASSUME NEW p \in Proc, Publish(p) PROVE SingleFlight'
  <2>1. scanInflight = p /\ scanInflight' = NoProc
    BY <1>6 DEF Publish, SingleFlight, Leads
  <2>2. ASSUME NEW q \in Proc PROVE call'[q].pc \notin {"search", "heads", "wait"}
    <3>1. CASE q = p
      BY <1>6, <3>1 DEF Publish, Returned, NoCall
    <3>2. CASE q # p /\ Woken(p, q)
      <4>1. call'[q] = [call[q] EXCEPT !.pc = "woken", !.err = call[p].err]
        BY <1>6, <3>2 DEF Publish
      <4>2. call'[q].pc = "woken"
        BY <4>1 DEF TypeOK, CallState
      <4> QED BY <4>2
    <3>3. CASE q # p /\ ~Woken(p, q)
      <4>1. call'[q] = call[q]
        BY <1>6, <3>3 DEF Publish
      <4> QED BY <2>1, <3>3, <4>1 DEF SingleFlight, Leads, Woken
    <3> QED BY <3>1, <3>2, <3>3
  <2> QED BY <2>1, <2>2, ScanAssumption DEF SingleFlight, Leads
<1>7. CASE Expire
  BY <1>7 DEF Expire, SingleFlight, Leads, InFlight
<1> QED BY <1>1, <1>2, <1>3, <1>4, <1>5, <1>6, <1>7 DEF Next, Step

(* Parallel callers share one scan: at every moment at most one goroutine   *)
(* lists the container, it is the registered flight, and every follower     *)
(* waits for it.                                                            *)
THEOREM OneFlight == Spec => []SingleFlight
<1>1. Init => SingleFlight
  <2> SUFFICES ASSUME Init PROVE SingleFlight
    OBVIOUS
  <2>1. \A p \in Proc : call[p].pc = "idle" /\ scanInflight # p
    BY ScanAssumption DEF Init, NoCall
  <2> QED BY <2>1 DEF SingleFlight, Leads, At
<1>2. TypeOK /\ SingleFlight /\ [Next]_vars => SingleFlight'
  BY NextFlight
<1> QED BY <1>1, <1>2, ScanTypeCorrect, PTL DEF Spec

-----------------------------------------------------------------------------
(* Freshness.  A scan that runs has listed exactly what the container holds, *)
(* because the container does not change under it.                           *)
Listed == \A p \in Proc : At(p, "heads") => call[p].ids = store

FreshInv == TypeOK /\ SingleFlight /\ Fresh /\ Listed

(* A step of one call that changes neither the container nor the listing,    *)
(* and neither begins nor ends a change.                                     *)
LEMMA FreshKept ==
    ASSUME FreshInv, NEW p \in Proc, NEW c, call' = [call EXCEPT ![p] = c],
           UNCHANGED <<store, scanCache>>,
           c.pc = "heads" => c.ids = store,
           c.pc = "dirty" <=> call[p].pc = "dirty"
    PROVE  Fresh' /\ Listed'
<1>1. call'[p] = c /\ \A q \in Proc : q # p => call'[q] = call[q]
  BY DEF FreshInv, TypeOK
<1>2. \A q \in Proc : call'[q].pc = "dirty" <=> call[q].pc = "dirty"
  BY <1>1
<1>3. Fresh'
  BY <1>2 DEF FreshInv, Fresh, At
<1>4. ASSUME NEW q \in Proc, call'[q].pc = "heads" PROVE call'[q].ids = store
  <2>1. CASE q = p
    BY <1>1, <1>4, <2>1
  <2>2. CASE q # p
    BY <1>1, <1>4, <2>2 DEF FreshInv, Listed, At
  <2> QED BY <2>1, <2>2
<1> QED BY <1>3, <1>4 DEF Listed, At

(* Every step of QuietSpec keeps the listing fresh. *)
LEMMA NextFresh ==
    ASSUME FreshInv, [Next /\ Quiet]_vars
    PROVE  FreshInv'
<1> USE DEF serverVars, scanVars, At
<1>1. TypeOK /\ SingleFlight /\ Fresh /\ Listed
  BY DEF FreshInv
<1>2. TypeOK' /\ SingleFlight'
  BY <1>1, NextType, NextFlight
<1>3. SUFFICES Fresh' /\ Listed'
  BY <1>2 DEF FreshInv
<1>4. CASE UNCHANGED vars
  BY <1>1, <1>4 DEF vars, Fresh, Listed
<1>5. ASSUME NEW p \in Proc,
             Call(p) \/ CacheHit(p) \/ Follow(p) \/ Lead(p) \/ Search(p)
             \/ FollowerReads(p) \/ Return(p)
      PROVE  Fresh' /\ Listed'
  <2>1. PICK c : /\ call' = [call EXCEPT ![p] = c] /\ UNCHANGED <<store, scanCache>>
                 /\ c.pc = "heads" => c.ids = store
                 /\ c.pc # "dirty" /\ call[p].pc # "dirty"
    <3>1. CASE Call(p)
      <4> DEFINE c == [call[p] EXCEPT !.pc = "lookup"]
      <4>1. c.pc = "lookup"
        BY <1>1 DEF TypeOK, CallState
      <4> QED BY <3>1, <4>1 DEF Call, Goto
    <3>2. CASE CacheHit(p)
      <4> DEFINE c == Returned(scanCache.entries, FALSE)
      <4>1. c.pc = "done"
        BY DEF Returned, NoCall
      <4> QED BY <3>2, <4>1 DEF CacheHit
    <3>3. CASE Follow(p)
      <4> DEFINE c == [call[p] EXCEPT !.pc = "wait", !.leader = scanInflight]
      <4>1. c.pc = "wait"
        BY <1>1 DEF TypeOK, CallState
      <4> QED BY <3>3, <4>1 DEF Follow
    <3>4. CASE Lead(p)
      <4> DEFINE c == [call[p] EXCEPT !.pc = "search"]
      <4>1. c.pc = "search"
        BY <1>1 DEF TypeOK, CallState
      <4> QED BY <3>4, <4>1 DEF Lead, Goto
    <3>5. CASE Search(p)
      <4> DEFINE c == [NoCall EXCEPT !.pc = "heads", !.ids = store, !.todo = store,
                                     !.ok = TRUE]
      <4>1. c.pc = "heads" /\ c.ids = store
        BY DEF NoCall
      <4> QED BY <3>5, <4>1 DEF Search, Lists
    <3>6. CASE FollowerReads(p)
      <4> DEFINE c == IF scanCache.present THEN Returned(scanCache.entries, FALSE)
                      ELSE Returned({}, call[p].err)
      <4>1. c.pc = "done"
        BY DEF Returned, NoCall
      <4> QED BY <3>6, <4>1 DEF FollowerReads
    <3>7. CASE Return(p)
      <4>1. NoCall.pc = "idle"
        BY DEF NoCall
      <4> QED BY <3>7, <4>1 DEF Return
    <3> QED BY <1>5, <3>1, <3>2, <3>3, <3>4, <3>5, <3>6, <3>7
  <2> QED BY <2>1, FreshKept
<1>6. ASSUME NEW p \in Proc, NEW o \in Object, Head(p, o) \/ HeadFails(p, o)
      PROVE  Fresh' /\ Listed'
  <2>1. PICK c : /\ call' = [call EXCEPT ![p] = c] /\ UNCHANGED <<store, scanCache>>
                 /\ c.pc = call[p].pc /\ c.ids = call[p].ids /\ call[p].pc = "heads"
    <3>1. CASE Head(p, o)
      <4> DEFINE c == [call[p] EXCEPT !.todo = @ \ {o}]
      <4>1. c.pc = call[p].pc /\ c.ids = call[p].ids
        BY <1>1 DEF TypeOK, CallState
      <4> QED BY <3>1, <4>1 DEF Head
    <3>2. CASE HeadFails(p, o)
      <4> DEFINE c == [call[p] EXCEPT !.todo = @ \ {o}, !.err = TRUE, !.ok = FALSE]
      <4>1. c.pc = call[p].pc /\ c.ids = call[p].ids
        BY <1>1 DEF TypeOK, CallState
      <4> QED BY <3>2, <4>1 DEF HeadFails
    <3> QED BY <1>6, <3>1, <3>2
  <2>2. c.ids = store /\ c.pc # "dirty" /\ call[p].pc # "dirty"
    BY <1>1, <2>1 DEF Listed
  <2> QED BY <2>1, <2>2, FreshKept
<1>7. ASSUME NEW p \in Proc, SearchFails(p), Quiet PROVE FALSE
  <2>1. call'[p] = [NoCall EXCEPT !.pc = "heads", !.ids = {}, !.todo = {}, !.ok = FALSE]
    BY <1>1, <1>7 DEF SearchFails, Lists, TypeOK
  <2>2. call'[p].pc = "heads" /\ ~call'[p].ok
    BY <2>1 DEF NoCall
  <2> QED BY <1>7, <2>2 DEF SearchFails, Quiet
<1>8. ASSUME NEW p \in Proc, Publish(p) PROVE Fresh' /\ Listed'
  <2>1. /\ call[p].pc = "heads" /\ call[p].ids = store /\ UNCHANGED store
        /\ scanCache' = IF call[p].err THEN scanCache
                        ELSE [present |-> TRUE, expired |-> FALSE,
                              entries |-> call[p].ids]
    BY <1>1, <1>8 DEF Publish, Listed
  <2>2. ASSUME NEW q \in Proc
        PROVE  /\ call'[q].pc # "heads"
               /\ call'[q].pc = "dirty" <=> call[q].pc = "dirty"
    <3>1. CASE q = p
      <4>1. call'[q].pc = "done"
        BY <1>8, <3>1 DEF Publish, Returned, NoCall
      <4> QED BY <2>1, <3>1, <4>1
    <3>2. CASE q # p /\ Woken(p, q)
      <4>1. call'[q] = [call[q] EXCEPT !.pc = "woken", !.err = call[p].err]
        BY <1>8, <3>2 DEF Publish
      <4>2. call'[q].pc = "woken" /\ call[q].pc = "wait"
        BY <1>1, <3>2, <4>1 DEF TypeOK, CallState, Woken
      <4> QED BY <4>2
    <3>3. CASE q # p /\ ~Woken(p, q)
      <4>1. call'[q] = call[q]
        BY <1>8, <3>3 DEF Publish
      <4>2. call[q].pc # "heads"
        BY <1>1, <2>1, <3>3 DEF SingleFlight, Leads
      <4> QED BY <4>1, <4>2
    <3> QED BY <3>1, <3>2, <3>3
  <2>3. scanCache' = scanCache \/ scanCache'.entries = store
    BY <2>1
  <2> QED BY <1>1, <2>1, <2>2, <2>3 DEF Fresh, Listed
<1>9. ASSUME NEW p \in Proc, NEW o \in Object, Change(p, o), Quiet
      PROVE  Fresh' /\ Listed'
  <2> DEFINE c == [call[p] EXCEPT !.pc = "dirty"]
  <2>1. c.pc = "dirty"
    BY <1>1 DEF TypeOK, CallState
  <2>2. call' = [call EXCEPT ![p] = c]
    BY <1>9 DEF Change, Goto
  <2> HIDE DEF c
  <2>3. call'[p] = c /\ \A q \in Proc : q # p => call'[q] = call[q]
    BY <1>1, <2>2 DEF TypeOK
  <2>4. store' # store
    BY <1>9 DEF Change, Put, Delete
  <2>5. \A q \in Proc : call[q].pc # "heads"
    BY <1>1, <1>9, <2>4, ScanAssumption DEF Quiet, SingleFlight, Leads
  <2>6. Fresh'
    BY <2>1, <2>3 DEF Fresh
  <2> QED BY <2>1, <2>3, <2>5, <2>6 DEF Listed
<1>10. ASSUME NEW p \in Proc, InvalidateContainerScan(p) PROVE Fresh' /\ Listed'
  <2>1. call' = [call EXCEPT ![p] = NoCall] /\ UNCHANGED store /\ ~scanCache'.present
    BY <1>10 DEF InvalidateContainerScan, Dropped, NoListing
  <2>2. NoCall.pc = "idle"
    BY DEF NoCall
  <2>3. call'[p] = NoCall /\ \A q \in Proc : q # p => call'[q] = call[q]
    BY <1>1, <2>1 DEF TypeOK
  <2>4. Listed'
    BY <1>1, <2>1, <2>2, <2>3 DEF Listed
  <2> QED BY <2>1, <2>4 DEF Fresh
<1>11. CASE Expire
  <2>1. scanCache'.entries = scanCache.entries /\ scanCache'.present = scanCache.present
    BY <1>1, <1>11 DEF Expire, TypeOK, Listing
  <2> QED BY <1>1, <1>11, <2>1 DEF Expire, Fresh, Listed
<1> QED BY <1>4, <1>5, <1>6, <1>7, <1>8, <1>9, <1>10, <1>11 DEF Next, Step

(* The listing is fresh at the start. *)
LEMMA InitFresh ==
    ASSUME Init
    PROVE  FreshInv
<1>1. TypeOK /\ SingleFlight
  <2>1. NoCall \in CallState /\ NoListing \in Listing
    BY DEF NoCall, CallState, NoListing, Listing
  <2>2. call = [p \in Proc |-> NoCall] /\ call \in [Proc -> CallState]
    BY <2>1 DEF Init
  <2>3. \A p \in Proc : /\ call[p].todo \subseteq call[p].ids
                        /\ call[p].pc = "idle"
                        /\ scanInflight # p
    BY <2>2, ScanAssumption DEF Init, NoCall
  <2> QED BY <2>1, <2>2, <2>3, ScanAssumption
          DEF Init, TypeOK, SingleFlight, Leads, At
<1>2. ~scanCache.present /\ \A p \in Proc : call[p].pc = "idle"
  BY DEF Init, NoListing, NoCall
<1> QED BY <1>1, <1>2 DEF FreshInv, Fresh, Listed, At

(* In the executions in which no scan sees a change and the search answers,  *)
(* a cached listing is the content of the container as soon as every change  *)
(* has been followed by its invalidation.                                    *)
THEOREM ListingIsFresh == QuietSpec => []Fresh
<1>1. Init => FreshInv
  BY InitFresh
<1>2. FreshInv /\ [Next /\ Quiet]_vars => FreshInv'
  BY NextFresh
<1>3. FreshInv => Fresh
  BY DEF FreshInv
<1> QED BY <1>1, <1>2, <1>3, PTL DEF QuietSpec
=============================================================================
