--------------------------- MODULE LifecycleProofs ---------------------------
(********************************************************************************)
(* For any number of toggles, threads and mounts: the tray can reach what is    *)
(* open, and the extension reports no failure of its own making.  For any file, *)
(* page and chunk: a hydration that succeeds has covered the request.  And the  *)
(* listing of HeadScan stays fresh in an instance with other components.        *)
(********************************************************************************)
EXTENDS MCParts, HeadScanProofs, Hydration, TLAPS

(* TrayMount: what is open can be reached. *)

Serving(t) == toggler[t].pc = "serves"
Pinning(t) == toggler[t].pc = "pins"

TrayTypeOK ==
    /\ made \in 0..MaxMount
    /\ activeMount \in 0..made
    /\ clients \subseteq 1..made /\ served \subseteq 1..made
    /\ toggler \in [Toggler -> [pc : {"idle", "connects", "serves", "pins"}, mount : 0..made]]
    /\ cleaner \in [Mount -> [pc : {"none", "starts", "waits", "unmounts", "shuts", "clears",
                                    "ended"},
                              waitsFor : 0..MaxMount]]
    /\ mountCancel \in 0..MaxMount
    /\ \A t \in Toggler : Serving(t) \/ Pinning(t) => toggler[t].mount # NoMount

\* Toggles that do not overlap: who mounts is alone, and nothing is mounted.
TogglesApart ==
    /\ \A t \in Toggler : Mounting(t) => activeMount = NoMount
    /\ \A t, u \in Toggler : Mounting(t) /\ Mounting(u) => t = u
    /\ \A t \in Toggler : Serving(t) => toggler[t].mount \notin served
    /\ \A t \in Toggler : Pinning(t) => activeMount = toggler[t].mount /\ activeMount # NoMount
    /\ \A t, u \in Toggler : Pinning(t) /\ Pinning(u) => t = u

Working(m) == cleaner[m].pc \in {"starts", "waits", "unmounts", "shuts", "clears"}

\* Only the goroutine of the active mount is there, once its toggle is through;
\* at its end the mount is closed.
CleanersApart ==
    /\ \A m \in Mount : Working(m) => activeMount = m
    /\ \A m \in Mount, t \in Toggler : ~(Working(m) /\ Pinning(t))
    /\ \A m \in Mount : cleaner[m].pc \in {"shuts", "clears"} => m \notin served \ busy
    /\ \A m \in Mount : cleaner[m].pc = "clears" => m \notin clients

\* What is open is active, or its toggle has just connected its client.
OpenKnown ==
    /\ \A m \in clients : m = activeMount \/ \E t \in Toggler : Serving(t) /\ toggler[t].mount = m
    /\ \A m \in served \ busy : m = activeMount

Apart == TogglesApart /\ CleanersApart /\ OpenKnown

TrayInv ==
    /\ TrayTypeOK
    /\ running /\ ~overlapped => Apart

ToggleLabel == {"idle", "connects", "serves", "pins"}
CleanLabel == {"none", "starts", "waits", "unmounts", "shuts", "clears", "ended"}

(* A toggle moves. *)
LEMMA TogglerMoves ==
    ASSUME TrayTypeOK, NEW t \in Toggler, NEW r,
           toggler' = [toggler EXCEPT ![t] = r], made' \in Nat, made <= made',
           r \in [pc : ToggleLabel, mount : 0..made'],
           r.pc \in {"serves", "pins"} => r.mount # NoMount
    PROVE  /\ toggler'[t] = r /\ \A u \in Toggler \ {t} : toggler'[u] = toggler[u]
           /\ toggler' \in [Toggler -> [pc : ToggleLabel, mount : 0..made']]
           /\ \A u \in Toggler : (Serving(u) \/ Pinning(u))' => toggler'[u].mount # NoMount
<1>1. toggler \in [Toggler -> [pc : ToggleLabel, mount : 0..made]] /\ made \in Nat
  BY TrayAssumption DEF TrayTypeOK, ToggleLabel
<1>2. \A u \in Toggler : toggler'[u] = IF u = t THEN r ELSE toggler[u]
  BY <1>1
<1>3. 0..made \subseteq 0..made'
  BY <1>1
<1>4. \A u \in Toggler : toggler[u] \in [pc : ToggleLabel, mount : 0..made']
  BY <1>1, <1>3
<1>5. toggler' \in [Toggler -> [pc : ToggleLabel, mount : 0..made']]
  BY <1>1, <1>2, <1>4
<1>6. \A u \in Toggler : (Serving(u) \/ Pinning(u))' => toggler'[u].mount # NoMount
  BY <1>2 DEF TrayTypeOK, Serving, Pinning
<1> QED BY <1>2, <1>5, <1>6

(* The goroutine of a mount moves. *)
LEMMA CleanerMoves ==
    ASSUME TrayTypeOK, NEW m \in Mount, NEW r \in [pc : CleanLabel, waitsFor : 0..MaxMount],
           cleaner' = [cleaner EXCEPT ![m] = r]
    PROVE  /\ cleaner'[m] = r /\ \A n \in Mount \ {m} : cleaner'[n] = cleaner[n]
           /\ cleaner' \in [Mount -> [pc : CleanLabel, waitsFor : 0..MaxMount]]
BY DEF TrayTypeOK, CleanLabel

(* What is open or served is a mount. *)
LEMMA NoMountIsNone ==
    ASSUME TrayTypeOK
    PROVE  NoMount \notin clients /\ NoMount \notin served
BY TrayAssumption DEF TrayTypeOK, NoMount

(* Steps that only end a context. *)
LEMMA CancelsInv ==
    ASSUME TrayInv,
           UNCHANGED <<activeMount, mountCancel, clients, served, made, toggler, cleaner,
                       overlapped, busy, running>>
    PROVE  TrayInv'
<1>1. TrayTypeOK'
  BY DEF TrayInv, TrayTypeOK, Serving, Pinning
<1>2. Apart => Apart'
  BY DEF Apart, TogglesApart, CleanersApart, OpenKnown, Mounting, Serving, Pinning, Working
<1> QED BY <1>1, <1>2 DEF TrayInv

(* A toggle begins to mount; if another one mounts already, they overlap. *)
LEMMA BeginsInv ==
    ASSUME TrayInv, running, NEW t \in Toggler, ToggleMounts(t)
    PROVE  TrayInv'
<1> DEFINE r == [toggler[t] EXCEPT !.pc = "connects"]
<1>1. /\ UNCHANGED <<activeMount, mountCancel, clients, served, made, cleaner, busy, running>>
      /\ toggler' = [toggler EXCEPT ![t] = r]
      /\ activeMount = NoMount /\ toggler[t].pc = "idle" /\ TrayTypeOK
  BY DEF ToggleMounts, TrayInv
<1>2. /\ r \in [pc : ToggleLabel, mount : 0..made'] /\ r.pc = "connects"
      /\ made' \in Nat /\ made <= made'
  BY <1>1, TrayAssumption DEF TrayTypeOK, ToggleLabel
<1> HIDE DEF r
<1>3. /\ toggler'[t] = r /\ \A u \in Toggler \ {t} : toggler'[u] = toggler[u]
      /\ toggler' \in [Toggler -> [pc : ToggleLabel, mount : 0..made']]
      /\ \A u \in Toggler : (Serving(u) \/ Pinning(u))' => toggler'[u].mount # NoMount
  BY <1>1, <1>2, TogglerMoves
<1>4. TrayTypeOK'
  BY <1>1, <1>3 DEF TrayTypeOK, ToggleLabel
<1>5. ~overlapped' => ~overlapped /\ \A u \in Toggler : ~Mounting(u)
  BY Zenon DEF ToggleMounts
<1>6. ASSUME ~overlapped' PROVE Apart'
  <2>1. Apart /\ \A u \in Toggler : ~Mounting(u)
    BY <1>5, <1>6 DEF TrayInv
  <2>2. TogglesApart'
    BY <1>1, <1>2, <1>3, <2>1 DEF Apart, TogglesApart, Mounting, Serving, Pinning
  <2>3. CleanersApart'
    BY <1>1, <1>2, <1>3, <2>1 DEF Apart, CleanersApart, Working, Pinning
  <2>4. OpenKnown'
    BY <1>1, <1>2, <1>3, <2>1 DEF Apart, OpenKnown, Serving, Mounting
  <2> QED BY <2>2, <2>3, <2>4 DEF Apart
<1> QED BY <1>4, <1>6 DEF TrayInv

(* Its client is the only one that is open. *)
LEMMA MountConnectsInv ==
    ASSUME TrayInv, running, NEW t \in Toggler, MountConnects(t)
    PROVE  TrayInv'
<1> DEFINE r == [pc |-> "serves", mount |-> made']
<1>1. /\ made' = made + 1 /\ made' \in 0..MaxMount /\ made \in Nat /\ MaxMount \in Nat
      /\ clients' = clients \cup {made'} /\ toggler[t].pc = "connects"
      /\ toggler' = [toggler EXCEPT ![t] = r] /\ TrayTypeOK
      /\ UNCHANGED <<activeMount, mountCancel, served, cleaner, busy, overlapped, running>>
  BY TrayAssumption DEF MountConnects, TrayInv, TrayTypeOK
<1>2. /\ r \in [pc : ToggleLabel, mount : 0..made'] /\ r.pc = "serves" /\ r.mount = made'
      /\ made' \in Nat /\ made <= made' /\ made' # NoMount
  BY <1>1 DEF ToggleLabel, NoMount
<1> HIDE DEF r
<1>3. /\ toggler'[t] = r /\ \A u \in Toggler \ {t} : toggler'[u] = toggler[u]
      /\ toggler' \in [Toggler -> [pc : ToggleLabel, mount : 0..made']]
      /\ \A u \in Toggler : (Serving(u) \/ Pinning(u))' => toggler'[u].mount # NoMount
  BY <1>1, <1>2, TogglerMoves
<1>4. activeMount' \in 0..made' /\ clients' \subseteq 1..made' /\ served' \subseteq 1..made'
  BY <1>1 DEF TrayTypeOK
<1>5. TrayTypeOK'
  BY <1>1, <1>3, <1>4 DEF TrayTypeOK, ToggleLabel
<1>6. ASSUME ~overlapped' PROVE Apart'
  <2>1. Apart
    BY <1>1, <1>6 DEF TrayInv
  <2>2. /\ activeMount = NoMount /\ \A u \in Toggler \ {t} : ~Mounting(u)
        /\ \A u \in Toggler \ {t} : ~Pinning(u)
    BY <1>1, <2>1 DEF Apart, TogglesApart, Mounting, Pinning
  <2>3. made' \notin served
    BY <1>1 DEF TrayTypeOK
  <2>4. TogglesApart'
    BY <1>1, <1>2, <1>3, <2>2, <2>3 DEF TogglesApart, Mounting, Serving, Pinning
  <2>5. \A n \in Mount : ~Working(n)
    BY <2>1, <2>2 DEF Apart, CleanersApart, NoMount, Mount
  <2>6. CleanersApart'
    BY <1>1, <2>5 DEF CleanersApart, Working
  <2>7. \A u \in Toggler : ~Serving(u)
    BY <1>1, <2>2 DEF Serving, Mounting
  <2>8. clients = {} /\ served \ busy = {}
    BY <1>1, <2>1, <2>2, <2>7, NoMountIsNone DEF Apart, OpenKnown
  <2>9. OpenKnown'
    BY <1>1, <1>2, <1>3, <2>8 DEF OpenKnown, Serving
  <2> QED BY <2>4, <2>6, <2>9 DEF Apart
<1> QED BY <1>5, <1>6 DEF TrayInv

(* A failing Mount leaves nothing open. *)
LEMMA FailsInv ==
    ASSUME TrayInv, running, NEW t \in Toggler, MountFails(t)
    PROVE  TrayInv'
<1>1. /\ clients' = clients \ {toggler[t].mount} /\ activeMount' = NoMount /\ Mounting(t)
      /\ toggler' = [toggler EXCEPT ![t] = NoToggle] /\ TrayTypeOK
      /\ UNCHANGED <<mountCancel, served, made, cleaner, busy, overlapped, running>>
  BY DEF MountFails, ClosedOnError, TrayInv
<1>2. /\ NoToggle \in [pc : ToggleLabel, mount : 0..made'] /\ NoToggle.pc = "idle"
      /\ made' \in Nat /\ made <= made' /\ 0 \in 0..made'
  BY <1>1, TrayAssumption DEF TrayTypeOK, ToggleLabel, NoToggle, NoMount
<1>3. /\ toggler'[t] = NoToggle /\ \A u \in Toggler \ {t} : toggler'[u] = toggler[u]
      /\ toggler' \in [Toggler -> [pc : ToggleLabel, mount : 0..made']]
      /\ \A u \in Toggler : (Serving(u) \/ Pinning(u))' => toggler'[u].mount # NoMount
  BY <1>1, <1>2, TogglerMoves
<1>4. TrayTypeOK'
  BY <1>1, <1>2, <1>3 DEF TrayTypeOK, ToggleLabel, NoMount
<1>5. ASSUME ~overlapped' PROVE Apart'
  <2>1. Apart /\ activeMount = NoMount
    BY <1>1, <1>5 DEF TrayInv, Apart, TogglesApart
  <2>2. TogglesApart'
    BY <1>1, <1>2, <1>3, <2>1 DEF Apart, TogglesApart, Mounting, Serving, Pinning
  <2>3. \A n \in Mount : ~Working(n)
    BY <2>1 DEF Apart, CleanersApart, NoMount, Mount
  <2>4. CleanersApart'
    BY <1>1, <2>3 DEF CleanersApart, Working
  <2>5. \A u \in Toggler : Serving(u) => u = t
    BY <1>1, <2>1 DEF Apart, TogglesApart, Serving, Mounting
  <2>6. clients' = {} /\ served' \ busy' = {}
    BY <1>1, <2>1, <2>5, NoMountIsNone DEF Apart, OpenKnown
  <2>7. OpenKnown'
    BY <2>6 DEF OpenKnown
  <2> QED BY <2>2, <2>4, <2>7 DEF Apart
<1> QED BY <1>1, <1>4, <1>5 DEF TrayInv

(* The mount that is served becomes the active one. *)
LEMMA ServesInv ==
    ASSUME TrayInv, running, NEW t \in Toggler, MountServes(t)
    PROVE  TrayInv'
<1> DEFINE m == toggler[t].mount
           r == [toggler[t] EXCEPT !.pc = "pins"]
<1>1. /\ served' = served \cup {m} /\ activeMount' = m /\ toggler[t].pc = "serves"
      /\ toggler' = [toggler EXCEPT ![t] = r] /\ TrayTypeOK
      /\ UNCHANGED <<mountCancel, clients, made, cleaner, busy, overlapped, running>>
  BY DEF MountServes, TrayInv
<1>2. /\ r \in [pc : ToggleLabel, mount : 0..made'] /\ r.pc = "pins" /\ r.mount = m
      /\ made' \in Nat /\ made <= made' /\ m # NoMount /\ m \in 1..made
  BY <1>1, TrayAssumption DEF TrayTypeOK, ToggleLabel, Serving, NoMount
<1> HIDE DEF r
<1>3. /\ toggler'[t] = r /\ \A u \in Toggler \ {t} : toggler'[u] = toggler[u]
      /\ toggler' \in [Toggler -> [pc : ToggleLabel, mount : 0..made']]
      /\ \A u \in Toggler : (Serving(u) \/ Pinning(u))' => toggler'[u].mount # NoMount
  BY <1>1, <1>2, TogglerMoves
<1>4. activeMount' \in 0..made' /\ clients' \subseteq 1..made' /\ served' \subseteq 1..made'
  BY <1>1, <1>2 DEF TrayTypeOK
<1>5. TrayTypeOK'
  BY <1>1, <1>3, <1>4 DEF TrayTypeOK, ToggleLabel
<1>6. ASSUME ~overlapped' PROVE Apart'
  <2>1. Apart
    BY <1>1, <1>6 DEF TrayInv
  <2>2. /\ activeMount = NoMount /\ \A u \in Toggler \ {t} : ~Mounting(u) /\ ~Pinning(u)
    BY <1>1, <2>1 DEF Apart, TogglesApart, Mounting, Pinning
  <2>3. TogglesApart'
    BY <1>1, <1>2, <1>3, <2>2 DEF TogglesApart, Mounting, Serving, Pinning
  <2>4. \A n \in Mount : ~Working(n)
    BY <2>1, <2>2 DEF Apart, CleanersApart, NoMount, Mount
  <2>5. CleanersApart'
    BY <1>1, <2>4 DEF CleanersApart, Working
  <2>6. served \ busy = {} /\ clients \subseteq {m}
    BY <1>1, <2>1, <2>2, NoMountIsNone DEF Apart, OpenKnown, Serving, Mounting
  <2>7. OpenKnown'
    BY <1>1, <2>6 DEF OpenKnown
  <2> QED BY <2>3, <2>5, <2>7 DEF Apart
<1> QED BY <1>5, <1>6 DEF TrayInv

(* The goroutine of the active mount starts, its toggle is through. *)
LEMMA WatchedInv ==
    ASSUME TrayInv, running, NEW t \in Toggler, MountWatched(t)
    PROVE  TrayInv'
<1> DEFINE m == toggler[t].mount
           r == [cleaner[m] EXCEPT !.pc = "starts"]
<1>1. /\ toggler[t].pc = "pins" /\ mountCancel' = m
      /\ cleaner' = [cleaner EXCEPT ![m] = r]
      /\ toggler' = [toggler EXCEPT ![t] = NoToggle] /\ TrayTypeOK
      /\ UNCHANGED <<activeMount, clients, served, made, busy, overlapped, running>>
  BY DEF MountWatched, TrayInv
<1>2. /\ NoToggle \in [pc : ToggleLabel, mount : 0..made'] /\ NoToggle.pc = "idle"
      /\ made' \in Nat /\ made <= made' /\ m # NoMount /\ m \in Mount /\ m \in 0..MaxMount
  BY <1>1, TrayAssumption
  DEF TrayTypeOK, ToggleLabel, NoToggle, NoMount, Pinning, Mount
<1>3. /\ toggler'[t] = NoToggle /\ \A u \in Toggler \ {t} : toggler'[u] = toggler[u]
      /\ toggler' \in [Toggler -> [pc : ToggleLabel, mount : 0..made']]
      /\ \A u \in Toggler : (Serving(u) \/ Pinning(u))' => toggler'[u].mount # NoMount
  BY <1>1, <1>2, TogglerMoves
<1>4. r \in [pc : CleanLabel, waitsFor : 0..MaxMount] /\ r.pc = "starts"
  BY <1>1, <1>2 DEF TrayTypeOK, CleanLabel
<1> HIDE DEF r
<1>5. /\ cleaner'[m] = r /\ \A n \in Mount \ {m} : cleaner'[n] = cleaner[n]
      /\ cleaner' \in [Mount -> [pc : CleanLabel, waitsFor : 0..MaxMount]]
  BY <1>1, <1>2, <1>4, CleanerMoves
<1>6. TrayTypeOK'
  BY <1>1, <1>2, <1>3, <1>5 DEF TrayTypeOK, ToggleLabel, CleanLabel
<1>7. ASSUME ~overlapped' PROVE Apart'
  <2>1. Apart
    BY <1>1, <1>7 DEF TrayInv
  <2>2. /\ activeMount = m /\ \A u \in Toggler \ {t} : ~Pinning(u)
        /\ \A u \in Toggler : ~Mounting(u)
    BY <1>1, <1>2, <2>1 DEF Apart, TogglesApart, Mounting, Pinning
  <2>3. TogglesApart'
    BY <1>1, <1>2, <1>3, <2>2 DEF TogglesApart, Mounting, Serving, Pinning
  <2>4. \A u \in Toggler : ~Pinning(u)'
    BY <1>2, <1>3, <2>2 DEF Pinning
  <2>5. CleanersApart'
    BY <1>1, <1>2, <1>4, <1>5, <2>1, <2>2, <2>4 DEF Apart, CleanersApart, Working, Pinning
  <2>6. OpenKnown'
    BY <1>1, <2>1, <2>2 DEF Apart, OpenKnown, Serving, Mounting
  <2> QED BY <2>3, <2>5, <2>6 DEF Apart
<1> QED BY <1>1, <1>6, <1>7 DEF TrayInv

(* The goroutine waits, or begins to unmount. *)
LEMMA CleanerGoesInv ==
    ASSUME TrayInv, running, NEW m \in Mount, CleanerStarts(m) \/ CleanerWakes(m)
    PROVE  TrayInv'
<1>1. /\ TrayTypeOK /\ cleaner[m].pc \in {"starts", "waits"}
      /\ UNCHANGED <<activeMount, mountCancel, clients, served, made, toggler, overlapped,
                     busy, running>>
  BY DEF CleanerStarts, CleanerWakes, TrayInv
<1>2. \E r \in [pc : CleanLabel, waitsFor : 0..MaxMount] :
         /\ cleaner' = [cleaner EXCEPT ![m] = r]
         /\ r.pc \in {"waits", "unmounts", "ended"}
  <2>1. CASE CleanerStarts(m)
    <3> DEFINE r == [pc |-> "waits", waitsFor |-> mountCancel]
    <3>1. cleaner' = [cleaner EXCEPT ![m] = r] /\ r.pc = "waits"
      BY <2>1 DEF CleanerStarts
    <3>2. r \in [pc : CleanLabel, waitsFor : 0..MaxMount]
      BY <1>1 DEF TrayTypeOK, CleanLabel
    <3> QED BY <3>1, <3>2
  <2>2. CASE CleanerWakes(m)
    <3> DEFINE label == IF activeMount # NoMount THEN "unmounts" ELSE "ended"
               r == [cleaner[m] EXCEPT !.pc = label]
    <3>1. cleaner' = [cleaner EXCEPT ![m] = r]
      BY <2>2 DEF CleanerWakes
    <3>2. label \in {"unmounts", "ended"}
      OBVIOUS
    <3> HIDE DEF label
    <3>3. r \in [pc : CleanLabel, waitsFor : 0..MaxMount] /\ r.pc = label
      BY <1>1, <3>2 DEF TrayTypeOK, CleanLabel
    <3> QED BY <3>1, <3>2, <3>3
  <2> QED BY <2>1, <2>2
<1>3. PICK r \in [pc : CleanLabel, waitsFor : 0..MaxMount] :
         /\ cleaner' = [cleaner EXCEPT ![m] = r]
         /\ r.pc \in {"waits", "unmounts", "ended"}
  BY <1>2
<1>4. /\ cleaner'[m] = r /\ \A n \in Mount \ {m} : cleaner'[n] = cleaner[n]
      /\ cleaner' \in [Mount -> [pc : CleanLabel, waitsFor : 0..MaxMount]]
  BY <1>1, <1>3, CleanerMoves
<1>5. TrayTypeOK'
  BY <1>1, <1>4 DEF TrayTypeOK, CleanLabel, Serving, Pinning
<1>6. Apart => Apart'
  BY <1>1, <1>3, <1>4
  DEF Apart, TogglesApart, CleanersApart, OpenKnown, Mounting, Serving, Pinning, Working
<1> QED BY <1>1, <1>5, <1>6 DEF TrayInv

(* The goroutine unmounts, shuts down and forgets the active mount. *)
LEMMA CleanerEndsInv ==
    ASSUME TrayInv, running, NEW m \in Mount,
           CleanerUnmounts(m) \/ CleanerShutsDown(m) \/ CleanerClears(m)
    PROVE  TrayInv'
<1>1. TrayTypeOK /\ cleaner[m].pc \in {"unmounts", "shuts", "clears"}
  BY DEF CleanerUnmounts, CleanerShutsDown, CleanerClears, TrayInv
<1> DEFINE GoesOn(l) == cleaner' = [cleaner EXCEPT ![m] = [cleaner[m] EXCEPT !.pc = l]]
<1>2. ASSUME NEW l \in {"shuts", "clears", "ended"}, GoesOn(l)
      PROVE  /\ cleaner'[m].pc = l /\ \A n \in Mount \ {m} : cleaner'[n] = cleaner[n]
             /\ cleaner' \in [Mount -> [pc : CleanLabel, waitsFor : 0..MaxMount]]
  <2> DEFINE r == [cleaner[m] EXCEPT !.pc = l]
  <2>1. r \in [pc : CleanLabel, waitsFor : 0..MaxMount] /\ r.pc = l
    BY <1>1 DEF TrayTypeOK, CleanLabel
  <2>2. cleaner' = [cleaner EXCEPT ![m] = r]
    BY <1>2
  <2> HIDE DEF r
  <2> QED BY <1>1, <2>1, <2>2, CleanerMoves
<1>3. CASE CleanerUnmounts(m)
  <2>1. /\ GoesOn("shuts") /\ served' \subseteq served /\ activeMount \notin served' \ busy'
        /\ served' \ busy' \subseteq served \ busy
        /\ UNCHANGED <<activeMount, mountCancel, clients, made, toggler, overlapped, running>>
    BY <1>3 DEF CleanerUnmounts
  <2>2. TrayTypeOK'
    BY <1>1, <1>2, <2>1 DEF TrayTypeOK, CleanLabel, Serving, Pinning
  <2>3. ASSUME Apart PROVE Apart'
    <3>1. activeMount = m /\ (\A n \in Mount \ {m} : ~Working(n)) /\ ~ \E t \in Toggler : Pinning(t)
      BY <1>1, <2>3 DEF Apart, CleanersApart, Working
    <3>2. TogglesApart'
      BY <2>1, <2>3 DEF Apart, TogglesApart, Mounting, Serving, Pinning
    <3>3. CleanersApart'
      BY <1>2, <2>1, <3>1 DEF CleanersApart, Working, Pinning
    <3>4. OpenKnown'
      BY <2>1, <2>3 DEF Apart, OpenKnown, Serving
    <3> QED BY <3>2, <3>3, <3>4 DEF Apart
  <2> QED BY <2>1, <2>2, <2>3 DEF TrayInv
<1>4. CASE CleanerShutsDown(m)
  <2>1. /\ GoesOn("clears") /\ served' \subseteq served /\ clients' = clients \ {activeMount}
        /\ UNCHANGED <<activeMount, mountCancel, made, toggler, overlapped, busy, running>>
        /\ cleaner[m].pc = "shuts"
    BY <1>4 DEF CleanerShutsDown
  <2>2. TrayTypeOK'
    BY <1>1, <1>2, <2>1 DEF TrayTypeOK, CleanLabel, Serving, Pinning
  <2>3. ASSUME Apart PROVE Apart'
    <3>1. /\ activeMount = m /\ (\A n \in Mount \ {m} : ~Working(n))
          /\ ~ \E t \in Toggler : Pinning(t)
      BY <1>1, <2>3 DEF Apart, CleanersApart, Working
    <3>2. m \notin served \ busy
      BY <2>1, <2>3 DEF Apart, CleanersApart
    <3>3. TogglesApart'
      BY <2>1, <2>3 DEF Apart, TogglesApart, Mounting, Serving, Pinning
    <3>4. CleanersApart'
      BY <1>2, <2>1, <3>1, <3>2 DEF CleanersApart, Working, Pinning
    <3>5. OpenKnown'
      BY <2>1, <2>3 DEF Apart, OpenKnown, Serving
    <3> QED BY <3>3, <3>4, <3>5 DEF Apart
  <2> QED BY <2>1, <2>2, <2>3 DEF TrayInv
<1>5. CASE CleanerClears(m)
  <2>1. /\ GoesOn("ended") /\ activeMount' = NoMount
        /\ UNCHANGED <<mountCancel, clients, served, made, toggler, overlapped, busy, running>>
        /\ cleaner[m].pc = "clears"
    BY <1>5 DEF CleanerClears
  <2>2. activeMount' \in 0..made'
    BY <1>1, <2>1, TrayAssumption DEF TrayTypeOK, NoMount
  <2>3. TrayTypeOK'
    BY <1>1, <1>2, <2>1, <2>2 DEF TrayTypeOK, CleanLabel, Serving, Pinning
  <2>4. ASSUME Apart PROVE Apart'
    <3>1. /\ activeMount = m /\ (\A n \in Mount \ {m} : ~Working(n))
          /\ m \notin clients /\ m \notin served \ busy
          /\ ~ \E t \in Toggler : Pinning(t)
      BY <1>1, <2>1, <2>4 DEF Apart, CleanersApart, Working
    <3>2. TogglesApart'
      BY <2>1, <2>4, <3>1 DEF Apart, TogglesApart, Mounting, Serving, Pinning
    <3>3. CleanersApart'
      BY <1>2, <2>1, <3>1 DEF CleanersApart, Working, Pinning
    <3>4. OpenKnown'
      BY <2>1, <2>4, <3>1 DEF Apart, OpenKnown, Serving
    <3> QED BY <3>2, <3>3, <3>4 DEF Apart
  <2> QED BY <2>1, <2>3, <2>4 DEF TrayInv
<1> QED BY <1>3, <1>4, <1>5

(* Quit: the process is gone. *)
LEMMA QuitInv ==
    ASSUME TrayInv, QuitEnds
    PROVE  TrayInv'
<1>1. /\ clients' = {} /\ running' = FALSE
      /\ UNCHANGED <<activeMount, mountCancel, served, made, toggler, cleaner>>
  BY DEF QuitEnds
<1>2. TrayTypeOK'
  BY <1>1 DEF TrayInv, TrayTypeOK, Serving, Pinning
<1> QED BY <1>1, <1>2 DEF TrayInv

(* The invariant, for any toggles and any number of mounts. *)
LEMMA TrayInvariant == TraySpec => []TrayInv
<1>1. TrayInit => TrayInv
  <2> SUFFICES ASSUME TrayInit PROVE TrayInv
    OBVIOUS
  <2>1. TrayTypeOK
    BY TrayAssumption DEF TrayInit, TrayTypeOK, NoToggle, NoClean, NoMount, Serving, Pinning
  <2>2. Apart
    BY DEF TrayInit, Apart, TogglesApart, CleanersApart, OpenKnown, Mounting, Serving, Pinning,
           Working, NoToggle, NoClean
  <2> QED BY <2>1, <2>2 DEF TrayInv
<1>2. TrayInv /\ [TrayNext]_trayVars => TrayInv'
  <2> SUFFICES ASSUME TrayInv, [TrayNext]_trayVars PROVE TrayInv'
    OBVIOUS
  <2>1. ASSUME running, NEW t \in Toggler, Toggle(t) PROVE TrayInv'
    <3>1. CASE ToggleCancels(t)
      BY <3>1, CancelsInv DEF ToggleCancels
    <3>2. CASE ToggleMounts(t) \/ MountConnects(t) \/ MountFails(t)
      BY <2>1, <3>2, BeginsInv, MountConnectsInv, FailsInv
    <3>3. CASE MountServes(t) \/ MountWatched(t)
      BY <2>1, <3>3, ServesInv, WatchedInv
    <3> QED BY <2>1, <3>1, <3>2, <3>3 DEF Toggle
  <2>2. ASSUME running, NEW m \in Mount, Clean(m) PROVE TrayInv'
    BY <2>2, CleanerGoesInv, CleanerEndsInv DEF Clean
  <2>3. CASE QuitCancels \/ UNCHANGED trayVars
    BY <2>3, CancelsInv DEF QuitCancels, trayVars
  <2>4. CASE QuitEnds
    BY <2>4, QuitInv
  <2> QED BY <2>1, <2>2, <2>3, <2>4 DEF TrayNext
<1> QED BY <1>1, <1>2, PTL DEF TraySpec

(* MountOwned, for any toggles and any number of mounts: while toggles do not
   overlap, the tray can reach every open client and every served mount. *)
THEOREM NothingForgotten == TraySpec => []MountOwned
<1>1. TrayInv => MountOwned
  BY DEF TrayInv, Apart, OpenKnown, MountOwned, Owned, Serving
<1> QED BY <1>1, TrayInvariant, PTL

(* FileProvider: a failure has a cause. *)

ThreadState ==
    [pc : {"idle", "ensures", "connects", "shutsDown", "takes", "runs", "fetchesAgain",
           "ended"},
     op : Operation, attempt : Nat, last : BOOLEAN, uses : Nat,
     result : {"none", "ok", "failed", "truncated"}]

FpTypeOK ==
    /\ connected \in Nat /\ fpClient \in 0..connected /\ closed \subseteq 1..connected
    /\ thread \in [Thread -> ThreadState]

\* What a thread knows while there has been no trouble: whoever is about to use
\* the client has the one of the process.
ThreadOK(r, c) ==
    /\ r.result \in {"none", "ok"}
    /\ r.pc \notin {"shutsDown", "fetchesAgain"}
    /\ r.pc = "takes" => c # NoClient
    /\ r.pc = "runs" => r.uses = c /\ c # NoClient
    /\ r.pc = "connects" => c = NoClient

Calm ==
    /\ \A t \in Thread : ThreadOK(thread[t], fpClient)
    /\ \A t, u \in Thread : IsAt(t, "connects") /\ IsAt(u, "connects") => t = u

FpInv ==
    /\ FpTypeOK
    /\ fpClient \notin closed
    /\ \A t \in Thread : thread[t].pc # "ended" => thread[t].result = "none"
    /\ ~trouble => Calm

(* A step of thread t to the record r, if the others still have a client. *)
LEMMA OneThread ==
    ASSUME FpInv, NEW t \in Thread, NEW r \in ThreadState,
           thread' = [thread EXCEPT ![t] = r],
           r.pc # "ended" => r.result = "none",
           connected' \in Nat, fpClient' \in 0..connected', closed' \subseteq 1..connected',
           fpClient' \notin closed',
           ~trouble' => /\ ThreadOK(r, fpClient')
                        /\ \A u \in Thread \ {t} : /\ ThreadOK(thread[u], fpClient')
                                                   /\ ~(r.pc = "connects" /\ IsAt(u, "connects"))
                        /\ \A u, v \in Thread \ {t} :
                               IsAt(u, "connects") /\ IsAt(v, "connects") => u = v
    PROVE  FpInv'
<1>1. /\ thread' \in [Thread -> ThreadState]
      /\ thread'[t] = r /\ \A u \in Thread \ {t} : thread'[u] = thread[u]
  BY DEF FpInv, FpTypeOK
<1>2. \A u \in Thread : thread'[u].pc # "ended" => thread'[u].result = "none"
  BY <1>1 DEF FpInv
<1>3. ASSUME ~trouble' PROVE Calm'
  <2>1. \A u \in Thread : ThreadOK(thread'[u], fpClient')
    BY <1>1, <1>3
  <2>2. ASSUME NEW u \in Thread, NEW v \in Thread,
               thread'[u].pc = "connects", thread'[v].pc = "connects"
        PROVE  u = v
    BY <1>1, <1>3, <2>2 DEF IsAt
  <2> QED BY <2>1, <2>2 DEF Calm, IsAt
<1> QED BY <1>1, <1>2, <1>3 DEF FpInv, FpTypeOK

\* The new record of a step that moves a thread to a label.
LEMMA MovedRecord ==
    ASSUME NEW r \in ThreadState, NEW l \in {"ensures", "connects", "shutsDown", "takes",
                                              "fetchesAgain", "ended"}
    PROVE  /\ [r EXCEPT !.pc = l] \in ThreadState
           /\ [r EXCEPT !.pc = l].pc = l /\ [r EXCEPT !.pc = l].result = r.result
BY DEF ThreadState

(* An operation begins. *)
LEMMA StartsInv ==
    ASSUME FpInv, NEW t \in Thread, NEW op \in Operation, Starts(t, op)
    PROVE  FpInv'
<1> DEFINE r == [NoOperation EXCEPT !.pc = "ensures", !.op = op, !.last = op # "fetch"]
<1>1. (op # "fetch") \in BOOLEAN
  OBVIOUS
<1>2. r \in ThreadState /\ r.pc = "ensures" /\ r.result = "none"
  BY <1>1 DEF NoOperation, ThreadState, NoClient
<1>3. thread' = [thread EXCEPT ![t] = r] /\ UNCHANGED <<fpClient, connected, closed>>
  BY DEF Starts
<1>4. ThreadOK(r, fpClient)
  BY <1>2 DEF ThreadOK
<1> HIDE DEF r
<1>5. CASE ~trouble
  BY <1>2, <1>3, <1>4, <1>5, OneThread DEF FpInv, FpTypeOK, Calm
<1>6. CASE trouble /\ ~trouble'
  <2>1. \A u \in Thread : IsAt(u, "idle")
    BY <1>6, Zenon DEF Starts
  <2>2. \A u \in Thread : ThreadOK(thread[u], fpClient) /\ ~IsAt(u, "connects")
    BY <2>1 DEF IsAt, ThreadOK, FpInv
  <2> QED BY <1>2, <1>3, <1>4, <2>2, OneThread DEF FpInv, FpTypeOK
<1>7. CASE trouble'
  BY <1>2, <1>3, <1>7, OneThread DEF FpInv, FpTypeOK
<1> QED BY <1>5, <1>6, <1>7

(* It goes on with the client it finds, has no configuration, reads it, or fails to. *)
LEMMA EnsureInv ==
    ASSUME FpInv, NEW t \in Thread,
           EnsureFinds(t) \/ ConfigMissing(t) \/ EnsureReads(t) \/ EnsureFails(t)
    PROVE  FpInv'
<1>1. thread[t] \in ThreadState /\ UNCHANGED <<fpClient, connected, closed>>
      /\ thread[t].pc = "ensures" /\ thread[t].result = "none"
  BY DEF FpInv, FpTypeOK, EnsureFinds, ConfigMissing, EnsureReads, EnsureFails, IsAt
<1> DEFINE m(l) == [thread[t] EXCEPT !.pc = l]
<1>2. \A l \in {"takes", "connects", "shutsDown"} :
          m(l) \in ThreadState /\ m(l).pc = l /\ m(l).result = "none"
  BY <1>1 DEF ThreadState
<1>3. CASE EnsureFinds(t) \/ (ConfigMissing(t) /\ HasClient)
  <2>1. thread' = [thread EXCEPT ![t] = m("takes")] /\ fpClient # NoClient
    BY <1>3 DEF EnsureFinds, ConfigMissing, Moves, HasClient
  <2>2. ~trouble' => ~trouble
    BY <1>3, Zenon DEF EnsureFinds, ConfigMissing
  <2>3. ThreadOK(m("takes"), fpClient)
    BY <1>2, <2>1 DEF ThreadOK
  <2> HIDE DEF m
  <2> QED BY <1>1, <1>2, <2>1, <2>2, <2>3, OneThread DEF FpInv, FpTypeOK, Calm
<1>4. CASE EnsureReads(t)
  <2>1. thread' = [thread EXCEPT ![t] = m("connects")] /\ fpClient = NoClient
    BY <1>4 DEF EnsureReads, Moves, HasClient
  <2>2. ~trouble' => ~trouble /\ \A u \in Thread : ~IsAt(u, "connects")
    BY <1>4, Zenon DEF EnsureReads
  <2>3. ThreadOK(m("connects"), fpClient)
    BY <1>2, <2>1 DEF ThreadOK
  <2> HIDE DEF m
  <2> QED BY <1>1, <1>2, <2>1, <2>2, <2>3, OneThread DEF FpInv, FpTypeOK, Calm
<1>5. CASE EnsureFails(t) \/ (ConfigMissing(t) /\ ~HasClient)
  <2>1. PICK l \in {"shutsDown", "takes"} : thread' = [thread EXCEPT ![t] = m(l)]
    BY <1>5 DEF EnsureFails, ConfigMissing, Moves, NextAttempt
  <2>2. trouble'
    BY <1>5, Zenon DEF EnsureFails, ConfigMissing
  <2> HIDE DEF m
  <2> QED BY <1>1, <1>2, <2>1, <2>2, OneThread DEF FpInv, FpTypeOK
<1> QED BY <1>3, <1>4, <1>5

(* Only clients that were connected are closed. *)
LEMMA ClosesClient ==
    ASSUME FpInv, Closes
    PROVE  /\ closed' \subseteq 1..connected /\ NoClient \notin closed'
           /\ fpClient = NoClient => closed' = closed
BY DEF Closes, FpInv, FpTypeOK, NoClient

(* An attempt to connect succeeds, or fails. *)
LEMMA ConnectsInv ==
    ASSUME FpInv, NEW t \in Thread, InitConnects(t) \/ InitFails(t)
    PROVE  FpInv'
<1>1. thread[t] \in ThreadState /\ thread[t].pc = "connects" /\ thread[t].result = "none"
  BY DEF FpInv, FpTypeOK, InitConnects, InitFails, IsAt
<1>2. closed' \subseteq 1..connected /\ connected \in Nat
      /\ (fpClient = NoClient => closed' = closed) /\ NoClient \notin closed'
  BY ClosesClient DEF InitConnects, InitFails, FpInv, FpTypeOK
<1> DEFINE m(l) == [thread[t] EXCEPT !.pc = l]
<1>3. \A l \in {"takes", "shutsDown"} :
          m(l) \in ThreadState /\ m(l).pc = l /\ m(l).result = "none"
  BY <1>1 DEF ThreadState
<1>4. CASE InitConnects(t)
  <2>1. /\ thread' = [thread EXCEPT ![t] = m("takes")]
        /\ connected' = connected + 1 /\ fpClient' = connected' /\ trouble' = trouble
    BY <1>4 DEF InitConnects, Moves
  <2>2. /\ connected' \in Nat /\ fpClient' \in 0..connected' /\ closed' \subseteq 1..connected'
        /\ fpClient' \notin closed' /\ fpClient' # NoClient
    BY <1>2, <2>1 DEF NoClient
  <2>3. ThreadOK(m("takes"), fpClient')
    BY <1>3, <2>2 DEF ThreadOK
  <2>4. ASSUME ~trouble
        PROVE  /\ \A u \in Thread \ {t} : ThreadOK(thread[u], fpClient') /\ ~IsAt(u, "connects")
    <3>1. Calm /\ fpClient = NoClient
      BY <1>1, <2>4 DEF FpInv, Calm, ThreadOK
    <3>2. ASSUME NEW u \in Thread \ {t}
          PROVE  ThreadOK(thread[u], fpClient') /\ ~IsAt(u, "connects")
      <4>1. thread[u].pc # "connects"
        BY <1>1, <3>1 DEF Calm, IsAt
      <4>2. ThreadOK(thread[u], NoClient)
        BY <3>1 DEF Calm
      <4> QED BY <4>1, <4>2 DEF ThreadOK, IsAt
    <3> QED BY <3>2
  <2> HIDE DEF m
  <2> QED BY <1>3, <2>1, <2>2, <2>3, <2>4, OneThread
<1>5. CASE InitFails(t)
  <2>1. /\ connected' = connected /\ fpClient' = NoClient
    BY <1>5 DEF InitFails
  <2>2. PICK l \in {"shutsDown", "takes"} : thread' = [thread EXCEPT ![t] = m(l)]
    BY <1>5 DEF InitFails, Moves, NextAttempt
  <2>3. trouble'
    BY <1>5, Zenon DEF InitFails
  <2>4. fpClient' \in 0..connected'
    BY <1>2, <2>1 DEF NoClient
  <2> HIDE DEF m
  <2> QED BY <1>2, <1>3, <2>1, <2>2, <2>3, <2>4, OneThread
<1> QED BY <1>4, <1>5

(* A thread shuts down: there was trouble before. *)
LEMMA ShutsDownInv ==
    ASSUME FpInv, NEW t \in Thread, ShutsDown(t)
    PROVE  FpInv'
<1> DEFINE r == thread[t]
           again == [r EXCEPT !.pc = "ensures", !.attempt = r.attempt + 1]
           anew == [r EXCEPT !.pc = "ensures", !.attempt = 1, !.last = TRUE]
<1>1. r \in ThreadState /\ r.pc \in {"shutsDown", "fetchesAgain"} /\ r.result = "none"
  BY DEF FpInv, FpTypeOK, ShutsDown, IsAt
<1>2. /\ again \in ThreadState /\ again.pc = "ensures" /\ again.result = "none"
      /\ anew \in ThreadState /\ anew.pc = "ensures" /\ anew.result = "none"
  <2>1. r.attempt + 1 \in Nat /\ 1 \in Nat
    BY <1>1 DEF ThreadState
  <2>2. again \in ThreadState /\ again.pc = "ensures" /\ again.result = "none"
    BY <1>1, <2>1 DEF ThreadState
  <2>3. anew \in ThreadState /\ anew.pc = "ensures" /\ anew.result = "none"
    BY <1>1, <2>1 DEF ThreadState
  <2> QED BY <2>2, <2>3
<1>3. thread' = [thread EXCEPT ![t] = again] \/ thread' = [thread EXCEPT ![t] = anew]
  <2>1. CASE IsAt(t, "shutsDown")
    BY <2>1 DEF ShutsDown
  <2>2. CASE ~IsAt(t, "shutsDown")
    BY <2>2 DEF ShutsDown
  <2> QED BY <2>1, <2>2
<1>4. trouble /\ trouble' = trouble
  BY <1>1 DEF FpInv, Calm, ThreadOK, ShutsDown
<1>5. /\ closed' \subseteq 1..connected /\ fpClient' = NoClient /\ connected' = connected
      /\ NoClient \notin closed' /\ connected \in Nat /\ NoClient \in 0..connected
  BY ClosesClient DEF ShutsDown, FpInv, FpTypeOK, NoClient
<1> HIDE DEF again, anew
<1> QED BY <1>2, <1>3, <1>4, <1>5, OneThread

(* The operation takes the client, runs and ends. *)
LEMMA RunsInv ==
    ASSUME FpInv, NEW t \in Thread,
           Takes(t) \/ RunSucceeds(t) \/ RunFails(t) \/ FetchTruncates(t) \/ Returns(t)
    PROVE  FpInv'
<1> DEFINE r == thread[t]
           Done(res) == [r EXCEPT !.pc = "ended", !.result = res]
           runs == [r EXCEPT !.pc = "runs", !.uses = fpClient]
           retried == [r EXCEPT !.pc = "fetchesAgain"]
<1>1. /\ r \in ThreadState /\ UNCHANGED <<fpClient, connected, closed>>
      /\ connected \in Nat /\ fpClient \in 0..connected /\ closed \subseteq 1..connected
      /\ fpClient \notin closed /\ fpClient \in Nat
  BY DEF FpInv, FpTypeOK, Takes, RunSucceeds, RunFails, FetchTruncates, Returns
<1>2. \A res \in {"ok", "failed", "truncated"} :
          /\ Done(res) \in ThreadState /\ Done(res).pc = "ended" /\ Done(res).result = res
  BY <1>1 DEF ThreadState
<1>3. /\ runs \in ThreadState /\ runs.pc = "runs" /\ runs.uses = fpClient
      /\ runs.result = r.result
  BY <1>1 DEF ThreadState
<1>4. retried \in ThreadState /\ retried.pc = "fetchesAgain" /\ retried.result = r.result
  BY <1>1, MovedRecord
<1>5. Fails(t) => thread' = [thread EXCEPT ![t] = Done("failed")]
                  \/ thread' = [thread EXCEPT ![t] = retried]
  BY DEF Fails, Ends, Moves
<1>6. r.pc # "ended" => r.result = "none"
  BY DEF FpInv
<1>7. ~trouble => Calm /\ ThreadOK(r, fpClient)
  BY DEF FpInv, Calm
<1>8. CASE Takes(t)
  <2>1. trouble' = trouble /\ r.pc = "takes" /\ r.result = "none"
    BY <1>6, <1>8 DEF Takes, IsAt
  <2>2. CASE fpClient = NoClient
    <3>1. trouble' /\ Fails(t)
      BY <1>7, <1>8, <2>1, <2>2 DEF ThreadOK, Takes
    <3> HIDE DEF Ended, retried, r
    <3> QED BY <1>1, <1>2, <1>4, <1>5, <2>1, <3>1, OneThread
  <2>3. CASE fpClient # NoClient
    <3>1. thread' = [thread EXCEPT ![t] = runs]
      BY <1>8, <2>3 DEF Takes
    <3>2. ~trouble => ThreadOK(runs, fpClient)
      BY <1>3, <2>1, <2>3 DEF ThreadOK
    <3> HIDE DEF runs, r
    <3> QED BY <1>1, <1>3, <1>7, <2>1, <3>1, <3>2, OneThread DEF Calm
  <2> QED BY <2>2, <2>3
<1>9. CASE RunSucceeds(t)
  <2>1. thread' = [thread EXCEPT ![t] = Done("ok")] /\ trouble' = trouble
    BY <1>9 DEF RunSucceeds, Ends
  <2>2. ThreadOK(Done("ok"), fpClient)
    BY <1>2 DEF ThreadOK
  <2> HIDE DEF Ended, r
  <2> QED BY <1>1, <1>2, <1>7, <2>1, <2>2, OneThread DEF Calm
<1>10. CASE RunFails(t) \/ FetchTruncates(t)
  <2>1. r.pc = "runs" /\ r.result = "none"
    BY <1>6, <1>10 DEF RunFails, FetchTruncates, IsAt
  <2>2. ~trouble => Open(t)
    BY <1>1, <1>7, <2>1 DEF ThreadOK, Open
  <2>3. trouble'
    BY <1>10, <2>2, Zenon DEF RunFails, FetchTruncates
  <2>4. \/ thread' = [thread EXCEPT ![t] = Done("failed")]
        \/ thread' = [thread EXCEPT ![t] = Done("truncated")]
        \/ thread' = [thread EXCEPT ![t] = retried]
    BY <1>5, <1>10 DEF RunFails, FetchTruncates, Ends
  <2> HIDE DEF Ended, retried, r
  <2> QED BY <1>1, <1>2, <1>4, <2>1, <2>3, <2>4, OneThread
<1>11. CASE Returns(t)
  <2>1. thread' = [thread EXCEPT ![t] = NoOperation] /\ trouble' = trouble
    BY <1>11 DEF Returns
  <2>2. /\ NoOperation \in ThreadState /\ ThreadOK(NoOperation, fpClient)
        /\ NoOperation.pc = "idle" /\ NoOperation.result = "none"
    BY DEF NoOperation, ThreadState, ThreadOK, NoClient, Operation
  <2> HIDE DEF r
  <2> QED BY <1>1, <1>7, <2>1, <2>2, OneThread DEF Calm
<1> QED BY <1>8, <1>9, <1>10, <1>11

(* The invariant, for any threads and clients. *)
LEMMA FpInvariant == FpSpec => []FpInv
<1>1. FpInit => FpInv
  <2>1. /\ NoOperation \in ThreadState /\ ThreadOK(NoOperation, NoClient)
        /\ NoOperation.pc = "idle" /\ NoOperation.result = "none"
    BY DEF NoOperation, ThreadState, ThreadOK, NoClient, Operation
  <2>2. NoClient \in 0..0 /\ NoClient \notin {}
    BY DEF NoClient
  <2> QED BY <2>1, <2>2 DEF FpInit, FpInv, FpTypeOK, Calm, IsAt
<1>2. FpInv /\ [FpNext]_fpVars => FpInv'
  <2> SUFFICES ASSUME FpInv, [FpNext]_fpVars PROVE FpInv'
    OBVIOUS
  <2>1. CASE UNCHANGED fpVars
    BY <2>1 DEF fpVars, FpInv, FpTypeOK, Calm, IsAt
  <2> QED BY <2>1, StartsInv, EnsureInv, ConnectsInv, ShutsDownInv, RunsInv DEF FpNext
<1> QED BY <1>1, <1>2, PTL DEF FpSpec

(* Without trouble from outside and without two threads that connect at     *)
(* once, no operation of the extension fails or is cut short, however the   *)
(* threads share, shut down and renew the client (fp_export.go:128).        *)
THEOREM NoHomemadeFailures == FpSpec => []FailuresHaveCause
<1>1. FpInv => FailuresHaveCause
  BY DEF FpInv, Calm, ThreadOK, FailuresHaveCause
<1> QED BY <1>1, FpInvariant, PTL

(* Hydration: what Windows is told it has, it has. *)

HyTypeOK ==
    /\ asked \in [offset : Nat, length : Int]
    /\ asked.length < 0 \/ asked.length \in Nat
    /\ file \in [from : Sources, size : Nat, has : Nat]
    /\ file.has <= file.size
    /\ off \in Nat

\* The bytes asked for below a position are with Windows.
Brought(p) == \A b \in Nat : asked.offset <= b /\ b < p => b \in written

\* At a page, or at the end of the file.
AtPage(p) == p % Page = 0 \/ p = file.size

\* A loop over a blob as long as its object.
LoopOK == AtPage(off) /\ off <= PageEnd /\ Brought(off)

HyInv ==
    /\ HyTypeOK
    /\ phase \notin {"error", "failed"} => ~failed
    /\ phase = "loop" /\ Whole => LoopOK
    /\ phase \in {"fetched", "completed"} /\ Whole /\ file.from # "nothing"
           => Brought(ReadEnd)

(* A positive multiple is no smaller than what it is a multiple of.         *)
LEMMA Multiple ==
    ASSUME NEW p \in Nat \ {0}, NEW d \in Int, d >= 1
    PROVE  d * p >= p
<1>1. d - 1 \in Nat
  OBVIOUS
<1>2. \A x, y \in Nat : x * y >= 0
  BY SMT
<1>3. (d - 1) * p >= 0
  BY <1>1, <1>2
<1>4. (d - 1) * p = d * p - p
  BY SMT
<1> QED BY <1>3, <1>4

(* A multiple leaves no remainder.                                          *)
LEMMA NoRemainder ==
    ASSUME NEW p \in Nat \ {0}, NEW k \in Int
    PROVE  (k * p) % p = 0
BY SMT

(* Without a remainder there is a factor.                                   *)
LEMMA Factor ==
    ASSUME NEW p \in Nat \ {0}, NEW a \in Nat, a % p = 0
    PROVE  \E i \in Int : a = i * p
BY SMT

(* Multiples add up to multiples.                                           *)
LEMMA Distributes ==
    ASSUME NEW p \in Int, NEW i \in Int, NEW j \in Int
    PROVE  i * p + j * p = (i + j) * p /\ j * p - i * p = (j - i) * p
           /\ i * p \in Int /\ j * p \in Int
BY SMT

(* What a multiple of a page and a number of pages add up to.               *)
LEMMA PagesAdd ==
    ASSUME NEW p \in Nat \ {0}, NEW a \in Nat, NEW b \in Nat, a % p = 0, b % p = 0
    PROVE  (a + b) % p = 0
<1>1. PICK i \in Int : a = i * p
  BY Factor
<1>2. PICK j \in Int : b = j * p
  BY Factor
<1>3. a + b = (i + j) * p
  BY <1>1, <1>2, Distributes
<1>4. i + j \in Int
  OBVIOUS
<1>5. ((i + j) * p) % p = 0
  BY <1>4, NoRemainder
<1> QED BY <1>3, <1>5, Zenon

(* How far two multiples of a page are apart.                               *)
LEMMA PagesApart ==
    ASSUME NEW p \in Nat \ {0}, NEW a \in Nat, NEW b \in Nat, a % p = 0, b % p = 0, a < b
    PROVE  b - a >= p /\ (b - a) % p = 0
<1>1. PICK i \in Int : a = i * p
  BY Factor
<1>2. PICK j \in Int : b = j * p
  BY Factor
<1>3. b - a = (j - i) * p /\ (i - j) * p = a - b
  BY <1>1, <1>2, Distributes
<1>4. j - i >= 1
  <2>1. CASE i = j
    BY <1>3, <2>1
  <2>2. CASE i - j >= 1
    BY <1>3, <2>2, Multiple
  <2> QED BY <2>1, <2>2
<1> QED BY <1>3, <1>4, Multiple, NoRemainder

(* Floor and Ceil round to whole pages.                                     *)
LEMMA Rounds ==
    ASSUME NEW a \in Nat
    PROVE  /\ Floor(a) \in Nat /\ Floor(a) <= a /\ a < Floor(a) + Page /\ Floor(a) % Page = 0
           /\ Ceil(a) \in Nat /\ a <= Ceil(a) /\ Ceil(a) % Page = 0
<1>1. Page \in Nat \ {0}
  BY HydrationAssumption
<1>2. ASSUME NEW x \in Nat
      PROVE  /\ Floor(x) \in Nat /\ Floor(x) <= x /\ x < Floor(x) + Page
             /\ Floor(x) % Page = 0
  <2>1. x \div Page \in Nat
    BY <1>1, SMT
  <2>2. (x \div Page) * Page <= x /\ x < (x \div Page) * Page + Page /\ (x \div Page) * Page \in Nat
    BY <1>1, <2>1, SMT
  <2>3. ((x \div Page) * Page) % Page = 0
    BY <1>1, <2>1, NoRemainder
  <2> QED BY <2>2, <2>3 DEF Floor
<1>3. a + Page - 1 \in Nat
  BY <1>1
<1> QED BY <1>1, <1>2, <1>3 DEF Ceil

(* Where the span ends, and where its pages end.                            *)
LEMMA EndsOfSpan ==
    ASSUME HyTypeOK
    PROVE  /\ SpanEnd(file.size) \in Nat /\ ReadEnd \in Nat /\ PageEnd \in Nat
           /\ ReadEnd <= PageEnd /\ PageEnd <= file.size
           /\ ReadEnd <= SpanEnd(file.size) /\ ReadEnd <= file.size
           /\ PageEnd < file.size => PageEnd % Page = 0
<1>0. Page \in Nat \ {0}
  BY HydrationAssumption
<1>1. file.size \in Nat /\ asked.offset \in Nat /\ asked.length \in Int
      /\ (asked.length < 0 \/ asked.length \in Nat)
  BY DEF HyTypeOK
<1>2. SpanEnd(file.size) \in Nat
  BY <1>1 DEF SpanEnd
<1>3. ReadEnd \in Nat /\ ReadEnd <= SpanEnd(file.size) /\ ReadEnd <= file.size
  BY <1>1, <1>2 DEF ReadEnd, AtMost
<1>4. Ceil(ReadEnd) \in Nat /\ ReadEnd <= Ceil(ReadEnd) /\ Ceil(ReadEnd) % Page = 0
  BY <1>3, Rounds
<1>5. PageEnd = Ceil(ReadEnd) \/ PageEnd = file.size
  BY DEF PageEnd, AtMost
<1>6. PageEnd \in Nat /\ ReadEnd <= PageEnd /\ PageEnd <= file.size
  BY <1>1, <1>3, <1>4 DEF PageEnd, AtMost
<1>7. PageEnd < file.size => PageEnd % Page = 0
  BY <1>0, <1>1, <1>4, <1>5
<1> QED BY <1>0, <1>2, <1>3, <1>6, <1>7

(* A read takes a number of bytes, and brings the loop from page to page.   *)
LEMMA TakesPages ==
    ASSUME HyTypeOK, off < PageEnd
    PROVE  /\ ReadLength \in Nat
           /\ Whole /\ AtPage(off) => /\ AtPage(off + ReadLength)
                                      /\ off + ReadLength <= PageEnd
<1> DEFINE remain == PageEnd - off
<1>1. /\ off \in Nat /\ PageEnd \in Nat /\ file.size \in Nat /\ file.has \in Nat
      /\ PageEnd <= file.size /\ (PageEnd < file.size => PageEnd % Page = 0)
      /\ remain \in Nat /\ remain > 0
  <2>1. off \in Nat /\ file.size \in Nat /\ file.has \in Nat
    BY DEF HyTypeOK
  <2>0. Page \in Nat \ {0}
    BY HydrationAssumption
  <2>2. PageEnd \in Nat /\ PageEnd <= file.size /\ (PageEnd < file.size => PageEnd % Page = 0)
    BY <2>0, EndsOfSpan
  <2> QED BY <2>1, <2>2
<1>2. Page \in Nat \ {0} /\ ChunkMax \in Nat
  BY HydrationAssumption
<1> DEFINE most == AtMost(ChunkMax, remain)
           pages == Floor(most)
<1>3. most \in Nat /\ most <= remain
  BY <1>1, <1>2 DEF AtMost
<1>4. pages \in Nat /\ pages <= remain /\ pages % Page = 0
  BY <1>1, <1>3, Rounds
<1>5. Take \in Nat /\ Take <= remain
  BY <1>1, <1>2, <1>4 DEF Take, AtMost
<1>6. ReadLength \in Nat /\ (Whole => ReadLength = Take)
  BY <1>1, <1>5 DEF ReadLength, AtMost, Whole
<1>7. ASSUME Whole, AtPage(off), PageEnd < file.size
      PROVE  Take % Page = 0
  <2>1. off % Page = 0
    BY <1>1, <1>7 DEF AtPage
  <2>2. remain >= Page
    BY <1>1, <1>2, <1>7, <2>1, PagesApart
  <2>3. Page % Page = 0
    <3>1. (1 * Page) % Page = 0
      BY <1>2, NoRemainder
    <3> QED BY <1>2, <3>1
  <2>4. Take = IF pages = 0 THEN AtMost(Page, remain) ELSE pages
    BY <1>1, <1>7 DEF Take
  <2>5. AtMost(Page, remain) = Page
    BY <1>1, <1>2, <2>2 DEF AtMost
  <2> QED BY <1>4, <2>3, <2>4, <2>5
<1>8. ASSUME Whole, AtPage(off)
      PROVE  AtPage(off + Take)
  <2>1. CASE PageEnd < file.size
    <3>1. off % Page = 0
      BY <1>1, <1>8, <2>1 DEF AtPage
    <3>2. (off + Take) % Page = 0
      BY <1>1, <1>2, <1>5, <1>7, <1>8, <2>1, <3>1, PagesAdd
    <3> QED BY <3>2 DEF AtPage
  <2>2. CASE PageEnd >= file.size
    <3>1. Take = remain /\ off + Take = file.size
      BY <1>1, <2>2 DEF Take
    <3> QED BY <3>1 DEF AtPage
  <2> QED BY <1>1, <2>1, <2>2
<1> QED BY <1>1, <1>5, <1>6, <1>8

(* Windows asks for bytes of a file. *)
LEMMA DataCalledInv ==
    ASSUME HyInv, DataCalled
    PROVE  HyInv'
<1>1. /\ asked' \in [offset : 0..MaxSize, length : -1..MaxSize]
      /\ phase = "idle" /\ phase' = "called" /\ off' = off /\ failed' = failed
  BY DEF DataCalled
<1>2. PICK from \in Sources, size \in 0..MaxSize, has \in 0..MaxSize :
         has <= size /\ file' = [from |-> from, size |-> size, has |-> has]
  BY DEF DataCalled
<1>3. MaxSize \in Nat
  BY HydrationAssumption
<1>4. /\ asked' \in [offset : Nat, length : Int]
      /\ asked'.length < 0 \/ asked'.length \in Nat
  BY <1>1, <1>3
<1>5. /\ file' \in [from : Sources, size : Nat, has : Nat]
      /\ file'.has <= file'.size
  BY <1>2, <1>3
<1>6. off \in Nat /\ ~failed
  BY <1>1 DEF HyInv, HyTypeOK
<1> QED BY <1>1, <1>4, <1>5, <1>6 DEF HyInv, HyTypeOK

(* What stays true when the request, the file and the loop do not change.   *)
LEMMA SameRequest ==
    ASSUME HyTypeOK, UNCHANGED <<asked, file>>
    PROVE  /\ ReadEnd' = ReadEnd /\ PageEnd' = PageEnd /\ (Whole' <=> Whole)
           /\ (off' \in Nat => HyTypeOK')
           /\ \A p : AtPage(p)' <=> AtPage(p)
           /\ \A p : (\A b \in Nat : asked.offset <= b /\ b < p => b \in written') => Brought(p)'
BY DEF HyTypeOK, ReadEnd, PageEnd, SpanEnd, Whole, AtPage, Brought

(* The loop begins at the page of the first byte asked for.                 *)
LEMMA FetchBeginsInv ==
    ASSUME HyInv, FetchBegins
    PROVE  HyInv'
<1>1. HyTypeOK /\ asked.offset \in Nat /\ phase = "called" /\ ~failed
  BY DEF HyInv, HyTypeOK, FetchBegins
<1>2. UNCHANGED <<asked, file, written, failed>>
  BY DEF FetchBegins, HyGoes
<1>3. ReadEnd \in Nat /\ PageEnd \in Nat /\ ReadEnd <= PageEnd
  BY <1>1, EndsOfSpan
<1>4. CASE asked.offset >= ReadEnd
  <2>1. off' = off /\ phase' = "fetched"
    BY <1>4 DEF FetchBegins, HyGoes
  <2>2. Brought(ReadEnd)'
    BY <1>1, <1>2, <1>3, <1>4, SameRequest DEF Brought
  <2>3. HyTypeOK'
    BY <1>1, <1>2, <2>1, SameRequest DEF HyTypeOK
  <2> QED BY <1>1, <1>2, <2>1, <2>2, <2>3 DEF HyInv
<1>5. CASE ~(asked.offset >= ReadEnd)
  <2>1. off' = FirstPage /\ phase' = "loop"
    BY <1>5 DEF FetchBegins
  <2>2. FirstPage \in Nat /\ FirstPage <= asked.offset /\ FirstPage % Page = 0
    BY <1>1, Rounds DEF FirstPage
  <2>3. HyTypeOK'
    BY <1>1, <1>2, <2>1, <2>2, SameRequest
  <2>4. AtPage(off)'
    BY <2>1, <2>2 DEF AtPage
  <2>5. (off <= PageEnd)'
    BY <1>1, <1>2, <1>3, <1>5, <2>1, <2>2, SameRequest
  <2>6. Brought(off)'
    BY <1>1, <1>2, <2>1, <2>2 DEF Brought
  <2> QED BY <1>1, <1>2, <2>1, <2>3, <2>4, <2>5, <2>6 DEF HyInv, LoopOK
<1> QED BY <1>4, <1>5

(* A chunk of the loop. *)
LEMMA FetchChunkInv ==
    ASSUME HyInv, FetchChunk
    PROVE  HyInv'
<1>1. /\ HyTypeOK /\ asked.offset \in Nat /\ off \in Nat /\ phase = "loop" /\ ~failed
      /\ off < PageEnd /\ off' = off + ReadLength
      /\ written' = written \cup {b \in 0..file.has - 1 : off <= b /\ b < off + ReadLength}
      /\ UNCHANGED <<asked, file, phase, failed>>
  BY DEF HyInv, HyTypeOK, FetchChunk
<1>2. ReadLength \in Nat
  BY <1>1, TakesPages
<1>3. HyTypeOK'
  BY <1>1, <1>2, SameRequest
<1>4. ASSUME Whole
      PROVE  LoopOK'
  <2>1. AtPage(off) /\ Brought(off)
    BY <1>1, <1>4 DEF HyInv, LoopOK
  <2>2. AtPage(off + ReadLength) /\ off + ReadLength <= PageEnd
    BY <1>1, <1>4, <2>1, TakesPages
  <2>3. AtPage(off)'
    BY <1>1, <2>2 DEF AtPage
  <2>4. (off <= PageEnd)'
    BY <1>1, <2>2, SameRequest
  <2>5. file.has = file.size /\ file.has \in Nat /\ PageEnd \in Nat /\ PageEnd <= file.size
    BY <1>1, <1>4, EndsOfSpan DEF Whole, HyTypeOK
  <2>6. ASSUME NEW b \in Nat, asked.offset <= b, b < off + ReadLength
        PROVE  b \in written'
    <3>1. CASE b < off
      BY <1>1, <2>1, <2>6, <3>1 DEF Brought
    <3>2. CASE off <= b
      BY <1>1, <1>2, <2>2, <2>5, <2>6, <3>2
    <3> QED BY <1>1, <3>1, <3>2
  <2>7. Brought(off)'
    BY <1>1, <2>6 DEF Brought
  <2> QED BY <2>3, <2>4, <2>7 DEF LoopOK
<1> QED BY <1>1, <1>3, <1>4, SameRequest DEF HyInv

(* The loop is over. *)
LEMMA FetchEndsInv ==
    ASSUME HyInv, FetchEnds
    PROVE  HyInv'
<1>1. /\ HyTypeOK /\ off \in Nat /\ phase = "loop" /\ phase' = "fetched" /\ ~failed
      /\ off >= PageEnd /\ UNCHANGED <<asked, file, off, written, failed>>
  BY DEF HyInv, HyTypeOK, FetchEnds, HyGoes
<1>2. ReadEnd \in Nat /\ PageEnd \in Nat /\ ReadEnd <= PageEnd
  BY <1>1, EndsOfSpan
<1>3. HyTypeOK'
  BY <1>1, SameRequest
<1>4. ASSUME Whole
      PROVE  Brought(ReadEnd)'
  <2>1. Brought(off)
    BY <1>1, <1>4 DEF HyInv, LoopOK
  <2>2. Brought(ReadEnd)
    BY <1>1, <1>2, <2>1 DEF Brought, HyTypeOK
  <2> QED BY <1>1, <2>2, SameRequest DEF Brought
<1> QED BY <1>1, <1>3, <1>4, SameRequest DEF HyInv

(* One read of a file on the disk. *)
LEMMA DiskReadInv ==
    ASSUME HyInv, DiskRead
    PROVE  HyInv'
<1>1. /\ HyTypeOK /\ asked.offset \in Nat /\ off \in Nat /\ file.has \in Nat
      /\ phase = "called" /\ phase' = "fetched" /\ ~failed
      /\ written' = {b \in 0..file.has - 1 : asked.offset <= b /\ b < ReadEnd}
      /\ UNCHANGED <<asked, file, off, failed>>
  BY DEF HyInv, HyTypeOK, DiskRead
<1>2. ReadEnd \in Nat /\ ReadEnd <= file.size /\ ReadEnd' = ReadEnd
  BY <1>1, EndsOfSpan, SameRequest
<1>3. HyTypeOK'
  BY <1>1, SameRequest
<1>4. ASSUME Whole
      PROVE  Brought(ReadEnd)'
  <2>1. file.has = file.size
    BY <1>4 DEF Whole
  <2>2. ASSUME NEW b \in Nat, asked.offset <= b, b < ReadEnd
        PROVE  b \in written'
    BY <1>1, <1>2, <2>1, <2>2
  <2> QED BY <1>1, <1>2, <2>2 DEF Brought
<1> QED BY <1>1, <1>3, <1>4, SameRequest DEF HyInv

(* A change made here is acknowledged, from page to page. *)
LEMMA ValidateInv ==
    ASSUME HyInv, Validate
    PROVE  HyInv'
<1>1. /\ HyTypeOK /\ asked.offset \in Nat /\ off \in Nat /\ file.size \in Nat
      /\ phase = "called" /\ phase' = "completed" /\ ~failed
      /\ written' = FirstPage..AckEnd - 1
      /\ UNCHANGED <<asked, file, off, failed>>
  BY DEF HyInv, HyTypeOK, Validate
<1>2. /\ SpanEnd(file.size) \in Nat /\ ReadEnd \in Nat
      /\ ReadEnd <= SpanEnd(file.size) /\ ReadEnd <= file.size /\ ReadEnd' = ReadEnd
  BY <1>1, EndsOfSpan, SameRequest
<1>3. HyTypeOK'
  BY <1>1, SameRequest
<1>4. FirstPage \in Nat /\ FirstPage <= asked.offset
  BY <1>1, Rounds DEF FirstPage
<1>5. /\ Ceil(SpanEnd(file.size)) \in Nat
      /\ SpanEnd(file.size) <= Ceil(SpanEnd(file.size))
  BY <1>2, Rounds
<1>6. AckEnd \in Nat /\ ReadEnd <= AckEnd
  BY <1>1, <1>2, <1>5 DEF AckEnd, AtMost
<1>7. ASSUME NEW b \in Nat, asked.offset <= b, b < ReadEnd
      PROVE  b \in written'
  <2>1. b \in FirstPage..AckEnd - 1
    BY <1>1, <1>2, <1>4, <1>6, <1>7
  <2> QED BY <1>1, <2>1
<1>8. Brought(ReadEnd)'
  BY <1>1, <1>2, <1>7 DEF Brought
<1> QED BY <1>1, <1>3, <1>8 DEF HyInv

(* The answer, and the ways to fail. *)
LEMMA AnswersInv ==
    ASSUME HyInv,
           \/ DiskNothing \/ ValidateNothing \/ ValidateFails \/ ValidateGone
           \/ Complete \/ Fail \/ FetchErrs
    PROVE  HyInv'
<1>1. /\ HyTypeOK /\ UNCHANGED <<asked, file, off, written>> /\ off \in Nat
  BY DEF HyInv, HyTypeOK, DiskNothing, ValidateNothing, ValidateFails, ValidateGone, Complete,
         Fail, FetchErrs, Errs, HyGoes
<1>2. /\ HyTypeOK' /\ (Whole' <=> Whole) /\ ReadEnd' = ReadEnd
      /\ (Brought(ReadEnd) => Brought(ReadEnd)')
  BY <1>1, SameRequest DEF Brought
<1>3. CASE DiskNothing
  BY <1>1, <1>2, <1>3 DEF HyInv, DiskNothing, HyGoes
<1>4. CASE ValidateNothing \/ ValidateFails
  BY <1>1, <1>2, <1>4 DEF HyInv, ValidateNothing, ValidateFails, HyGoes
<1>8. CASE ValidateGone
  BY <1>1, <1>2, <1>8 DEF HyInv, ValidateGone
<1>5. CASE Complete
  BY <1>1, <1>2, <1>5 DEF HyInv, Complete, HyGoes
<1>6. CASE Fail
  BY <1>1, <1>2, <1>6 DEF HyInv, Fail
<1>7. CASE FetchErrs
  BY <1>1, <1>2, <1>7 DEF HyInv, FetchErrs, Errs
<1> QED BY <1>3, <1>4, <1>5, <1>6, <1>7, <1>8

(* The invariant, for any page, chunk, request and file. *)
LEMMA HyInvariant == HySpec => []HyInv
<1>1. HyInit => HyInv
  BY DEF HyInit, HyInv, HyTypeOK, Sources, Stored
<1>2. HyInv /\ [HyNext]_hyVars => HyInv'
  <2> SUFFICES ASSUME HyInv, [HyNext]_hyVars PROVE HyInv'
    OBVIOUS
  <2>1. CASE UNCHANGED hyVars
    BY <2>1, SameRequest DEF hyVars, HyInv, HyTypeOK, LoopOK, Brought, AtPage
  <2> QED BY <2>1, DataCalledInv, FetchBeginsInv, FetchChunkInv, FetchEndsInv,
             DiskReadInv, ValidateInv, AnswersInv DEF HyNext, HyStep
<1> QED BY <1>1, <1>2, PTL DEF HySpec

(* Whatever is asked for, of a file of any size, in pages and chunks of any *)
(* size: when Windows is told that a read has succeeded, every byte of the  *)
(* file that was asked for is there, however the loop cuts the span into    *)
(* chunks (mount_windows.go:671).                                           *)
THEOREM HydrationComplete == HySpec => []HydrationCovers
<1>1. HyInv => HydrationCovers
  <2> SUFFICES ASSUME HyInv PROVE HydrationCovers
    OBVIOUS
  <2>1. asked.offset \in Nat /\ ReadEnd \in Nat
    BY EndsOfSpan DEF HyInv, HyTypeOK
  <2>2. ASSUME phase = "completed", Whole, file.from # "nothing"
        PROVE  asked.offset..ReadEnd - 1 \subseteq written /\ ~failed
    BY <2>1, <2>2 DEF HyInv, Brought
  <2>3. ASSUME phase = "loop", Whole
        PROVE  off % Page = 0 \/ off = file.size
    BY <2>3 DEF HyInv, LoopOK, AtPage
  <2> QED BY <2>2, <2>3 DEF HydrationCovers
<1> QED BY <1>1, HyInvariant, PTL
-----------------------------------------------------------------------------

(* FreshWhenQuiet, for any instances of the components: the listing is fresh beside them,
   since only its own steps, and quiet ones, touch what it is about (client.go:405). *)
THEOREM QuietListing == PartsSpec => []FreshWhenQuiet
<1> DEFINE Inv == which = "quietScan" => FreshInv
<1>1. PartsInit => Inv
  BY InitFresh DEF PartsInit
<1>2. ASSUME Inv, [PartsNext]_partsVars PROVE Inv'
  <2> SUFFICES ASSUME which' = "quietScan" PROVE FreshInv'
    OBVIOUS
  <2>1. which = "quietScan"
    BY <1>2 DEF PartsNext, Only, partsVars
  <2>2. [Next /\ Quiet]_vars
    BY <1>2, <2>1 DEF PartsNext, Only, partsVars
  <2> QED BY <1>2, <2>1, <2>2, NextFresh
<1>3. Inv => FreshWhenQuiet
  BY DEF FreshWhenQuiet, FreshInv
<1> QED BY <1>1, <1>2, <1>3, PTL DEF PartsSpec
==============================================================================
