------------------------------ MODULE TrayMount -------------------------------
(***************************************************************************)
(* Mounting and unmounting from the tray (cmd/neofs-mount-tray/main.go),     *)
(* with what Mount and Shutdown of internal/fs acquire and release: a NeoFS *)
(* client and a served mount (a FUSE mount, or a Cloud Files connection).   *)
(*                                                                         *)
(* toggleMount runs on the goroutine of the menu, of each press of the      *)
(* dashboard's button and of the auto-mount.  activeMount, mountContext and *)
(* mountCancel are global variables without a lock.  Mounts are numbered;   *)
(* a mount's context has its number.                                        *)
(***************************************************************************)
EXTENDS Naturals

CONSTANTS
    Toggler,   \* goroutines that run toggleMount
    MaxMount   \* bound on the mounts that get a client

ASSUME TrayAssumption == MaxMount \in Nat \ {0}

Mount == 1..MaxMount
NoMount == 0

VARIABLES
    activeMount,  \* the mount the tray knows of
    mountCancel,  \* whose context mountContext and mountCancel are
    ctxDone,    \* contexts that are done
    clients,      \* mounts whose NeoFS client is open
    served,       \* mounts that the system serves
    made,         \* mounts made so far
    toggler,      \* toggler[t]: the toggleMount call of t
    cleaner,      \* cleaner[m]: the goroutine that unmounts m
    overlapped,   \* two toggles have been mounting at the same time
    busy,         \* mounts that an unmount has failed on
    running       \* the tray's process

trayVars == <<activeMount, mountCancel, ctxDone, clients, served, made, toggler,
              cleaner, overlapped, busy, running>>

NoToggle == [pc |-> "idle", mount |-> NoMount]
NoClean  == [pc |-> "none", waitsFor |-> NoMount]

TrayInit ==
    /\ activeMount = NoMount /\ mountCancel = NoMount /\ ctxDone = {}
    /\ clients = {} /\ served = {} /\ made = 0
    /\ toggler = [t \in Toggler |-> NoToggle]
    /\ cleaner = [m \in Mount |-> NoClean]
    /\ overlapped = FALSE /\ busy = {} /\ running = TRUE

Mounting(t) == toggler[t].pc \in {"connects", "serves"}

-----------------------------------------------------------------------------
(* toggleMount finds nothing mounted, and has what it needs of the config.  *)
ToggleMounts(t) ==
    /\ toggler[t].pc = "idle" /\ activeMount = NoMount
    /\ toggler' = [toggler EXCEPT ![t].pc = "connects"]
    /\ overlapped' = (overlapped \/ \E u \in Toggler : Mounting(u))
    /\ UNCHANGED <<activeMount, mountCancel, ctxDone, clients, served, made, cleaner,
                   busy, running>>

(* Or something: it cancels the context there is.                           *)
ToggleCancels(t) ==
    /\ toggler[t].pc = "idle" /\ activeMount # NoMount /\ mountCancel # NoMount
    /\ ctxDone' = ctxDone \cup {mountCancel}
    /\ UNCHANGED <<activeMount, mountCancel, clients, served, made, toggler, cleaner,
                   overlapped, busy, running>>

(* Mount connects the NeoFS client.                                         *)
MountConnects(t) ==
    /\ toggler[t].pc = "connects" /\ made < MaxMount
    /\ made' = made + 1 /\ clients' = clients \cup {made'}
    /\ toggler' = [toggler EXCEPT ![t] = [pc |-> "serves", mount |-> made']]
    /\ UNCHANGED <<activeMount, mountCancel, ctxDone, served, cleaner, overlapped, busy,
                   running>>

\* What a failing Mount closes, and the mutant that closes nothing.
ClosedNothing(t) == {}

ClosedOnError(t) == {toggler[t].mount}

(* Mount returns nil and an error, and the nil is assigned.                 *)
MountFails(t) ==
    /\ Mounting(t)
    /\ clients' = clients \ ClosedOnError(t)
    /\ activeMount' = NoMount
    /\ toggler' = [toggler EXCEPT ![t] = NoToggle]
    /\ UNCHANGED <<mountCancel, ctxDone, served, made, cleaner, overlapped, busy, running>>

(* The system serves the mount; the tray goes on to its sidebar entry.      *)
MountServes(t) ==
    LET m == toggler[t].mount
    IN  /\ toggler[t].pc = "serves"
        /\ served' = served \cup {m} /\ activeMount' = m
        /\ toggler' = [toggler EXCEPT ![t].pc = "pins"]
        /\ UNCHANGED <<mountCancel, ctxDone, clients, made, cleaner, overlapped, busy,
                       running>>

(* A context of its own, and a goroutine that waits for it.                 *)
MountWatched(t) ==
    LET m == toggler[t].mount
    IN  /\ toggler[t].pc = "pins"
        /\ mountCancel' = m
        /\ cleaner' = [cleaner EXCEPT ![m].pc = "starts"]
        /\ toggler' = [toggler EXCEPT ![t] = NoToggle]
        /\ UNCHANGED <<activeMount, ctxDone, clients, served, made, overlapped, busy,
                       running>>

Toggle(t) == \/ ToggleMounts(t) \/ ToggleCancels(t) \/ MountConnects(t) \/ MountFails(t)
             \/ MountServes(t) \/ MountWatched(t)

-----------------------------------------------------------------------------
(* The goroutine evaluates mountContext.Done() when it first runs.          *)
CleanerStarts(m) ==
    /\ cleaner[m].pc = "starts"
    /\ cleaner' = [cleaner EXCEPT ![m] = [pc |-> "waits", waitsFor |-> mountCancel]]
    /\ UNCHANGED <<activeMount, mountCancel, ctxDone, clients, served, made, toggler,
                   overlapped, busy, running>>

CleanerWakes(m) ==
    /\ cleaner[m].pc = "waits" /\ cleaner[m].waitsFor \in ctxDone
    /\ cleaner' = [cleaner EXCEPT ![m].pc =
                     IF activeMount # NoMount THEN "unmounts" ELSE "ended"]
    /\ UNCHANGED <<activeMount, mountCancel, ctxDone, clients, served, made, toggler,
                   overlapped, busy, running>>

(* Unmount of whatever is active by now; its error is ignored.              *)
CleanerUnmounts(m) == \E ok \in BOOLEAN :
    /\ cleaner[m].pc = "unmounts"
    /\ served' = IF ok THEN served \ {activeMount} ELSE served
    /\ busy' = IF ok THEN busy ELSE busy \cup {activeMount}
    /\ cleaner' = [cleaner EXCEPT ![m].pc = "shuts"]
    /\ UNCHANGED <<activeMount, mountCancel, ctxDone, clients, made, toggler, overlapped,
                   running>>

(* Shutdown: unmounts again, and closes the client however that ended.      *)
CleanerShutsDown(m) == \E ok \in BOOLEAN :
    /\ cleaner[m].pc = "shuts"
    /\ served' = IF ok THEN served \ {activeMount} ELSE served
    /\ clients' = clients \ {activeMount}
    /\ cleaner' = [cleaner EXCEPT ![m].pc = "clears"]
    /\ UNCHANGED <<activeMount, mountCancel, ctxDone, made, toggler, overlapped, busy,
                   running>>

CleanerClears(m) ==
    /\ cleaner[m].pc = "clears"
    /\ activeMount' = NoMount
    /\ cleaner' = [cleaner EXCEPT ![m].pc = "ended"]
    /\ UNCHANGED <<mountCancel, ctxDone, clients, served, made, toggler, overlapped, busy,
                   running>>

Clean(m) == \/ CleanerStarts(m) \/ CleanerWakes(m) \/ CleanerUnmounts(m)
            \/ CleanerShutsDown(m) \/ CleanerClears(m)

(* Quit cancels, and ends the process 100 ms later, cleaned up or not.      *)
QuitCancels ==
    /\ mountCancel # NoMount /\ mountCancel \notin ctxDone
    /\ ctxDone' = ctxDone \cup {mountCancel}
    /\ UNCHANGED <<activeMount, mountCancel, clients, served, made, toggler, cleaner,
                   overlapped, busy, running>>

QuitEnds ==
    /\ mountCancel # NoMount => mountCancel \in ctxDone
    /\ running' = FALSE /\ clients' = {}
    /\ UNCHANGED <<activeMount, mountCancel, ctxDone, served, made, toggler, cleaner,
                   overlapped, busy>>

TrayNext ==
    /\ running
    /\ \/ \E t \in Toggler : Toggle(t)
       \/ \E m \in Mount : Clean(m)
       \/ QuitCancels
       \/ QuitEnds

TraySpec == TrayInit /\ [][TrayNext]_trayVars

-----------------------------------------------------------------------------
(* Properties *)

Owned(m) == m = activeMount \/ \E t \in Toggler : toggler[t].mount = m

\* While the tray runs it can reach every client that is open and every mount that
\* is served: as the active one or in the toggle that makes it, also between the
\* steps of an unmount and when Mount fails half way.  Excepted: toggles that
\* overlap (the nil of a failing one is assigned over the other's mount) and
\* mounts that were busy (forgotten whatever Unmount said).
MountOwned ==
    running /\ ~overlapped
    => /\ \A m \in clients : Owned(m)
       /\ \A m \in served \ busy : Owned(m)
===============================================================================
