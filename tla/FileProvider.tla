----------------------------- MODULE FileProvider -----------------------------
(***************************************************************************)
(* The macOS File Provider extension (FileProviderExtension.swift) over the *)
(* one NeoFS client of its process (macos/GoBridge/fp_export.go).           *)
(*                                                                         *)
(* The system calls the extension on several threads.  Each call makes sure *)
(* that there is a client, takes it under the lock and uses it outside.     *)
(* Clients are numbered by their connection.                                *)
(***************************************************************************)
EXTENDS Naturals

CONSTANTS
    Thread,     \* threads of the extension
    MaxClient,  \* bound on the connections
    MaxAttempt    \* attempts of ensureClient

ASSUME ProviderAssumption == MaxClient \in Nat /\ MaxAttempt \in Nat \ {0}

NoClient == 0

\* list: listContainersFromBridge and listEntriesFromBridge, which a fetch calls
\* too when it has its file; delete: deleteItem, and modifyItem into the trash.
Operation == {"list", "fetch", "delete"}

VARIABLES
    fpClient,   \* the client of the process
    connected,  \* connections made so far
    closed,     \* clients that are closed
    thread,     \* thread[t]: the operation of thread t
    trouble     \* the network or the configuration has failed, or two threads have
                \* connected at once, since last no operation ran

fpVars == <<fpClient, connected, closed, thread, trouble>>

\* attempt: of ensureClient; last: fetchContents does not try again.
NoOperation == [pc |-> "idle", op |-> "list", attempt |-> 1, last |-> TRUE,
                uses |-> NoClient, result |-> "none"]

FpInit ==
    /\ fpClient = NoClient /\ connected = 0 /\ closed = {}
    /\ thread = [t \in Thread |-> NoOperation] /\ trouble = FALSE

IsAt(t, label) == thread[t].pc = label
Moves(t, label) == thread' = [thread EXCEPT ![t].pc = label]

Starts(t, op) ==
    /\ IsAt(t, "idle")
    /\ thread' = [thread EXCEPT ![t] = [NoOperation EXCEPT
                     !.pc = "ensures", !.op = op, !.last = op # "fetch"]]
    /\ trouble' = (trouble /\ \E u \in Thread : ~IsAt(u, "idle"))
    /\ UNCHANGED <<fpClient, connected, closed>>

-----------------------------------------------------------------------------
\* NeoFsFpEnsureClient: a client is enough.  Mutant: it connects every time.
HasClientNever == FALSE

HasClient == fpClient # NoClient

EnsureFinds(t) ==
    /\ IsAt(t, "ensures") /\ HasClient
    /\ Moves(t, "takes")
    /\ UNCHANGED <<fpClient, connected, closed, trouble>>

(* ensureClient goes no further without a configuration file; a client that *)
(* is there already is used all the same.                                   *)
ConfigMissing(t) ==
    /\ IsAt(t, "ensures") /\ thread[t].attempt = 1
    /\ Moves(t, "takes")
    /\ trouble' = (trouble \/ ~HasClient)
    /\ UNCHANGED <<fpClient, connected, closed>>

(* Without a client it reads the configuration, outside the lock.           *)
EnsureReads(t) ==
    /\ IsAt(t, "ensures") /\ ~HasClient
    /\ Moves(t, "connects")
    /\ trouble' = (trouble \/ \E u \in Thread : IsAt(u, "connects"))
    /\ UNCHANGED <<fpClient, connected, closed>>

\* ensureClient shuts down and tries again, three times in all.
NextAttempt(t) == IF thread[t].attempt < MaxAttempt THEN "shutsDown" ELSE "takes"

EnsureFails(t) ==
    /\ IsAt(t, "ensures") /\ ~HasClient
    /\ trouble' = TRUE
    /\ Moves(t, NextAttempt(t))
    /\ UNCHANGED <<fpClient, connected, closed>>

Closes == closed' = closed \cup ({fpClient} \ {NoClient})

(* NeoFsFpInit holds the lock while it closes the client and connects.      *)
InitConnects(t) ==
    /\ IsAt(t, "connects") /\ connected < MaxClient
    /\ Closes /\ connected' = connected + 1 /\ fpClient' = connected'
    /\ Moves(t, "takes")
    /\ UNCHANGED trouble

InitFails(t) ==
    /\ IsAt(t, "connects")
    /\ Closes /\ fpClient' = NoClient
    /\ trouble' = TRUE
    /\ Moves(t, NextAttempt(t))
    /\ UNCHANGED connected

(* NeoFsFpShutdown: after a failed attempt to connect, or to fetch.         *)
ShutsDown(t) ==
    /\ IsAt(t, "shutsDown") \/ IsAt(t, "fetchesAgain")
    /\ Closes /\ fpClient' = NoClient
    /\ thread' = [thread EXCEPT ![t] =
                    IF IsAt(t, "shutsDown")
                    THEN [@ EXCEPT !.pc = "ensures", !.attempt = thread[t].attempt + 1]
                    ELSE [@ EXCEPT !.pc = "ensures", !.attempt = 1, !.last = TRUE]]
    /\ UNCHANGED <<connected, trouble>>

-----------------------------------------------------------------------------
Ends(t, result) ==
    thread' = [thread EXCEPT ![t] = [@ EXCEPT !.pc = "ended", !.result = result]]

\* A failed fetch is tried once more, over a new client.
Fails(t) ==
    IF thread[t].last THEN Ends(t, "failed") ELSE Moves(t, "fetchesAgain")

Takes(t) ==
    /\ IsAt(t, "takes")
    /\ IF fpClient = NoClient THEN Fails(t)
       ELSE thread' = [thread EXCEPT ![t] = [@ EXCEPT !.pc = "runs", !.uses = fpClient]]
    /\ UNCHANGED <<fpClient, connected, closed, trouble>>

Open(t) == thread[t].uses \notin closed

RunSucceeds(t) ==
    /\ IsAt(t, "runs") /\ Open(t)
    /\ Ends(t, "ok")
    /\ UNCHANGED <<fpClient, connected, closed, trouble>>

(* The network fails, or the client was closed under the operation: a list  *)
(* then shows nothing.                                                      *)
RunFails(t) ==
    /\ IsAt(t, "runs")
    /\ trouble' = (trouble \/ Open(t))
    /\ Fails(t)
    /\ UNCHANGED <<fpClient, connected, closed>>

(* Of a fetch some bytes had come: they are taken for the object.           *)
FetchTruncates(t) ==
    /\ IsAt(t, "runs") /\ thread[t].op = "fetch"
    /\ trouble' = (trouble \/ Open(t))
    /\ Ends(t, "truncated")
    /\ UNCHANGED <<fpClient, connected, closed>>

Returns(t) ==
    /\ IsAt(t, "ended")
    /\ thread' = [thread EXCEPT ![t] = NoOperation]
    /\ UNCHANGED <<fpClient, connected, closed, trouble>>

FpNext ==
    \E t \in Thread :
        \/ \E op \in Operation : Starts(t, op)
        \/ EnsureFinds(t) \/ ConfigMissing(t) \/ EnsureReads(t) \/ EnsureFails(t)
        \/ InitConnects(t) \/ InitFails(t) \/ ShutsDown(t)
        \/ Takes(t) \/ RunSucceeds(t) \/ RunFails(t) \/ FetchTruncates(t)
        \/ Returns(t)

FpSpec == FpInit /\ [][FpNext]_fpVars

-----------------------------------------------------------------------------
(* Properties *)

\* As long as the network answers no operation fails, shows an empty directory for
\* a full one or hands out part of a file, whatever the other threads do with the
\* client that they share.  Excepted: two threads that find no client and connect
\* both, the second of which closes the client of the first.
FailuresHaveCause ==
    \A t \in Thread : thread[t].result \in {"failed", "truncated"} => trouble
===============================================================================
