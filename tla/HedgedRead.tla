------------------------------ MODULE HedgedRead ------------------------------
(***************************************************************************)
(* readObjectRangeHedged of internal/neofs/client.go: a range of a mebibyte *)
(* or so is asked for, and asked for again when it has not come after       *)
(* 400 ms; the first success is the answer and cancels the other call.      *)
(***************************************************************************)
EXTENDS Naturals
LOCAL INSTANCE Sequences

CONSTANT ResultsCap   \* the capacity of the results channel

ASSUME HedgeAssumption == ResultsCap \in Nat

VARIABLES
    rpc,        \* rpc[s]: the goroutine of a source: off, running, sending, ended
    outcome,    \* outcome[s]: what its call came to
    results,    \* the channel
    timer,      \* the hedge timer is armed
    pending,    \* results the loop waits for
    firstErr,   \* an error was received
    cancelled,  \* the caller's context is done
    returned    \* "uncalled", "none", "bytes" or "error"

hedgeVars == <<rpc, outcome, results, timer, pending, firstErr, cancelled, returned>>

Source == {"primary", "hedge"}

HedgeInit ==
    /\ rpc = [s \in Source |-> "off"]
    /\ outcome = [s \in Source |-> "none"]
    /\ results = <<>>
    /\ timer = FALSE /\ pending = 0 /\ firstErr = FALSE
    /\ cancelled = FALSE /\ returned = "uncalled"

-----------------------------------------------------------------------------
Launch(s) == rpc' = [rpc EXCEPT ![s] = "running"]

LaunchPrimary ==
    /\ returned = "uncalled" /\ returned' = "none"
    /\ Launch("primary") /\ pending' = 1 /\ timer' = TRUE
    /\ UNCHANGED <<outcome, results, firstErr, cancelled>>

(* readObjectRangeSingleRPC: the bytes that came, or an error, which the    *)
(* network may cause, the caller, or the end of the read.                   *)
CallEnds(s, o) ==
    /\ rpc[s] = "running"
    /\ outcome' = [outcome EXCEPT ![s] = o]
    /\ rpc' = [rpc EXCEPT ![s] = "sending"]
    /\ UNCHANGED <<results, timer, pending, firstErr, cancelled, returned>>

CallSucceeds(s) == CallEnds(s, "bytes")
CallFails(s)    == CallEnds(s, "error")

\* Mutant: an unbuffered channel, which takes a result only while the loop waits.
RoomUnbuffered == results = <<>> /\ returned = "none"

Room == Len(results) < ResultsCap

Send(s) ==
    /\ rpc[s] = "sending" /\ Room
    /\ results' = Append(results, outcome[s])
    /\ rpc' = [rpc EXCEPT ![s] = "ended"]
    /\ UNCHANGED <<outcome, timer, pending, firstErr, cancelled, returned>>

Waits == returned = "none" /\ pending > 0

Receive ==
    /\ Waits /\ results # <<>>
    /\ results' = Tail(results)
    /\ pending' = pending - 1
    /\ IF Head(results) = "bytes"
       THEN returned' = "bytes" /\ UNCHANGED firstErr
       ELSE firstErr' = TRUE /\ UNCHANGED returned
    /\ UNCHANGED <<rpc, outcome, timer, cancelled>>

LaunchHedge ==
    /\ Waits /\ timer
    /\ timer' = FALSE
    /\ pending' = pending + 1
    /\ Launch("hedge")
    /\ UNCHANGED <<outcome, results, firstErr, cancelled, returned>>

\* Mutant: the first error ends the read.
NothingPendingOrFailed == pending = 0 \/ firstErr

NothingPending == pending = 0

(* The loop ends: every call it started has failed.                         *)
ReturnFirstErr ==
    /\ returned = "none" /\ NothingPending
    /\ returned' = "error"
    /\ UNCHANGED <<rpc, outcome, results, timer, pending, firstErr, cancelled>>

CtxDone ==
    /\ Waits /\ cancelled
    /\ returned' = "error"
    /\ UNCHANGED <<rpc, outcome, results, timer, pending, firstErr, cancelled>>

CallerCancels ==
    /\ ~cancelled /\ cancelled' = TRUE
    /\ UNCHANGED <<rpc, outcome, results, timer, pending, firstErr, returned>>

-----------------------------------------------------------------------------
Runs(s) == CallSucceeds(s) \/ CallFails(s)

Loop == Receive \/ ReturnFirstErr \/ CtxDone

HedgeNext ==
    \/ \E s \in Source : Runs(s) \/ Send(s)
    \/ LaunchPrimary \/ Loop \/ LaunchHedge \/ CallerCancels

(* A call ends, by the network's answer or its timeouts; goroutines run.    *)
HedgeSpec ==
    /\ HedgeInit /\ [][HedgeNext]_hedgeVars
    /\ WF_hedgeVars(Loop)
    /\ \A s \in Source : WF_hedgeVars(Runs(s)) /\ WF_hedgeVars(Send(s))

-----------------------------------------------------------------------------
(* Properties *)

Attempts ==
    IF \E s \in Source : outcome[s] = "bytes" THEN "won"
    ELSE IF \E s \in Source : rpc[s] = "running" THEN "running" ELSE "lost"

Promise == INSTANCE RangeCall WITH attempts <- Attempts, givenUp <- cancelled,
                                   answer <- returned

\* Two racing calls keep the promise of one: bytes if any of them brings them, an
\* error only when all that were started have failed or the caller gave up, so
\* the loser's error and the cancelled call's are never the answer.
HedgeKeepsPromise == Promise!RcSpec

\* The goroutine of the losing call ends as well: nobody receives its result.
HedgeGoroutinesEnd == \A s \in Source : rpc[s] = "running" ~> rpc[s] = "ended"
===============================================================================
