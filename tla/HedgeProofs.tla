----------------------------- MODULE HedgeProofs -----------------------------
(***************************************************************************)
(* HedgedRead implements the safety of RangeCall, for any capacity of the   *)
(* channel.                                                                 *)
(***************************************************************************)
EXTENDS HedgedRead, Integers, Sequences, TLAPS

Result == {"bytes", "error"}

(* The values of the variables.                                             *)
HedgeTypeOK ==
    /\ rpc \in [Source -> {"off", "running", "sending", "ended"}]
    /\ outcome \in [Source -> Result \cup {"none"}]
    /\ results \in Seq(Result)
    /\ pending \in Int
    /\ returned \in {"uncalled", "none"} \cup Result

FlagsOK == timer \in BOOLEAN /\ firstErr \in BOOLEAN /\ cancelled \in BOOLEAN

\* A call has an outcome exactly after it has run.
OutcomesKnown ==
    \A s \in Source : outcome[s] = "none" <=> rpc[s] \in {"off", "running"}

Fetched == \E s \in Source : outcome[s] = "bytes"

\* The bytes in the channel were brought by a call.
BytesAreReal ==
    \A i \in 1..Len(results) : results[i] = "bytes" => Fetched

\* While the read goes on, bytes that have been sent are in the channel.
BytesWait ==
    returned = "none" =>
        \A s \in Source : rpc[s] = "ended" /\ outcome[s] = "bytes" =>
            \E i \in 1..Len(results) : results[i] = "bytes"

Underway(s) == IF rpc[s] \in {"running", "sending"} THEN 1 ELSE 0

\* The loop waits for each call that it has started and not heard of.
PendingCounts ==
    returned = "none" => pending = Underway("primary") + Underway("hedge") + Len(results)

\* A call is started once: the first by the read, the second by the timer.
StartedOnce ==
    /\ returned = "uncalled" => /\ \A s \in Source : rpc[s] = "off"
                                /\ results = <<>> /\ ~timer
    /\ returned # "uncalled" => rpc["primary"] # "off"
    /\ timer => rpc["hedge"] = "off"

HedgeInv ==
    /\ HedgeTypeOK /\ OutcomesKnown /\ BytesAreReal /\ BytesWait
    /\ PendingCounts /\ StartedOnce

USE DEF Source, Result

(* Initially nothing runs. *)
LEMMA HedgeInitInv == HedgeInit => HedgeInv
<1> SUFFICES ASSUME HedgeInit PROVE HedgeInv
  OBVIOUS
<1>1. HedgeTypeOK
  BY DEF HedgeInit, HedgeTypeOK
<1>2. OutcomesKnown /\ BytesAreReal /\ BytesWait /\ PendingCounts /\ StartedOnce
  BY DEF HedgeInit, OutcomesKnown, BytesAreReal, BytesWait, PendingCounts, StartedOnce
<1> QED BY <1>1, <1>2 DEF HedgeInv

(* What Append and Tail do to the bytes in the channel.                     *)
LEMMA ChannelGrows ==
    ASSUME NEW q \in Seq(Result), NEW r \in Result
    PROVE  /\ Append(q, r) \in Seq(Result) /\ Len(Append(q, r)) = Len(q) + 1
           /\ \A i \in 1..Len(q) : Append(q, r)[i] = q[i]
           /\ Append(q, r)[Len(q) + 1] = r
OBVIOUS

(* What is left in the channel was in it. *)
LEMMA ChannelShrinks ==
    ASSUME NEW q \in Seq(Result), q # <<>>
    PROVE  /\ Tail(q) \in Seq(Result) /\ Len(Tail(q)) = Len(q) - 1 /\ Len(q) > 0
           /\ Head(q) = q[1] /\ Head(q) \in Result
           /\ \A i \in 1..Len(q) - 1 : Tail(q)[i] = q[i + 1]
OBVIOUS

(* A call ends with bytes or an error. *)
LEMMA CallEndsInv ==
    ASSUME HedgeInv, NEW s \in Source, NEW o \in Result, CallEnds(s, o)
    PROVE  HedgeInv'
<1> USE DEF CallEnds
<1>1. HedgeTypeOK'
  BY DEF HedgeInv, HedgeTypeOK
<1>2. OutcomesKnown' /\ BytesWait' /\ StartedOnce'
  BY DEF HedgeInv, HedgeTypeOK, OutcomesKnown, BytesWait, StartedOnce
<1>3. Fetched => Fetched'
  BY DEF HedgeInv, HedgeTypeOK, OutcomesKnown, Fetched
<1>4. BytesAreReal'
  BY <1>3 DEF HedgeInv, BytesAreReal
<1>5. PendingCounts'
  BY DEF HedgeInv, HedgeTypeOK, PendingCounts, Underway
<1> QED BY <1>1, <1>2, <1>4, <1>5 DEF HedgeInv

(* A call that has ended puts its result into the channel. *)
LEMMA SendInv ==
    ASSUME HedgeInv, NEW s \in Source, Send(s)
    PROVE  HedgeInv'
<1> USE DEF Send
<1>1. outcome[s] \in Result /\ results \in Seq(Result)
  BY DEF HedgeInv, HedgeTypeOK, OutcomesKnown
<1>2. results' = Append(results, outcome[s])
  OBVIOUS
<1>3. /\ results' \in Seq(Result) /\ Len(results') = Len(results) + 1
      /\ \A i \in 1..Len(results) : results'[i] = results[i]
      /\ results'[Len(results) + 1] = outcome[s]
  BY <1>1, <1>2, ChannelGrows
<1>4. HedgeTypeOK'
  BY <1>3 DEF HedgeInv, HedgeTypeOK
<1>5. OutcomesKnown'
  BY DEF HedgeInv, HedgeTypeOK, OutcomesKnown
<1>6. StartedOnce'
  BY DEF HedgeInv, HedgeTypeOK, StartedOnce
<1>7. BytesAreReal'
  <2> SUFFICES ASSUME NEW i \in 1..Len(results'), results'[i] = "bytes"
               PROVE  Fetched'
    BY DEF BytesAreReal
  <2>1. CASE i \in 1..Len(results)
    BY <1>3, <2>1 DEF HedgeInv, BytesAreReal, Fetched
  <2>2. CASE i = Len(results) + 1
    BY <1>3, <2>2 DEF Fetched
  <2>3. Len(results) \in Nat
    BY <1>1
  <2> QED BY <1>3, <2>1, <2>2, <2>3
<1>8. BytesWait'
  <2> SUFFICES ASSUME returned = "none", NEW t \in Source,
                      rpc'[t] = "ended", outcome[t] = "bytes"
               PROVE  \E i \in 1..Len(results') : results'[i] = "bytes"
    BY DEF BytesWait
  <2>1. Len(results) \in Nat
    BY <1>1
  <2>2. CASE t = s
    BY <1>3, <2>1, <2>2
  <2>3. CASE t # s
    <3>1. rpc[t] = "ended"
      BY <2>3 DEF HedgeInv, HedgeTypeOK
    <3>2. PICK i \in 1..Len(results) : results[i] = "bytes"
      BY <3>1 DEF HedgeInv, BytesWait
    <3> QED BY <1>3, <2>1, <3>2
  <2> QED BY <2>2, <2>3
<1>9. PendingCounts'
  BY <1>1, <1>3 DEF HedgeInv, HedgeTypeOK, PendingCounts, Underway
<1> QED BY <1>4, <1>5, <1>6, <1>7, <1>8, <1>9 DEF HedgeInv

(* The read takes the first result, returns it or waits for the other. *)
LEMMA ReceiveInv ==
    ASSUME HedgeInv, Receive
    PROVE  HedgeInv'
<1> USE DEF Receive
<1>1. results \in Seq(Result) /\ results # <<>> /\ results' = Tail(results)
  BY DEF HedgeInv, HedgeTypeOK
<1>2. /\ results' \in Seq(Result) /\ Len(results') = Len(results) - 1 /\ Len(results) > 0
      /\ Head(results) = results[1] /\ Head(results) \in Result
      /\ \A i \in 1..Len(results) - 1 : results'[i] = results[i + 1]
  BY <1>1, ChannelShrinks
<1>3. Len(results) \in Nat
  BY <1>1
<1>4. HedgeTypeOK'
  BY <1>2 DEF HedgeInv, HedgeTypeOK
<1>5. OutcomesKnown'
  BY DEF HedgeInv, OutcomesKnown
<1>6. BytesAreReal'
  <2> SUFFICES ASSUME NEW i \in 1..Len(results'), results'[i] = "bytes"
               PROVE  Fetched'
    BY DEF BytesAreReal
  <2>1. i + 1 \in 1..Len(results) /\ results[i + 1] = "bytes"
    BY <1>2, <1>3
  <2> QED BY <2>1 DEF HedgeInv, BytesAreReal, Fetched
<1>7. BytesWait'
  <2> SUFFICES ASSUME returned' = "none", NEW t \in Source,
                      rpc[t] = "ended", outcome[t] = "bytes"
               PROVE  \E i \in 1..Len(results') : results'[i] = "bytes"
    BY DEF BytesWait
  <2>1. returned = "none" /\ results[1] # "bytes"
    BY <1>2 DEF Waits
  <2>2. PICK i \in 1..Len(results) : results[i] = "bytes"
    BY <2>1 DEF HedgeInv, BytesWait
  <2>3. i - 1 \in 1..Len(results') /\ results'[i - 1] = "bytes"
    BY <1>2, <1>3, <2>1, <2>2
  <2> QED BY <2>3
<1>8. PendingCounts'
  BY <1>2, <1>3 DEF HedgeInv, HedgeTypeOK, PendingCounts, Underway, Waits
<1>9. StartedOnce'
  BY <1>2 DEF HedgeInv, StartedOnce, Waits
<1> QED BY <1>4, <1>5, <1>6, <1>7, <1>8, <1>9 DEF HedgeInv

(* The read starts a call, each one once. *)
LEMMA LaunchInv ==
    ASSUME HedgeInv, LaunchPrimary \/ LaunchHedge
    PROVE  HedgeInv'
<1>1. HedgeTypeOK'
  BY DEF HedgeInv, HedgeTypeOK, LaunchPrimary, LaunchHedge, Launch
<1>2. OutcomesKnown' /\ BytesAreReal' /\ BytesWait'
  BY DEF HedgeInv, HedgeTypeOK, OutcomesKnown, BytesAreReal, BytesWait, Fetched,
         StartedOnce, LaunchPrimary, LaunchHedge, Launch, Waits
<1>3. PendingCounts' /\ StartedOnce'
  BY DEF HedgeInv, HedgeTypeOK, PendingCounts, Underway, StartedOnce,
         LaunchPrimary, LaunchHedge, Launch, Waits
<1> QED BY <1>1, <1>2, <1>3 DEF HedgeInv

(* Steps that change neither a call nor the channel. *)
LEMMA QuietInv ==
    ASSUME HedgeInv, \/ ReturnFirstErr \/ CtxDone \/ CallerCancels
                     \/ UNCHANGED hedgeVars
    PROVE  HedgeInv'
<1>1. /\ UNCHANGED <<rpc, outcome, results, timer, pending, firstErr>>
      /\ returned' = returned \/ (returned = "none" /\ returned' = "error")
  BY DEF HedgeInv, HedgeTypeOK, ReturnFirstErr, CtxDone, CallerCancels, Waits, hedgeVars
<1>2. HedgeTypeOK'
  BY <1>1 DEF HedgeInv, HedgeTypeOK
<1>3. OutcomesKnown' /\ BytesAreReal' /\ BytesWait' /\ PendingCounts' /\ StartedOnce'
  BY <1>1 DEF HedgeInv, OutcomesKnown, BytesAreReal, BytesWait, Fetched, PendingCounts,
              Underway, StartedOnce
<1> QED BY <1>2, <1>3 DEF HedgeInv

(* The invariant is inductive. *)
LEMMA HedgeStep == HedgeInv /\ [HedgeNext]_hedgeVars => HedgeInv'
<1> SUFFICES ASSUME HedgeInv, [HedgeNext]_hedgeVars PROVE HedgeInv'
  OBVIOUS
<1>1. CASE \E s \in Source : Runs(s)
  BY <1>1, CallEndsInv DEF Runs, CallSucceeds, CallFails
<1>2. CASE \E s \in Source : Send(s)
  BY <1>2, SendInv
<1>3. CASE LaunchPrimary \/ LaunchHedge
  BY <1>3, LaunchInv
<1>4. CASE Receive
  BY <1>4, ReceiveInv
<1>5. CASE ReturnFirstErr \/ CtxDone \/ CallerCancels \/ UNCHANGED hedgeVars
  BY <1>5, QuietInv
<1> QED BY <1>1, <1>2, <1>3, <1>4, <1>5 DEF HedgeNext, Loop

-----------------------------------------------------------------------------
(* Each step is one of RangeCall, or leaves what RangeCall sees.            *)

(* A call that ends is an attempt that ends. *)
LEMMA CallEndsMaps ==
    ASSUME HedgeInv, NEW s \in Source, NEW o \in Result, CallEnds(s, o)
    PROVE  Promise!Decides \/ UNCHANGED Promise!rcVars
<1> USE DEF CallEnds
<1>1. cancelled' = cancelled /\ returned' = returned
  OBVIOUS
<1>2. Attempts' \in {"won", "lost", "running"} /\ Attempts \in {"won", "running"}
  BY DEF HedgeInv, HedgeTypeOK, Attempts
<1>3. CASE Attempts = "running" /\ Attempts' # "running"
  BY <1>1, <1>2, <1>3 DEF Promise!Decides
<1>4. CASE Attempts = "won"
  <2>1. PICK t \in Source : outcome[t] = "bytes"
    BY <1>4 DEF Attempts
  <2>2. outcome'[t] = "bytes"
    BY <2>1 DEF HedgeInv, HedgeTypeOK, OutcomesKnown
  <2>3. Attempts' = "won"
    BY <2>2 DEF Attempts
  <2> QED BY <1>1, <1>4, <2>3 DEF Promise!rcVars
<1>5. CASE Attempts = "running" /\ Attempts' = "running"
  BY <1>1, <1>5 DEF Promise!rcVars
<1> QED BY <1>2, <1>3, <1>4, <1>5

(* Sending is a stutter. *)
LEMMA SendMaps ==
    ASSUME HedgeInv, NEW s \in Source, Send(s)
    PROVE  UNCHANGED Promise!rcVars
<1>1. outcome' = outcome /\ cancelled' = cancelled /\ returned' = returned
  BY DEF Send
<1>2. \A t \in Source : rpc'[t] = "running" <=> rpc[t] = "running"
  BY DEF Send, HedgeInv, HedgeTypeOK
<1>3. Attempts' = Attempts
  BY <1>1, <1>2 DEF Attempts
<1> QED BY <1>1, <1>3 DEF Promise!rcVars

(* Receiving returns the bytes, or is a stutter. *)
LEMMA ReceiveMaps ==
    ASSUME HedgeInv, Receive
    PROVE  Promise!ReturnBytes \/ UNCHANGED Promise!rcVars
<1>1. rpc' = rpc /\ outcome' = outcome /\ cancelled' = cancelled /\ returned = "none"
  BY DEF Receive, Waits
<1>2. Attempts' = Attempts
  BY <1>1 DEF Attempts
<1>3. CASE Head(results) = "bytes"
  <2>1. 1 \in 1..Len(results) /\ results[1] = "bytes"
    BY <1>3 DEF Receive, HedgeInv, HedgeTypeOK
  <2>2. Attempts = "won"
    BY <2>1 DEF HedgeInv, BytesAreReal, Fetched, Attempts
  <2>3. returned' = "bytes"
    BY <1>3 DEF Receive
  <2> QED BY <1>1, <1>2, <2>2, <2>3 DEF Promise!ReturnBytes, Promise!Answers
<1>4. CASE Head(results) # "bytes"
  BY <1>1, <1>2, <1>4 DEF Receive, Promise!rcVars
<1> QED BY <1>3, <1>4

(* The first call begins the read of RangeCall; the hedge is another attempt, or
   a stutter when bytes have been brought. *)
LEMMA LaunchMaps ==
    ASSUME HedgeInv, LaunchPrimary \/ LaunchHedge
    PROVE  Promise!Begins \/ Promise!Retries \/ UNCHANGED Promise!rcVars
<1>1. CASE LaunchPrimary
  <2>1. rpc'["primary"] = "running" /\ \A s \in Source : outcome'[s] = "none"
    BY <1>1 DEF LaunchPrimary, Launch, HedgeInv, HedgeTypeOK, OutcomesKnown, StartedOnce
  <2>2. Attempts' = "running"
    BY <2>1 DEF Attempts
  <2> QED BY <1>1, <2>2 DEF LaunchPrimary, Promise!Begins
<1>2. CASE LaunchHedge
  <2>1. rpc'["hedge"] = "running" /\ outcome' = outcome /\ returned = "none"
        /\ cancelled' = cancelled /\ returned' = returned
        /\ \A s \in Source : rpc[s] = "running" => rpc'[s] = "running"
    BY <1>2 DEF LaunchHedge, Launch, Waits, HedgeInv, HedgeTypeOK
  <2>2. Attempts' = IF Attempts = "won" THEN "won" ELSE "running"
    BY <2>1 DEF Attempts
  <2>3. Attempts \in {"won", "running", "lost"}
    BY DEF Attempts
  <2> QED BY <2>1, <2>2, <2>3 DEF Promise!Retries, Promise!rcVars
<1> QED BY <1>1, <1>2

(* The read fails when every call has failed or the caller has given up. *)
LEMMA FailureMaps ==
    ASSUME HedgeInv, ReturnFirstErr \/ CtxDone
    PROVE  Promise!ReturnError
<1>1. /\ rpc' = rpc /\ outcome' = outcome /\ cancelled' = cancelled
      /\ returned = "none" /\ returned' = "error"
  BY DEF ReturnFirstErr, CtxDone, Waits
<1>2. Attempts' = Attempts
  BY <1>1 DEF Attempts
<1>3. CASE CtxDone
  BY <1>1, <1>2, <1>3 DEF CtxDone, Promise!ReturnError, Promise!Answers
<1>4. CASE ReturnFirstErr
  <2>1. Len(results) \in Nat /\ pending = 0
    BY <1>4 DEF ReturnFirstErr, NothingPending, HedgeInv, HedgeTypeOK
  <2>2. Len(results) = 0 /\ \A s \in Source : rpc[s] \notin {"running", "sending"}
    BY <1>1, <2>1 DEF HedgeInv, PendingCounts, Underway
  <2>3. \A s \in Source : outcome[s] # "bytes"
    <3>1. \A s \in Source : rpc[s] = "ended" => outcome[s] # "bytes"
      BY <1>1, <2>2 DEF HedgeInv, BytesWait
    <3>2. \A s \in Source : rpc[s] = "off" => outcome[s] = "none"
      BY DEF HedgeInv, OutcomesKnown
    <3> QED BY <2>2, <3>1, <3>2 DEF HedgeInv, HedgeTypeOK
  <2>4. Attempts = "lost"
    BY <2>2, <2>3 DEF Attempts
  <2> QED BY <1>1, <1>2, <2>4 DEF Promise!ReturnError, Promise!Answers
<1> QED BY <1>3, <1>4

(* Every step maps to one of RangeCall, or to a stutter. *)
LEMMA HedgeMaps ==
    HedgeInv /\ [HedgeNext]_hedgeVars => [Promise!RcNext]_(Promise!rcVars)
<1> SUFFICES ASSUME HedgeInv, [HedgeNext]_hedgeVars
             PROVE  Promise!RcNext \/ UNCHANGED Promise!rcVars
  OBVIOUS
<1> USE DEF Promise!RcNext
<1>1. CASE \E s \in Source : Runs(s)
  BY <1>1, CallEndsMaps DEF Runs, CallSucceeds, CallFails
<1>2. CASE \E s \in Source : Send(s)
  BY <1>2, SendMaps
<1>3. CASE LaunchPrimary \/ LaunchHedge
  BY <1>3, LaunchMaps
<1>4. CASE Receive
  BY <1>4, ReceiveMaps
<1>5. CASE ReturnFirstErr \/ CtxDone
  BY <1>5, FailureMaps
<1>6. CASE CallerCancels
  BY <1>6 DEF CallerCancels, Promise!GiveUp, Attempts
<1>7. CASE UNCHANGED hedgeVars
  BY <1>7 DEF hedgeVars, Promise!rcVars, Attempts
<1> QED BY <1>1, <1>2, <1>3, <1>4, <1>5, <1>6, <1>7 DEF HedgeNext, Loop

(* The flags stay Boolean. *)
LEMMA FlagsStep == FlagsOK /\ [HedgeNext]_hedgeVars => FlagsOK'
<1> SUFFICES ASSUME FlagsOK, [HedgeNext]_hedgeVars PROVE FlagsOK'
  OBVIOUS
<1>1. ASSUME NEW s \in Source, Runs(s) \/ Send(s) PROVE FlagsOK'
  BY <1>1, Zenon DEF Runs, CallSucceeds, CallFails, CallEnds, Send, FlagsOK
<1>2. CASE LaunchPrimary \/ LaunchHedge
  BY <1>2, Zenon DEF LaunchPrimary, LaunchHedge, FlagsOK
<1>3. CASE Receive
  BY <1>3, Zenon DEF Receive, FlagsOK
<1>4. CASE ReturnFirstErr \/ CtxDone \/ CallerCancels
  BY <1>4, Zenon DEF ReturnFirstErr, CtxDone, CallerCancels, FlagsOK
<1>5. CASE UNCHANGED hedgeVars
  BY <1>5, Zenon DEF hedgeVars, FlagsOK
<1> QED BY <1>1, <1>2, <1>3, <1>4, <1>5 DEF HedgeNext, Loop

(* The invariant, for any capacity of the channel. *)
LEMMA HedgeInvariant == HedgeSpec => []HedgeInv
<1>1. HedgeInit => HedgeInv
  BY HedgeInitInv
<1>2. HedgeInv /\ [HedgeNext]_hedgeVars => HedgeInv'
  BY HedgeStep
<1> QED BY <1>1, <1>2, PTL DEF HedgeSpec

-----------------------------------------------------------------------------
(* The variables of a hedged read have the values they are meant to have.   *)
THEOREM HedgeTypeCorrect == HedgeSpec => [](HedgeTypeOK /\ FlagsOK)
<1>1. HedgeInv => HedgeTypeOK
  BY DEF HedgeInv
<1>2. HedgeInit => FlagsOK
  BY Zenon DEF HedgeInit, FlagsOK
<1>3. FlagsOK /\ [HedgeNext]_hedgeVars => FlagsOK'
  BY FlagsStep
<1> QED BY <1>1, <1>2, <1>3, HedgeInvariant, PTL DEF HedgeSpec

(* Two racing calls (client.go:879) answer as one call would: with bytes    *)
(* that a call brought, or with an error when all have failed or the caller *)
(* has given up.  This is the safety of HedgeKeepsPromise.                  *)
THEOREM HedgeImplementsCall ==
    HedgeSpec => Promise!RcInit /\ [][Promise!RcNext]_(Promise!rcVars)
<1>1. HedgeInit => Promise!RcInit
  BY DEF HedgeInit, Promise!RcInit, Attempts
<1>2. HedgeInv /\ [HedgeNext]_hedgeVars => [Promise!RcNext]_(Promise!rcVars)
  BY HedgeMaps
<1> QED BY <1>1, <1>2, HedgeInvariant, PTL DEF HedgeSpec
=============================================================================
