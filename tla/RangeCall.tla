------------------------------ MODULE RangeCall ------------------------------
(***************************************************************************)
(* What a caller of readObjectRange is promised: the bytes if an attempt    *)
(* brings them, an error only if every attempt has failed or the caller has *)
(* given up, and in any case an answer.                                     *)
(***************************************************************************)
VARIABLES
    attempts,   \* "running", "won" or "lost"
    givenUp,    \* the caller's context is done
    answer      \* "uncalled", "none", "bytes" or "error"

rcVars == <<attempts, givenUp, answer>>

RcInit == attempts = "lost" /\ givenUp = FALSE /\ answer = "uncalled"

Begins ==
    /\ answer = "uncalled" /\ answer' = "none"
    /\ attempts' = "running"
    /\ UNCHANGED givenUp

Answers(a) == answer = "none" /\ answer' = a /\ UNCHANGED <<attempts, givenUp>>

GiveUp == ~givenUp /\ givenUp' = TRUE /\ UNCHANGED <<attempts, answer>>

Decides ==
    /\ attempts = "running" /\ attempts' \in {"won", "lost"}
    /\ UNCHANGED <<givenUp, answer>>

\* Another attempt, which may have been under way when the others had failed.
Retries ==
    /\ attempts = "lost" /\ answer = "none"
    /\ attempts' = "running"
    /\ UNCHANGED <<givenUp, answer>>


ReturnBytes == attempts = "won" /\ Answers("bytes")

ReturnError == (attempts = "lost" \/ givenUp) /\ Answers("error")

RcNext == Begins \/ Decides \/ Retries \/ GiveUp \/ ReturnBytes \/ ReturnError

RcSpec == RcInit /\ [][RcNext]_rcVars /\ (answer = "none" ~> answer # "none")
===============================================================================
