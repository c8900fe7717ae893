------------------------------ MODULE Hydration ------------------------------
(***************************************************************************)
(* How Windows reads a placeholder (FetchData and ValidateData of           *)
(* internal/fs/mount_windows.go under goFetchData and goValidateData of     *)
(* internal/cfapi/cfapi.go): the bytes asked for, widened to whole pages,   *)
(* are read in chunks from the cached blob or the network and written to    *)
(* Windows, and the transfer is completed, or failed.  A file without an    *)
(* object is read from the disk; a file changed locally is acknowledged.    *)
(*                                                                         *)
(* One callback, for any span.                                              *)
(***************************************************************************)
EXTENDS Integers

CONSTANTS
    MaxSize,   \* bound on sizes and offsets
    Page,      \* 4096 bytes
    ChunkMax   \* 4 MiB

ASSUME HydrationAssumption ==
    /\ MaxSize \in Nat /\ Page \in Nat \ {0}
    /\ ChunkMax \in {Page * k : k \in 1..(MaxSize + 1)}

VARIABLES
    asked,     \* offset and length (negative: to the end) of the request
    file,      \* where its bytes come from, the size it is taken to have and has
    off,       \* the position of the loop of fetchDataFromNeoFS
    written,   \* the bytes transferred to Windows, or acknowledged
    phase,     \* where the callback is
    failed     \* a failure has been signalled to Windows

hyVars == <<asked, file, off, written, phase, failed>>

AtMost(a, b) == IF a < b THEN a ELSE b

Floor(a) == (a \div Page) * Page
Ceil(a)  == Floor(a + Page - 1)

SpanEnd(size) ==
    IF asked.length < 0 THEN size ELSE asked.offset + asked.length

ReadEnd == AtMost(SpanEnd(file.size), file.size)

\* Mutant: the last page is not cut off at the end of the file.
PageEndWhole == Ceil(ReadEnd)

PageEnd == AtMost(Ceil(ReadEnd), file.size)

Stored  == {"blob", "network"}
Sources == Stored \cup {"disk", "nothing", "changed"}

HyInit ==
    /\ asked = [offset |-> 0, length |-> 0]
    /\ file = [from |-> "nothing", size |-> 0, has |-> 0]
    /\ off = 0 /\ written = {}
    /\ phase = "idle" /\ failed = FALSE

-----------------------------------------------------------------------------
\* A blob of the cache may be shorter than its object, and a file on disk may
\* be truncated while it is read.
DataCalled ==
    /\ phase = "idle" /\ phase' = "called"
    /\ asked' \in [offset : 0..MaxSize, length : -1..MaxSize]
    /\ \E from \in Sources, size \in 0..MaxSize, has \in 0..MaxSize :
           /\ has <= size
           /\ from \notin {"blob", "disk"} => has = size
           /\ file' = [from |-> from, size |-> size, has |-> has]
    /\ UNCHANGED <<off, written, failed>>

HyGoes(l) == phase' = l /\ UNCHANGED <<asked, file, off, written, failed>>

(* The provider may signal a failure before it returns its error.           *)
Errs(l) ==
    /\ phase = l /\ phase' = "error"
    /\ failed' \in {failed, TRUE}
    /\ UNCHANGED <<asked, file, off, written>>

\* Mutant: the span is read as it was asked for.
FirstPageAsked == asked.offset

FirstPage == Floor(asked.offset)

(* fetchDataFromNeoFS: an empty span needs no bytes.                        *)
FetchBegins ==
    /\ phase = "called" /\ file.from \in Stored
    /\ IF asked.offset >= ReadEnd
       THEN HyGoes("fetched")
       ELSE /\ off' = FirstPage
            /\ phase' = "loop"
            /\ UNCHANGED <<asked, file, written, failed>>

(* What the next read takes: all that remains, when the span ends with the  *)
(* file, or else whole pages.                                               *)
Take ==
    LET remain == PageEnd - off
    IN  IF PageEnd >= file.size THEN remain
        ELSE LET pages == Floor(AtMost(ChunkMax, remain))
             IN  IF pages = 0 THEN AtMost(Page, remain) ELSE pages

\* The bytes of the file from off on, as many as there are of those asked for.
ReadLength == IF file.has <= off THEN 0 ELSE AtMost(Take, file.has - off)

FetchChunk ==
    /\ phase = "loop" /\ off < PageEnd
    /\ written' = written \cup {b \in 0..file.has - 1 : off <= b /\ b < off + ReadLength}
    /\ off' = off + ReadLength
    /\ UNCHANGED <<asked, file, phase, failed>>

FetchEnds == phase = "loop" /\ off >= PageEnd /\ HyGoes("fetched")

(* fetchDataFromDisk: one read, written as it is.  Without a path there is  *)
(* nothing to transfer.                                                     *)
DiskRead ==
    /\ phase = "called" /\ file.from = "disk"
    /\ written' = {b \in 0..file.has - 1 : asked.offset <= b /\ b < ReadEnd}
    /\ phase' = "fetched"
    /\ UNCHANGED <<asked, file, off, failed>>

DiskNothing == phase = "called" /\ file.from = "nothing" /\ HyGoes("fetched")

(* AckRange.  The size is 0 when neither the object nor the file has any.   *)
AckEnd == IF file.size > 0 THEN AtMost(Ceil(SpanEnd(file.size)), file.size)
                           ELSE Ceil(SpanEnd(file.size))

Validate ==
    /\ phase = "called" /\ file.from = "changed"
    /\ asked.length < 0 => file.size > 0
    /\ SpanEnd(file.size) > asked.offset /\ AckEnd > FirstPage
    /\ written' = FirstPage..AckEnd - 1
    /\ phase' = "completed"
    /\ UNCHANGED <<asked, file, off, failed>>

(* With nothing to acknowledge it returns without a word to Windows.        *)
ValidateNothing ==
    /\ phase = "called" /\ file.from = "changed"
    /\ asked.length < 0 => file.size > 0
    /\ SpanEnd(file.size) <= asked.offset \/ AckEnd <= FirstPage
    /\ HyGoes("unanswered")

(* goValidateData only logs an error, and answers only for a session that   *)
(* is gone.                                                                 *)
ValidateFails ==
    /\ phase = "called" /\ file.from = "changed"
    /\ HyGoes("unanswered")

ValidateGone ==
    /\ phase = "called" /\ file.from = "changed"
    /\ phase' = "failed" /\ failed' = TRUE
    /\ UNCHANGED <<asked, file, off, written>>

(* goFetchData completes the callback, or fails it, whether or not the      *)
(* provider has done so.                                                    *)
Complete == phase = "fetched" /\ HyGoes("completed")

Fail ==
    /\ phase = "error" /\ phase' = "failed"
    /\ failed' = TRUE
    /\ UNCHANGED <<asked, file, off, written>>

FetchErrs == file.from # "changed" /\ (Errs("called") \/ Errs("loop"))

-----------------------------------------------------------------------------
HyStep ==
    \/ FetchBegins \/ FetchChunk \/ FetchEnds \/ DiskRead \/ DiskNothing
    \/ Validate \/ ValidateNothing \/ ValidateFails \/ ValidateGone
    \/ Complete \/ Fail

HyNext == DataCalled \/ HyStep \/ FetchErrs

HySpec == HyInit /\ [][HyNext]_hyVars

(* Reads and transfers return, with bytes or an error.                      *)
HyFairSpec == HySpec /\ WF_hyVars(HyStep)

-----------------------------------------------------------------------------
(* Properties *)

Whole == file.has = file.size

\* A callback that Windows is told has succeeded has brought every byte of the
\* file that was asked for, and was not failed before; and what comes from an
\* object begins and ends at pages, or at the end of the file, as Windows
\* demands.  For this the blob must be as long as the object, which Cache
\* shows it may not be.
HydrationCovers ==
    /\ phase = "completed" /\ Whole /\ file.from # "nothing" =>
           asked.offset..ReadEnd - 1 \subseteq written /\ ~failed
    /\ phase = "loop" /\ Whole => off % Page = 0 \/ off = file.size

\* Every fetch of a placeholder's bytes is completed or failed: Windows waits for
\* that, and so does the program that reads.  A blob shorter than its object is
\* excepted: beyond its end a read returns no bytes and no error, and the loop goes on
\* for ever (mount_windows.go:806).  A completion that Windows refuses is only logged
\* (cfapi.go:995).  Validations of changed files are not promised an answer, and do
\* not always get one: a failed one is only logged (cfapi.go:1150), and one with
\* nothing to acknowledge returns in silence (cfapi.go:932, 941).
HydrationEnds ==
    phase = "called" /\ file.from # "changed" /\ Whole ~> phase \in {"completed", "failed"}
===============================================================================
