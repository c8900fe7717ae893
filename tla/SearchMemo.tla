------------------------------ MODULE SearchMemo ------------------------------
(***************************************************************************)
(* searchAllObjectIDs of internal/neofs/client.go for one container: four   *)
(* ways to ask a deployment for the objects, tried in order, and a memo of  *)
(* the one that worked last.  Each asks page after page.                    *)
(*                                                                         *)
(* Objects are numbered in the order in which the pages list them.          *)
(***************************************************************************)
EXTENDS Naturals
LOCAL INSTANCE Sequences

CONSTANTS
    LastObject, \* the objects are 1..LastObject
    Sees,       \* Sees[s]: the objects that the deployment lists by the s-th strategy
    Searcher,   \* goroutines that search
    MaxChange   \* bound on the changes of the container

Strategy == DOMAIN Sees
Unknown  == 0

ASSUME SearchAssumption ==
    /\ LastObject \in Nat /\ MaxChange \in Nat
    /\ Sees \in Seq(SUBSET (1..LastObject)) /\ Sees # <<>>

VARIABLES
    held,           \* the objects of the container
    changes,        \* changes so far
    searchStrategy, \* the memo
    search          \* search[p]: the call of goroutine p

searchVars == <<held, changes, searchStrategy, search>>

\* via: the strategy is the memo's, or is tried in order; cursor: the last object
\* listed; kept: the objects that were there all the time; failed: the strategies
\* that failed.
NoSearch == [pc |-> "idle", by |-> Unknown, via |-> "order", cursor |-> 0, all |-> {},
             kept |-> {}, failed |-> {}]

SearchInit ==
    /\ held \in SUBSET (1..LastObject) /\ changes = 0
    /\ searchStrategy = Unknown
    /\ search = [p \in Searcher |-> NoSearch]

\* A strategy is asked in its turn.
Asks(p, s) ==
    search' = [search EXCEPT ![p] =
                 [@ EXCEPT !.pc = "asks", !.by = s, !.via = "order", !.cursor = 0,
                           !.all = {}, !.failed = search[p].failed \ {s}]]

(* The container changes while it is searched.                              *)
Changes(o) ==
    /\ changes < MaxChange /\ changes' = changes + 1
    /\ held' = IF o \in held THEN held \ {o} ELSE held \cup {o}
    /\ search' = [p \in Searcher |-> [search[p] EXCEPT !.kept = search[p].kept \cap held']]
    /\ UNCHANGED searchStrategy

(* The memo is tried first, without one the strategies in order.            *)
SearchBegins(p) ==
    LET known == searchStrategy # Unknown
    IN  /\ search[p].pc = "idle"
        /\ search' = [search EXCEPT ![p] =
                        [NoSearch EXCEPT !.pc = "asks", !.kept = held,
                                         !.via = IF known THEN "memo" ELSE "order",
                                         !.by = IF known THEN searchStrategy ELSE 1]]
        /\ UNCHANGED <<held, changes, searchStrategy>>

-----------------------------------------------------------------------------
\* What the deployment has still to list to p.
Rest(p) == {o \in held \cap Sees[search[p].by] : o > search[p].cursor}

LastPage(p, o) == \A q \in Rest(p) : q <= o

(* A page of one object, with the cursor for the next one if there is one.  *)
PageComes(p) ==
    /\ search[p].pc = "asks"
    /\ \E o \in Rest(p) :
          /\ \A q \in Rest(p) : o <= q
          /\ search' = [search EXCEPT ![p] =
                          [@ EXCEPT !.all = search[p].all \cup {o}, !.cursor = o,
                                    !.pc = IF LastPage(p, o) THEN "listed" ELSE "asks"]]
    /\ UNCHANGED <<held, changes, searchStrategy>>

(* An empty page: nothing is there, or nothing any more.                    *)
PageEmpty(p) ==
    /\ search[p].pc = "asks" /\ Rest(p) = {}
    /\ search' = [search EXCEPT ![p].pc = "listed"]
    /\ UNCHANGED <<held, changes, searchStrategy>>

(* An error drops what has come so far.                                     *)
PageFails(p) ==
    /\ search[p].pc = "asks"
    /\ search' = [search EXCEPT ![p] = [@ EXCEPT !.pc = "listed", !.all = {},
                                                 !.failed = search[p].failed \cup {search[p].by}]]
    /\ UNCHANGED <<held, changes, searchStrategy>>

\* Whether the answer of the strategy is taken, and the mutant that takes an empty
\* one of the memo's strategy.
TakenFromMemo(p) == search[p].all # {} \/ search[p].via = "memo"

Taken(p) == search[p].all # {}

(* The strategy is remembered, and the search answers.                      *)
Answers(p) ==
    /\ search[p].pc = "listed" /\ Taken(p)
    /\ searchStrategy' = IF search[p].via = "memo" THEN searchStrategy ELSE search[p].by
    /\ search' = [search EXCEPT ![p].pc = "answered"]
    /\ UNCHANGED <<held, changes>>

(* The memo is forgotten, and the strategies are tried in order.            *)
ForgetsMemo(p) ==
    /\ search[p].pc = "listed" /\ ~Taken(p) /\ search[p].via = "memo"
    /\ searchStrategy' = Unknown
    /\ Asks(p, 1)
    /\ UNCHANGED <<held, changes>>

TriesNext(p) ==
    /\ search[p].pc = "listed" /\ ~Taken(p) /\ search[p].via = "order"
    /\ search[p].by + 1 \in Strategy
    /\ Asks(p, search[p].by + 1)
    /\ UNCHANGED <<held, changes, searchStrategy>>

(* None is left: no objects, and no error.                                  *)
AnswersNothing(p) ==
    /\ search[p].pc = "listed" /\ ~Taken(p) /\ search[p].via = "order"
    /\ search[p].by + 1 \notin Strategy
    /\ search' = [search EXCEPT ![p].pc = "answered"]
    /\ UNCHANGED <<held, changes, searchStrategy>>

SearchReturns(p) ==
    /\ search[p].pc = "answered"
    /\ search' = [search EXCEPT ![p] = NoSearch]
    /\ UNCHANGED <<held, changes, searchStrategy>>

SearchNext ==
    \/ \E o \in 1..LastObject : Changes(o)
    \/ \E p \in Searcher :
          \/ SearchBegins(p) \/ PageComes(p) \/ PageEmpty(p) \/ PageFails(p)
          \/ Answers(p) \/ ForgetsMemo(p) \/ TriesNext(p) \/ AnswersNothing(p)
          \/ SearchReturns(p)

SearchSpec == SearchInit /\ [][SearchNext]_searchVars

-----------------------------------------------------------------------------
(* Properties *)

\* A search finds what is there from its begin to its end, over all pages and
\* whatever other searches do with the memo: by the strategy that answers, and if
\* none does, by every strategy that has not failed in this very call.
SearchFinds ==
    \A p \in Searcher :
        search[p].pc = "answered"
        => LET found == search[p].all IN
           /\ found # {} => search[p].kept \cap Sees[search[p].by] \subseteq found
           /\ found = {} => \A s \in Strategy \ search[p].failed :
                               search[p].kept \cap Sees[s] = {}
===============================================================================
