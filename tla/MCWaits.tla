------------------------------- MODULE MCWaits --------------------------------
(***************************************************************************)
(* Small instances of the components in which somebody waits for somebody   *)
(* else, for their liveness, in one state space: the component is chosen at *)
(* the start, and only its own steps happen.  The cache has room for every  *)
(* object.                                                                  *)
(***************************************************************************)
EXTENDS Cache, Placeholders, Hydration, HedgedRead, TLC

CONSTANTS
    k1, p1, p2, p3, o1, o2,
    Object, Initial, Lister   \* of HeadScan

VARIABLES
    store, removed, scanCache, scanInflight, call,   \* of HeadScan
    which                                            \* the component that runs

Scan == INSTANCE HeadScan WITH Proc <- Lister

headScanVars == <<store, removed, scanCache, scanInflight, call>>

waitsVars == <<which, vars, phVars, hyVars, hedgeVars, headScanVars>>

OneKey == {k1}
Two    == k1 :> 2

Component == {"cache", "scan", "placeholders", "hydration", "hedge"}

\* The others stay as they are.
Only(c) ==
    /\ which = c /\ UNCHANGED which
    /\ c # "cache" => UNCHANGED vars
    /\ c # "scan" => UNCHANGED headScanVars
    /\ c # "placeholders" => UNCHANGED phVars
    /\ c # "hydration" => UNCHANGED hyVars
    /\ c # "hedge" => UNCHANGED hedgeVars

WaitsInit ==
    /\ which \in Component
    /\ Init /\ Scan!Init /\ PhInit /\ HyInit /\ HedgeInit
    /\ which # "placeholders" => isRoot = FALSE

WaitsNext ==
    \/ Only("cache") /\ Next
    \/ Only("scan") /\ Scan!Next
    \/ Only("placeholders") /\ PhNext
    \/ Only("hydration") /\ HyNext
    \/ Only("hedge") /\ HedgeNext

(* The fairness of each component's own FairSpec.                           *)
WaitsFairSpec ==
    /\ WaitsInit /\ [][WaitsNext]_waitsVars
    /\ \A p \in Proc : WF_waitsVars(Only("cache") /\ Run(p))
    /\ WF_waitsVars(Only("cache") /\ Evict)
    /\ \A p \in Lister : WF_waitsVars(Only("scan") /\ Scan!Step(p))
    /\ \A c \in Callback : WF_waitsVars(Only("placeholders") /\ PhStep(c))
    /\ WF_waitsVars(Only("hydration") /\ HyStep)
    /\ WF_waitsVars(Only("hedge") /\ Loop)
    /\ \A s \in Source : /\ WF_waitsVars(Only("hedge") /\ Runs(s))
                         /\ WF_waitsVars(Only("hedge") /\ Send(s))

\* ListReturns of HeadScan: every call of ListEntriesByHeadScan returns, with a
\* listing or an error, whether it leads a scan or waits for one (client.go:412).
ListReturns == Scan!ListReturns
===============================================================================
