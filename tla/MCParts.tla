------------------------------- MODULE MCParts --------------------------------
(***************************************************************************)
(* Small instances of components that share no state with one another, for  *)
(* their safety, in one state space: the component is chosen at the start,  *)
(* and only its own steps happen.  A property of one component holds in the *)
(* executions of the others by their initial states alone.                  *)
(***************************************************************************)
EXTENDS HeadScan, Placeholders, DirListing, TrayMount, FileProvider, SearchMemo, TLC

CONSTANTS
    k1, k2, o1, o2, p1, p2, p3, w1, w2,
    Key, Opener, MaxBytes, Uploaded, MaxAttempts, MaxRestarts, NoKey, Async   \* of Cache

VARIABLES
    cached, entry, lru, curBytes, evictor, spawned,   \* of Cache
    tmp, final, opener, renamed, restarts,
    which                                             \* the component that runs

\* The cache under pressure, in executions that drop no entry whose fetch is running.
OneTwo == (k1 :> 1) @@ (k2 :> 2)

Kept == INSTANCE Cache WITH Proc <- Opener, Size <- OneTwo, MaxDrift <- 2,
                            proc <- opener, stored <- renamed

keptVars == <<cached, entry, lru, curBytes, evictor, spawned, tmp, final, opener,
              renamed, restarts>>

partsVars == <<which, vars, phVars, dirVars, trayVars, fpVars, searchVars, keptVars>>

\* A directory's name for a file too, as a made directory's marker object has, a file
\* in it, and an editor's temporary file in it.
Paths == <<<<"a">>, <<"a", "b">>, <<"a", "t">>>>

\* The goroutines that list and change, and those that open, are alike.
PartsPerms == Permutations({w1, w2}) \cup Permutations({p1, p2})

\* A deployment that does not answer the first strategy, and lists one object of
\* two by the second.
SeesSome == <<{}, {1}, {1, 2}>>

Component == {"scan", "quietScan", "placeholders", "dirs", "tray", "provider", "search",
              "kept"}

\* The others stay as they are.
Only(c) ==
    /\ which = c /\ UNCHANGED which
    /\ c \notin {"scan", "quietScan"} => UNCHANGED vars
    /\ c # "placeholders" => UNCHANGED phVars
    /\ c # "dirs" => UNCHANGED dirVars
    /\ c # "tray" => UNCHANGED trayVars
    /\ c # "provider" => UNCHANGED fpVars
    /\ c # "search" => UNCHANGED searchVars
    /\ c # "kept" => UNCHANGED keptVars

PartsInit ==
    /\ which \in Component
    /\ Init /\ PhInit /\ DirInit /\ TrayInit /\ FpInit /\ SearchInit /\ Kept!Init
    /\ which # "placeholders" => isRoot = FALSE
    /\ which # "search" => held = {}
    /\ which # "dirs" => stored = {}

PartsNext ==
    \/ Only("scan") /\ Next
    \/ Only("quietScan") /\ Next /\ Quiet
    \/ Only("placeholders") /\ PhNext
    \/ Only("dirs") /\ DirNext
    \/ Only("tray") /\ TrayNext
    \/ Only("provider") /\ FpNext
    \/ Only("search") /\ SearchNext
    \/ Only("kept") /\ Kept!Next /\ Kept!KeepsFetches

PartsSpec == PartsInit /\ [][PartsNext]_partsVars

\* Fresh of HeadScan, in the executions of its QuietSpec: when no scan sees a change
\* and the search answers, a cached listing (client.go:405) is the container's
\* content as soon as every change has been followed by its invalidation.
FreshWhenQuiet == which = "quietScan" => Fresh

\* SingleFetcher of Cache, in the executions of its KeepSpec: one goroutine at most
\* downloads an object, though each looks into the map and locks it again later
\* (cache.go:73).
SingleFetcher == Kept!SingleFetcher

\* OnlyWholeBlobs of Cache: a file under its final name is the whole object, whatever
\* fetches failed or were taken over before (cache.go:145).
OnlyWholeBlobs == Kept!OnlyWholeBlobs

\* ExactAccounting of Cache: as long as no entry is dropped while it is fetched, the
\* bytes counted are the bytes of the map's entries (cache.go:187).
ExactAccounting == Kept!ExactAccounting
===============================================================================
