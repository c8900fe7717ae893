\* The marker object of a made directory and a file in it; one goroutine lists while
\* the other changes the container.
CONSTANTS
    DirObject = {1, 2}
    PathOf <- MadeDirectory
    Hidden = {}
    Worker = {1, 2}
    MaxDirEdit = 3
SPECIFICATION DirSpec
INVARIANT LinearMatchesTrie
CHECK_DEADLOCK FALSE
