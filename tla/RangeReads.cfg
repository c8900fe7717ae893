\* Five bytes in chunks of two: the head, the tail, and the chunks between them
\* that reads and prefetches bring in and evict from a map of two.
CONSTANTS
    r1 = r1  r2 = r2  q1 = q1
    Size = 5
    ChunkSize = 2
    Probe = 1
    MaxChunks = 2
    Reads <- HeadAndSpan
    Reader = {r1, r2}
    Prefetcher = {q1}
SPECIFICATION FairSpec
INVARIANTS OneFetch WaitersServed FetchCovers MemoryBounded
PROPERTIES GrowthGrows FetchedStays ReadReturns
\* Nobody has to read after the release.
CHECK_DEADLOCK FALSE
