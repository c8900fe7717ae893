# Formal models of neofs-mount

TLA+ models of the concurrent core of neofs-mount, checked with TLC on small
instances, and theorems about them checked with TLAPS for every value of the
constants. Paths are relative to the root of the repository. `PROJECT.json`
lists the runs, maps every definition to the source lines it stands for, and
lists the hazards of the code with the properties that watch them.

## 1. The system

neofs-mount shows NeoFS containers as directories and the objects in them as
files. On Linux it is a FUSE file system, on Windows a cloud sync provider, on
macOS a Go library behind a File Provider extension. All three share one
client of the NeoFS network and, on Linux and Windows, one cache of payloads.

| Component | State | Operations | Hard behaviour |
|---|---|---|---|
| Object cache (`internal/cache`) | map of entries, eviction list, byte count, `<key>.blob` and `.blob.tmp` on disk | `GetOrFetch`, `StoreFromPath`, eviction | the mutex is dropped for every file and network call; waiters; crash |
| Container listing (`internal/neofs/client.go`) | `scanCache`, `scanInflight` | `ListEntriesByHeadScan`, `InvalidateContainerScan` | single flight, invalidation during a scan, failed scans |
| Search (`client.go`) | memo of the strategy that worked | `searchAllObjectIDs` | four fallbacks that swallow errors; pages while the container changes |
| Directory filters (`client.go`, `tree.go`) | none | `ListEntriesByPrefix`, `listChildren`, `Lookup` | four functions that must show one tree |
| FUSE write path (`internal/fs/tree.go`) | the container itself, upload goroutines, kernel locks | `Create`, `Release`, `Unlink`, `Rename`, `Mkdir` | several remote calls per operation, any of which may fail; uploads in the background |
| Upload tracker and history (`internal/uploads`) | map of uploads in flight, list of finished ones | `Register`, `Finish`, `Append` | shared keys; a snapshot saved after the unlock |
| Ranged reads (`tree.go`, `rangeFileHandle`) | chunk map, waiters, use order | `Read`, prefetch, `Release` | single flight per chunk, growth of chunks, release during a fetch |
| Hedged calls (`client.go`) | one result channel | `readObjectRangeHedged` | two answers and a cancellation race |
| Sessions (`client.go`) | token per container and verb | `getOrCreateObjectSession` | check, create, store without a lock; epochs |
| Directory cache (`dircache.go`) | listing per directory with a TTL | `Get`, `Put`, `InvalidateContainer` | a `Put` of what was listed before the invalidation |
| Windows provider, changes (`mount_windows.go`, `upload_watch_windows.go`, `restore_placeholder_windows.go`) | per-path locks, dedupe map, recent deletes, timers | callbacks of the system and of a directory watcher | two sources of events for one change; deletions without locks |
| Windows provider, directories and reads (`mount_windows.go`) | placeholder waits, a cache with a mutex per directory | `FetchPlaceholders`, `FetchData`, `ValidateData`, cleanup | several callbacks for one directory, one provoked by another; spans of pages |
| Cloud Files binding (`internal/cfapi`) | session table | callbacks, transfers, acknowledgements | every callback must be answered, and once |
| macOS bridge (`macos/GoBridge`) and extension | one client | `Init`, `EnsureClient`, listing, fetch, delete | check-then-init |
| Mount lifecycle, CLI, tray | the active mount | mount, unmount, quit | shutdown while uploads run; shared variables in the tray |
| Container names, prefix deletion | none | pure | unique names |
| Configuration, audit log, top-up, Explorer integration, build tools | files, registry | I/O | none |

How they interact. `fileNode.Open` asks the cache for a payload and passes it a
download function; `rangeFileHandle` may use the same cache per chunk. Every
lookup by path goes through a head scan of the whole container, whose result is
kept for five minutes and dropped by `InvalidateContainerScan`, which each
operation calls after its last change. An upload finds the older objects at its
path in such a listing, puts its own, deletes the older ones, hands its spooled
file to `StoreFromPath`, and invalidates. The tracker and the history only
watch. The Windows provider repeats the upload with locks of its own.

What makes each of them correct:

- cache: one fetch per key at a time, a blob under its final name is whole, the
  cap holds between evictions, nobody waits for ever;
- listing: one scan at a time, followers share its answer or its error, a
  cached listing is the container's content while nobody changes it;
- write path: no sequence of failures, crashes or interleavings loses an object
  that the user did not remove; what an operation reports as done is done;
- ranged reads: one fetch per chunk, in bounded memory, and every read returns;
- search and directory filters: a search misses nothing that was there all the
  time; every front end shows one tree;
- directory cache: a listing shows what is there, except after the races it is
  known to lose;
- hedged calls: two calls keep the promise of one;
- Windows provider, changes: the container of a folder at rest mirrors it;
  uploads of one path exclude one another; a rename deletes its source last;
- Windows provider, directories and reads: a directory is filled once per
  transfer, every callback is answered, a read brings every byte asked for, and
  the cleanup spares what has an object;
- macOS bridge and extension: no operation fails because of another one;
- tray: every client and mount that is open can be reached and closed.

## 2. Modules

| Module | What it models | Lines of code it stands for |
|---|---|---|
| `Cache`, `MCCache` | `internal/cache/cache.go` and the part of `fileNode.Open` that uses it | cache.go 19-263, tree.go 1109-1193 |
| `CacheProofs` | theorems about `Cache` | |
| `HeadScan`, `MCHeadScan` | `ListEntriesByHeadScan` with its cache and single flight, for one container | client.go 374-463, 507-666 |
| `HeadScanProofs` | theorems about `HeadScan` | |
| `FuseWrites`, `MCFuseWrites` | the operations that change a container, over `HeadScan` | tree.go 447-716, 1872-2057; client.go 1141-1195 |
| `FuseProofs` | theorems about `FuseWrites` | |
| `RangeReader`, `MCRangeReader` | `rangeFileHandle`: `Read` and its prefetches | tree.go 1095-1106, 1218-1757 |
| `RangeProofs` | theorems about `RangeReader` | |
| `SearchMemo` | `searchAllObjectIDs`: four strategies, pages, the memo | client.go 44-52, 467-612 |
| `DirListing`, `MCDirListing` | the tree made of a flat listing, and the directory cache | client.go 60-185, 688-778, tree.go 505-520, 718-901, dircache.go |
| `ListingProofs` | theorems about `SearchMemo` and `DirListing` | |
| `RangeCall` | what a caller of `readObjectRange` is promised | client.go 802-856 |
| `HedgedRead` | `readObjectRangeHedged`, which implements `RangeCall` | client.go 879-931 |
| `HedgeProofs` | that it does, for safety | |
| `WindowsSync`, `MCWindowsSync` | changes of a Windows folder on their way to the container | mount_windows.go 867-1311, upload_watch_windows.go, restore_placeholder_windows.go, delete_neofs.go |
| `Placeholders` | `FetchPlaceholders`, its callbacks and the cleanup | mount_windows.go 229-630, cfapi.go 590-752, 1003-1046 |
| `WindowsProofs` | theorems about `WindowsSync` and `Placeholders` | |
| `Hydration` | `FetchData`, `ValidateData` and what answers them | mount_windows.go 654-865, 1313-1337, cfapi.go 860-1154 |
| `TrayMount` | mounting, unmounting and quitting from the tray, with what `Mount` acquires | cmd/neofs-mount-tray/main.go 42-219, internal/fs/mount.go, mount_windows.go 92-128 |
| `FileProvider` | the macOS extension and the client it shares | fp_export.go 54-351, FileProviderExtension.swift 71-337 |
| `LifecycleProofs` | theorems about `TrayMount`, `FileProvider` and `Hydration`, and about `HeadScan` as `MCParts` runs it | |
| `MCWrites` | `FuseWrites` or `WindowsSync`, for their safety | |
| `MCParts` | `HeadScan`, `Placeholders`, `DirListing`, `TrayMount`, `FileProvider`, `SearchMemo` or `Cache` under `KeepSpec`, for their safety | |
| `MCWaits` | `Cache`, `HeadScan`, `Placeholders`, `Hydration` or `HedgedRead`, for their liveness | |

### Cache

A goroutine's record `proc[p]` holds its place in `GetOrFetch`; a step is what
runs under the mutex between two unlocks, or one file-system or network call
outside it. `cached`, `entry`, `lru` and `curBytes` are the fields of `Cache`;
`tmp[k]` and `final[k]` are the two files a key can have, as the set of chunks
on disk plus the goroutines that still hold the file open, so that two fetchers
of one key share, truncate and rename one file as they do on a disk. `evictor`
is the goroutine inside `evictIfNeeded`, `spawned` the evictions started with
`go`. `Recheck` is the second look at an entry after the stat that runs without
the lock. `StoreRename` and `StoreInstall` are the two halves of
`StoreFromPath`. `Restart` keeps the files and nothing else. A payload is
`Size[k]` chunks; keys, names and errors are abstract.

### HeadScan

`call[p]` is the listing call of goroutine `p`: `lookup` decides under `scanMu`
between a hit, following the flight or leading one; a leader searches, fetches
one header per object in any order, and publishes in its deferred function; a
follower woken by the closed channel reads the cache again, or the error of the
flight. `store` is the container on the server. `Change` followed by
`InvalidateContainerScan` is any operation that changes the container.
`SearchFails` is the case in which every strategy fails, which the code reports
as an empty list. `Expire` is the age of the entry passing the TTL; the entry
stays in the map, as in the code, where followers still read it.

### FuseWrites

Extends `HeadScan` by who changes the container and how. Objects are numbers in
the order they are put; `path[o]` is the `FilePath` attribute, `origin[o]` the
object whose content it was put with (itself, except for the copies of a
rename). `op[p]` is an operation in progress: the objects it still has to
delete (`rest`) or copy (`from`), and what it put last (`new`). `nsLock` is the
kernel's lock of the directory, held over unlink, rename and mkdir, not over
uploads, which are goroutines. Each remote call is one action with a failing
twin, and a failing put may have stored its object. `Crash` ends the process.
The early returns of the code that skip the invalidation do so in the model.
`Mkdir` and `Create` are whole handlers; `Lookup` and `Readdir` are `Browse`.

### RangeReader

Offsets are small numbers, and the bytes of a chunk are its length: a chunk is
always the object's bytes from its start. `chunks` is the map, `older` the order
of `useSeq`, as the pairs of chunks of which the first was used before the
second. `proc[p]` is a kernel thread in `Read` or a goroutine in `runPrefetch`;
a step is a critical section of `h.mu`, or the end of a fetch. `Plan` is
`planFetch`; `Wait`, `Reuse` and `Claim` are the three ways through a round of
`ensureChunk`, which writes a fresh chunk over one that is too short; `FetchOk`
and `FetchErr` are `finishChunkFetch` with what its caller does next, eviction
and lookahead included; `Cancel` is the end of the context of a waiting caller.
`Release` forgets the map while prefetches go on and fill another. A fetch is
`loadChunk` with its retries and the shared cache: it returns the bytes it was
asked for, or an error. The kernel releases a handle when no read of it is in
progress. `Prefetcher` bounds how many prefetches run at once.

### SearchMemo

`search[p]` is a call: the strategy it asks by, whether that is the memo's, the
cursor, what has come. A page is one object; `Sees[s]` is what a deployment
lists by strategy `s`, which may be nothing, or less than there is. `PageFails`
drops what came before; `Answers`, `ForgetsMemo`, `TriesNext` and
`AnswersNothing` are the four ways on when a strategy has ended. The history
`kept` is what was in the container from the begin of the call on, and `failed`
the strategies that have failed in it.

### DirListing

Four functions make a directory of the flat listing. `BuildListingTrie` and
`ListImmediateChildren` are the trie of the Windows and macOS front ends,
`ListLinear` the pass that stands in for it where it is gone or shows nothing
(`listEntriesByPrefixLinear`), `ListChildren` the pass of the FUSE front end,
`LookupIn` its lookup of one name. Each of the three loops is a recursive
function of the number of entries it has seen. They are compared, in every order
of every set of objects, with `Tree` and `Children`, which say without any loop
what the paths make of a directory.

`scan` is the scan cache, `fresh` as long as its TTL has not passed: an old
listing stays in the map with its trie, as in the code. `PrefixHits` and the
actions after it are `ListEntriesByPrefix` between its locks: a fresh listing's
trie is read at once; else the goroutine scans, and looks for the trie under a
lock of its own, by when a change may have dropped it (`PrefixFindsNone`); then
it scans once more and lists the entries by the linear pass.

`dirCache` stands above `scan` as in the code. `ListScans` and `ListPuts` are the
two halves of `listChildren`; a change is followed by the two invalidations, in
the order of the upload or of unlink and rename. The history `raced` marks what
was listed from a scan that a change had overtaken, or that a change has
overtaken since.

Paths have no empty names: the trie skips them, the linear pass and FUSE do not.
Which of two objects of one path gives a name its ID and size (the first for the
trie, the last for FUSE) is left out.

### HedgedRead and RangeCall

`HedgedRead` has a goroutine per call, the buffered channel, the timer and the
loop of `select`. `RangeCall` says what the caller may rely on and knows one
thing about the calls: whether all were lost, one was won, or any is running.
`Promise` is the instance of `RangeCall` under that mapping.

### WindowsSync

The disk is one content per path, numbered by the user's operations. The user
saves, closes, removes, moves, or moves out of the folder; each operation comes
with what Windows and the watcher make of it: a goroutine started by a callback
of Cloud Files, a timer of the debouncer armed or cancelled, a removal that the
watcher will look at after 150 ms. `job[j]` is a goroutine: an upload, a
deletion, a rename (an upload of the destination, then a deletion at the source)
or a restore. `Locks`, `UploadSkipped`, `Opens`, `Puts` and `UploadReplace` are
`uploadClosedFile` between the lock and the unlock; what it puts may be what it
opened or what was saved over it since. A placeholder that `RestoreHead` brings
back is a file the watcher sees added: it arms a timer too. `DropListing` is
`InvalidateContainerScan`. `Restart` loses everything but the disk and the
container. Three histories serve the properties: `want[p]`, what the user left at
`p`; `doubt[p]`, which of the known exceptions have happened to it since they
were last cured by an upload (a second placeholder and a race are told apart,
the rest is one); and `job[j].changed`, whether the user has changed
the destination of a rename since it began. Folders, the conversion of files to
placeholders, and the second notification that Windows may send of one deletion
are left out.

### Placeholders

One directory, the root of the provider or one of a container's. `cb[c]` is a
callback: it finds the session, becomes the leader or a follower of its transfer
key (`LoadOrStore`), the leader takes the mutex of the directory, lists or reads
the cached listing, and transfers name by name; in every case it ends with an
answer to Windows. `Reenters` is a callback that Windows makes while it handles
a transfer, and until which that transfer is held up. `cleaners` are the running
calls of `cleanupStalePlaceholders`, with the listing they were given and the
history `since`, the names in it that have had an object all the time.

### Hydration

One read of a placeholder: any span, from the cached blob, the network, the disk
or nothing; `off` is the loop's position, `written` the bytes given to Windows.
`Floor`, `Ceil`, `PageEnd` and `Take` are the arithmetic of pages and chunks.
`file.has` is how much of the `file.size` bytes there really are: a blob may be
short, as `cache_truncated` shows. A validation has four ends: `Validate`
acknowledges the span; `ValidateNothing` is `AckRange` returning without a call
where the span is empty; `ValidateFails` is an error, of the provider or of
Windows, which goValidateData only logs; `ValidateGone` is the answer for a
session that is no longer there. The second and the third leave the callback
`unanswered`.

### TrayMount

`toggler[t]` is a goroutine in `toggleMount`, `cleaner[m]` the goroutine that
waits to unmount mount `m`; `activeMount` and `mountCancel` are the globals they
share without a lock. `clients` and `served` are what `Mount` has acquired and
`Unmount` and `Shutdown` have not released. A cleaner reads `mountContext` when
it first runs and unmounts what is active when it wakes, as in the code. The
histories `overlapped` and `busy` mark toggles that mount at once and mounts
that refused to be unmounted.

### FileProvider

`thread[t]` is an operation of the extension: it ensures a client in up to three
attempts, takes it under the lock and uses it outside; a failed fetch shuts the
client down and tries once more. `ConfigMissing` is the early return of
ensureClient, which goes on with whatever client there is. `closed` are the
clients that another thread has closed. The history `trouble` marks a cause for a failure outside the
extension, or two threads that connect at once.

### Instances of several components

`MCWrites`, `MCParts` and `MCWaits` extend several modules that share no state.
Which of them runs is chosen in the initial state and kept in `which`; the
variables of the others stay as they were. The state space is the sum, not the
product, of the components', and a property of one of them holds or fails in
the executions in which that one runs, as it would alone. `FreshWhenQuiet` is
`Fresh` of `HeadScan` in the executions that `QuietSpec` allows.

### Bounds

`MaxAttempts` (3 in the code), `MaxRestarts`, `MaxDrift` (how far `curBytes` may
drift before the model stops calling) in `Cache`; the finite set `Object` in
`HeadScan` and `FuseWrites`; `Prefetcher` in `RangeReader`; `MaxChange` in
`SearchMemo`; `MaxDirEdit` in `DirListing`; `MaxOp` (operations of the user),
`MaxPut` (objects put) and `Job` in `WindowsSync`; `MaxEdit`, `Callback` and
`Transfer` in `Placeholders`; `MaxSize` in `Hydration`; `MaxMount` in
`TrayMount`; `MaxClient` in `FileProvider`, where `MaxAttempt` is the code's 3.

## 3. Runs

| Run | Question | Instance |
|---|---|---|
| `cache_pressure` | eviction order, byte count and cap while fetches, stores and evictions interleave | 2 goroutines, 2 keys of 1 and 2 chunks, cap 2, one upload, 2 attempts, 1 restart |
| `cache_truncated` (violated) | the path `GetOrFetch` returns is the payload | as `cache_pressure`, 1 attempt, no restart |
| `cache_store` (violated) | `StoreFromPath` leaves the file in the cache | 2 goroutines, 1 key |
| `scan_empty` (violated) | no entry means an error | 3 goroutines, 2 objects, `QuietSpec` |
| `fuse_calm` | listings are current; unlink is complete; an upload replaces, also when its content repeats | 2 goroutines, 3 objects, `CalmSpec` |
| `fuse_unlink` (violated) | unlink deletes what has the path | 3 objects, no failures |
| `range_reads` | one fetch per chunk, waiters served, memory bounded, every read returns | 2 reads and 1 prefetch at a time, 5 bytes in chunks of 2, a map of 2, fairness |
| `writes` | FUSE: nothing is lost, the tracker drains. Windows: a folder at rest is mirrored, uploads exclude one another, a rename deletes its source last | 2 paths, 2 goroutines, failures; FUSE: 2 objects and a crash; Windows: 3 operations, 3 objects, 2 contents of one size, restarts |
| `windows_moves` (violated) | rapid moves of a file are mirrored | as `writes` for Windows |
| `listing_linear` (violated) | the linear pass shows what the trie would | a made directory's marker and a file in it, 2 goroutines |
| `parts` | one scan at a time and a fresh cached listing; a directory is filled once, its cleanup spares what has an object; the front ends agree, a listing by prefix has every name, the directory cache is current; nothing open is forgotten; failures have a cause; a search misses nothing; one fetcher per key, whole blobs, exact count in executions that drop no running fetch | scan: 3 goroutines, 2 objects; placeholders: 3 callbacks, 2 transfers, 1 name; directories: 3 paths with a file and a directory of one name, any of them there at first, 2 goroutines, 3 changes; tray: 2 toggles, 2 mounts; extension: 2 threads, 3 clients; search: 2 goroutines, 2 objects, 3 strategies of which one sees nothing and one half; cache: as `cache_pressure`, the count off by 2 at most (`MaxDrift`) |
| `waits` | who waits is woken: of the cache (with room: no orphan blob, no dropped fetch), the scan, the placeholders, a read of a placeholder, the hedged call, which implements `RangeCall` | cache: 3 goroutines, 1 key, 3 attempts, 1 restart; scan: 3 goroutines, 1 object; placeholders: 2 callbacks; reads: 5 bytes in pages and chunks of 2; fairness |

Why the bounds are enough to be interesting. In the cache two keys that do not
fit together force an eviction during every second fetch, and a third goroutine
adds a waiter besides a fetcher and a canceller. In the scan three goroutines
are a leader, a follower and somebody who changes the container. In the write
path, two uploads of one path and an unlink need three puts; a rename needs a
source, a destination and its copy. In the ranged reads a probe is half a chunk,
so that chunks grow; one read crosses chunks, the other starts the prefetch of
the tail, and a map of two is too small for what they touch. In `WindowsSync`
three operations are a move, a move back and another one, which is what it takes
for a deletion to meet an upload of its path, and two goroutines let a callback
and the watcher work on one path at once. Three callbacks over two transfer keys
are a leader, its follower and one for another key, or one that re-enters. The
three paths are a made directory's marker object and two objects below it, one of
which FUSE hides; a change, its invalidations and a second change fall between
the steps of a listing.
Two toggles overlap, and the second mount begins while the first is unmounted.
The theorems of section 4 do not depend on
these bounds. Deadlock checking is off where the system may really stop: the
callers of the cache may stop calling, the objects of `FuseWrites` and the operations
of `WindowsSync` are used up, nobody has to read after `Release`, a read of a
placeholder is one read, and the tray quits.

`cache_pressure` and `fuse_calm` have 2.5 million states each, `writes` 2.2
million and `parts` 790,000; they take one to three minutes each, `range_reads`,
whose temporal properties cost the time, about one and a half, and the others
less.

### Restricted specifications

Some properties hold only while something does not happen, and a violated run
shows what goes wrong when it does. Each restriction is a formula over steps:

- `KeepSpec` (`Cache`): no entry is dropped while its fetch runs. Fails under
  pressure (`cache_truncated`); holds by itself in a cache with room
  (`FetchesKept` in `waits`).
- `QuietSpec` (`HeadScan`): no change during a scan, and the search answers.
  Otherwise the leader publishes a listing that an invalidation has overtaken.
- `WorkSpec`, `CalmSpec` (`FuseWrites`): no failures; besides no change during a
  scan, and no listing dropped while a follower is about to read it. Under
  `CalmSpec` an upload may also repeat the content of an object it is about to
  replace and get its ID again (`UploadPutSame`). `NameIsFree` in `WorkSpec` is
  the kernel, which makes a directory only under a name that `Lookup` did not
  find.

Other properties name in themselves what they except, and these are known
defects or limits of the code, each of them a choice a reader of the code can
confirm in a few lines:

- `Mirrors` (`doubt`): a call failed, or the process ended, before a change was
  made: nothing is retried; two contents of one size within 900 ms are taken
  for one upload; a deletion overlapped the next upload of its path; the file
  was moved out of the folder or restored from a listing; the destination of a
  rename was gone again.
- `SourceLast`: of these, the duplicate and the overlap, and a destination the
  user has saved, moved or removed since (the history `changed` of the rename);
  never a failed put. The last exception is needed: with four operations and
  three goroutines, a rename is skipped as a duplicate, the user saves the
  destination, and the rename goes on to delete its source while that save has
  not been uploaded. The bounds of `writes` are below that; the attempt to prove
  the property without the exception found it.
- `DirsCurrent` (`raced`): a listing made before a change dropped the scan, or
  cached after a change it missed. It is served until it expires.
- `CleanupSpares`: when the container of a folder cannot be looked up, its
  listing is empty and not an error, and the cleanup then removes every
  placeholder (mount_windows.go:617).
- `FrontEndsAgree`, `PrefixAnswers`: the linear pass may show as a file what is a
  directory as well (`listing_linear`). `PrefixAnswers` excepts besides an answer
  from a scan that a change has overtaken.
- `HydrationCovers`, `HydrationEnds`: a cached blob shorter than its object. The
  read then reports success with too few bytes, or does not end
  (mount_windows.go:806).
- `HydrationEnds`: validations of changed files. Windows waits for an answer to
  these too, but three paths give none (cfapi.go:932, 941 and 1150), so a program
  that reads the file waits until Windows gives up. A completion that Windows
  refuses is only logged (cfapi.go:995), and counts as one here.
- `MountOwned`: toggles that mount at the same time, and mounts that were busy
  (`overlapped`, `busy`).
- `FailuresHaveCause`: two threads that connect at the same time (`trouble`).

### Fairness

`FairSpec` of `Cache` and of `HeadScan` assume weak fairness of the steps of a
goroutine that is already inside the component, and of eviction: the Go
scheduler runs it, file-system calls return, remote calls return with an answer
or an error (the client sets deadlines). Nobody has to call, to cancel, to
change a container or to crash, and no strong fairness is used: mutexes are
modelled by critical sections that are one step, so no step waits for another
goroutine except a follower for its leader, which is what the properties are
about. `RangeReader` assumes the same of reads and prefetches, and that a
prefetch that waits runs into its timeout of 30 seconds. `ReadReturns` is
conditional: a read returns unless chunks are dropped for ever. The condition is
needed, because `ensureChunk` and the copy are two critical sections, and other
reads may evict the chunk in between every time, or fetch it for the reader and
fail. `Placeholders` assumes that a callback inside the provider goes
on: network calls and `CfExecute` return, and a mutex that is free is taken by
somebody. The network may fail every time. `Hydration` assumes that reads and
transfers return, `HedgedRead` that both calls end (by an answer or their own
deadline) and that goroutines run; the timer need not fire and the caller need
not cancel. No component needs fairness of the user, of Windows calling, of
expiry or of a restart. `FuseWrites` and `WindowsSync` state no liveness: what
follows a failure in them is never retried.

### What the violated runs show

1. `cache_truncated`: eviction pops an entry whose fetch is
   running; the next caller fetches too, into the same temporary file, and the
   first to finish publishes whatever is in it.
2. `cache_store`: `StoreFromPath` removes the file it has just renamed into
   place when the key had an entry.
3. `scan_empty`: a follower may get an empty listing and no error.
4. `fuse_unlink`: a leader stores what it listed although the container was
   invalidated meanwhile; unlink then deletes an older object, reports success,
   and the path is still there.
5. `windows_moves`: a file is moved away and back within a moment.
   The deletion at the first path takes no lock of it, works from a listing
   made after the upload of the move back, and removes what that has just put.
6. `listing_linear`: a change drops the cached scan after `ListEntriesByPrefix` has
   scanned and before it reads the trie. The linear pass takes its place and
   keeps the kind that a name is first seen with: a directory that was made with
   a marker object of its name (tree.go:641) shows as a file, if the marker is
   listed first.

More behaviours follow from the models in a step or two, and no property is
spent on them: goroutines that wait for a fetch whose entry is evicted sleep
until their contexts end (`EvictPop`, cache.go:189), a search that fails is
cached as an empty container (`SearchFails`, client.go:602), two uploads of one
path share an entry of the tracker (`Untracked`, tree.go:1923), and the tray's
Quit ends the process 100 ms after it cancelled, whether or not the mount has
been cleaned up (`QuitEnds`, cmd/neofs-mount-tray/main.go:216).

## 4. Theorems

Every theorem holds for arbitrary constants that satisfy the named assumptions
(`CacheAssumption` and the like, in the module that declares the constants).
Each proof has the same shape: an inductive invariant, one lemma per group of
actions, and a temporal step by PTL.

**CacheProofs.** `TypeCorrect` (`TypeOK`); `EvictionOrder` (the list names the keys of
the map exactly once); `CapIsEnforced`; and under `KeepSpec` `FetchesSerialized`
(`SingleFetcher`) and `BlobsWhole` (`OnlyWholeBlobs`). The last two are not inductive: that a blob is whole needs
what each place in the code knows about its temporary file, so the invariant
says of every fetcher which chunks it has written and that nobody else has the
file open, which in turn needs that the key's entry is marked `fetching`
exactly while there is one.

The byte count: `CountCoversBlobs` (`NeverUndercounts`) and, under `KeepSpec`,
`CountExact` (`ExactAccounting`). `TrackedBytes` is the cardinality of the set of
all chunks the map names, so that a step that replaces one entry changes it by
the difference of two intervals (`CountUpdate`) and no sum over keys has to be
taken. That the count is exact needs besides that an entry
in the middle of its fetch, or of a failed one, names no blob (`Settled`).

A cache with room: assuming `Roomy` (all payloads together fit into `MaxBytes`
and no upload is stored), `RoomKeepsFetches` shows `FetchesKept` and with it
that `Spec` implies `KeepSpec`, so that the theorems about `KeepSpec` hold there
without it; `RoomNoOrphan` shows `NoOrphanBlob`. The invariant says of an entry
that can be hit that its file is there and as long as it says (`EntryTrue`), so
that no stat disappoints and nothing is ever removed.

**HeadScanProofs.** `ScanTypeCorrect`; `OneFlight`, inductive with the type
invariant; `ListingIsFresh` under `QuietSpec`, whose inductive invariant adds
`Listed`: what a leader in the middle of a scan has listed is the content, so
that publishing it makes a fresh entry.

**FuseProofs.** `FuseTypeCorrect`; `NothingLost`; `TrackerDrained`. The
invariant `FInv` says of every operation what it knows (`OpOK`): the objects an
upload is about to delete have its path and are older than what it has put, the
object a rename is about to drop is older than its copy and has its content;
and of every listing that it names only objects that were put. `ContentKept`
then follows from one observation, `KeptStep`: an object may leave the
container if a user removed it or a newer object stands for it, because objects
that are gone may themselves be what stood for others, and "newer" cannot go
round in circles. All actions of all operations go through one lemma,
`OpStep`. `FuseNext` assumes that every put of an upload stores another object.
The ID of an object is the hash of its header, so an upload that repeats the
content of its path may get the ID of an object that is there, which the code
provides for (`id == newID`, tree.go:2018). An upload whose listing is current
then behaves (`UploadReplaces` in `fuse_calm`); two at once could each delete the
other's object, and the hazards list says so.

Under `CalmSpec`: `ListingTrue` (`ListingCurrent`), `UnlinkDeletes`
(`UnlinkComplete`) and `UploadLeavesItsOwn` (`UploadReplaces`). One invariant,
`CalmInv`, serves the three. A cached listing that differs from the container
has an operation that is going to drop it, and what it lacks, that operation has
put itself (`StaleOK`); hence an operation that has read a listing has seen every
older object it must delete (`ReadOK`), and until its end what is left of these
is what it has still to delete (`PlansOK`), for an upload besides what it has put
itself, which may be one of these. It needs also that an object that is gone does
not come back (`GoneForGood`).

**RangeProofs.** `RangeTypeCorrect`; `FetchesCollapse`; `NobodyForgotten`;
`FetchesHoldPosition`; `RangeGrows`. The invariant `RInv` has a part that is
local to a goroutine (`LocalOK`: what a read has still to copy is not empty, and
the chunk it asks for or fetches holds it), a part about the chunks (only a
chunk that is being fetched has waiters, and they wait for it) and the two
properties that relate them, `OneFetch` and `WaitersServed`, each of which needs
the other: a fresh chunk may be written over an old one because nobody waits for
the old one. Steps that neither fetch nor wait share `QuietMove`; the two ends
of a fetch share `FetchEnds`. That a chunk only grows follows from the bounds of
`FetchLength` and `NextFetchEnd`, and they from the division of offsets into
windows.

`RangeBounded` (`MemoryBounded`): what counts are the loaded chunks (`Held`),
which grow only at the end of a fetch, where eviction follows in the same
critical section and takes enough of them. `RangeKeeps` (`FetchedStays`): the
fetched chunk is used last, so eviction takes every other that it may take first.

**HedgeProofs.** `HedgeTypeCorrect`; `HedgeImplementsCall`: the initial states
of `HedgedRead` map to those of `RangeCall`, and every step to a step or a
stutter. The invariant counts: what `pending` says is the number of calls that
have not been received, and bytes that were brought are in the channel, or about
to be, as long as the read has not returned. A read that gives up because
nothing is pending has then seen every call fail.

**ListingProofs.** `NothingMissed`. The invariant says of a search what it has
listed so far: of the objects that stay, all that lie before the cursor and that
the strategy sees; and of the strategies tried before in the same round, that
they had nothing to list or failed. What another search does to the memo cannot
disturb it, because a search reads the memo once.

`FrontEndsOne` (`FrontEndsAgree`). The pass of FUSE over n entries has found the
children of the first n objects (`ChildrenAdd` is one round), the trie of n
entries has the nodes and files that their paths make (`TrieAdd` is one
insertion), the linear pass has every name once and gives no other kind than the
path it saw first (`FoundAdd`); all three go through by induction over n. Listing
a node and looking up a name are then facts about prefixes (`TrieShows`,
`LookupShows`, `FoundShows`). The trie shows a directory whenever something is in
it, so that the linear pass behind it finds nothing more (`PrefixShows`). The
library's induction theorems take a predicate as a parameter, which the provers
cannot instantiate; `Induct` takes a set instead, and follows from the theorem
that finite sets are well-founded under inclusion.

`PrefixesAnswered` (`PrefixAnswers`): what a goroutine has listed is what
one of the ways makes of the container, in some order of its objects, or it has
raced (`Answered`, part of the invariant `DirInv` below); `PrefixShows` does the rest.

`DirectoriesCurrent` (`DirsCurrent`): what a goroutine is about to cache shows
the container, or has raced (`PutsCurrent`), and so does what is cached, or a
change is about to drop it (`CacheCurrent`). `ScansCurrent` says what the
exception `raced` is worth: a cached scan that lacks a change is about to be
dropped by that change.

**LifecycleProofs.** `NothingForgotten`: as long as no two toggles have mounted
at the same time, a toggle that mounts finds nothing active and is alone
(`TogglesApart`), and the goroutine that unmounts works on the active mount, of
which it has closed all when it forgets it (`CleanersApart`).
`NoHomemadeFailures`: without trouble, whoever is about to use the client has
the client of the process, and that is open (`Calm`); only trouble makes a
thread shut it down. `HydrationComplete` (`HydrationCovers`): while the loop
runs, its position is at a page or at the end of the file, and all bytes before
it have been given to Windows (`LoopOK`); the arithmetic is that a multiple of
the page cut at the end of the file leaves no byte out. `QuietListing`
(`FreshWhenQuiet`) carries `ListingIsFresh` over to `MCParts`.

**WindowsProofs.** `OneCallbackFills`: the record of a transfer names the
callback that leads, and is closed when that has left, so that nobody else can
lead (`CallbackOK`). `UploadsAlone`: who is between its listing and the end of
its deletions holds its path's lock, also across a restart (`JobOK`).
`CleanupKeeps` (`CleanupSpares`): a cleanup knows of every name in `since` that
it is in the listing it was given (`CleanerKnows`).

`ContainerMirrors` (`Mirrors`): the invariant `MirrorInv` says of every path
without an exception that the disk has what the user left there (`SameOK`). If
that is a content, an upload of the path is still to begin, or whoever is about
to put something there has opened just this content, and there is such a
goroutine, or the newest object has it and no upload takes that for an old one
(`WantedOK`). If it is nothing, no upload of the path is under way, and whatever
objects are left there, a goroutine will delete them all (`UnwantedOK`). It rests
on what a cached listing may lack (`ListOK`: an object whose upload has still to
drop the listing) and on what a goroutine has found (`FoundOK`). Steps that leave
a path alone go through `PathUntouched`.

`RenameKeepsContent` (`SourceLast`): a rename whose destination the user has
left alone has, from its upload on, somebody to vouch for that destination
(`Vouched`): an object put since the rename began, or the content on the disk;
and an upload that runs there spares an object put since (`RenameOK`).

`TypeCorrect`, `ScanTypeCorrect`, `FuseTypeCorrect`, `RangeTypeCorrect`,
`HedgeTypeCorrect`, `ListingIsFresh` and `ScansCurrent` state invariants that no run lists by name:
a run spends its properties on what says more about the system.

Every safety property of the passing runs is stated by a theorem, those of the
cache in `parts` by theorems of `CacheProofs` about `KeepSpec`. Only model-checked:

- `WaitersWake`, `ReadReturns`, `ListReturns`, `TransfersAnswered`,
  `HydrationEnds`, `HedgeGoroutinesEnd`, and that `HedgedRead` implements the
  liveness of `RangeCall` (`HedgeKeepsPromise`): liveness under fairness, which
  needs ENABLED;
- what the violated runs show, which is false.

## 5. Plan

What would come next, in this order.

1. The spooled file of a FUSE write: `Open` for writing, `Write`, `Truncate` and
   `Flush` (tree.go 1034-1071, 1760-1900), between `Cache` and `FuseWrites`.
2. Folders in `WindowsSync`: their deletion and rename, and the deletion of
   everything below a prefix.
3. `AtomicFile`: what a path promises to a user (the last finished upload or
   nothing); `FuseWrites` under `CalmSpec` shown to implement it.
4. Proofs of the step from safety to progress: for each liveness property, that
   no state of the component blocks the goroutine it is about, stated as an
   invariant (a follower has a leader, a waiter a fetch, a read a call that has
   not ended), so that only the fairness is left to TLC.

## 6. Not modelled

- Bytes, attributes, offsets outside `RangeReader` and `Hydration`, MIME types,
  logging, audit records, progress counters: no property depends on them.
- The NeoFS network beyond "a call succeeds, fails, or fails after taking
  effect": replication and eventual consistency between storage nodes are
  outside the repository. A read that follows a write sees it in the models.
- Sessions (client.go 1197-1259): two callers that miss may both create a token;
  both tokens are good, and what a storage node says of one is the network's.
- `readObjectRangeMultipart` and `splitObjectRange` (client.go): nobody calls
  them.
- The upload history saves a snapshot after the unlock (history.go:63), so that
  an older one may be saved last: a list for display, of a few entries.
- Two uploads of equal content to one path at once, which may each delete the
  other's object: `FuseNext` gives every put an object of its own.
- The spooled file of a write, until the plan's first item is done; its bytes
  are removed when the upload ends, also when it failed.
- Inodes and the kernel's caches of them; unique names for containers.
- Configuration, the tray's windows, Explorer and Finder menus, build tools:
  I/O and user interface.

`PROJECT.json` says for each component how much is covered.
