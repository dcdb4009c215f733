# A TLA+ verification of cachedb

cachedb is a Redis-protocol key-value server in C++: one thread, one epoll
loop, and under it a log-structured store with a write-ahead log, a memtable,
SSTables, expiry and size-tiered compaction. This directory holds TLA+ modules
translated from `src/src/`, TLC configurations that check them on small
instances, and theorems that TLAPS proves for every value of the constants.
`PROJECT.json` is the machine-readable index: the parts of the system, the
runs, the source lines each definition models, a mutation of the code that each
property catches, the hazards, the findings and the theorems.

Run a check with `tlc -config store_flush.cfg MCStore`, a proof with
`tlapm StoreProofs.tla`.

## The system and its parts

| Part | Source | State it owns | Modelled in |
|---|---|---|---|
| Event loop | `server.cpp` | connections, the batch, the shutdown flag, held replies | `Server` (sockets, group commit), `Store` (sweep, merge, `maybe_sync`) |
| Connection | `connection.cpp` | read and write buffers | `Resp` (input, by byte), `Server` (output, by reply) |
| RESP parser | `resp.cpp` | position in a half-read request | `Resp` |
| Commands | `command.cpp` | none; calls the store | `Command` |
| Store | `store.cpp` | memtable, vector of tables, next number | `Layers`, `Store`, `Tiering` |
| Write-ahead log | `wal.cpp` | descriptor, `size_`, `bytes_since_sync_`, policy | `Wal` |
| Memtable | `memtable.cpp` | entries, sweep cursor, live count, byte estimate | `Memtable`; as a plain map in `Store` |
| SSTable | `sstable.cpp` | index, filter, descriptor | `Sstable`; in `Store` as a map that is partial, whole or synced |
| Compaction | `compaction.cpp` | merge heap | `Sstable`; its result is `Merged` in `Layers` |
| Bloom filter | `bloom.cpp` | bits | `Bloom` |
| Startup | `main.cpp` | order of recovery | `Restart` in `Store` |

How they interact, in one iteration of `Server::run`:

1. every ready connection is read and its commands executed; a write goes to
   the log first and, if the log took it, to the memtable; a memtable over its
   limit is flushed there and then, in mid-batch; the reply is held;
2. one fsync of the log covers the batch, and the held replies are released;
3. a bounded slice of the memtable is swept for expired keys;
4. one run of tables may be merged;
5. `maybe_sync` runs and the loop starts again.

No two threads ever touch this state. What makes the code hard is everything
outside the process that happens between two of its system calls: a call
that fails, `kill -9`, a power cut, a client that goes away, and the clock.

### The crash model

* **Kill**: the process's memory is gone, the page cache is not. The next
  process sees every byte written and every name renamed or unlinked.
* **Power loss**: only what was fsynced is sure to be there. Each directory
  entry changed since the last `fsync_dir` is found old or new, independently
  of the others. A file not fsynced is found torn. The log is found with its
  synced records and any part of the later ones, the last perhaps torn, or as
  it was last synced (which differs if it has been cut since).

The model keeps both views: `dir` and `log` are what a process reads, `ddir`
and `dlog` what the disk is sure of.

## Modules

* **`Layers`**: entries, tombstones, expiry, the lookup through the memtable
  and the tables, what a merge writes (`Merged`), and what replaying a log
  gives (`Replayed`). Pure operators; no state.
* **`Wal`**: the log file and the `Wal` object. `dirty` is
  `bytes_since_sync_ > 0`, which is all `needs_sync()` looks at. `append` and
  `append_batch` have three outcomes: in the file (and synced, without group
  commit), short (`write_all` gave up partway), or in the file with the fsync
  failed. A record is whole or `Torn`; the byte encoding and its CRC are
  abstracted, and a torn record is always detected.
* **`Store`**: `store.cpp` driven by `Server::run`. `pc` says which system call
  the process is about to make: one action per call in `flush`
  (`FlushWrite` … `FlushLogSync`), in `maybe_compact` (`MergeWrite` …
  `MergeEmptySync`) and in `flush_all` (`WipeUnlink` … `WipeLogSync`). `job`
  holds the locals that survive from one call to the next: `best_begin` (`at`),
  `target`, `paths`, and whether an unlink of a FLUSHALL failed. Each fault in
  `Faults` adds the error path of the call it names.
  `hist`, `held` and `wiping` are history: the states a client may find after a
  crash (first what was acknowledged, last what is being served), whether
  replies are waiting, and whether a FLUSHALL has begun and not succeeded.
* **`Memtable`**: `memtable.cpp` with what `Store` leaves out: the resumable
  sweep, the live count, and the byte estimate that triggers a flush. `capacity`
  is history: the room each value's string holds on the heap.
* **`Tiering`**: the walk in `maybe_compact` that picks the run to merge, one
  action per loop step, over the sizes of the files. `Store` lets any run of
  enough tables be the one, so what it shows does not depend on the sizes.
* **`Bloom`**, **`Sstable`**: a table as a file. The writer's pass over sorted
  keys, the sparse index, the filter with its word-wide probe arithmetic, the
  lookup through them, and the merge through windowed cursors and a heap, with
  a read or a write failing at any point. Offsets and sizes are bytes.
* **`Resp`**: the resumable parser, one action per case of its switch, as
  `Connection::on_bytes` drives it over a stream cut into reads anywhere, and
  the replies that carry client bytes.
* **`Command`**: dispatch, arity, options, `parse_int64`, deadlines in machine
  arithmetic (`Wrap`) and the replies. A command that reads the clock more than
  once is more than one step, and the clock may advance in between. `ref` is
  history: what clients asked for, in unbounded arithmetic.
* **`Server`**: the sockets. `events` is what is left of a batch, `touched` the
  connections whose replies are held, `conns` the map from descriptors to
  connections; the client's side is what it sent, how much was read, what it
  received (`got`) and the room in its socket. `safe` is history: how many of
  its requests an fsync covers. Clients connect, pipeline, stop reading,
  half-close and reset between any two steps of the loop, and a descriptor
  closed in a batch may be handed out again in the same batch. The sync policy
  is `always`.
* **`KvStore`**: the abstract specification: a dictionary whose writes are
  visible at once and cannot be lost once their replies are released.
* **`StoreRefinement`**: `Store` implements `KvStore`. The dictionary is what a
  restart would read off the log and the directory; the values at risk are
  those some outcome of a power cut would leave.
* **`MCStore`, `MCResp`, `MCSstable`, `MCCommand`**: constants for the runs.
* **`Positions`, `StoreProofs`, `StoreReads`, `CrashInvariant`, `StoreCrash`,
  `ServerProofs`, `MemtableProofs`, `CommandProofs`**: theorems and the lemmas
  under them.

Definitions whose names describe a mistake (`FlushSyncSkipped`,
`MergedGoesFirst`, …) are mutations: variants of the definition that follows
them, used only to show that a property would notice.

## Runs

| Run | What may happen | What is shown |
|---|---|---|
| `store_flush` | sets, deletes of several keys, flushes, shutdowns, two keys; kill and power loss at every call; table write, rename, directory sync and ftruncate may fail | `TypeOK`; what is acknowledged survives (`CrashSafe`); every crash leaves a directory that opens (`AlwaysRestartable`); the log is cut only when the tables answer for it (`LogCutOnlyWhenRedundant`) |
| `store_compact` | merges of every contiguous run, FLUSHALL, no group commit; crashes outside the windows below | reads are right (`ServesLatest`); `CrashSafe`; between commands a power cut changes nothing (`DurableOnReturn`); `NamesInOrder`; a FLUSHALL that answered OK leaves no table (`FlushAllRemovesEverything`) |
| `store_faults` | every call may fail, in any combination; clean and failed shutdowns | `ServesLatest`; what a job worked out before a call holds after it (`LocalsStillHold`); no reply is held for ever (`HeldRepliesGoOut`) |
| `refine` | sets, flushes, merges; kill and power loss at every call; directory sync, unlink and ftruncate may fail | `ImplementsKvStore` |
| `memtable` | every order of sets, deletes, sweeps, clears, ticks | `LiveCountExact`; the estimate is at least half of what the values hold (`EstimateAtLeastHalf`); `EveryExpiredKeySwept` |
| `tiering` | every vector of sizes that flushes and merges produce | `EqualTablesGetMerged`, `WalkEnds` |
| `server` | two clients and two descriptors, requests that write and that break the protocol, a client that goes away, a signal | `AckAfterSync`, `RepliesInOrder`, `PendingIsArmed`, `EventsReachTheirOwner`, `ClosesPolitely`; and the three that take fairness: `EveryRequestAnswered`, `EveryClientAccepted`, `ShutdownStops` |
| `resp` | streams of up to two requests, well formed and malformed, cut into reads everywhere | what is executed is what was sent (`ReadsAsMeant`), replies split as meant (`RepliesFramed`), `LeftoverBounded`, `ParseReturns` |
| `sstable` | two or three tables looked up and merged, a read or write failing anywhere | `LookupExact`, `MergeExact`, `NothingSkipped`, `WindowCoversEntry` |
| `command` | any three commands, arguments at the edges of the integers, the clock moving between any two steps | `LivesAsAsked`, `ParseExact`, `AnswersAsAsked`, `RefusedChangesNothing` |
| `store_resurrect` | sets, deletes and merges, a kill anywhere | a violation of `DeletesSurviveKill`, below |
| `tiering_pairs` | up to four tables at the code's own trigger and ratio | a violation of `ChosenTablesAlike`, below |

`store_compact` leaves out crash points through the constants `KillAt` and
`PowerAt`: from the rename of a merged table to its last unlink, and from the
first unlink of a FLUSHALL to the directory sync after the last. These are the
windows of `store_resurrect` and of the first deviation below, so the run says
nothing of them. It also leaves out a kill between FLUSHALL's cut of the log and
the fsync after it: the next process serves an empty log that the disk does not
have yet, and a power cut then brings the old one back, which is not
`DurableOnReturn`. That FLUSHALL was never answered, so nothing acknowledged is
lost, and `CrashSafe` holds there too (`KillAt <- OutsideWindows`). `refine`
covers the merge's window for tables of values, where nothing is dropped.

### Where the code and its comments part

Two disagreements have runs of their own.

* **`store_resurrect`**: `maybe_compact` renames a merged table that dropped its
  tombstones over its newest input, then unlinks the older inputs
  (`store.cpp:385`). Killed in between, the next start reads an old value that
  nothing hides; the comment at `store.cpp:369-372` calls this moment harmless.
* **`tiering_pairs`**: the tier walk compares a candidate with the smallest size
  met so far (`store.cpp:333`), so sizes 2, 2, 4, 1, oldest first, form one run,
  where `store.cpp:74-75` says neither of two tables in a tier is more than
  twice the size of the other.

The others show when a constant or an input of a run is changed, as said with
each:

* `flush_all` unlinks newest first (`store.cpp:411`). Killed between two
  unlinks, a value that had been replaced is served again, which
  `store.h:240-242` calls worse than a FLUSHALL that did not happen.
  (`KillAt <- AllSteps` and `use_compaction = FALSE` in `store_compact.cfg`:
  `CrashSafe`, checked alone, fails.)
* A log write that fails partway leaves torn bytes (`wal.cpp:246`); later
  records are appended behind them, fsynced and acknowledged, and replay stops
  before them. (`"log_write"` in the `Faults` of `store_flush.cfg`: `CrashSafe`
  fails.)
* Nothing syncs the directory after `wal.log` is created (`wal.cpp:211`), so
  until the first flush a power cut may take the log whole.
  (`FreshDir = TRUE` in `store_flush.cfg`: `CrashSafe` fails.)
* `Wal::truncate` zeroes `bytes_since_sync_` before its fsync (`wal.cpp:276`).
  If the fsync fails, the iteration's replies are released with no fsync.
  (`"log_sync"` in the `Faults` of `store_flush.cfg`: `CrashSafe` fails.)
* A flush that fails after its rename leaves a table that `sstables_` does not
  list; a later FLUSHALL that succeeds does not remove it, where
  `store.cpp:424-425` says every such table is gone. (`"dir_sync"` in the
  `Faults` of `store_compact.cfg`: `FlushAllRemovesEverything`, checked alone,
  fails.)
* The group commit syncs whenever `needs_sync()` (`server.cpp:151`,
  `wal.h:220`), whatever the policy, so `no` and `everysec` lose no more than
  `always`; `wal.h:145` says of `no` "Never fsync explicitly".
  (`SyncPolicy = "no"` in `store_flush.cfg`: everything still holds.)
* A negative count is skipped like `*0` (`resp.cpp:110`), `*-1` included, where
  `resp.h:36-37` says the null forms `$-1` and `*-1` are rejected; `$-1` is. The
  requests of `MCResp` leave `*-1` out. (`Malformed(Count(<<"-", "1">>))` among
  them: `ReadsAsMeant` fails.)

Six were met while translating; no run states what the comments say there:

* Without group commit, an append whose fsync fails (`wal.cpp:230`) is refused
  with "was not applied" (`command.cpp:173`), is in the log all the same, and
  is applied by the next start (`AppendUnsynced` in `Wal`).
* The byte estimate can read low, which `memtable.cpp:70-74` calls "the one
  failure mode worth avoiding". A string that has to grow at least doubles its
  room, and `set` charges for the length only (`memtable.cpp:78-79`): a value
  of no bytes set to 16 and then to 40 has room for 60, 80 bytes of heap by the
  code's own reckoning, and is charged 64. `EstimateAtLeastHalf` says how far
  this can go. The growth is libstdc++'s.
* `parse_int64` refuses the least int64 (`command.cpp:94`), which it adds up
  without its sign, though `command.cpp:60` says it is strict in the same way
  Redis is. `ParseExact` states the refusal.
* TTL reads the clock after the lookup (`store.cpp:195`), so it can answer 0 for
  a key that was there, which `command.cpp:264-265` means to avoid.
  `AnswersAsAsked` allows it.
* A line longer than the limit is refused if it comes without its end and taken
  if it comes with it, so how the input is cut matters there, where
  `resp.h:41-42` says it never does. `ReadsAsMeant` is about lines within the
  limit.
* A block read by a lookup is the index interval and the entry that crosses it
  (`sstable.cpp:331` says bounded by the interval).

### Bounds

One key is enough for most questions about `Store`: keys meet only in a merge,
a multi-key delete and a log cut, which act on each key alike. `store_flush` has
two for the multi-key delete, interchangeable and declared so (`Symmetry`). Two
values, or one value with two stamps, tell an old entry from a new one; where
only presence matters there is one. `MaxSeq` 2 gives a table over another, 3
gives a merge that does and one that does not reach the oldest table with a
table left above it. `kCompactionTrigger` is 2 instead of 4: `Store` uses it only
as the least length of a run. `MaxLog` and `MaxHeld` of 2 allow two unsynced
records in one batch, so that a power cut can keep the first and lose the
second. `MaxNow` 1 with the stamps 0 and 2 lets an entry expire once, between
any two steps.

`Memtable` has three keys with a sweep budget of one, so the cursor stands
before, on and after the keys being changed, and lengths on both sides of the
small-string limit and far enough apart for a string to double its room past
what it is charged for. `Tiering` has up to five tables with sizes 0 (unreadable)
to 4, which gives runs at the trigger of 3, just below it, and tables left over
on either side. `Server` has as many clients as descriptors, so that a new one
waits for one to close and gets its number; a socket takes one reply at a time,
so that every reply is a partial write, and the output buffer is compacted at
two. `Resp` scales the limits down to 2 to 10 bytes, so that each is reached and
exceeded. `Sstable` has four keys, entries on both sides of the index interval
and of the cursor's window, a word of 256 in which probes wrap, 17 bits per key,
which makes filters of 64 bits (the least) and of 72 (which does not divide the
word), and two keys with the same probes, so that filters answer "maybe" for a
key that is not there. `Command` has a largest integer of 47, whose last digit
decides whether a number fits, and seconds of three milliseconds, with lifetimes
on both sides of the largest that fits.

The theorems have none of these bounds, except that the counters keep theirs
(`MaxSeq`, `MaxNow`, `MaxRequests`, …), with any value.

### Fairness

`FairSpec` of `Store` and of `Server` assumes weak fairness of `Loop`, the
steps of the one thread: `epoll_wait` has a timeout and every other call it
makes returns. `Server` also assumes that a connected client keeps reading
(`Drain`); a client that does not is owed nothing. Nothing is assumed of
faults, crashes, restarts, or of clients asking or leaving. `Memtable` assumes
that sweeps keep coming, as `Server::run` makes one per iteration, `Resp` and
`Tiering` that straight-line code takes its next step.

## Proofs

The assumptions (`LayersAssumption`, `WalAssumption`, `StoreAssumption`,
`CommandAssumption`, `CharsAssumption`, `RequestsAssumption` and the two
`NilAssumption`s) say that constants have their types, that `Nil` and `Torn`
are not values of anything else and, for `Command`, that the clock stays within
an int64 and that what is parsed is text. The runs evaluate them. TLC also
finds each inductive invariant to hold in every state of the runs of its module
(for `Store`: `store_flush`, `store_compact`, `store_faults`; the crash
invariant, which has a hypothesis, in `store_flush` and in `store_compact`
without `"flush_all"`, which satisfy it).

`Positions` has what all proofs share: that a bounded set of positions has a
least and a greatest element, and what `SubSeq`, `\o`, `Append` and `Tail` leave
at each position.

### The store

`StoreProofs` proves **`MergeChangesNoRead`**: for any vector of tables and any
contiguous run of it, putting the merge of the run in the run's place changes
what no key reads as, if dead entries are dropped only when the run reaches
the oldest table. The argument places the newest table holding the key before,
inside or after the run. In the second case, if the merge dropped the entry,
no older table is left to answer; that is where the condition is used. It is
proved through `InPlaceOfRun`, which asks of the table put in only that it
`StandsFor` the run at one key, so that it also serves while the clock moves
during a merge.

It also proves, for any keys, values, stamps, bounds, sync policy, faults and
crash points:

* **`TypeCorrect`**: `TypeOK` is an invariant;
* **`TablesStayInOrder`**: `NamesInOrder` is;
* **`JobsKeepTheirBearings`**: `LocalsStillHold` is;
* **`StartupNeverRefused`**: `AlwaysRestartable` is.

None of the first three is inductive alone. The type of `sstables` after a merge
needs the position and the name that `maybe_compact` remembered to be good
(`LocalsStillHold`); that these stay good, and that the merged table goes back
in order, needs the order of the names (`NamesInOrder`); and that order after
a restart needs the types. The inductive invariant is
`IInv == TypeOK /\ NamesInOrder /\ LocalsStillHold`. For the fourth,
`NamedFilesSynced` says that every file under a real name, in either view of the
directory, is fsynced, and that what is about to be renamed is; with `IInv` it
is inductive and gives `AlwaysRestartable`.

`StoreReads` proves **`ReadsServeLatest`**: `ServesLatest` is an invariant, with
every call free to fail and every crash allowed. (While a FLUSHALL has begun and
not succeeded a key may also read as absent.) On top of `IInv` it needs
`RInv == Serves /\ Flushing /\ Merging`:

* `Serves` is `ServesLatest` in every state, the ones between two calls
  included. While a merge has its inputs out of the vector and the merged table
  not yet in it (`maybe_compact` erases, unlinks, then inserts), it is the
  vector with the merged table in its place that serves. While the process is
  down it is what a restart would read that counts.
* `Flushing`: the file a flush has written holds the memtable, which is why
  emptying the memtable once the table is in the vector changes nothing.
* `Merging`: what a merge has written reads as its inputs do, also after the
  clock has moved on.

`MergeChangesNoRead` starts `Merging`, `SilentSkipped` and `InPlaceOfRun` carry
it through the erase and the insertion, and `OpenedReads` shows that tables
opened in the order of their names read as the directory does, for the
restart. What a crash may do to the log is not in this theorem: after one,
`hist` is what the log and the tables held. That they held enough is the
subject of the next section.

### Crashes

`StoreCrash`, with the invariant set up in `CrashInvariant`, proves for any
keys, values, stamps, sync policy, number of tables, batch and log lengths:

* **`CrashesLoseNothing`** (`CrashSafe`): wherever a kill comes, a restart reads
  what was being served; wherever a power cut comes, with any part of the
  unsynced log and any of the unsynced names lost, every key reads as in some
  state since the last released reply;
* **`ReturnedIsDurable`** (`DurableOnReturn`): without group commit, a power cut
  between two commands changes nothing;
* **`CutLogIsRedundant`** (`LogCutOnlyWhenRedundant`): an action property. When
  `flush` cuts the log, the tables on the disk answer for every key it held.

The code does not promise this everywhere, as the list of deviations above
shows, and the theorems have the hypothesis `Guarded`, which keeps clear of
them: no write or fsync of the log fails; the name of the log is on the disk;
with compaction on, no directory sync or unlink fails and no crash comes
between the rename of a merged table and its last unlink; and no FLUSHALL, of
which only the unlinks are at fault but which is left out whole. Table writes,
renames and ftruncates may fail at will, so may directory syncs without
compaction, and the crash points are otherwise any. `store_flush` is an instance
of it, and so is `store_compact` without its FLUSHALL, with which it checks
`CrashSafe` beyond the theorem.

The invariant `CInv` is added to `IInv` and `RInv`:

* `LogCovers`: the log says what the memtable says. An aborted flush can leave
  a table the vector does not list, under the name the next one will use; it
  speaks only for keys the log speaks for, so it hides nothing.
* `InDir`: the directory holds the tables of the vector, such an orphan, and
  the inputs a merge has yet to unlink, which lie outside what the vector holds.
* `Loose`: a name in the directory and its version on the disk say the same of
  every key the log is silent about. That is why any mix of old and new names
  will do after a power cut.
* `AtRisk`: whichever prefix of the log from `synced` on is found, and
  whichever mix of names, each key has a value of the history. This is
  `CrashSafe` for a power cut, said so that it survives the steps that only
  change one of log, names and history.
* `LogKept`: no torn record while the process runs; replies held and nothing to
  sync means that log and disk agree; the directory is synced before the log is
  cut.
* `NeverBehind`: with an fsync per append, the log on the disk answers as the
  history's last state does.

A step is of one of few kinds. `CalmCrash` covers those that change no record,
no name and no history. For an append (`MutateCrash`) the prefixes of `AtRisk`
and the history grow by the same command. `FlushRename` adds the memtable as a
table while the log still holds it. The cut is safe because by then
`ddir = dir` and the tables alone answer (`TablesAlone`). Inside a merge's
window, where no crash comes, the invariant speaks of the tables in memory with
the merged one put where it belongs; `WindowLeft` turns that back into a
statement about the directory once the last unlink is durable.

### The event loop

`ServerProofs` proves the five safety properties of `Server`, for any clients,
descriptors, requests, read sizes, socket rooms and compaction threshold: **`ServerAcksAfterSync`**, **`ServerRepliesInOrder`**,
**`ServerArmsPending`**, **`ServerEventsReachTheirOwner`** and
**`ServerClosesPolitely`** (and `ServerTypeCorrect`). One invariant carries all:

* `Counted`: what was read was sent, and in the release phase the log covers
  all that was read;
* `Owned`: an open descriptor is one client's, and that client's only one;
* `Matched`: the rest of the batch and the held replies name different
  descriptors, each once, and still the connections they were noted for. This
  is what descriptor reuse could break: `close` during a batch removes the
  connection from both lists or was itself the last to name it;
* `Armed`: only a connection still to be released may have the wrong interest;
* `Taken`: a client has received replies to its first requests only, and only
  to requests that are covered;
* `InStep`: what is queued continues what was received, and the two together
  are as many as the requests executed.

`BytesFollow` and the lemmas around `consume_output` say what each does to one
connection; each action then needs only the connections it touches.

### The memtable

`MemtableProofs` proves **`LiveCountIsExact`**: `live_count_` is the number of
live entries. The argument is by the change of one key, in `set`, `del` and at
each step of a sweep.

### The commands

`CommandProofs` proves, for an int64 of any width, any requests and any clock:

* **`CommandsLiveAsAsked`** (`LivesAsAsked`): the stamps, reckoned in machine
  arithmetic with the checks of `deadline_from`, make keys live as long as was
  asked for in the integers. `Kept` relates the two: equal, or both long past;
* **`RepliesAreRight`** (`AnswersAsAsked`), EXPIRE's included: for the commands that take several
  steps the invariant carries what has been counted so far (`Counting`,
  `Deleting`) or looked up (`Timing`) against the state the command began in,
  with the clock free to move between steps;
* **`RefusalsChangeNothing`** (`RefusedChangesNothing`), an action property.

### Only model-checked

* The liveness properties and the refinement's temporal part: fairness is out
  of the prover's reach.
* `ParseExact`, and what the parser of `Resp`, the writer and cursors of
  `Sstable` and the probes of `Bloom` compute: these are inductions over data,
  for which no installed prover can use the library's induction theorems.
  `EqualTablesGetMerged` is of this kind too.
* `EstimateAtLeastHalf`: a sum over all keys.
* `FlushAllRemovesEverything`, and `CrashSafe` with FLUSHALL in play: outside
  the hypothesis of the theorems on crashes. Not proved.
* The steps of the refinement: its mapping is what a restart would read, which
  inside a merge's window agrees with the dictionary only while nothing is
  dropped, as in the run.

## Not modelled

* Counters that are only reported: `swept_keys_`, `compactions_`,
  `flush_failed_`, `syncs_`.
* A failed read of a table in a lookup, which counts as absent
  (`sstable.cpp:334`), and an entry that claims to reach past the data, which a
  cursor takes for a clean end (`sstable.cpp:266`); no comment promises more.
* A clock that steps back: `now` only grows.
* What the kernel does with dirty pages after a failed fsync: a later fsync
  that succeeds is taken to have written everything. An ftruncate that
  succeeds with its fsync failing is modelled (`FlushLogSync`).
* Record encoding and CRC of the log: a damaged record is always noticed.
* In the event loop: a failing `EPOLL_CTL_MOD`, the cap of `kMaxEvents` on a
  batch, and exceptions. A client that half-closes is closed by the server, and
  replies queued for it are lost with it.
* `use_bloom = false`, which only reads more.
