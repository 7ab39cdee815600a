# A TLA+ model of caidj

caidj ("concurrency-aware in-memory join") measures an equi-join of two relations while other threads write to the
index of one of them. Version 2 (`src/v2`) compares four index protocols; version 1 (`src/include`, `src/src`) is
the header-only program it grew out of: an adaptive radix tree and a Bw-tree over a hand-written epoch reclamation.
This directory models the protocols of both versions in TLA+, checks them with TLC and proves their safety with
TLAPS.

The quoted documentation is `src/v2/README.md`; line numbers refer to the files under `src/`.

## 1. Inventory

### Version 2: the parts, their state, their operations

| Component | State | Operations | Called by |
|---|---|---|---|
| `Benchmark::run_single` | locals only | make index, `bulk_load`, `start`, `execute`, `stop`, collect | `main` |
| `TransactionManager` | `started_`, `stop_flag_`, threads, two counters | `start`, `stop`, `writer_thread` | `Benchmark` |
| `JoinExecutor` | `relation_s_`, one `LocalStats` for each worker | `execute` | `Benchmark` |
| `DataGen` | random generators behind a mutex | `generate_R`, `generate_S`, `generate_write_op` | `Benchmark`, writers |
| `NHJIndex` | hash table, `rw_mutex_`, counters | `bulk_load`, `probe`, `insert`, `remove`, `get_stats` | all threads |
| `ECHIIndex` | published map, delta buffer, `epoch_`, `active_readers_`, two mutexes, a condition variable, a timer thread | the same, epoch transition, timer, destructor | all threads |
| `MPIMVCCIndex` | version chains, clock, key mutexes, registered reads, a collector thread | the same, `probe_at`, `gc_loop`, `force_gc_once`, destructor | all threads |
| `BFCSIIndex` | ordered list, sharded Bloom filters, false-positive cache, counters | the same, `force_rebuild` | all threads |
| `ThreadPool` | queue, mutex, condition variable | constructor, `submit`, destructor | nobody |
| `Config`, `MetricsCollector`, `Logger`, `ZipfSampler` | configuration, output, samples | parsing, printing, sampling | everybody |

A trial is: one thread loads R into the index; `start` spawns the writers, which insert and remove random tuples
until they are stopped or their duration is over; `execute` spawns the workers, each of which probes its share of
S; when all of S has been probed the writers are stopped and joined, and the index is destroyed. Everything that
makes this hard happens between `start` and `stop`, when probers, writers and the index's own thread meet in the
index without a common lock:

- **ECHI** Probes read an immutable map through an atomic `shared_ptr` and count themselves in
  `active_readers_`. Writes are buffered. A transition (by the writer whose write fills the buffer, by the timer, or
  by the destructor) takes `transition_mutex_`, waits on a condition variable until no probe is active, takes the
  buffer, applies it to a copy of the map and publishes the copy. Correct means: nothing accepted is lost, doubled
  or reordered; a probe reads one whole state; transitions exclude each other; the buffer stays bounded; the
  destructor leaves nothing behind; every write is published in the end.
- **MPI-MVCC** A write takes a stamp, locks its key, copies the newest version, expires it and puts its own in
  front, in separate critical sections. A probe takes a timestamp, registers it, walks the chain and unregisters.
  The collector reads the smallest registered timestamp and then prunes. Correct means: no update is lost, one
  live version for each key, a probe reads the state at its timestamp, and the collector takes nothing a probe needs.
- **BF-CSI** A probe asks a filter, a cache of known false positives, and the list. An insert tells the filter first,
  then the list, then clears the cache. A remove that empties a key may rebuild all filters. Correct means: neither
  filter nor cache hides a key that is in the list, and rebuilds exclude each other.
- **NHJ and the trial around it** Correct means: reads and writes exclude each other, every tuple of S is probed
  once, the counts agree, no thread outlives the index, and the trial ends.

### Version 1

| Component | State | Operations | Called by |
|---|---|---|---|
| `EpochReclamation` | `global_epoch_`, `active_readers_`; for each thread an epoch and a list of retired objects | `beginRead`, `endRead`, `retire`, `tryReclaim`, `tryAdvanceEpoch`, `EpochGuard` | both indexes |
| `ARTIndex` | `root_`, nodes with a version that holds a lock bit, slots, `size_` | `insert`, `upsert`, `find`, `size`, `clear` | benchmarks, join |
| `BwTree` | `root_`, `mapping_table_`, the delta chain of the root page, `size_` | the same | a benchmark that is disabled |
| `SkewAwareJoinExecutor` | partitions of both relations, `hot_keys_`, statistics | `generateDataset`, `partitionRelations`, `sampleAndDetectHotKeys`, `buildIndex`, `executeSkewAwareJoin`, `reset` | benchmark |
| `BaselineLockedIndex` | a hash table behind a reader-writer lock | `insert`, `find` | benchmark |
| `BaselineNaiveJoin` | none | `buildIndex` and three joins over a locked index | nobody; the benchmark only includes its header |
| `BenchmarkRunner`, `main` | configuration, `results_` | command line, one method for each benchmark, the table | |

The program runs the benchmarks that its arguments select one after the other, or the scalability test. Only the
skew-aware join and the scalability test start threads; the indexes, however, are written for many threads ("lock-free"
in the documentation), and as such they are modelled. What is hard here:

- **Epoch reclamation** A list is deleted when no reader is registered; the test, the advance of the epoch and the
  deletion are separate steps, and a reader may come in between. Correct means the grace period: nothing is deleted
  under a read section that was open when it was retired.
- **Radix tree** An insert swaps the value of a slot, or locks the node through its version and puts a new slot in
  while finds read; `find` loads the root before its read section, `insert` has none. Correct means that nothing in use
  is retired, nothing is retired twice, a key byte is in one slot, `size_` is right, and operations end.
- **Bw-tree** Writes prepend deltas with a compare-and-swap; a consolidation reads the chain while others prepend and
  retires the root page, which stays in use. Correct means that it is a linearizable dictionary and the page is not
  deleted.
- **Join and benchmark** Threads take partitions in turn; state is left from iteration to iteration unless it is reset.
  Correct means that each matching pair is joined, and once, whatever the number of threads, and that a row of the
  table tells what was measured.

## 2. Modules

| Module | What it is |
|---|---|
| `TidIndex` | what an index holds and what one write does to it: a bag of tuple ids for each key; what a history of writes makes of R, and of nothing |
| `StaleIndex` | abstract: a log of writes of which every probe sees a growing prefix, on top of R, which may be lost only before the first write shows |
| `ECHI` | the epoch-based index, with timer and destructor; implements `StaleIndex` |
| `ECHI_proofs` | theorems about `ECHI` |
| `MVCC` | the multi-version index, with its collector |
| `MVCC_proofs` | theorems about `MVCC` |
| `BFCSI` | the filter-augmented index, with its rebuild |
| `BFCSI_proofs` | theorems about `BFCSI` |
| `NHJ` | the steps of the lock-based index |
| `Trial` | `run_single` with `TransactionManager`, `JoinExecutor` and an `NHJ` index; composes `NHJ` |
| `Trial_proofs` | theorems about `Trial` |
| `Reclamation` | `EpochReclamation`, to be extended by its clients; `RSpec` is the most general client that retires an object once |
| `Reclamation_proofs` | the grace period |
| `ART` | the radix tree; composes `Reclamation`, and implements `RSpec` |
| `ART_proofs` | theorems about `ART` |
| `Dictionary` | abstract: a dictionary in which each call takes effect at one instant |
| `BwTree` | the Bw-tree; composes `Reclamation`, and implements `Dictionary` |
| `BwTree_proofs` | theorems about `BwTree` |
| `BaselineJoin` | the locked index and the baseline joins, as operators |
| `SkewJoin` | the executor of the skew-aware join; its index is an `ARTIndex` at rest, which has one slot for the keys of a dataset |
| `BenchV1` | `main` and `BenchmarkRunner`; composes `SkewJoin` |
| `BenchV1_proofs` | theorems about `BenchV1` and the joins |
| `MCECHI`, `MCMVCC`, `MCBFCSI`, `MCTrial`, `MCART`, `MCBwTree`, `MCBenchV1` | values of the constants for TLC |

`ECHI`, `MVCC` and `BFCSI` have callers of their own: probers with a finite share of S, as `JoinExecutor` gives
them, and writers that issue any write at any time, as random operations do. What they assume of their callers
(nobody calls before `bulk_load` has returned, the callers are joined before the destructor runs) is what `Trial`
shows of `run_single`.

**Grain.** An action is what no other thread can divide: one access to an atomic, one critical section, one step of
a condition variable. A lock that is held while other threads can notice it is a variable; a lock whose critical
section is one action is not. So `chains_rw_` of MPI-MVCC is not a lock of the model, and a wait for it inside another lock
could not be seen; in the code no thread waits for anything while it holds it. The statistics counters of ECHI, MVCC and BF-CSI are left out, because no decision
reads them; those of NHJ and of the trial are in, because properties are about them. Version 1 reads and writes some
plain fields that other threads use (`keys` and `size` of a node, the mapping table); each access to them is an action as
well, which is what the machines this is built for make of an aligned byte or pointer. A partition is one step of a
thread of the skew-aware join, since threads write nothing that others read.

### How the state corresponds to the code

`ECHI`: `map` is `*current_map_`, `delta` is `delta_buffer_`, `active` is `active_readers_`, `mtx` is the owner of
`transition_mutex_`, `local[t]` and `next[t]` are the locals of a transition in thread `t`. `wait` is four steps:
test the predicate with the mutex held (`TestReaders`), release the mutex and block (`Block`), be woken by
`ProbeNotify` or for no reason (`SpuriousWake`), take the mutex again (`Lock`). `notify_all` reaches the threads that
are blocked at that moment and no others. `delta_mutex_` only guards single steps. The timer runs from the constructor
on, also while `bulk_load` stores R. History variables (`log`, `visible`, `reach`, `mine`) record the accepted writes and
where map, transitions and writers stand in them; `origin` and `made` record whether the published map and a private copy
have grown from R or from the empty map, and the log keeps the contents on top of both.

`MVCC`: a chain is a set of versions with their places; a walk is one action because it runs under the shared
`chains_rw_` and reads the one field that can change under it once. `keyLock` spans the actions of a write.
`min_active_read_ts_` is `SafeTs(active)`, since it is changed in the critical section that changes the multiset. A
timestamp that a caller of `probe_at` brings along is the delay between `TakeSnapshot` and `Register`. `log` is history.

`BFCSI`: a filter is the set of its bits, `Hash` gives the bits of a key. The counters and the flag are atomics, and
every access to them is an action. `overlapped`, `late` and `sure` are history: keys whose insert overlapped a
rebuild, keys that were put into the cache although they were live, probes whose key was live throughout.

`Trial`: `writer` and `worker` are the threads' program counters with their locals. `mix` stands for
`insert_fraction`: 1, 0 or something in between. `hits` is history.

`Reclamation`: `active_readers_` is the sum of `depth`, which splits it by thread (read sections nest). `retired[t]`
is the thread-local list, `rpc[t]` and `seen[t]` are the place and the local of a call under way. `open[t]` is
history: what anybody has retired since the read section of `t` began. A client calls `Begin`, `End` or `Retire` in
one of its own actions and goes on when `Idle(t)` holds again.

`ART`: a node is a record of its type, the lock bit, the rest of the version, and its slots; a KeyValue is a number into
`kvs`. `keys` and `vals` may be longer than `size`, as a slot is written before it is counted. `op[t]` holds the locals of
the operation of `t`, `pc[t]` its place. `lost`, `missed` and `mixed` are history. Nodes of the larger types are
modelled, although in this code they never come to be, since a node with two slots stays locked (`TwoSlots`).

`BwTree`: `chain` is the delta chain of the root page, a pointer to a delta being its index; `mapped` is the
consolidated page. Only the chain is ever read. `BenchV1`: the relations are sequences, a join result is a bag of
pairs of positions (`Vector` is what a loop that pushes results leaves behind, `NumResults` its size), `args` is the
rest of the command line. The loops over a relation whose order matters (`LockedIndex`, `ArtIndex`, `Positions`) are
recursive functions of the number of tuples done.

## 3. Runs

| Run | Result | What it asks |
|---|---|---|
| `echi_core` | pass | safety of ECHI, refinement of `StaleIndex`; probes return, and writes are published unless a transition is left asleep |
| `echi_lost_wakeup` | violation | is every accepted write published? |
| `echi_lost_relation` | violation | do the probes find R, once `bulk_load` has returned? |
| `mvcc_core` | pass | safety of MPI-MVCC; writes complete and chains shrink again |
| `bfcsi_core` | pass | who can hide a live key; when is a miss justified; rebuilds |
| `bfcsi_hidden_key` | violation | does the filter admit every key of the list? |
| `trial_nhj` | pass | a whole trial on an NHJ index |
| `art_core` | pass | safety of the radix tree over the epoch reclamation |
| `art_stall` | violation | does every operation of the radix tree end? |
| `bwtree_core` | pass | is the Bw-tree a linearizable dictionary that keeps its root page? |
| `bench_v1` | pass | the version 1 program: what its threads join, what the table says, what the baseline joins find |
| `bench_lost_pairs` | violation | does the skew-aware join find every matching pair? |

### What the passing runs show

- ECHI: `TransitionExclusive` is what the mutex is for. `NoWriteLost` says that at every moment what is not published
  is what the open transition took and has not applied, followed by the buffer. `MapIsPrefix` says that the map is the
  result of a prefix of the accepted writes, on top of whatever the published copy was made from: R, or nothing if
  `bulk_load` was overtaken. `DeltaBound` gives the real bound of the buffer: the threshold is exceeded by at most one
  write for each writer that is itself on the way to a transition. (The documented bound, `delta_threshold` alone,
  does not hold.) `TriggeringWriteVisible`: a write that filled the buffer is published when it returns, also if
  somebody else's transition took it. `DestructorDrains`. `ImplementsStaleIndex`: seen from outside the index is
  `StaleIndex`; that R can be lost is part of it, and that nothing else is lost with it, and that R is safe from the
  first visible write on. `ProbesReturn`. `PublishedOrOverslept`: time and again everything accepted is published,
  unless some transition sleeps from some moment on for ever; a transition that sleeps and is woken later is no
  excuse.
- MPI-MVCC: `NoLostUpdate` (copying and installing are separate, and no update falls between), `OneLiveVersion`,
  `InOrderSnapshotRead` (snapshot isolation as long as the writes of a key install in the order of their stamps; the
  code takes the stamp before the key's mutex, so they need not), `CoveredProbesKeepAnswer` (the collector takes
  nothing from probes it saw; of a probe that has its timestamp and is not registered yet it says nothing),
  `QuietProbeExact` (without a write of its key under way a probe is exact, registered or not), `WritesComplete` (every
  writer comes back from its write), `ChainsShrink` (each chain is again and again down to one version, until the
  collector is stopped).
- BF-CSI: `FilterHidesOverlapped` and `CacheHidesLate` say that two races (an insert that overlaps a rebuild, a cache
  that is filled with a miss which an insert has made wrong since) are the only ways to hide a live
  key, `MissJustified` that a probe whose key was live throughout misses it in no other way, `RebuildsExclude` that the
  flag is set exactly while somebody rebuilds.
- Trial: `TuplesProbedOnce` (the shares cover S, also when it does not divide evenly), `CountsAgree`,
  `IndexOutlivesThreads`, `JoinBetween` (with inserts only the size of the join lies between the one
  with R as loaded and the one with the final contents; with deletes only, the reverse), `TrialEnds`.
- Radix tree: `GracePeriod` is what the reclamation promises, `RSpec` what it asks of its client: each object is
  retired once. `NodesInUseLive`: `find` loads the root before it registers, and `insert` does not register, but no
  node is retired that was ever the root. `OnlyLosersDangle`: one race does leave retired values in reach; an insert
  that loses the race for the first root retires its KeyValue and goes on with it (`concurrent_index.hpp:302-306`),
  and no other way does. `DuplicateAfterMiss`: a byte gets into two slots only after a failed swap, not by two inserts
  of a new byte, which the comparison of the version keeps apart. `SizeCountsSlots`: `size_` counts slots (two keys
  with one top byte count once), and only `clear()` can disturb it.
- Bw-tree: `IsDictionary`. `RootNeverFreed`: the root page is put into the lists again and again while it is in use
  (`bw_tree.hpp:251`), and is safe only because each thread retires it inside its own read section and so finds a
  reader. This holds of the Bw-tree as the only client of the reclamation, which it is here; a client that retires
  outside any read section, as `ARTIndex::insert` does, would delete the page with the rest of the thread's list.
  `PageFromChain`: the mapped page is made of deltas that are still in the chain, each once, although building it and
  mapping it are separate steps and others push and consolidate in between. (Nobody reads the page: see the list of
  observations.)
- Version 1 program: `JoinedOnce`: the threads, which share the partitions by stride, find each pair of a hot key once,
  and a tuple of the key that the index still has once for each match; no result is there too often or mixes keys. What
  they can find is less than the join: `bench_lost_pairs`. `ReportTrue`: nothing is left from one iteration to the next.
  `BaselineJoinsAgree`: any number of threads finds what one finds, in code that nothing calls yet.

### What the violations show

- `echi_lost_wakeup`. `probe` decrements the count and calls `notify_all` without the mutex, so both can fall between
  the predicate test and the blocking of a transition. If no probe follows, the transition sleeps for ever, and with it
  the timer and then the destructor. The documentation promises bounded staleness (566).
- `echi_lost_relation`. The timer starts in the constructor (`echi_index.cpp:17`), and `bulk_load` stores the map of R
  without `transition_mutex_` (75). A transition that copied the empty map before the store and publishes its copy
  afterwards throws R away, for the whole trial. It takes a load that is longer than an interval: `high_concurrency.toml`
  has 250000 tuples and 50 ms. The documentation calls `bulk_load` the "single-threaded initial population of the index"
  (2018). It takes no writer at all. The
  tests turn the timer off (`test_all.cpp:96`) and cannot show it.
- `bfcsi_hidden_key`. A rebuild takes its snapshot before it locks the shards; the bits of a key inserted in between are
  wiped, and the key is invisible until the next rebuild or insert.
- `art_stall`. The lock bit of a version is never taken off: `incrementVersion` keeps it and `unlockVersion` is not
  called. The first insert that adds a slot locks the node for good, and the next insert of any byte spins. With all
  keys in one byte this takes a failed swap, with two bytes no race at all; it is one way for the scalability test to
  stall "after initial thread", as `src/ref-docs/PROGRESS_REPORT.md:175` reports.
- `bench_lost_pairs`. All build tuples are inserted into the index, but the keys of a dataset share their first byte
  and an insert replaces the key that has the slot (`concurrent_index.hpp:325-334`): in the end the index has one key.
  Every other key that is not hot gets no answer, and its pairs are lost; and keys are hot in partition 0 at most, as
  no other partition is sampled (`skew_aware_join.hpp:245`). The design has them looked up in the global index
  (`src/ref-docs/SYSTEM_DESIGN.md:180`).

### Observed while modelling, without a run of their own

- MPI-MVCC expires the newest version before its successor is in the chain, so a probe in between finds none; and a
  probe takes its timestamp before it registers, so the collector can unlink what it is about to read. The properties
  of `mvcc_core` say when neither happens: `QuietProbeExact` where no write of the key is under way,
  `CoveredProbesKeepAnswer` once the probe is registered.
- BF-CSI fills its cache of false positives late: a probe that missed puts its key into the cache although an insert has
  made the key live since, and later probes do not find it until the slot is taken or cleared. This contradicts the
  documentation ("worst case: miss a cache hit", 851). `CacheHidesLate` and `MissJustified` say that nothing else
  goes wrong with the cache.
- The consolidated page of the Bw-tree has the older of two entries of a key first, so a search of it would give the
  oldest value; `find` walks the deltas and never reads it. Nor is the chain reset, as `SYSTEM_DESIGN.md:111` has it.
  An insert of a key that is there succeeds, where `bw_tree.hpp:324-326` would have it answer EXISTS.
- The table of version 1 names its rows by place (`benchmark.hpp:413`): with `--concurrent` or `--skew-aware` the only
  row is called "Baseline Locked". `contention_events` is always 0. Nodes of the radix tree never grow (4/16/48/256,
  as `SYSTEM_DESIGN.md:49` has it), for the reason that `art_stall` shows. `upsert` of a key that is there leaves the
  old value (a Node4 returns EXISTS without writing). `clear` unlinks the root without retiring it.

## 4. Bounds

| Constant | Value | Why it is enough |
|---|---|---|
| `Probers` | 2, 1 in ECHI | two are needed to tell the oldest registered read from the latest. In ECHI probes meet only in the count of readers, which is exact for any number of them (`ReadersAreCounted`); one prober is enough to hold a transition up, to miss it and to read across it |
| `Writers` | 1 or 2 | two contend for a transition, for a key, for a rebuild |
| `MaxWrites` | 2 to 3 | with `DeltaThreshold = 2`, three writes fill the buffer and leave one over; three versions let the collector unlink a middle one |
| `MaxProbes` | 1 or 2 | the share of a prober; probes are independent of each other but for the counter and the registry; in BF-CSI one probe fills the cache and a later one finds it |
| `EpochModulus` | 2 | the epoch wraps |
| `Keys`, `TIDs` | 1 to 3, 1 or 2 | one key suffices where keys are independent; BF-CSI has three, of which 1 and 3 share bits, shard and slot and 3 is not in R; in `Trial` one key is in R with two tids and one is not |
| `NumShards`, `NumSlots` | 1 or 2 | a rebuild that is halfway, a clear that is halfway |
| `S` | 3 tuples, 2 workers | the shares are unequal |
| `RetireThreshold` | 2, for 64 | one list is reclaimed while another is not full |
| `DeltaChainThreshold`, `MaxKeys` | 2 and 3, for 8 and 64 | a chain is consolidated, also while a third delta is pushed; with four puts a page is full |
| `ART`: `Threads`, `Keys`, `MaxOps` | 2 writers and a reader, 4 keys, 3; 2 writers, 2 keys, 4 in `art_stall` | two inserts race for the root, for a slot, for the lock, and a find or a clear() overlaps; keys 1 and 2 share a byte, the others have a smaller and a larger one, so the new slot goes in front of or behind the old one; a fourth operation is needed to spin |
| `BwTree`: `Threads`, `Keys`, `MaxOps` | 2, 2, 4 | two consolidations overlap and a key has two deltas |
| `MaxClears` | 1, 0 in `art_stall` | `clear` closes the Bw-tree for good and resets the radix tree |
| `NumPartitions`, `NumThreads` | 4, 3 (for 64) | partitions do not divide evenly: one thread takes two; the hot partition is one of them |
| `SampleSize`, `MinHotFrequency` | 1, 1 (for 10000, 100) | one key is hot, another of the same partition is not |
| `MaxArgs` | 2 | an "only" flag undoes another, `--all` undoes both |
| `Warmups`, `Measurements` | 1, 2 | an iteration after a warm-up and one after a measurement |

All constants are bounded by `ASSUME`s as `Config::validate` bounds the options. `echi_core` and `mvcc_core` check
safety and liveness in one state space, without symmetry, and pay for that with one prober less and a write less than
their safety alone would allow; the theorems of section 6 state the same safety properties for any number of threads
and writes. Symmetry is used for threads only, and in runs without liveness properties only. Deadlock is checked in
the runs of version 2, where `Terminated` is the only way to stop. In those of version 1 operations are bounded and
may all be over, and the program ends, so it is not checked there; `EveryPutEnds` asks more.

## 5. Fairness

Every thread that can take a step takes one: weak fairness on each thread's own steps. Nothing more is assumed. A
spurious wake-up may happen but is not fair. Locks are not fair: `Lock`, `LockKey` and the lock of NHJ may be given to
others, so `WritesComplete` and `TrialEnds` rest on the fact that the others' requests are finite. They are: probes are
bounded by S, and writes by `MaxWrites` here and by the duration or `stop` in the code. Starvation by an endless stream
of requests is therefore not examined. In `ART` the compare-and-swap that takes the lock is a weak one, which may fail for
no reason; `FairSpec` gives it strong fairness, so that what `art_stall` shows is not such a failure.

## 6. Proofs

`ECHI_proofs` proves, for every number of threads, keys, tuple ids, writes, threshold and modulus, under the
assumptions in `TidIndex` and `ECHI`, which say nothing of the timer's interval:

| Theorem | Statement |
|---|---|
| `TypeCorrect` | `Spec => []TypeOK` |
| `TransitionsExclude` | `Spec => []TransitionExclusive` |
| `ReadersAreCounted` | `Spec => []ReadersCounted` |
| `WritesConserved` | `Spec => []NoWriteLost` |
| `BufferBounded` | `Spec => []DeltaBound` |
| `TriggeringWritePublished` | `Spec => []TriggeringWriteVisible` |
| `PublishedPrefix` | `Spec => []MapIsPrefix` |
| `DestructorDrainsAll` | `Spec => []DestructorDrains` |
| `Refinement` | `Spec => ImplementsStaleIndex` |
| `OnlyOversleepingStalls` | `Spec => []StallsOversleep`: until the index is destroyed some thread can go on, or a transition has missed its wake-up |

The argument. `TypeOK` is inductive but for `active \in Nat`: that a probe which leaves finds the count above 0 is
`ReadersCounted`, so the two are carried together. The mutex is next: only the owner is in the critical section, and so
at most one thread is. With that, `NoWriteLost` is inductive: `Push` extends the log and the buffer alike, `Swap` moves
the buffer to the owner's local, and nobody else can be between `Swap` and `Publish`; each `ApplyDelta` moves the owner
one place further in the log. `DeltaBound` needs that a writer between its push and its swap is counted, and that the one
that leaves by `Swap` leaves an empty buffer behind.

These make up `Base`, which holds from the constructor on. On top of it, `MineOK` follows a writer's last write: once
the writer has passed `Swap` the write has left the buffer, whoever took it, and once it has passed `Publish` it is
visible. `Values` says that the private copy of a transition is the log at the place it has reached, and that the map
is the log at the place that is visible, both on top of the origin they have; an `origin` that changes under a
transition is why the log keeps both contents. A copy whose origin is not that of the map lacks R and has no write in
it, and there is one only while no write is visible (`Overtaken`), so that storing it can be a step of `StaleIndex`.
`Ending` says that callers and timer are gone when the destructor's own transition runs, so that nothing is buffered
after its `Swap`. The refinement maps a probe's map to the answer of `StaleIndex`; `Push` is its `Write`, `BulkStore`
its `Load`, `Publish` its `Publish` or, if the copy was made before R was stored, its `Forget`, `ProbeRead` its
`Probe`, and every other step a stutter.

`MVCC_proofs` proves, for every number of threads, keys, tuple ids and writes, under the assumptions in `TidIndex` and
`MVCC`, all the safety properties of `MVCC`:

| Theorem | Statement |
|---|---|
| `TypeCorrect` | `Spec => []TypeOK` |
| `UpdatesKept` | `Spec => []NoLostUpdate` |
| `LiveVersion` | `Spec => []OneLiveVersion` |
| `SnapshotRead` | `Spec => []InOrderSnapshotRead` |
| `CollectorSparesCovered` | `Spec => CoveredProbesKeepAnswer` |
| `QuietProbeReads` | `Spec => QuietProbeExact` |
| `KeyWaitsEnd` | `Spec => []WaitersEnd`: who waits for a key waits for a writer that waits for none |

The argument has three layers. `Base`: a writer between `LockKey` and its return holds the mutex of its key
(`LockOK`); a chain is part of the history of its key, each version at its place and the last one certainly there
(`ChainOK`); so what a writer has copied is still what the history ends with when it installs (`FreshOK`), although
other keys and the collector move in between. `NoLostUpdate` is not inductive without `FreshOK`, and `FreshOK` not
without the mutex. `Stamps`: the `delete` of a version is the stamp of the write at the next place, of the writer
about to install if there is none yet, and `Infinity` if there is no such writer either; it must hold of the versions
the collector keeps, whichever these are, so it speaks of places in the history and not of neighbours in the chain.
`OneLiveVersion`, `InOrderSnapshotRead` and `QuietProbeExact` follow: a walk stops at a version whose successor,
unlinked or not, is stamped later than the probe. `Safe`: the collector's timestamp is not above that of a probe it
saw registered, nor above the clock such a prober would read for its next probe; so what it unlinks is invisible to
them. `SafeTs`, `Newest` and `Walk` choose an extreme element of a set, which exists because the clock and the places
are bounded; that is proved from the library's theorem on the least element of a set of naturals.

`BFCSI_proofs` proves, for any keys, assignment of bits, shards, slots, threshold and threads:

| Theorem | Statement |
|---|---|
| `TypeCorrect` | `Spec => []TypeOK` |
| `RebuildsAlone` | `Spec => []RebuildsExclude` |
| `FilterHides` | `Spec => []FilterHidesOverlapped` |
| `CacheHides` | `Spec => []CacheHidesLate` |
| `MissesJustified` | `Spec => MissJustified` |
| `RebuildWaitsEnd` | `Spec => []WaitsForUnlock`: who waits for the rebuild mutex is alone, and waits for a writer that has only to unlock it |

`Exclusive` says that a thread past the swap of the flag is the only one, from which rebuilds exclude each other.
`FilterOK` follows a key from the moment its insert has told the filter: it is present in its shard unless it is
`overlapped`, and a rebuild that has still to come to the shard has the key in its snapshot; this is where the order
"filter first, then list" is used. `CacheHidesLate` is inductive by itself. `SureOK` carries along that the key of a
probe in `sure` is live and not in its cache slot but by a late fill.

`Trial_proofs` proves, for any S and any numbers of workers, writers and writes:

| Theorem | Statement |
|---|---|
| `EachTupleOnce` | `Spec => []TuplesProbedOnce` |
| `NoThreadOutlivesIndex` | `Spec => []IndexOutlivesThreads` |
| `CountsMatch` | `Spec => []CountsAgree` |
| `JoinBounded` | `Spec => []JoinBetween` |
| `WritersAlone` | `Spec => []LockExcludes`: a writer in its critical section is alone in the table |
| `NoDeadlock` | `Spec => []SomebodyReady`: until the trial is over some thread can go on, though no writer begins another write |

The shares are intervals (`ShareOf`) that follow one another (`SharesInOrder`), so that they are disjoint and cover S;
`HitsOK` says which part of its share a worker has probed, and `PhaseOK` which threads there are in which phase of the
trial. The counts and the size of the join are sums over the threads, the tuples and the tuple ids. `CountsOK` says
how far the counters of the index are ahead of those of the threads: by the workers between their count and their
read, and by the writers that have written and not counted. `BoundsOK` compares the pairs found so far with what the
tuples probed so far (`Answers`) would find in the relation as loaded and in the table as it is: a read adds the same
tuple to all three, and an insert or a remove moves only the last, in one direction. The only assumption beyond those
on the numbers of threads is that the tuple ids are finitely many.

`Reclamation_proofs` proves, for any threads, objects and threshold:

| Theorem | Statement |
|---|---|
| `TypeCorrect` | `RSpec => []RTypeOK`; no count of readers becomes negative |
| `NothingFreedUnderReaders` | `RSpec => []GracePeriod` |

A thread that has passed the test for readers has nothing in its list that is open to anybody, and keeps it so
(`ListClosed`): a reader that comes in between has nothing open, the thread itself retires nothing meanwhile, and
nobody else retires an object of its list, because objects are retired once. Without that last assumption, which is a
guard of `RSpec`, it would not hold; clients have to show it.

`ART_proofs` proves, for any threads, keys, bytes and bounds:

| Theorem | Statement |
|---|---|
| `HeldNodesLive` | `Spec => []NodesInUseLive` |
| `LosersDangle` | `Spec => []OnlyLosersDangle` |
| `DuplicatesNeedMiss` | `Spec => []DuplicateAfterMiss` |
| `RetiresOnce` | `Spec => RSpec` |
| `FindsAreSafe` | `Spec => []GracePeriod`, from `RetiresOnce` and `NothingFreedUnderReaders` |
| `SizeIsSlots` | `Spec => []SizeCountsSlots` |

The argument is in layers. `Base`: an unlocked node has one slot, and the thread that locks it is the only one in it
and the last (`Progress` says how far it has got), so two slots are the most and the growth never happens
(`TwoSlots`). `Nodes`: only a node that lost the race for the root is ever retired, by the one thread that knows of
it, so it was never the root. `Values`: a KeyValue is in the hands of its own operation until it is in a slot, and is
retired by that operation, if at all; one that can be got at and is retired is in `lost`. `Allocation`: an operation
allocates two objects of each kind at most, so the names in `Object` suffice; this and the layers before make every
step one of `RSpec`. `Distinct`: what a scan has seen of a node still holds when the node is locked, because the lock
is taken only if nobody else has taken it; so the byte that is put in is not the one that is there, until some swap
has failed. `Counted`: while no `clear()` overlaps an operation, every operation works on the root, so that each of
the two steps that give it a slot has one insert behind it that is about to count; the cardinality of these inserts
and `size_` add up to the slots.

`BwTree_proofs` proves, for any threads, keys, thresholds and bounds:

| Theorem | Statement |
|---|---|
| `RootKept` | `Spec => []RootNeverFreed` |
| `Linearizable` | `Spec => IsDictionary` |
| `PageOfDeltas` | `Spec => []PageFromChain` |

`Guarded` ties the place of an operation to its share of the readers: whoever tests for readers is one, so nothing is
ever deleted. For the refinement the entry of a key is its newest delta; a push makes it the new delta
(`NewestAppend`), a find takes effect when it loads the head, and `Calls` says that what a thread has read in between
still stands. The consolidated page is the last page of a walk (`Walk`), one delta after the other from the newest;
`PageOK` says of each that its entries are deltas of the chain under their keys, that its keys are in order, equal
keys in the order of their values, and all values newer than the deltas still to come, which is what keeps an entry
from coming twice when the next delta is an insert (`AddKeyOK`) or gives the first entry of the key an older value
(`UpdateOK`). A longer chain changes nothing of this (`PageStays`).

`BenchV1_proofs` proves, for any relations, hash, numbers of partitions, threads, arguments and iterations, sample
size and threshold, under `SkewAssumption` and `BenchAssumption` (the keys are finitely many, the numbers are natural,
and all but those of arguments and warm-ups are positive):

| Theorem | Statement |
|---|---|
| `PairsJoinedOnce` | `Spec => []JoinedOnce` |
| `RowsShowIterations` | `Spec => []ReportTrue` |
| `BaselinesAgree` | `Spec => []BaselineJoinsAgree` |

First the loops: a partition lists the positions of its tuples, each once and in order (`PositionsAre`); the slot of
the index is left with the last key of the relation and a value of that key (`ArtIndexIs`), the locked table with the
first value of each key (`TableIs`). Then the join without partitions and threads, `FullJoin`. What a thread adds for
a partition is the part of `FullJoin` whose keys hash to it (`PartitionJoin`: pairs of places in the partition and
pairs of tuples correspond one to one), and parts of disjoint sets of partitions add up to the part of their union
(`DisjointJoins`). The invariant is `IInv`: `ExecutorOK` says in each step of an iteration which state of the executor
is fresh and which is that of the relations, and `ThreadsOK` that the vector of a thread is the part of the partitions
of its stride below the one it takes next; when all are done these cover all partitions (`ThreadsDone`), and
`FullJoin` has a result of a hot key once and one of the index once for each match (`CopiesAre`). For the table,
`CountsOK` says that `total_ops` is the measured iterations done times what one iteration finds, which is the same in
all of them because `reset` makes the executor `Fresh`; `ConfigOK` that the command line selects all benchmarks or at
most one; `RowsOK` which rows there are at each place of the program (`PrintedRows`).

Sums, the pages of a walk and the loops of the joins are defined by recursion. The induction theorems of the library
are out of reach (they take an operator), but the least-element theorems they rest on are not: every natural number,
or finite set, for which a claim fails is above a smallest one. From that alone `Trial_proofs` derives that the
recursion of the community module's sums has a solution, only one, and that the order of the elements does not matter,
`BwTree_proofs` the same for a walk, and `BenchV1_proofs` that the loops have a solution (`LoopExists`) and what holds
after each round (`Rounds`).

Every safety invariant, action property and refinement that a run checks is stated by a theorem. Only model-checked is
all liveness (`ProbesReturn`, `PublishedOrOverslept`, `WritesComplete`, `ChainsShrink`, `TrialEnds`), which is out of
the prover's reach, as is everything about `ENABLED`. What can be proved of it is that no wait is circular: the four
theorems on waiting (`OnlyOversleepingStalls`, `KeyWaitsEnd`, `RebuildWaitsEnd`, `NoDeadlock`) follow a waiting thread
to one that can go on. They write the guards of the actions out (`MainReady`, `WriterReady` and so on) instead of
using `ENABLED`, and they stop where the code does: in ECHI the missed wake-up of the run `echi_lost_wakeup` remains,
as the one way to stall.

## 7. What is not modelled

- Memory orderings weaker than sequential consistency. The atomics of version 2 that the protocols rest on are
  acquire/release on one location or sequentially consistent; for the plain fields of version 1 see "Grain".
- `get_stats` beyond its lock, statistics counters of three indexes, times, latencies, logging, metrics, output.
- `Config` (parsing), `ZipfSampler` and `DataGen` beyond "any write": the models choose any element of `WriteOp`.
- Sizing and hash functions: `Hash`, `PartitionOf` and `ByteOf` are any assignments.
- Allocation failure and exceptions.
- `ThreadPool`: nothing creates one.
- In version 1 what nothing calls or what is disabled: `executeJoinParallel` of the skew-aware join, with its shared
  result vector (`skew_aware_join.hpp:217`), `setAdaptiveThreshold`, `applyDeltas`, `lockNode` and `unlockNode`,
  `installRoot`, the destructor of the Bw-tree, `runBwTreeBenchmark`, `BaselineCoarseBTree`, `upsert` and `erase` of the
  locked index.

## 8. Plan

Done: the four indexes of version 2 and the trial around one of them; the reclamation, both indexes, the joins and the
driver of version 1; proofs of the safety of all of them. Left:

1. `Trial` over the other three indexes, whose contracts (`StaleIndex` and the like) would take the place of `NHJ`.
2. `Config::validate` as a relation on options, to derive the assumptions on the constants from it.
