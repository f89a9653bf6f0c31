# Instant recovery of Redis-IR: TLA+ specifications and proofs

Redis-IR is Redis 5 with *instant recovery*: after a failure the server accepts
commands at once, while the database is still being restored from a log that is
indexed by key. These specifications model that mechanism, from the append of a
record to the sequential log to the value that a client reads after a restart.
All source paths are relative to the root of the repository; `ir.c` is
`src/src/instant_recovery.c`.

## The system

| part | code | model |
|---|---|---|
| Sequential log: the append-only file, written before the reply with `appendfsync always` | `aof.c` | `Indexer` (`Command`, `Flush`, `FlushError`), `LogReplay` (its replay) |
| Indexed log: a Berkeley DB B-tree with duplicates, key -> records | `ir.c` 906-1146 | `IndexedLog` |
| Indexer thread: copies the sequential log to the indexed log in batches | `ir.c` 3043-3321 | `Indexer` (`Indexer...` actions); abstracted in `Restorer` |
| Initial indexing: the rest of the sequential log, before the server serves | `ir.c` 3347-3562 | `Indexer` (`Initial...` actions) |
| Position files: `finalLogSeek.dat`, `finalLogSeekReplica.dat`, `checkpointLogSeek.dat` | `ir.c` 2592-2629 | `Indexer` (`finalSeek`, `replicaSeek`, `ckptSeek`) |
| Replica of the indexed log | `ir.c` 3365-3390, 3498-3520 | `Indexer` (`replica`, `replicaDisk`; `InitialReplica...` actions) |
| Checkpointer: replaces the records of a key by one | `ir.c` 3760-3883, `t_string.c` 182-294 | `Indexer` (`Checkpoint...` actions; full checkpoints) |
| Restorer, incremental: a thread that sends `setIR` for every key | `ir.c` 2387-2568 | `Restorer` (`Loader...` actions) |
| Restorer, on demand: a SET, GET or INCR restores its key first | `server.c` 2603-2641, `ir.c` 2180-2350 | `Restorer` (`OnDemand`, `LoadRecord`, `Command`) |
| Shutdown, programmed restart | `ir.c` 3939-4234, `server.c` 1889-1936, 2984-3074 | `Indexer` (`Stop`, `waitIndexerFinish`, `ShutdownEnd`), `Restorer` (`Stop`, `Exit`); not the restart counters |
| Simulated corruption of the indexed log | `ir.c` 4129-4195 | `Indexer` (`Corrupt`) |
| Synchronous indexing | `ir.c` 3570-3656 | not yet |
| Access logger and MFU checkpoints | `ir.c` 3678-3802 | not yet |
| Preloading | `ir.c` 4076-4126 | not yet |
| Reports, CSV files, monitoring | `ir.c` 1274-2067 | not modelled |
| Configuration of Redis-IR | `ir.c` 232-900, `config-mm-direct.js` | not modelled; its switches are constants |
| Benchmark control (memtier) | `ir.c` 4242-4334 | not modelled |
| `...V1`, `replicateIndexedLog` | `ir.c` 2715-2912, 2991-3032 | not called by the program |
| Control backend: starts, stops and finalises runs | `server.js` | not yet |
| Dashboard | `web/` | not modelled |

How they interact. The main thread executes a command, appends its record to the
sequential log and replies. The Indexer follows the end of that file; when it has
parsed up to the end it writes its list of records to the indexed log, syncs it
and saves its position. At a start the main thread indexes what the Indexer had
not (from the saved position), and then serves; a loader thread walks the
B-tree and sends the server a `setIR` for every key, while `call()` restores the
key of a client's command if the loader has not come to it. The Checkpointer sends
`SETCHECKPOINT` commands that reach the indexed log through the sequential log
like any other.

## Modules

* **`IndexedLog`**: the records of both logs and their meaning. `LogValue(log, n, k)`
  is the value of `k` after the first `n` records of the sequential log;
  `TupleValue(recs)` the value that the restorer makes of the records of a key.
  Both are closed forms (the last overwriting record, plus the increments after it),
  not loops, so that the proofs about the threads need no induction over a log.
* **`LogReplay`**: the loops themselves, as recursive functions: that they compute
  the closed forms, and that indexing and restoring a log gives what replaying it gives.
* **`Indexer`**: logs, position files, indexing, checkpoints and outages, a step
  per change of a file. `pc` is where the indexing thread is; `done` how many
  records are in the indexed log, `seek` how many it has parsed, so the list of
  records to index is `log[done+1..seek]`. `index` is Berkeley DB's cache, `disk` the
  pages of its file; `replica` and `replicaDisk` are the same of the replica. `phase`
  is the life of the process: a stop goes from `serving` through `stopping`
  (`stopThredas` waits for the Indexer) and `ending` (the last flush) to `down`;
  `corrupted` is serving after `corruptIndexedLog`.
* **`Restorer`**: the loader thread, the main thread with the on-demand restore, the
  Indexer's effect and the shutdown, a step per access to what the threads share.
* **`InstantStore`**: what the restorer promises: a key-value store that holds the
  whole database from the first command on. `Restorer!ActsAsStore` is this
  specification with `db` the memory, completed by the indexed log.
* **`MCIndexer`, `MCRestorer`, `MCLogReplay`**: small instances for TLC.
* **`IndexedLogProofs`**: lemmas on log values and tuple values. **`IndexerProofs`**:
  types and positions. **`RecoveryInvariant`, `RecoveryIndexer`, `RecoveryProofs`**: the
  invariant of recovery with commands and outages; the Indexer's steps; the initial
  indexing and the theorems. **`CheckpointProofs`**: recovered values under every outage;
  the indexed log with checkpoints. **`RestorerProofs`**: types and the refinement.
  **`LogReplayProofs`**: the loops.

### Abstractions

* Values are integers (the strings that Redis stores as decimals) and
  `NotANumber`, any other string. Positions count whole records; a position
  inside a record is negative (`OneByteShort`).
* Commands have one key. `SELECT` records are left out: both indexers ignore them.
* A position file is written in two steps (`fopen` truncates), each of the three
  position files alike. The delete and the add of a record are two steps, and the
  same two of the replica come after them. A single Berkeley DB call is atomic.
* The Indexer is created (`pc = "created"`) when the server serves, and starts when
  it is scheduled: before or after a stop signal, which it overwrites, and before or
  after `corruptIndexedLog` has removed its file, which it then creates anew.
* I/O errors of the sequential log end the process: a failed or short write
  (`FlushError`; the `ftruncate` that follows succeeds or leaves the bytes) and a
  failed read (`InitialReadError`, `IndexerReadError`). An indexed log that does not
  open ends the Indexer only (`IndexerOpenError`), and leaves a command that needed a
  restore without it (`OpenFails` of `Restorer`).
* Berkeley DB's environment is in shared files (`creat_env` does not ask for
  `DB_PRIVATE`), so its cache survives a kill of the process (`Kill`). A power loss
  keeps only synced pages and those evicted by chance (`PowerLoss`, `Evict`), of the
  indexed log and of the replica, may tear the last record and may lose the content
  of the position files, none of which is ever synced (`Unsynced`). `Kill`,
  `PowerLoss` and `Evict`, and `atoi`, model what is not in this repository.
* `Outage(kind)` is the bound on outages. The counters that limit programmed restarts
  and corruptions (`restartAfterTime`, `restartSystem`, `corruptIndexedLog`) are not
  modelled: a stop or a corruption may come at any time.
* `Indexer` restores memory in one step (`Serve`); `Restorer` opens that step.
  `Restorer` in turn abstracts the indexed log to the value of each key, reads the
  records of a key in one step, and indexes a record in one step. With
  `starts_log_indexing` "B" it excludes DEL, whose deletion under the loader's cursor
  that abstraction would not show.
* `hash_restored_tuples` is shared without a lock. Two additions at the same time may
  lose one (`raced`, `LoaderMarked`); a corrupted hash that crashes the process is
  not modelled.
* After `corruptIndexedLog` the server runs on: `cancelIRThreads` cancels the corruption
  thread that is executing it before the restart. Only an Indexer that had not
  started yet runs then.

## What is checked

Passing runs:

| run | instance | shows |
|---|---|---|
| `IndexerCrash` | 2 keys, 2 values, 3 records, 2 outages, replica; kill, I/O errors, power loss while serving | `RecoveredIsLogged`, `IndexFollowsLog`, `DurableUpToSeek`: with SET and DEL the recovered database is exactly the logged one, wherever the outage falls |
| `IndexerIncr` | 1 value, with INCR, no replica | `TypeOK`; `PresenceRecovered`: no key lost, none resurrected (values may differ, see below) |
| `IndexerCheckpoint` | 4 records, checkpoints, no outage | `IndexFollowsLog`: compaction does not change the meaning of the indexed log |
| `IndexerFaults` | all outages, replica, checkpoints | `NoFabricatedValues`, `PositionsInLog`: what holds even where recovery is not exact |
| `IndexerLive` | SET, shutdown, fairness | `RecordsIndexed`; `SignalledIndexerStops`: a stop signal that finds the Indexer started ends the server, wherever the Indexer is in its loop. A signal that comes earlier is overwritten (`StopEnds` below) |
| `RestorerStore` | 2 keys, 3 commands of SET, GET, INCR; Indexer after the loading and during it | `TypeOK`; `ActsAsStore`: refinement of `InstantStore` |
| `RestorerLive` | SET, GET, DEL, fairness | `RecoveryEnds` |
| `LogReplay` | 2 keys, the 2 extreme values, all logs of up to 4 records | `ReplayIsLogValue`, `RestoreIsTupleValue`, `InstantIsSequential` |

The refinement run assumes `LoaderFirst` (the loader thread has set
`instant_recovery_performing` before the first command), an indexed log that opens
(`OpenFails = FALSE`), no DEL, and a stop only by the main thread. Each of these is necessary, as shown below.

### Known deviations

Runs that find a disagreement between the program and what a comment of it says
(`PROJECT.json` quotes the comment):

| run | property | what happens |
|---|---|---|
| `IndexerShutdown` | `RecoveredIsLogged` | a graceful stop in the middle of a batch saves the position of the whole batch; the rest is never indexed |
| `IndexerIncrValue` | `IndexFollowsLog` | the Indexer adds an INCR as a SET of the value parsed last |
| `RestorerDeleted` | `DeletedStaysDeleted` | a key deleted while the loader holds its value comes back |
| `RestorerShutdown` | `LoaderStops` | a SHUTDOWN during recovery waits for the loader, which waits for a reply |

The conditions of the passing runs and of the theorems are needed too. TLC gives a
counterexample when a configuration is changed as follows (from `IndexerCrash`,
`RestorerShutdown` for fairness, or `RestorerStore`) and checks the property named
alone. Where an instance fails in several ways each has a row of its own.

| constants changed | property that fails | what happens |
|---|---|---|
| `Commands = {"INCR"}`, `Outages = {"kill"}` | `RecoveredIsLogged` | an INCR indexed before a kill of the initial indexing is indexed again (`ir.c` 3508) |
| `Outages = {"corruption"}`, `Replicated = FALSE` | `RecoveredIsLogged` | without a replica a lost indexed log is not rebuilt: the branch asks for `errorLog == 0` (`ir.c` 3381) |
| `Outages = {"corruption"}` | `RecoveredIsLogged` | an Indexer that starts after the file was removed creates an empty indexed log, which the next start takes for the one of `finalLogSeek.dat` (`ir.c` 3132) |
| `Outages = {"corruption"}` | `ExitsOnlyIfTorn` | the position of the replica was never written, -1 is taken as a position and the Indexer exits (`ir.c` 3371) |
| `Outages = {"kill", "corruption"}` | `RecoveredIsLogged` | a kill during the initial indexing leaves the replica with the position of the log it replaced (`ir.c` 3370) |
| `Outages = {"corruption"}`, `Checkpointing = TRUE` | `RecoveredIsLogged` | the rebuild from a checkpoint ignores the `SETCHECKPOINT` records it starts at (`ir.c` 3498) |
| `Outages = {"kill"}`, `Checkpointing = TRUE` | `RecoveredIsLogged` | a kill between the delete and the add of a `SETCHECKPOINT` loses the key (`ir.c` 3078) |
| `Outages = {"power", "powerInitial"}` | `RecoveredIsLogged` | the initial indexing saves its position before its records are synced (`ir.c` 3527) |
| `OpenFails = TRUE` | `ActsAsStore` | a command whose key cannot be restored, because the indexed log does not open, runs without it (`ir.c` 2185) |
| `LoaderFirst = FALSE` | `ActsAsStore` | a command served before the loader thread runs is not restored on demand (`ir.c` 2389) |
| `Commands = {"GET", "DEL"}`, `Modes = {"A"}` | `ActsAsStore` | a DEL of a key that is not in memory yet has no effect (`server.c` 2616) |
| `Stops = {"thread"}` | `ActsAsStore` | a programmed restart abandons the loading while commands are still served (`ir.c` 4199) |
| `Commands = {"GET"}` | `ReadsUnlogged` | a GET that restores its key is appended to the sequential log (`server.c` 2603) |
| `FairSpec`, `Stops = {"thread"}` | `StopEnds` | the Indexer, started late, overwrites its stop signal (`ir.c` 3115) |
| `LogReplay` with `IntMax` among `SetValues` | `InstantIsSequential`, `RestoreIsTupleValue` | the restorer counts in an `int`, Redis in 64 bits (`ir.c` 2238) |

Bounds. Two keys are what a key and its neighbour in a batch need (the stale
`value` of another key, the next key under the cursor). Three records make a batch
with an indexed, an unindexed and a half-written record; four a checkpoint among
commands. Two outages give a failure during the recovery from a failure. Three client
commands on two keys suffice to have one before, one during and one after the
restore of a key. `IntMax` is 9 in `LogReplay`, and the values are the least int and
the greatest that `MaxLog` increments do not overflow. Keys are symmetric in `Indexer`'s safety
runs; in `Restorer` they are ordered, as in the B-tree. Deadlock is not checked: the
bounds end every behaviour, and a server may idle or exit.

Fairness. `Indexer!Fairness` and `Restorer!FairSpec` assume weak fairness of the
threads (the operating system schedules them), of the flush in `beforeSleep`, of the
steps of a stop (`waitIndexerFinish` polls, and then the process ends) and of the
main thread's service of the loader's connection (the event loop comes round to
every connection). Nothing is assumed of clients, checkpoints or outages. An
Indexer that never sees the end of a file that grows faster than it parses is
outside a bounded log; `RecordsIndexed` says nothing of it.

## What is proved

Every safety property that a passing run checks is also a theorem, for every set of
keys and values, every length of the log and every number of commands, outages and
checkpoints. `PROJECT.json` lists the theorems.

| theorem | states | for |
|---|---|---|
| `IndexerProofs!TypeCorrect`, `PositionsCorrect` | `TypeOK`, `PositionsInLog` | everything: all commands, outages, I/O errors, checkpoints, the replica |
| `RecoveryProofs!RecoveryKeepsPresence` | `PresenceRecovered` | `Plain`: kills, I/O errors and power losses while serving, with or without a replica; no checkpoints; INCR included |
| `RecoveryProofs!RecoveryExact`, `IndexExact`, `IndexDurable` | `RecoveredIsLogged`, `IndexFollowsLog`, `DurableUpToSeek` | `Plain` and `NoIncr` (commands SET and DEL) |
| `CheckpointProofs!ValuesFromLog` | `NoFabricatedValues` | all outages, corruption, checkpoints, the replica; no INCR |
| `CheckpointProofs!CheckpointsKeepIndex` | `IndexFollowsLog` | `Undisturbed`: SET, DEL and checkpoints, no outage |
| `RestorerProofs!RestorerTypeCorrect` | `TypeOK` | everything |
| `RestorerProofs!RestorerActsAsStore` | `ActsAsStore`, the refinement of `InstantStore` | `Instant`: `LoaderFirst`, an indexed log that opens, no DEL, a stop only by the main thread |
| `LogReplayProofs!ReplayExact` | `ReplayIsLogValue` | everything |
| `LogReplayProofs!RestoreExact`, `InstantExact` | `RestoreIsTupleValue`, `InstantIsSequential` | `NoOverflow`: no C int overflows within `MaxLog` increments |

The known deviations above show that the conditions are needed: each names what
breaks when it is dropped. The assumptions are those on the constants
(`ValueAssumption`, `RecordAssumption`, `IndexerAssumption`, `RestorerAssumption`,
`LogReplayAssumption`): the special values differ from integers, keys and records.

### The inductive invariants

**Positions** (`TypeInv`). `PositionsInLog` is not inductive by itself: a position is
saved from `seek`, which must be bounded, and `done` indexes the log while a record is
being replaced (`ThreadInv`).

**Recovery** (`RecoveryInv`). `RecoveredIsLogged` speaks of memory; what makes it true
after the next outage is that the indexed log can be *repaired* from the saved
position: `Mends(x, log, n, k)` says that the records of `k` in `x` are those of
position `n`, or that a later record writes `k`. With SET and DEL, indexing a
record again is harmless: what is repairable from `n` is repairable from any
earlier position (`MendsEarlier`), so neither a truncated `finalLogSeek.dat`,
which reads as 0, nor records that were indexed and not accounted for do harm. With
INCR the same argument holds of the presence of a key and not of its value: the
invariant compares values by `Agrees`, which is equality without INCR and equal
presence with it, so one proof gives all four theorems. Its parts:

* `SeekInv`: the indexed log is repairable from the saved position, in every phase;
* `InitialInv`: during the initial indexing, it is repairable from `done`, so at the
  end of the log it is exact (`MendsAtEnd`);
* `ServingInv`: while serving, memory is the logged database, the indexed log is exact
  at `done`, and the pages on disk are repairable from the saved position: the sync
  comes before the position is written;
* `FreshInv`: no position file means an empty log and an empty indexed log, so a start
  never takes the replica in place of the indexed log: `Plain` needs no condition on it;
* `PlainInv`: what `Plain` rules out does not happen.

**Values** (`ValuesInv`). Whatever is lost, each record in the indexed log, in its
pages on disk and in the replica comes from a record of the same key in the
sequential log, and the thread never indexes below the position it started from. The
pages of the replica have a conjunct of their own, since a power loss makes them the
replica.

**Checkpoints** (`CheckpointInv`). A `SETCHECKPOINT` record repeats the value that its
key has before it (`LogInv`): true because the Checkpointer's command runs in the main
thread, between two commands, on a memory that agrees with the log
(`RecoveredIsLogged`, here part of the invariant). Replacing the records of a key by
that one then keeps the meaning of the indexed prefix. Between its delete and its add
(`pc = "add"`) the key is missing, and `IndexFollowsLog` excepts exactly that key.

**Restorer** (`StoreInv`). The mapped `db` is the memory, completed by the indexed log
for keys not in memory; the loader's and the Indexer's steps must leave it alone.
`TupleInv`: a logged key is in memory, so what the Indexer does to its records is
invisible, and the tuple that the loader holds is that of the indexed log unless a
command has overtaken it. `PassedInv`: behind its cursor the loader leaves nothing to
restore, but for the tuple it holds. `PerformingInv`: commands restore on demand from
the loader's start to its end.

**Loops** (`IndexInv`, `LoopInv`). The closed forms are defined by the last overwriting
record and the number of increments after it; the loops are recursive functions over
`0..Len(log)`. That such a function exists and is unique is shown by a least
counterexample (`NatLessThanWellFounded`, `WFMin`), since an induction scheme with an
operator parameter cannot be instantiated. The invariants then take one record at a
time: `IndexInv` relates the records of a key to the log, `LoopInv` bounds the value
that the restorer has reached by the increments left, so that the C int does not wrap.

Only model-checked: liveness (`RecordsIndexed`, `SignalledIndexerStops`, `RecoveryEnds`),
since the prover has neither fairness nor `ENABLED`; and the violations.

## Plan

1. Thread lifecycle: programmed restarts with their counters, preloading,
   `corruptIndexedLog` and `cancelIRThreads` as a module; a restart thread against
   the main thread's last flush.
2. MFU checkpoints with the access logger; synchronous indexing; the list of executed
   commands that the CSV thread drains.
3. A torn sequential log at a start against `aof-load-truncated`.
4. A composition of `Indexer` and `Restorer`, with commands during the recovery of a
   recovery; DEL under the loader's cursor.
5. The lifecycle of a run in `server.js`.
6. Proofs: recovery with checkpoints and graceful stops, for a weaker claim; the
   refinement of `InstantStore` without `LoaderFirst`, for a weaker store.
