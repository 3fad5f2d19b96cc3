# kvs_migration in TLA+

`kvs_migration` moves a running RocksDB instance (a fork for persistent memory)
from one machine to another. The **source** program (`src/src`) hands over the
SSTables of its database; the **destination** program (`src/dst`) rebuilds and
ingests them while its workload already reads and writes, asking the source for
the keys it does not have yet. This directory holds TLA+ modules of that system,
the TLC configurations that check them, and proofs checked with TLAPS.

## 1. The system

| part | code | state | operations |
|---|---|---|---|
| SSTable sender | `src/src/migration/sst.{cc,h}` | `kv_pairs` (a ring of `num_queues` queues), the two local counters, `file_paths`, `num_entries` | threads `ReadKVPairs`, `SendKVPairs`; `SendSstFileData`; `TransferSstFiles` |
| SSTable receiver | `src/dst/migration/sst.{cc,h}` | its own `kv_pairs`, `write_finished`, `mig_ended`, the SSTables under construction | threads `RecvKVPairs`, `WriteKVPairs`, `IngestSstFiles`; `RecvSstFileData`; `TransferSstFiles` |
| sockets | `{src,dst}/migration/socket.{cc,h}` | `main_fd`, `sst_fds[0..1]`, `workload_fd` | open, connect, `SendFlag`, `RecvFlag`, close |
| phases | `{src,dst}/migration/main.cc` | -- | handshake, workload beside transfer, joins, last flag, close |
| workload and remote reads | `{src,dst}/migration/workload.cc`, `DB::MyGet` in `{src,dst}/pmem-rocksdb/db.h` | `mig_ended` | `Put`, `MyGet`: local read, else a question to the source |
| metadata and placement | `{src,dst}/migration/db.{cc,h}` | lists of paths, levels, `num_entries`, `target_level` | `GetSstFileData`, `ReturnFilePaths`, `MyDB::ReturnFilePath` |
| ingestion at a level | `dst/pmem-rocksdb/external_sst_file_ingestion_job.cc`, `options.h` | the files of a job, levels, sequence numbers | `Prepare`, `NeedsFlush`, `Run`, `Cleanup` |
| queue | `{src,dst}/migration/concurrentqueue.h` (the same file twice) | sub-queues of blocks, block pool, free list, table of threads | `enqueue`, `try_dequeue`, their bulk forms, destruction, thread exit |
| reports | `dst/migration/debug.cc`, Makefiles | -- | timers, output files |

**How they interact.** On each machine the threads share a ring of queues: file
`f` uses slot `f % num_queues`. A slot is null while no file owns it; the
producer spins until it is null and allocates, the consumer spins until it is
not and frees. Nothing else orders the two. Between the machines,
`sst_fds[0]` carries a file number, a flag back, then one size per pair;
`sst_fds[1]` carries the bytes of the pairs. The writer hands an SSTable to the
ingester through `write_finished[f]`, and the end of all three threads reaches
the workload through `mig_ended`.

**What is hard in it.**
- five threads on two machines in a ring of waits (slot, flag, header, bytes,
  `write_finished`), with bounded sockets: any of them may stop the migration;
- both ends count files and pairs *by themselves*; nothing in the stream says
  where a file ends, and nothing orders one connection against the other;
- a slot is a `std::shared_ptr`, read and assigned by two threads with no lock;
- `recv` returning 0 (the other process is gone) is not treated as an error, so
  that uninitialised locals are used as file numbers and sizes;
- any failing RocksDB call ends its process in the middle of the transfer, and
  the other process has to notice;
- the data race on `mig_ended` and `write_finished`; writes of the workload that
  overlap with the ingestion of older values; answers without a length;
- an ingestion job of many calls, each of which may fail, that has to take back
  what it did; a level that is forced against the rules the rest of the job keeps;
- two `main`s that join threads which end only when the other side does something;
- a lock-free queue whose blocks, index rings and sub-queues are recycled while
  other threads still look at them.

**What makes each part correct.** The sender: the queue found by slot number is
that of the file, with its pairs in order. The receiver: the same, plus SSTables that
are whole before they are marked and untouched after. Both: although neither
counts for the other, at most `2 * num_queues + 1` files have been taken up by
the source and not been written by the destination. The connections: each header is read as
what it was sent as. The whole: every file is moved, once, in order, and
`mig_ended` only then; a death on either side leaves whole files only, and is
noticed. The two programs: one message at a time on `main_fd`, each read as what
it is; a remote read returns the whole value of the key asked for; both
programs end. Ingestion: no SSTable is lost or left behind, an entry is hidden
only by one that may hide it. The queue: each element is dequeued once, by one
thread, after it was enqueued, and every block is returned.

Every hazard is listed with its line in `PROJECT.json`, with the properties that
would catch it, or with the reason why none does.

## 2. Modules

| module | models | role |
|---|---|---|
| `SstSocket` | the files to move, the two connections | constants, assumptions, shared variables |
| `SrcSst` | `src/migration/sst.cc` | the two threads of the source |
| `DstSst` | `dst/migration/sst.cc` | the three threads of the destination, the end of the transfer |
| `SstTransfer` | both programs together | `Spec`, fairness, the properties |
| `FileMigration` | -- | what a migration promises; `SstTransfer` is shown to implement it |
| `SstInvariants`, `DstInvariants` | -- | the inductive invariants of the source and of the destination |
| `QueueSlot` | one slot of a ring, word by word | the `shared_ptr` race that the atomic slots above leave out |
| `RemoteGet` | `workload.cc` and `MyGet` of both programs | the workload threads and their two connections |
| `Phases` | both `main.cc`, `socket.cc`, the metadata exchange | extends `RemoteGet`; the two programs from end to end |
| `PhasesInvariants` | -- | its inductive invariants |
| `IngestJob` | `external_sst_file_ingestion_job.cc` | one ingestion job after another, beside Puts and flushes |
| `IngestInvariants` | -- | its inductive invariants |
| `QueueBlocks` | `Block`, the pool in `concurrentqueue.h` | blocks, places, where a block comes from and goes |
| `ProducerBase` | `ProducerBase`, the common part of both sub-queues | the four counters, the claim of a dequeue |
| `ImplicitProducer` | the sub-queue of a thread without a token | index ring that doubles, blocks given back by consumers |
| `ExplicitProducer` | the sub-queue of a token | circular list, ring of the index, undo |
| `FreeList` | `FreeList` | the lock-free list with its reference counts |
| `ImplicitProducers` | the hash tables, `ThreadExitNotifier`, `~ConcurrentQueue` | which thread has which sub-queue |
| `ConcurrentQueue` | -- | puts these parts together; the queue's properties |
| `QueueInvariants`, `SubqueueInvariants` | -- | the inductive invariants of `FreeList` and `ImplicitProducers`, and of the sub-queues |
| `MCSstTransfer`, `MCQueueSlot`, `MCPhases`, `MCIngestJob`, `MCConcurrentQueue` | -- | instances for TLC |
| `TransferProofs`, `DstProofs` | -- | theorems about `QueueSlot` and about the source and the streams of `SstTransfer`; on top of them, about the destination |
| `PhasesProofs`, `IngestProofs` | -- | theorems about the module of that name |
| `QueueProofs` | -- | theorems about `FreeList` and `ImplicitProducers`, as parts of `ConcurrentQueue` |
| `SubqueueProofs`, `ReaderProofs`, `ImplicitProofs` | -- | theorems about `ProducerBase` and `ImplicitProducer` as such parts, each module on top of the one before: the counters and the index, the steps of the consumers, those of the producer and the whole |

The sections that follow, up to **Failures**, are about the transfer.

**State.** `reader`, `sender`, `receiver`, `writer` and `ingester` are the
threads: `pc` names the statement reached, `file_num` and the other fields are
the thread's locals. `pos` is the index of the pair loop. `read_cnt`,
`send_cnt`, `recv_cnt`, `write_cnt`, `ingest_cnt` are the code's counters of
files. `src_kv_pairs` and `dst_kv_pairs` are the rings, `Null` standing for a
null pointer. `sst_files[f]` is what the SSTable writer of file `f` has been
given, `ingested` the calls of `IngestExternalFile` that returned.
`receiver.eof` is the one variable the code does not have: it remembers that a
`recv` has returned 0. `headers`, `flags` and `payload` are what the kernel
holds of the two connections; `src_up` and `dst_up` turn FALSE at an `exit()`.

**Actions.** One per statement at which another thread can be noticed: a claim
of the next file, the end of each spin loop, each `send`, each `recv`, each
operation on a queue, each assignment of a slot or a flag. What a thread does
between two such points touches only its locals and is part of the action
before or after it. The payload loop of `RecvKVPairs` keeps its partial
`recv`s: `RecvChunk` takes any part of the bytes asked for.

**Data.** A pair is `<<f, i>>`, the i-th pair of file f; its text is not
modelled, its size is, because the size is what the code sends and counts.
`Garbage` is any string that is not a pair. `num_entries` and the number of
pairs the iterator yields are two constants (`NumEntries`, `SstData`): the code
takes one from metadata and the other from the iterator.

**Failures.** `MayFail` names the calls allowed to fail. `Open` on the source
(`"open"`), the SSTable writer (`"write"`), `IngestExternalFile` (`"ingest"`)
and a request of the workload thread (`"workload"`) end the process through
`AssertStatus`. Whatever `MayFail` says, a process whose peer has exited may
read the end of the stream (`...Eof`: `recv` returns 0, a local keeps an
arbitrary value), get a reset or `SIGPIPE` (`RecvReset`, `SendBroken`,
`SrcWorkloadDies`), or still succeed in sending for a while. The workload of the
destination tests `mig_ended` at the top of its loop only (`dst workload.cc:68`), so
the operation in progress when the flag is raised may still fail and exit
(`DstWorkloadDies`): the promise of `FileMigration` allows an exit before and after
the end.

**The two programs (`Phases`, `RemoteGet`).** `src` and `dst` are the main
threads, `answerer` and `asker` the workload threads, `src_life` and `dst_life` the
processes. An action is a call on a socket, a start or a join of threads, or a
file that arrives. Keys and values are sequences of pieces, and a `recv` takes any
number of those that are there: `size_wire`, `key_wire` and `value_wire` are streams.
The transfer itself is two counters, `sent` and `moved`: this is what
`SstTransfer` shows it to be (`FileMigration`). `store` is what the destination's
database answers for a key, and a file that arrives changes it as `IngestJob`
shows: a Put hides the file, unless the file goes to level 0. Any process may exit
at any step; what the other one then reads is the end of the stream, which
`RecvFlag`, `RecvOptions` and the metadata take for an answer. A key that neither
machine has ends the destination: `NotFound` is not OK, and `AssertStatus` exits.

**An ingestion job (`IngestJob`).** `job.pc` is the place in the job: `Prepare`
(read the files, link or copy each, sync, checksums), then the part in which
writers are stopped (`NeedsFlush`, the flush, `Run` file by file, the installation),
then `Cleanup`. `levels` and `memtable` are the database, every entry with its sequence
number; `external` and `internal` are the files on disk. `Outcome(op)` says whether a
call of the environment may fail. `IngestExternalFiles` itself, the memtable's
flush and `Get` are RocksDB's, not in this repository, and are modelled from
what the job expects of them (external in the map). `IngestedLevel` is the line
the repository added.

**The queue.** Each atomic operation of the code is an action; a step between two
of them is part of one. `elements[b][o]` is the index of the element a place
holds, `None` for raw memory; whatever moves, destroys or constructs an element in
memory of the wrong state is recorded in `misuse`. `consumer[c]` and `producer` hold
the locals of a call. Enqueue of one element and of many are one set of actions
(`count`), as are the dequeues. Both sub-queues see the free list as a set;
`FreeList` shows what its pointers do. `ImplicitProducers` finds a sub-queue for a
thread: probing, resizing under `resizing`, taking over an inactive producer,
thread exit under the notifiers' mutex, a thread that starts again under an old id, and
the destructor in another thread. `concurrentqueue.h` is in the repository
twice, byte for byte the same; the map names lines of both copies.

Operators introduced by "A slip:" are not part of the model: each is an action
as a plausible bug would have it, put in the place of the real one to see that
the property concerned notices.

## 3. What is checked

| run | question | result |
|---|---|---|
| `transfer` | does everything stay in step, and does it end, when nothing fails? | holds, 21 301 states |
| `transfer_faults` | are rings and SSTables right when any call fails at any time? | yes; 163 004 states |
| `transfer_stranded` | what is in the database, how far apart are the two ends, and who is told of a death, up to the end and with failures? | whole files, in order; no further than the rings allow; 183 697 states |
| `transfer_cutoff` | is a finished SSTable always whole? | **no**: finding 2 |
| `slot_pointer` | is the slot's pointer right although it is two unlocked words? | yes; 618 states |
| `slot_freed` | is a freed queue always one that has been sent? | **no**: finding 1 |
| `ingest` | do jobs of every kind keep files, levels and entries right when their calls fail? | yes; 672 054 states |
| `ingest_overwrite` | does the newest entry win? | **no**: finding 3 |
| `migration` | do both programs read each other right, and do both end? | yes, but for named exceptions; 178 034 states |
| `queue` | do the parts of the queue keep what they promise each other? | yes; 1 311 521 states |
| `queue_undo` | does a failed enqueue leave the queue as it was? | **no**: finding 4 |
| `owners_exit` | may a thread exit while its queue is destroyed? | **no**: finding 5 |

`transfer` checks that a thread that finds its queue by slot number finds that
of its file (`SrcSlotsBelong`), that file numbers, sizes and bytes are read as
what they are (`StreamsInStep`), that `mig_ended` means nothing is left
anywhere (`EndedMeansAll`), and, under fairness, that the transfer implements
`FileMigration` with its liveness: every file is moved and the end declared
(`MovesFilesInTime`). The refinement maps `moved` to the contents of the SSTables
ingested, `ended` to `mig_ended` and `up` to `dst_up`.

`transfer_faults` checks, when any call may fail at any step, that SSTables are whole
when marked (`CompletedFilesWhole`) and sealed afterwards (`FinishedFilesSealed`),
the destination's ring (`DstSlotsBelong`), and the source's invariant `SrcRing`. The
last file has a deletion (`LastHasDeletion`): `num_entries` counts it and the iterator
does not yield it, so that `SendKVPairs` waits for ever at `src sst.cc:81`.
`OnlyDeletionsStarve` says that it waits in vain for nothing else.

`transfer_stranded` has the same failures without a deletion, so that `mig_ended` is
reached and calls fail before and after it. It checks the safety part of the
refinement (`MovesFiles`: the database has a prefix of the files, whole and in order,
and all of them once the end is declared), the order of the writer and the ingester
(`WriteOrder`), and `Backpressure`: at most `2 * num_queues + 1` files lie between
`ReadKVPairs` and the last file whose slot `WriteKVPairs` has freed. `send_cnt` and
`recv_cnt` do not bound this on their own, being raised when a file is claimed; the
bound comes from both rings and from the flag that answers every file number, and
it is reached: with one file fewer TLC finds it violated. Two leads-to properties are about a
dead peer. A source whose destination has died ends or has nothing left to send
(`SourceNotStranded`). A destination whose source has died is *told* of it
(`DestinationTold`): it ends, exits, or has had a `recv` return 0. That is weak on
purpose. Its payload loop (`dst sst.cc:52-63`) ignores the 0 and may then spin for
ever, which the property allows and does not catch.

`ingest` runs two migrations (`MigrationCalls`: the calls `IngestSstFiles` makes for
files of levels 0, 1 and 2) and the other calls the interface allows (several files,
copies, `ingest_behind`, no blocking flush, no global sequence number, checksums
right, wrong and missing, an old or empty file), every one with Puts, flushes and
failures at any step. Whatever fails, an SSTable can still be reached by its first
link or in the database (`NothingLost`), and a call leaves nothing in the database's
directories that no level lists (`NoLeftovers`), except a file whose deletion failed
and a copy that stopped half-way, which the code leaves there (`internal_file_path`
is set after the copy). `Run`'s assertion that no memtable overlaps holds
(`RunMeetsNoMemtable`), and so does the distinctness of sequence numbers
(`SeqnosDistinct`). In a migration a Put stays visible unless a file from level 0
hides it (`OnlyLevelZeroHides`), and what is read is the value the source reads,
never an older one (`SourceOrderKept`), as long as one file of level 0 at most holds
the key. With two it is not: the source lists the newest first (`src db.cc:17`), the
destination ingests in that order, and the older file gets the larger sequence
number. `PlacedByLevel`: the directory is the one `ReturnFilePath` chose.

`migration`: at most one message is on `main_fd` and the reader takes it for what it
is (`MainInStep`); the source's thread outlives the last question
(`SourceOutlivesQuestions`); a remote read returns the whole value of its key and
leaves nothing on a wire (`ReadsRight`); both programs end or exit (`BothEnd`). The
last one names its exceptions: a program whose peer never came, for which `connect`
and `accept` wait without limit; a transfer that spins after the source's death; a
`SendKVPairs` that spins for a file with a deletion (`SrcTransferStarves`, the
`OnlyDeletionsStarve` of the transfer); a `Get` of the source that fails with another status than `NotFound`, to which it
answers with zero bytes.

`queue`: nobody moves, constructs or destroys in the wrong memory, and a dequeue
finds the elements it claimed (`DequeuesRight`); claims and overcommits balance
(`NoneStranded`); blocks are in use or idle, never both or neither, and the
destructors return all of them and destroy every element (`BlocksAccounted`); the
free list neither loses a node nor gives it to two threads (`NodesKept`); a
sub-queue has one enqueuer (`OneWriter`).

**Findings.**
1. `slot_freed`. `kv_pairs[q] = nullptr` swaps the pointer word of the `shared_ptr`,
   then its reference count. `ReadKVPairs` spins on the pointer word only, and may
   assign the slot in between: `SendKVPairs` then releases the *new* queue. It is
   freed with both threads still using it. The pointer word itself stays right
   (`PointerIsFiles`, proved), which is why the program seems to work. Both programs
   have these lines.
2. `transfer_cutoff`. If the source exits between the file number and the size of a
   file's only pair, `recv` returns 0, and the uninitialised `data_size` may be 0:
   an empty pair is enqueued, written as the first key, and the SSTable is finished,
   marked and ingested. With two pairs or more the second key is not above the
   first, `Put` fails and the process exits, which is why `transfer_faults` holds
   with `PairedData`. The same file ends the destination in another way: the
   writer, done with it, frees its slot, and `RecvKVPairs` may still be about to
   enqueue into it. `NoLonePair` (section 4) is the condition that excludes both.
3. `ingest_overwrite`. `external_level` replaces the level the job picked, but the
   sequence number stays the one that goes with the picked level. A file that
   overlaps with a shallower level gets a larger number than the entries that hide
   it. During a migration this is what the authors want (a file must not hide what
   is above it), yet it contradicts `job.cc:717` and `dst db.h:1417`, and two files
   of level 0, or a file of level 0 after a Put, do hide newer values.
4. `queue_undo`. If the constructor throws for the first element of a block, the
   undo leaves that block in the list, reset and not empty. `~ExplicitProducer`
   takes it for a full one and destroys elements that do not exist. A failed bulk
   enqueue besides restores `pr_blockIndexSlotsUsed` but keeps the blocks in the
   ring. Only tokens come here, and the migration uses none; the same steps of
   `ImplicitProducer` are right (`queue`).
5. `owners_exit`. `~ThreadExitNotifier` reads `ptr->next` after the callback that
   marks the producer inactive, and `~ImplicitProducer` of an inactive producer does
   not wait for the mutex. `ReadKVPairs` (and `RecvKVPairs`) may end just as the
   other thread of its machine frees the last queue: the exiting thread then reads
   freed memory.

**Bounds.** Three files on two slots is the least instance in which a slot is
used twice while another is in use, and both a reader and a receiver can be a
whole ring ahead. `MixedData` has files of different lengths and pairs of one
and two bytes, so that a payload comes in one part or two. `HeaderCap = 2` and
`PayloadCap = 1` make each connection block in both orders (a size sent before
its bytes are taken, bytes before the next size). `Uninit = {0, 1}` covers a
`data_size` below and equal to a real one. `transfer_stranded` uses
four files on one slot, the least number for which the bound of `Backpressure` is met
and passed by one file when a thread claims too early; `PayloadCap = 2` lets the source
run that far ahead. `transfer_cutoff` needs two files on one slot. In `QueueSlot` three files share the slot: the third allocation can meet
the release of the first file's queue after that of the second.
Symmetry is not used there: files are numbers and their order matters.

In `ingest` three keys give ranges that are disjoint, nested and overlapping with a
gap (`{1, 3}` against `{2}`); of the three levels two belong to the first directory,
and one is level 0; `MaxSequence = 3` allows Puts before, between and after two
jobs. In `migration` two files and three keys (one at level 0 on the source, one
deeper, one missing), two pieces of a key and three of a value make every partial
`recv` and `NotFound` against a value distinguishable; five connections are those
the code opens. `MaxNum` is one more than the files there are: an uninitialised
`num_files` may be too small, right or too large, and of larger values only the size
differs. In `queue` blocks have two elements, two blocks are in the pool and
two on the heap, `MaxElements = 5` makes three blocks necessary, one of them used
twice, and index rings of two grow; calls of 1 and 3 elements start and end anywhere
in a block; two consumers interleave (symmetric). Three nodes and two threads
suffice for the free list's ABA; two threads of equal hash, a table of four, two
restarts and three producers make probing, doubling, taking over and reuse of ids
meet.

**Fairness.** `WF` for each of the five threads: the operating system schedules a
thread that can run, and the spin loops wait on memory that another thread writes. A
`send` or `recv` that can proceed does, and so does one whose peer has exited: the
fairness of `SendKVPairs` and `RecvKVPairs` covers `SendBroken`, `RecvReset` and the
`...Eof` actions, because TCP wakes a blocked call when the peer's socket closes. It
does not say which of them comes first, and a `send` into a socket that still has room
may go on succeeding. No fairness is given to a failing call or to an exit for any
other reason. `Phases` has `WF` for its four threads for the same
reason; that the workload stops asking follows from `mig_ended`, not from fairness.
The queue and the ingestion jobs are checked for safety only.

**Deadlock** is not checked: when the threads have returned, a process has exited,
or a bound is reached, nothing more happens. What would be a deadlock *before* the
end is caught by `MovesFilesInTime` and `BothEnd`.

**`AllLive`.** `transfer` and `transfer_stranded`, which check liveness, give every file
`num_entries` pairs. The code does not ensure it: `num_entries` counts deletions and
overwritten versions, and `SendKVPairs` spins on them. `transfer_faults` has such a
file, and the modules and proofs allow any (`DataAssumption` says `<=`). The last file
of `transfer_faults` is therefore never finished, and `mig_ended` is reached in
`transfer` and `transfer_stranded` only.

## 4. What is proved

Every safety property that a passing run checks is a theorem: for any number of files,
pairs, keys and levels, any contents, any capacity of the sockets, any set of failing
calls; for any number of threads, nodes and consumers of the queue, any size of its
blocks and indexes. Two of them, `DequeuesRight` and `BlocksAccounted`, are proved for
the sub-queues of threads without a token, the only ones the migration has; for those
of tokens they are model-checked, and do not hold when a call is undone (finding 4).
The `Spec` of the last five rows is that of `ConcurrentQueue`, of the others that of
`SstTransfer`.

| theorem | says | given |
|---|---|---|
| `TransferProofs!TypeCorrect` | `Spec => []TypeOK` | |
| `TransferProofs!SrcRingCorrect` | `Spec => []SrcRing` | |
| `TransferProofs!SrcSlotsCorrect` | `Spec => []SrcSlotsBelong` | |
| `TransferProofs!StarvesCorrect` | `Spec => []OnlyDeletionsStarve` | |
| `TransferProofs!StreamsCorrect` | `Spec => []Streams` | |
| `TransferProofs!StreamsInStepCorrect` | `Spec => []StreamsInStep` | |
| `DstProofs!DstRingCorrect` | `Spec => []DstRing` | `NoLonePair` |
| `DstProofs!DstSlotsCorrect` | `Spec => []DstSlotsBelong` | `NoLonePair` |
| `DstProofs!BackpressureCorrect` | `Spec => []Backpressure` | |
| `DstProofs!WriteOrderCorrect` | `Spec => []WriteOrder` | |
| `DstProofs!FinishedFilesStaySealed` | `Spec => FinishedFilesSealed` | |
| `DstProofs!EndedMeansAllCorrect` | `Spec => []EndedMeansAll` | |
| `DstProofs!SstFilesCorrect` | `Spec => []SstFiles` | `NoLonePair` |
| `DstProofs!CompletedFilesCorrect` | `Spec => []CompletedFilesWhole` | `NoLonePair` |
| `DstProofs!MovesFilesCorrect` | `Spec => MovesFiles` (refinement) | `NoLonePair` |
| `TransferProofs!SlotTypeCorrect` | `SlotSpec => []SlotTypeOK` | |
| `TransferProofs!PointerCorrect` | `SlotSpec => []PointerIsFiles` | |
| `PhasesProofs!PhasesTypeCorrect` | `PhasesSpec => []PhasesTypeOK` | |
| `PhasesProofs!MainInStepCorrect` | `PhasesSpec => []MainInStep` | `NumFiles > 0` |
| `PhasesProofs!SourceOutlivesCorrect` | `PhasesSpec => []SourceOutlivesQuestions` | |
| `PhasesProofs!ReadsRightCorrect` | `PhasesSpec => []ReadsRight` | |
| `IngestProofs!IngestTypeCorrect` | `IngestSpec => []IngestTypeOK` | |
| `IngestProofs!RunMeetsNoMemtableCorrect` | `IngestSpec => []RunMeetsNoMemtable` | |
| `IngestProofs!NothingLostCorrect` | `IngestSpec => []NothingLost` | |
| `IngestProofs!NoLeftoversCorrect` | `IngestSpec => []NoLeftovers` | |
| `IngestProofs!SeqnosDistinctCorrect` | `IngestSpec => []SeqnosDistinct` | |
| `IngestProofs!OnlyLevelZeroHidesCorrect` | `IngestSpec => []OnlyLevelZeroHides` | |
| `IngestProofs!SourceOrderCorrect` | `IngestSpec => []SourceOrderKept` | `SourceLevels` |
| `IngestProofs!PlacedByLevelCorrect` | `IngestSpec => []PlacedByLevel` | `WrittenByLevel` |
| `QueueProofs!NodesKeptCorrect` | `Spec => []NodesKept` | |
| `QueueProofs!OneWriterCorrect` | `Spec => []OneWriter` | `FewWriters` |
| `SubqueueProofs!NoneStrandedCorrect` | `Spec => []NoneStranded` | |
| `ImplicitProofs!DequeuesRightCorrect` | `Spec => [](part # "explicit" => DequeuesRight)` | |
| `ImplicitProofs!BlocksAccountedCorrect` | `Spec => [](part # "explicit" => BlocksAccounted)` | |

**Assumptions.** On the constants: those of `SstSocket` (`SizesAssumption`,
`DataAssumption`, `NullAssumption`) and `QueueSlot` (`SlotAssumption`): sizes are
numbers, a file yields no more pairs than `num_entries`, a null pointer is not a
queue; `RemoteAssumption` and `PhasesAssumption`: keys and their values have parts,
`NotFound` is shorter than a value, no SSTable holds a key the source misses;
`IngestAssumption`: calls are records of `IngestExternalFileOptions`, keys and levels
are numbers; `WritersAssumption` and `NodesAssumption`: threads and nodes are finitely
many, a hash is a number, null is not a node and the two keys that are no thread ids
(`invalid_thread_id`) are none; `BlocksAssumption`, `CallsAssumption` and
`IndexAssumption`: a block and the first index have more than one place (the
`static_assert`s at `concurrentqueue.h:795` and `798`), blocks are named by numbers, a
call asks for at least one element, and consumers are finitely many. TLC evaluates all
of them in the runs. Five theorems
and those built on them have a hypothesis besides:
- `NoLonePair`: either no file has a single entry, or the uninitialised `data_size`
  is never 0. It excludes finding 2 and no more: without it TLC finds
  `CompletedFilesWhole` and `DstSlotsBelong` violated. `EndedMeansAll`, `WriteOrder` and
  the streams do not need it.
- `NumFiles > 0` in `MainInStepCorrect`. With no SSTable at all, `DstTransferEnd` comes
  at once and the destination sends its last flag before the source has read the
  flag for the options; the source takes the two in the right order all the same.
- `WrittenByLevel`: `MyDB::ReturnFilePath` (`dst db.cc`) chose a file's directory by its
  level, out of the two of `cf_paths`. `IngestJob` does not write the files.
- `FewWriters`: fewer threads enqueue without a token than the first table has places.
  There are 32 places and one such thread for each queue of the migration. It is
  needed for the empty place in every table (a probe of a full one does not end), and
  by way of it for the rest. The code has an argument of its own,
  `implicitProducerHashCount`: it doubles the table in time when that count is right,
  but a place given up in an older table is not counted a second time, so for very
  many threads that come and go it is no proof.
- `SourceLevels`: the source lists its SSTables level by level, each once, and below
  level 0 no two of a level share a key: `GetLiveFilesMetaData` and RocksDB's own
  invariant of a level. It holds in the run.

**The source's ring.** `SrcSlotsBelong` is not inductive: it speaks of the two files
in hand, and the next step may take up another. `SrcRing` speaks of all files that
own a slot. They are `Freed .. Allocated - 1`, counted off the two threads' counters
(`SrcClaims`); there are at most `num_queues` of them and no other slot is in use
(`SrcWindow`); each queue holds exactly what was enqueued and not yet dequeued
(`SrcQueues`), and the pair in the sender's hand is the next one (`SrcInHand`). The
two facts of arithmetic it rests on are `SlotsDistinct` (of `num_queues` consecutive
files no two share a slot, so that a step on one queue leaves the others alone) and
`ModShift` (the slot found null is that of the file `num_queues` before, so that
file must have been freed and the window may grow). Freeing needs that the reader
has finished the file: the sender has taken `num_entries >= Len(SstData[f])` pairs.
`OnlyDeletionsStarve` follows: the sender's file is in the window, so its queue
holds what has been enqueued and not sent, and if that is nothing while the reader
has finished the file, all its pairs have been sent.

**The streams.** A *place* is the number of a file (`<<f, 0>>`) or one of its pairs
(`<<f, i>>`); `PlaceAfter` puts all places in one order. The headers on `sst_fds[0]` are
those of consecutive places, from the one `RecvKVPairs` will read next up to the one
`SendKVPairs` will send next; the payload is likewise a run of consecutive pairs, which
skips the file numbers (`Between`). Each send appends the next place, each `recv` drops
the first, and a thread's counters say which place it is at. So the two ends stay
together although neither connection carries a count. When a process has exited
nothing is added any more, and `recv` returns 0 only on an empty stream with the
source gone: from then on both stay empty and only garbage is received
(`StreamClosed`).

**The destination's ring.** Until the source is gone the argument is that of `SrcRing`
(`DstWindow`). Afterwards the file number may be any: `RecvKVPairs` may take a free slot
that `WriteKVPairs` expects for a later file, or enqueue into that of another.
What remains true is that the queue in a slot holds pairs of the file `WriteKVPairs` will
look for there, in order, then garbage only (`DstQueues`), and that the last pair of
the file in `RecvKVPairs`' hand is missing for ever (`LastMissing`), because the source
never sent it: so that file is never complete, its slot never freed under
`RecvKVPairs`, and the first piece of garbage the writer takes either is below the key
before it, which `Put` rejects, or is the first of several. `SlotsCounted` holds
throughout (each allocation fills a null slot and each release empties one), and
gives `EndedMeansAll`.

**Backpressure.** Five facts in a row, each about two neighbours: the file the reader is
at is within `num_queues` of the source's last freed one (`SrcWindow`); a file is freed
by the sender only after its number was acknowledged (`SentAcked`); a flag is sent
only for a file number received, and read once (`Acknowledged`, the one conjunct added
for this, inductive by itself given the types); of the numbers received all but the
last have a slot (`RecvSeen`); and slots allocated less slots freed are the slots in
use, `num_queues` at most (`SlotsCounted`). It holds whatever the destination reads once
the source is gone, so it needs no hypothesis.

**SSTables and refinement.** `WriteOrder` counts the finished and the ingested files off
the counters of the two threads; that a finished file is sealed follows because
the writer only ever touches the file it has claimed, and that one is not
finished yet. It holds whatever arrives, garbage included. `SstFiles` adds what is in
them: the one at hand holds the pairs taken so far, or a single garbage string, with
more garbage to come that `Put` will reject. With it each step of the five threads is
mapped: `IngestFile` to `MoveFile` (the file ingested is `Contents` of the next one),
`TransferEnd` to the end, an exit, before the end or after it, to the exit, every other step to a stutter.

**The slot.** The files whose queue the pointer word was given, and those it was
taken from, are two prefixes of the slot's files that differ by at most one
(`OneInSlot`); with what has been enqueued and sent before and after them
(`Progress`) this is inductive. The reference count does not occur in it, and
`slot_freed` shows that it could not. That no queue has more
pairs taken from it than put in it is part of `SlotTypeOK`.

**The two programs.** `MainLockStep` says for each place of the source's main thread
what is on `main_fd` and where the destination's is: each has sent what the other is
about to read, or has read all there is, and the number of files announced is the
same at both ends. It is claimed only while both run, since the end of the stream is
taken for an answer. `EndsInTurn` orders the ends: the source's workload thread
returns only after the destination is gone, the source only after that thread.
`ReadsRight` needs to know at every moment where the question and the answer are
(`QuestionInStep`), and that the parts received and the parts on the way make up one
answer to it (`AnswerWhole`), which stays true when the source dies in between: the
partial answer is then never returned.

**The ingestion job.** `JobTypes` and `JobClaims` say what a job has at each of its
steps. `FilesInv` follows the files: their numbers come from one counter, so that the
job's are in no level until the edit is logged (`FileNumbers`), the links made so
far are whole and the job's own (`JobFiles`), and after the edit each file is in the
caller's level (`JobInstalled`); so `Cleanup` removes an original only when the
database lists the file, and deletes only what no level lists. `SeqnosInv` bounds every
sequence number by `last_sequence`, but those a running job has taken, which are above
it and distinct (`JobSeqnos`); writers are stopped meanwhile. For what a `Get` answers,
memtables reach level 0 in the order they were filled (`FlushOrder`), and the levels
hold exactly the files of the calls made so far, each at its level (`MigrationInv`);
`SourceLevels` then makes the first level that holds a key that of the first file of
the source that does.

**The free list.** Of a thread's call it matters whether it counts a node (`Counts`),
has it to add with no reference left (`Closed`), has given it the list's reference
(`Opened`), or has popped it (`Popped`). `NodeRight` relates this to the node's word:
the count is that of the threads that count it, and one for the list or for the
thread that puts it there or has popped it; a node that should be on the list is on
nobody's hands, and if nobody counts it somebody is about to add it; at most one
thread has it. `InOrder` says that the pointers from the head visit the nodes of the
list and end. The ABA hazard is the last line of `CallRight`: the next pointer a thread
has read stays that of the node while the thread counts it, because only who has the
node `Closed` writes it and then nobody counts it. So a compare-and-swap that succeeds
takes the first node off the list whatever happened since the head was read, and what
is left is in order. `OnList` is a recursive function; that it is the whole list
(`OnListIs`) is shown by giving its values, and that there is only one such function by
the least index at which two would differ.

**The table of threads.** A producer is a thread's from its creation, or from the
compare-and-swap on `inactive`, until it is marked inactive (`Possesses`), and then
only one thread's (`OnePossessor`). That the table answers with the thread's own
producer rests on two facts: a key is found if it is there, since the places before it
in the thread's sequence of probes never become empty again (`KeysFound`); and the key
of a thread that has exited is scrubbed from all tables before its producer is given
up (`KeysInv`), so that a thread under the same id does not find it. An empty place
remains because each reusable one can be left to a thread that is not in the table and
would find it (`LeftTo`): so the places taken are at most as many as the threads.

**The counters of a sub-queue.** A dequeue claims before it looks: it adds what it wants
to `dequeueOptimisticCount`, and adds what it cannot have to `dequeueOvercommit`
afterwards. `CountersInv` has the sums over all consumers: the claims are the elements
taken, those given back and those still open (`Claimed`), and the head with what is
still due (`Due`) is not beyond the tail. The second is not inductive as it stands,
since the consumer that looks at the tail again may be granted elements another one has
counted on. So it is stated for each open claim, in the order of their places
(`myDequeueCount`): with the claims placed before it, it either fits below the tail
(`ClaimCovered`), or the claims before it cannot take more than the count from which it
was made (`ClaimPlaced`), whatever overcommit it had read, however old. `headIndex`
therefore never passes `tailIndex`, and with no open claim the counters balance. Both
kinds of sub-queue share these steps, and the theorem is about both. Sums over a set of
consumers are cardinalities of sets of units (`Total`), so that no induction is needed.

**The index of an implicit producer.** Blocks have numbers, those of their first
elements divided by the size of a block. An entry of the index keeps the number it was
last used for; a ring has its entries in the order of their numbers, but from where in
the ring they start depends on when it was filled. What is invariant is a congruence:
modulo the size of the ring, an entry's number is its place plus a constant
(`NewestRing`). When the ring is full and its next entry still in use, a ring of double
size takes over, and the congruence holds there for the entries copied and for those to
come. The older ring shares the entries; they are used again for numbers that differ by
multiples of a larger size (`OlderRing`), so its congruence stays, and a consumer that
still holds the older ring computes the right place in it from any entry it has read
before, even if that entry has been used again since (`AimRight`). That its block's
entry is in the ring it holds follows because a block with an element claimed and not
moved out is not returned, and its entry not used again.

**The blocks of an implicit producer.** `BlocksRight` says there is a function `at` from
the numbers of the blocks in use (`HeldNums`) to blocks, one to one, whose range is
exactly the blocks that are not idle, such that the entry of a number has its block
(`EntryRight`), the block has the elements of that number constructed and not moved out,
and is flagged for those moved out (`BlockRight`), and a consumer that has looked up its
block has that one. A block leaves `HeldNums` when the consumer that has flagged its
last element returns it, and only one consumer flags the last (`EmptyingInv`); it joins
when the producer's call has its entry. The elements of two consumers are disjoint
(`RangesInv`), so that a step of one leaves the other's elements where they are. While a
call adds blocks, or takes them back after a failure, `NumAtTail` and `UndoneNums` say how
far the index is. `DequeuesRight` is then a matter of definitions. For `BlocksAccounted`
nobody is in a call, `HeldNums` are the numbers from the head's to the tail's, and the
walk of the destructor over the elements that are left meets each of them, the tail's
block being the last.

**Model-checked only.** `MovesFilesInTime`, `SourceNotStranded`, `DestinationTold` and
`BothEnd`: liveness under fairness and `ENABLED` are beyond the prover.
So are `DequeuesRight` and `BlocksAccounted` for the sub-queue of a token
(`ExplicitProducer`): its blocks form a list that is walked and refilled, of which the
invariant above says nothing.
The inductive invariants above were first checked with TLC on the instances of the
runs `transfer_faults`, `transfer_stranded`, `migration`, `ingest` and `queue`; `SrcRing`
and `WriteOrder` are properties of a run still, the others are not, since the theorems contain them.

## 5. What is not modelled

- Slots are assigned in one step in `SrcSst` and `DstSst`; `QueueSlot` shows the
  exception. After the premature free `QueueSlot` goes on as if the memory were
  intact.
- Headers are atomic messages: a `recv` that returns part of a `size_t` is not
  there. The text of a pair is not either: `key,value` is cut at the first comma.
- `Phases` takes the transfer for what `FileMigration` promises, `SrcSst` and
  `DstSst` take the queue for a FIFO of one producer and one consumer that never
  fails to allocate: the composition is by these interfaces, not in one state space.
  The FIFO is not derived from the queue's modules by a refinement.
- The queue: atomic operations take effect in one order, weaker orders are not
  explored; indexes do not wrap; a behaviour of `ConcurrentQueue` is that of one of
  its parts, with the others at their interface; `ImplicitProducers` has one queue.
  `try_dequeue`'s choice among sub-queues by `size_approx`, the rotation of consumer
  tokens, move, swap and the semaphores are left out: the program has no tokens, one
  enqueuing thread for a queue, and moves no queue.
- A few neighbouring accesses are one step, where nothing another thread does between
  them makes a difference to a property: in `Scan` the load of `inactive` and
  the step to the next producer, in `LookInactive` the load and the choice made from it, in `ObtainBlock` the ways to get a
  block, its `reset_empty` and the store of its index entry (the free list has a module of its own),
  and in `RemoteGet` the test of `mig_ended` and the operation it admits. `DstSst`, where
  the last would matter, lets the operation outlast the flag.
- What no property catches, though the model has the behaviour: a destination that
  spins in its payload loop after the source's death; a level that hides what is
  deeper when two overlapping files come from level 0 (`SourceOrderKept` excludes them,
  finding 3). What the model has not got: a file in a directory that belongs to no
  level (`job.cc:102` then leaves the picked level; files are given by
  `ReturnFilePath`), an answer that begins like `NotFound`, and the data race on
  `num_files` and `mig_ended` beyond the values named.
- Ingestion: `UpdateStats` changes counters only; range tombstones, universal
  compaction and dynamic level bytes (`base_level` is 1) do not occur with the
  options of `dst main.cc`; compactions are off while files move. The tables of a
  file are read as sets of keys, never corrupt block by block.
- RocksDB itself is its calls: the iterator yields the file, the SSTable writer
  keeps what it was given and rejects keys that do not ascend. In `DstSst` an
  ingestion happens at once or fails; `IngestJob` is what stands behind it.
- Only processes fail, never machines: nothing is restarted in this code, and an
  unsynced file (`job.cc:132`) is not lost here.
- Timers, output, build.

## 6. Plan

1. **`KVCodec`**, **`SstFraming`**: the text of a pair, and headers byte by byte, as
   functions checked against a reference over bounded inputs.
2. The choice among sub-queues in `try_dequeue`, and a refinement of a FIFO by the
   implicit producer with one consumer.
3. Failing allocations of `enqueue` in the transfer, whose result `src sst.cc:45` and
   `dst sst.cc:65` ignore.
4. For the sub-queue of a token: its list of blocks as an inductive invariant, when no
   call is undone.
