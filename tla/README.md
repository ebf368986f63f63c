# A TLA+ verification of stafeto

stafeto is a POSIX operating system on its own capability microkernel, in Rust
for AArch64. The kernel (`kernel/`, with the pure rules and data structures in
`kcore/`) offers processes, threads, channels, timers, memory objects and
interrupts behind handles with rights. Drivers and services (`services/`) are
ordinary processes, and POSIX is a layer of libraries (`lib/posix-*`) over them.

This directory models the parts of the kernel where several CPUs, or several
processes, meet over shared state, the waits by address and the delivery of
signals in the POSIX layer, and the package service with its store on the disk,
and states what must hold whatever order they meet in and wherever the machine
stops. TLC checks each module on a small instance. TLAPS proves the safety
properties of the six modules of the kernel and of the package service, the
refinement of its store, and of the POSIX layer the exclusion of its lock and the
answers of counted waits, for every value of their constants.
`PROJECT.json` is the index: components, runs, the source lines each definition
stands for, findings, hazards, theorems.

## 1. The system

### 1.1 How the kernel is built

* Interrupts are masked while a CPU is in the kernel, and no call of the kernel
  blocks inside it. A CPU enters from EL0 (a call, a fault, an interrupt), does
  its work, and leaves through `sched::exit_loop`, which serves the cleanup
  queue, marks quiescent points, selects a thread, or sleeps.
* Kernel objects change in short **sections under OBJ**, one ticket lock for all
  (`kernel/src/obj.rs`). What is visible outside it, and so interleaves, is: a
  few lock-free words (the epoch and the marks, `LINES`, `PENDING`, the gate of
  a process, the tags and `active` words of ASIDs, the words of the idle poll),
  the registers of the interrupt controller and the MMU, and what a CPU does
  between two sections of one operation.
* The scheduling state of a thread belongs to **its CPU**. Another CPU sets a
  flag in the thread and sends a **command** (`cmd.rs`) through a ring with a
  bell or an SGI.
* Nothing long happens in a call. The end of a process, the close of a channel
  and the continuation of a suspended process are **items of cleanup queues**,
  served in portions (`cleanup.rs`).
* Memory that is read without a lock goes back by **quiescent-state
  reclamation** (`qsbr.rs`).

### 1.2 Above the kernel

* A thread of a POSIX program has one block, one channel and one timer. A wait
  by address links the block into a bucket and receives on the channel; a signal
  enters the thread as an upcall, ends the wait, and its handlers may wait with
  the same block, channel and timer (`lib/posix-sync`, `lib/posix-abi`).
* The package service (`services/pkgd`) has two threads. The **main thread**
  serves the sessions; the **worker** has the disk, hashes and writes what came,
  and makes the transactions. They share a cell with one job, the flag CANCEL,
  the count FED and the owner of the open group, without a lock.
* A transaction writes the data and a flush, the table whole into a free extent
  and a flush, then the superblock into the older of two copies and a flush; the
  layers of packages attach to the file service before the superblock or detach
  after it, by the kind of the transaction.

### 1.3 Inventory

| Component | State | Operations | Meets | What makes it correct |
|---|---|---|---|---|
| Reclamation (`kcore/qsbr.rs`, `kernel/qsbr.rs`) | epoch, a mark for each CPU, lists of retired objects, PENDING | retire, quiesce, passed, reclaim, begin_wait/end_wait | every lock-free reader; `exit_loop` of every CPU | no pointer outlives its object; every period ends |
| Interrupt bindings (`irq.rs`, `interrupt.rs`) | LINES, bindings with handles, refs and mask, GIC registers | irq_bind, irq_ack, handles, the handler, cleanup | the handler reads LINES without a lock; memory by reclamation | deliveries reach the present binding only; a line serves one interrupt at a time |
| Process control (`process/control.rs`, `teardown.rs`, `cleanup.rs`) | stage, gate, list of parked threads, resume level, refs, the item | suspend, continue, kill, exits, portions | commands to the CPUs of threads; reclamation's wait | the item is in one place; no thread is forgotten or runs past its stop |
| Commands (`cmd.rs`, `idle.rs`) | flags of threads, outboxes, rings, POLLING/BELL words, SGIs | post, flush, ring, poll, drain, sleep | every section that touches a thread of another CPU | no command is lost, doubled or outlives its thread |
| ASIDs (`kcore/asid.rs`, `kcore/tlb.rs`, `mm/aspace.rs`) | generation, `active` and reserved tags, tags of spaces, TTBR0, TLBs | switch (fast, slow), new generation, unmap, release | reclamation's period before a space goes | no CPU uses a stale or a foreign translation |
| Channels, sessions, tokens (`channel/`, `session.rs`, `kcore/notify.rs`, `kcore/token.rs`) | one queue of receivers or of slots and requests, counts, handles in transit, table of thread numbers | send, receive, reply, notify, label, close, interruption, ends | process teardown, cleanup, handle tables | a reply reaches its request; counts are exact; nobody waits for ever |
| Scheduler and inheritance (`kcore/sched.rs`, `sched.rs`) | 64 ready queues for each CPU, boosts | wake, set_priority, boost, lift_servers | commands, channels | the highest ready level runs; a boost ends with its cause |
| Upcalls (`kcore/upcall.rs`) | masks, pending requests, frames | request, enter, return, masks | waits in channels | a request ends a wait or is entered before one begins |
| Timers (`kcore/timer.rs`, `timer.rs`) | heaps by level, the chain of dying timers | set, cancel, fire, reap | commands (the chain), channels | a timer fires once after its time; its memory outlives its place |
| Teardown of trees (`process/teardown.rs`, `kcore/process.rs`) | parent/child lists, stages | stop, children, hasten | cleanup | a subtree ends before its root's shell goes |
| Handle tables, quotas, frames, slabs | generations, free lists, counts | alloc, free, charge | under OBJ | sequential; host tests cover them |
| Memory objects, mappings (`memory.rs`, `process/maps.rs`) | page tables, ranges | map, unmap, protect, long calls in portions | TLB maintenance, quiet CPUs | no frame goes back while it is mapped |
| OBJ (`obj.rs`, `kcore/sync.rs`) | ticket, holder | lock, unlock | everything | mutual exclusion in order of arrival |
| init (`services/init`) | the services and their states | start, restart | channels, process ends | a service that ends comes back |
| pipe, ramfs, process, tty, drivers | their own tables; one thread each | requests of clients | channels | per service |
| Package service (`services/pkgd`: `main.rs`, `jobs.rs`, `receipts.rs`) | job cell, CANCEL, FED, receipt, group, sessions | begin, feed, commit, cancel, changes, TAKE, the end of a session; the worker's jobs | two threads; sessions that go | the store is never held for a session that went; the bytes of a FEED have their window |
| Store of packages (`commit.rs`, `plans.rs`, `store.rs`, `worker.rs`) | superblocks, table, extents, layers, objects | start, format, transactions, undo | disk service, file service, crashes | old state or new one, whole; the tree shows the accepted state |
| Waits by address (`lib/posix-sync`) | buckets of waiters, words of the program, the lock of the layer | wait, wake, timeout, lock, unlock | notifications, timers, signals | no wake is lost; the lock comes |
| Delivery of signals (`lib/posix-abi/src/signals.rs`) | pending signals, deferred entries, stops | entry, park, take, handlers, return | waits by address | a wait that was interrupted goes on or ends |
| POSIX layer, runtime, applications, tools | – | – | – | library code in one process |

### 1.4 What is hard here

The list with lines is `hazards` in `PROJECT.json`. The themes are:

* a word read without a lock and used after it changed: LINES in `deliver`, the
  gate on the way to EL0, the marks read one after another, the generation and
  the `active` word of a fast switch;
* two steps that are not one: take of an item and its section, mask of a line
  outside the section that found it unbound, compare-and-swap of `active` and
  the write of TTBR0, load of the epoch and store of the mark;
* sleep against wake: the poller that leaves its window while a sender rings, a
  CPU at EL0 that has to pass a period, a thread that parks as its process
  continues, a call that blocks as an upcall is asked for;
* references through failures: a message that does not fit, an interruption, a
  close or an end in the middle of a transfer;
* a stop of the machine, an error or a silence of the disk between any two
  writes of a transaction;
* two threads that share a few words: a session that goes while the worker opens
  a group for it;
* a handler that waits over the wait it interrupted;
* numbers that come back: thread numbers and ASIDs, their counts and their
  generations at the limit.

## 2. Modules

| Module | Models | Composes |
|---|---|---|
| `Reclamation` | the promise: an object is read while linked, and freed when retired and held by nobody | – |
| `Qsbr` | epochs, marks, lists, PENDING, the waits, `exit_loop` | implements `Reclamation` |
| `QsbrProofs` | its theorems | `Qsbr` |
| `IrqLines` | bindings, their calls, the handler, the GIC's enable and trigger bits | the memory of its bindings follows `Reclamation` |
| `IrqLinesProofs` | its theorems | `IrqLines` |
| `ProcessControl` | suspend, continue, kill, exits, portions, commands UNPARK, LEVEL and EXIT | takes `Qsbr`'s promise for the stage Threads |
| `Commands` | flags, outbox, rings, bell, poll, drain, sleep | – |
| `Asid` | switches, generations, TTBR0/TLB, unmap, release | takes the promise of a period for spaces that end |
| `Channel` | messages, tokens, sessions, handles in transit, close, ends | takes cleanup portions as fair steps |
| `ProcessControlProofs`, `CommandsProofs`, `AsidProofs`, `ChannelProofs` | their theorems | the module of the name |
| `Futex` | waits by address over one bucket, the lock of the layer, entries of signals and handlers | – |
| `FutexProofs` | its theorems | `Futex` |
| `AtomicStore` | the promise: a change is made whole or not at all, and a start finds the last state made or one under way | – |
| `PkgStore` | the disk, the start, the format, the steps of a transaction, the tables, the layers | – |
| `Pkgd` | the two threads of the package service, and crashes | extends `PkgStore`, implements `AtomicStore` |
| `PkgdProofs` | its theorems, and those of the store | `Pkgd` |
| `MC*` | the instances | – |

A definition keeps the name of the code where it can; `map` in `PROJECT.json`
gives the lines. The mutants, marked by a comment before them, are wrong forms
of single definitions; they show that each property can fail and are used by no
specification.

### 2.1 Reclamation, Qsbr

`epoch` and `seen` are `Grace`; `pending` is PENDING; `retired`, `ep` and
`batch` are the list of a CPU, the epochs of its objects and what `reclaim` took
off; `pc[c]` follows `exit_loop`: `top` (the loop), `load`/`store` (quiesce),
`scan` (passed, one mark at a time), `free`, `go`, `idle`, `el0`. The actions:

* in the kernel: `Link`, `Read`, `Unlink`, `RetireEpoch` and `RetireAppend`
  (retire gives the epoch and then appends, and rings the others), `GateUp`,
  `BeginWait`, `WaitEpoch`, `Look`/`LookNext`/`LookAgain`/`LookDone` (passed and
  end_wait of a suspension), `GateDown`;
* on the way out: `Resume`, `Poll`, `Decide`, `QuiesceLoad`, `QuiesceStore`,
  `ScanNext`, `ScanTake`, `ScanEnd`, `Free`, `RunGated`, `Park`, `RunOther`,
  `Clean`, `Sleep`, `Awake`; from outside, `Enter` and `Wake`.

The atomics of marks and counter are SeqCst in the source; steps interleave and
are not reordered. Two users of a period are modelled: objects (bindings of
lines) and the wait of one suspension. The two-second limit of the wait is not.

### 2.2 IrqLines

`lines` is LINES; `enabled`, `edge`, `pending` the GIC; `life`, `handles`,
`refs`, `masked`, `queued`, `cleanup` the bindings; `section` says which call is
inside OBJ and between which of its writes, `handler` where the handler is and
what it read. The handler runs on one CPU (shared lines are routed to it): the
acknowledgement of the GIC, the look at LINES, the section of `deliver`, or the
mask of a line found unbound, are a step each. `irq_bind` (`Bind`, `SetTrigger`,
`Open`) and the last release (`ReleaseHandle`, `MaskLine`, `UnlinkLine`) write
LINES, the trigger and the enable bit in steps the handler can see between.
`Ack` is irq_ack; `TakeSlot`, `Clean` and `Reclaim` end a binding.

### 2.3 ProcessControl

One process with its item. `queue` is the CPU in whose queue the item stands;
`pc[c]` is `taken` between the queue and the section, then `continue` or `clean`.
The stages from Stop to Notify are one, `rest`, because nothing between them
meets the item or the threads. `posted` are the commands UNPARK, LEVEL
(`SetPriority`) and EXIT on their way to the CPU of a thread.

An assertion of the code that fails, or a promise it works by that breaks (an
item queued twice, a second portion beside the first), sets `failed`, and the
model follows the kernel no further. Suspend, continue and kill come at any
moment. Two histories say how far the code's own comments carry:

* `raced`: a suspension found the continuation's portion running, and `cancel`
  cleared `resume_level` and left the rest to the portion. The portion may then
  meet its assertion; a kill before its section takes a second reference and
  queues the item, which the portion queues again; a continue queues the item
  beside the portion. `ItemOnce` and the exactness of `References` end there.
* `again`: `teardown::begin` passes over the thread that called it where that
  heads the list alone. From a deeper place it is stopped a second time:
  `ask_exit` expects the number it gave back, or the word of its deferred EXIT is
  written anew, without the reference it was to hand over (`UNHELD`, and then the
  thread is `lost`).

`AssertionsHold` says that these two are the only ways an assertion fails.

### 2.4 Commands

`cmds[t]` are the flags of a thread; `outbox`, `kicks`, `mask`, `to` are the
sender's; `rings[to][from]` the queues; `word[c]` is POLLING/BELL of the idle
poll and `sgi` the pending SGIs; `batch`, `left`, `bell` the receiver's drain.
`Section(c)` is what a section may post (wake, level, exit, reap); `Kernel(c)`
every other step of the kernel: copy, push, ring, poll, sleep, take, wait for
copies, serve. WAKE stands for WAKE, START and UNPARK; LEVEL for LEVEL and BOOST.

### 2.5 Asid

A switch is `Activate` (the loads), `CompareExchange` and the write of TTBR0, or
the slow path in a section: `Keep`, `Adopt` of a reserved number, `Take` of a
free one, or `NewGeneration` with `Reserve` over the `active` words, one at a
time; then the flush if one is owed and the switch. `Unmap`/`Forget`, `Retire`
and `Release` are the ways a page and a space go. Every CPU may fill
its TLB from its TTBR0 at any step. Between the compare-and-swap and the write
of TTBR0 a CPU still has the old tables, under a number the generation may have
given away; it touches no address of a program then, and the properties are
about `Settled` CPUs, outside of that window. The empty table that the flush
path installs first is an order the properties do not need, a defence against
speculative walks. Loads and stores are sequentially consistent. `Forget` drops
every entry of the ASID where the code's instruction names one page; a space of
the model has one page, and an entry more or less is a walk more or less.

### 2.6 Channel

One channel with one session, two or three processes. `k` is the object graph
(queue, counts, waits, handles in tables and in transit, the slots' bits);
operators that take and return it compose in the order of the code:
`LetGo`, `DropTransit`, `ReleaseSession`, `ReleaseChannel`, `Close`, `Withdraw`,
`Deliver`. The actions are the calls by outcome (`SendFails`,
`SendInterrupted`, `SendQueued`, `SendMet`; `ReceiveWaits`, `ReceiveSlot`,
`ReceiveRequest`, `ReceiveUnfit`; `Reply`, `ReplyDead`; `Notify`, `Label`,
`LabelUnfit`, `Duplicate`, `CloseHandle`; `Interrupt`, `RequestUpcall`,
`EnterUpcall`; `Create`, `Exit`, `EndProcess`) and the portions of cleanup
(`CleanChannel`, `ThreadsDone`, `WakeClient`, and the stages Handles and shells).
`given` and `request` are history: the tokens given out, and the token under
which each waiting thread was accepted. A thread calls while its process is
whole: one that entered the kernel before the end and takes its section after it
(`process/table.rs` lets it) finds BAD_STATE or what another call leaves, and is
left out.

### 2.7 Futex

One bucket (`waiters`, `lock`, `list`), the words, and for each thread its block
(`addr`, WAITING and the flag of a wake), its channel (the slot's bits and the
timer's notification), its timer and a **stack of frames**: the program at the
bottom, a delivery above it. `futex_wait` is `CallWait`, `Count`, `Compare`
(under the lock of the bucket), `Arm`, `ReceiveBits` or `ReceiveTimer`,
`CancelTimer`, `Finish`; `futex_wake` is `WakeRead` (the count without the
lock), `WakeLock`, `WakeOne`, `WakeUnlock`; the lock of the layer is `CallLock`,
`Swap`, `Unlock` with waits and wakes between. `Kill`, `Stop` and `Cancel` come
from outside; `Enter` or `DeliverDeferred`, `park`, `Check` (which ends the
wait, `abandon`), `Take` and `Return` (`resume_wait`) are the delivery.
`route` takes the locks of its tables before `abandon` and so meets no bucket;
the swap of an unlock and the load of the count are SeqCst, and the model is
sequentially consistent.

A cancellation sets `asked`, puts CANCEL into the slot and, for a thread at a
point of cancellation, asks for an entry; `park` sends again what it received,
WAKE and, while `asked`, CANCEL. A frame is `native` when its delivery is an
entry's: one that is not leaves a signal whose handler wants the interrupted
context to an entry it asks for. `over` is history: the threads a handler of
which began while their wait was still marked (section 5.1).

### 2.8 PkgStore, Pkgd, AtomicStore

`medium` is what a crash finds and `pend` the writes of each block since the
last flush: a flush makes them the medium, and a crash keeps of each block what
was there or any one of the writes (a superblock may also be torn). `table` and
`opened` are TABLE and OPENED; `objects`, `layers` and `entries` what the worker
holds of each place; `tx` the transaction under way, whose steps are those of
`transact`: `DataFlushed`, `write_table`, `TableFlushed`, `attach`,
`write_super`, `Committed`, then `publish`, with `EarlyIo`, `NoSpace`,
`AttachRefused` and `LastIo` for the ways out, and `undo` in two of them.

The main thread's handlers are a step each (`install_begin`, `feed`,
`feed_too_long`, `install_commit`, `install_cancel`, `change`, `settle`, `take`,
`session_gone`); the worker's steps are the parts of `serve` and of the jobs
between which the main thread, or a crash, is seen. `held` and `flight` are
history: the state a client was told of, and those under way. The refinement
maps them to `AtomicStore`'s; a start maps to `Recover`, and has to find in
`medium`, record by record, what `held` or a member of `flight` says.

Abstracted: extents are of one size, so that a table, a package and a blob
compete for the same places; the SHA-256 of a table or a file is its content; a
FEED brings the whole package; a list of revocations names the packages
themselves.

What goes wrong: a device call fails at any place, the superblock's write and
flush included, with the disk alive or dead after it (`mode`); a start may fail
to read any block, and takes a copy it cannot read as not good; the file service
may refuse a layer, at a start or in a transaction, or keep one it is to detach:
`detach_layer` gives up, and `stuck` are the contents that the tree shows and
LAYER_OF has forgotten, `out` the packages of the table that have no layer.
`listed` says that the list of revocations was read. `begin_invalid` is a begin
that leaves the group as it is, `begin_refused` one that drops it. A session
sends what it likes at any time.

Three histories, of which the properties speak (section 5.2): `sure` is "no" from
the job that begins after a superblock whose write failed, until the next change
is made, and "lost" after a crash in that time or a start that opened the older
copy; `hasty` says that a session dropped its receipt while its own begin was
under way.

## 3. Runs

| Run | Instance | Shows |
|---|---|---|
| `qsbr_periods` | 2 CPUs, 1 object, 4 epochs, batches of 1 | `NoUseAfterFree`, `SuspensionIsQuiet`; `PeriodEnds`; `Reclaims`, the refinement |
| `irq_safety` | 2 lines, 3 bindings, 3 slots, 2 handles | `References`, `MaskedStaysShut`, `DeliversToBound`, `FollowsReclamation` |
| `irq_open` | 1 line, 2 bindings | violated: `BoundIsOpen` (section 5) |
| `control_process` | 2 CPUs, 2 threads, portions of 1 | `ItemOnce`, `References`, `AssertionsHold`, `NobodyForgotten`, `StoppedForGood`; `ParkedGoesOn`, `TornDown` |
| `control_racing` | the same | violated: `ContinuationHasReference` (section 5) |
| `commands` | 2 CPUs with a thread each, batches of 2, one dying timer | `OnceInQueues`, `KeptByReference`, `Rung`, `WokenAfterCopy`; `Taking` |
| `asid_spaces` | 2 CPUs, 4 spaces, 3 numbers, 2 generations | `OwnEntries`, `Forgotten`, `OneSpaceAnAsid` |
| `ipc_requests` | a server, 2 clients, 2 numbers, counts to 2 | `NeverBoth`, `AnswersItsRequest`, `TokenOnce`; `ClosedWakes`, `RepliesWake` |
| `ipc_sessions` | a server and a client, 4 handles, 1 session, counts to 1 | `ReferencesExact`, `GoneIsLast`, `PutInTime` |
| `futex_waits` | 3 threads, 1 word, the lock, up to 2 events from outside, 2 frames | `BucketExact`, `NoLostWake`, `WakeIsKept`, `LayerExclusive`; `LockComes`, `DeadlineEnds` |
| `futex_late` | the same | violated: `HandlerUnlinked` (section 5) |
| `pkgd_store` | 2 sessions, 2 names, 3 places, 4 extents, 3 contents, 1 failure, 1 crash, 1 layer kept | `LayersMatch`, `HandOff`; `Atomic`, the refinement |

The passing runs reach between twenty-two thousand (`control_process`) and three
million (`asid_spaces`, `pkgd_store`) distinct states, each run in under four
minutes.

Bounds, and why the interesting cases happen within them:

* `MaxEpoch = 4`: the counter starts at 1, so three periods: retirements of an
  object that is bound anew each time its memory came back, and waits of
  suspensions, in any order. Two CPUs are a reader and a reclaimer; `passed`
  reads the marks in any order. With one object a list holds one entry; the
  proofs have no bound on CPUs or objects, and `MaxEpoch` is any positive number.
* `irq_safety`: three bindings on two lines let a line be bound anew while the
  old binding is queued, in cleanup or retired; `MAX_SLOTS = 3` makes the limit
  of slots fall between two and three bindings. The proofs have no bound.
* `control_process`: two threads and portions of one are the smallest instance in
  which a continuation or a stop takes two portions, so that everything can
  happen between them.
* `commands`: two CPUs with a thread each ask each other at the same time, and wait
  for each other's copies. With batches of two a pass of `take_batch` is followed by
  another, and a thread that is posted again between them fills the batch, so that
  the dying timer, or a third command, is left to the self-SGI. `Taking` needs a place of
  the batch for each other CPU: with fewer, the CPUs that `take_batch` asks first
  may fill every batch for ever. The code has 8 places and at most 8 CPUs, so a
  pass always asks every queue. More threads and CPUs are for the proofs.
* `asid_spaces`: four spaces on three numbers exhaust the numbers and force the
  change of generation, in every step of the other CPU's switch. `Mortal` and
  `Paged` restrict which space ends or loses its page to one, since spaces are
  symmetric but for that. Two generations do not reach a reservation that is kept
  through a second change; the proof (section 6.5) has no bound on generations.
* `ipc_requests`: a number that goes through its counts, comes back and is
  retired, with two clients so that a token may meet another thread's request.
  In `ipc_sessions` each of the four handles may be in a table, in transit or
  gone, RECEIVE itself among them. The proofs have no bound on threads,
  processes, handles, numbers or counts.
* `futex_waits`: one thread that events come for and that waits, with a call left
  for its handler, one that wakes, and all three over the lock of the layer, so
  that a third waiter stands behind the one that is woken. `Uses` says which calls
  a thread makes, and `Plans` how many, with how many events: every thread calls
  once under one event; the thread that waits has a second call, for its handler,
  under two events beside the waker, or under one beside another thread at the
  lock. Two events are the stop or cancellation and the signal behind it of
  section 5.1. The proofs of section 6.7 have no bound.
* `pkgd_store`: four extents and three contents fill the disk, so that `NoSpace`
  and the reuse of extents happen; three generations are the format and two
  transactions, so that both copies of the superblock are used. One device call or
  layer fails, one detach gives up, the machine crashes once, sessions go or
  cancel in haste, at any step and in any order, but at most two such events in
  one life of the machine with what came before (`FewMishaps`): any two meet. A
  group has up to two packages. The proofs have no bound on any of these.

Deadlock is checked except in `asid_spaces` (the bound on generations stops the
switches), in the runs of Futex and in `pkgd_store` (the bounds on calls and contents
are used up) and in the runs of ProcessControl and Channel, where the system may
really stop: processes ended, their counts are used up and nothing is left.

Symmetry is used only in runs of safety properties without fairness.

## 4. Fairness

* `Qsbr`: `WF` of each CPU's way out (`Proceed`): a CPU in the kernel goes on,
  interrupts being masked. `SF` of `Decide`: interrupts do not come so fast that
  the loop never gets past its poll. `WF` of `Enter` and `Wake` **of a CPU that
  was rung**: an SGI is taken at EL0 and ends WFI. A CPU that was not rung may
  stay at EL0 or asleep for ever.
* `ProcessControl`: `WF` of a begun portion, of parking and of a rung CPU's entry;
  `SF` of `Take`, `Serve` and `CleanThread`: commands are served on every entry,
  and the portion of an item wins over threads of its level, so that it is not
  put off for ever by each new selection.
* `Commands`: `WF` of `Kernel(c)` alone. New sections are never forced, nor is
  the wake of WFI by an unrelated interrupt (`WfiOther`).
* `Channel`: `WF` of the portions of the channel, of the ends of the threads of
  a process at its stage Threads, and of its stages Threads and Replies: the
  cleanup queue is served. No client or server is assumed to do anything.

* `Futex`: `WF` of a step of the threads together (`Running`: the scheduler runs
  some thread that can run, of the highest level) and of the passing of time
  (`Time`): an armed timer expires. No thread is assumed to call anything.

`IrqLines`, `Asid` and `Pkgd` state safety only.

## 5. Findings

### 5.1 Runs that end with a counterexample

`PROJECT.json` quotes the lines.

1. **A line bound anew may stay shut** (`irq_open`,
   `kernel/src/interrupt.rs:44`). The handler found the line unbound and masks
   it outside any section; a bind on another CPU in between opened it. The field
   `masked` of the new binding is false, so `irq_ack` does not open the line.
2. **A suspension between take and section stops the kernel**
   (`control_racing`, `kernel/src/process/control.rs:262`). `cancel` clears
   `resume_level` though it finds the portion running; the portion then meets its
   assertion "a continuation has no reference". A kill or a continue in between
   queues the item a second time instead (`raced`, section 2.3).
3. **A handler runs over a wait that its delivery did not end** (`futex_late`,
   `lib/posix-abi/src/signals.rs:2209`). `deliver_signal` ends the wait by address
   only if a signal pends when it looks, and the loop after it takes whatever
   pends then. A thread entered for another reason (a stop for a fork, a
   cancellation) may be sent a signal in between: its handler runs with the node
   of the wait linked, although the comment at the look says that the wait "ends
   before the first handler". A wait in the handler links the same block a second
   time, and may take the wake of the wait below it.

### 5.2 Where a passing property ends

The models have every one of these behaviours. A property that one of them ends
says so with a history, and holds up to it and, by the proofs, for every other
order of events.

* **After finding 2** (`raced`): `ItemOnce` and the exactness of `References`.
  That the process never goes while something refers to it, that no parked thread
  is forgotten and that no thread runs past its stop hold after it too.
* **A thread that is ended twice** (`again`, `kernel/src/process/teardown.rs:234`).
  `AssertionsHold` allows the panic of `ask_exit` and the reference nobody lets go
  after a process exit whose caller is deeper in the list of threads than its
  head; the comment of `sched::exit` says "A thread that ended before stays as it
  is". `TornDown` ends where the kernel does.
* **After finding 3** (`over`): `BucketExact`, `NoLostWake` and `DeadlineEnds`.
  `WakeIsKept`, `LayerExclusive` and `LockComes` need no such clause; the first
  two are proved for any number of events (section 6.7).
* **A superblock whose write fails with the disk alive** (`sure`,
  `commit.rs:403`). `after` answers IO and the worker goes on with the old OPENED,
  while the medium may hold the new superblock; the next data or blob take extents
  of that state, and a crash then leaves neither state whole. `commit.rs:336` says
  "the state of the medium is the old or the new one, whole", which holds up to
  the next job (`GoOn` of `AtomicStore`) and again once a change is made. Without
  the clause TLC breaks `Atomic` at once.
* **A start that cannot read the newer copy** (`Older` of `AtomicStore`,
  `commit.rs:206`). It opens the older state, whose extents may be in use by the
  newer one; nothing is said of the data after it.
* **A cancel while a begin is under way** (`hasty`, `main.rs:702`).
  INSTALL_CANCEL asks for the owner of the group and finds no receipt to compare,
  so it is accepted while the begin of a second package runs; the worker drops the
  group after the begin, and `settle` then sets a receipt that is gone. A FEED on
  it copies into a window that is not mapped, against the SAFETY comment of `feed`
  (`main.rs:642`). `HandOff` keeps that the store is not held for a session that
  went and that no job finds the store busy.
* **A detach that gives up** (`stuck`, `worker.rs:532`). LAYER_OF is cleared first,
  so the tree keeps a layer that no later job detaches, a removed or a revoked
  package's too. `LayersMatch` is about LAYER_OF; what the tree shows is that and
  `stuck`.
* **The list of revocations that was not read** (`listed`). A start that cannot
  read it goes by the flags of the records, and a package whose key the list names
  may be shown if its flag was not set: `revoked_set` sets flags from the entries
  the worker knows, so a package skipped at a start loses its flag. `LayersMatch`
  speaks of revoked packages only while the list was read.
* **Retired memory may stay with a sleeping CPU** (`Qsbr`,
  `kernel/src/sched.rs:857`). A CPU looks at its list once before it sleeps or
  enters EL0, and the CPU that passes the period last rings nobody, so the
  object stays in the list until an unrelated interrupt. The period itself ends
  (`PeriodEnds`); that the memory goes back, as the comment of `retire` says,
  does not follow under the fairness of section 4, and no property says it.

Two comments say something else than the code, with nothing to check:
`syscall/messages.rs` says of `send` that the handles stay with the sender but
for PEER_CLOSED, LIMIT_REACHED and NO_MEMORY, and an interrupted send drops them
too; `kcore/src/token.rs` speaks of requests abandoned before their reply, but
`withdraw` takes back no wait for a reply, so only the end of a thread marks one.

## 6. Proofs

### 6.1 QsbrProofs

For any set of CPUs, any finite set of objects, any positive batch and any
positive bound on epochs (`EpochAssumption`, `ObjectsAssumption`,
`BatchAssumption`):

* `Invariance`: `Spec => []Inductive`
* `Safety`: `Spec => []NoUseAfterFree`
* `Suspension`: `Spec => []SuspensionIsQuiet`
* `Refinement`: `Spec => Reclaims`, that is, `Qsbr` implements `Reclamation`

`NoUseAfterFree` is not inductive: it says nothing of why a scan that found every
mark past an epoch may free. `Inductive` adds

* `TypeOK`;
* `MarkInv`: a mark, and the epoch a CPU loaded for it, was given out; a mark is
  IDLE only on a CPU asleep or waking; pointers are held in the kernel only;
* `RetiredInv`: an object held by a CPU has, once retired, an epoch above that
  CPU's mark, so the period waits for every holder;
* `PlaceInv`: a retired object is on its way to a list, in one list once, or in
  one batch;
* `ScanInv`: what `passed` has read stays true though marks change after: a CPU
  read as passed holds nothing of that epoch and cannot come to hold it, since
  the object is unlinked;
* `GateInv`: the same for a suspension, with EL0 in place of pointers.

One lemma per conjunct (`TypeStep`, `MarkStep`, `RetiredStep`, `FreeStep`,
`PlaceStep`, `ScanStep`, `GateStep`), each with one step per action.
`StepRefines` maps each step to one of `Reclamation` or a stutter: `life` and
`held` are mapped to themselves.

### 6.2 IrqLinesProofs

For any non-empty set of lines, any finite set of bindings and any positive
limits (`LinesAssumption`, `BindingAssumption`, `BoundAssumption`):
`IrqInvariance`, `IrqReferences`, `IrqMasked`, `IrqDelivers` and `IrqMemory` (the
refinement of `Reclamation`) for the properties of `irq_safety`; `IrqSlots` (the
slots of the channel count the bindings not cleaned yet); and two more action
properties, `IrqClosed` (a closed channel
keeps the line of a masked binding shut) and `IrqTrigger` (the trigger is
written only while the line is masked).

`IrqInductive` adds to `References` and `MaskedStaysShut`: `SectionInv`, what
holds between the writes of a section; `HandlerInv`, what the handler's pointer
is worth before it enters its section; `CountInv`, that nothing refers to a
binding that is free or retired. `SlotsStep` then counts the bindings against
the slots of the channel. Without `SectionInv` a half-made binding would break
`MaskedStaysShut`; without `HandlerInv` the delivery of a stale pointer could
not be excluded.

### 6.3 ProcessControlProofs

For any CPUs, any finite set of threads on them and any positive portions
(`HomeAssumption`, `ThreadsAssumption`, `PortionAssumption`), and for every
behaviour, racing suspensions included: `ControlInvariance`; `ControlItem`,
`ControlReferences`, `ControlParked`, `ControlStopped` and `ControlAssertions` for
the invariants of `control_process`.

`ControlInductive` is the five invariants together with `ItemNeeded` (until a race,
the item is somewhere only while it is for something), `Selected` (a thread on a
CPU is the one its CPU selected), `Posted` (what an UNPARK or an EXIT on its way
finds), `Fresh` (a thread still to be stopped has not ended, but for the one that
began the teardown) and `Stages` (only a whole process continues; a teardown has
set ENDING). None of the five stands alone: that no thread is forgotten needs the
item to be there, that the item is there once needs the references, and the count
of references falls where a portion ends. After a race the count is a bound,
`refs >= Referring`, which is what keeps the process's memory.

### 6.4 CommandsProofs

For any CPUs and threads and any positive batch (`HomeAssumption`,
`BatchAssumption`): `CommandsInvariance`; `CommandsRung`, `CommandsOnce`,
`CommandsKept` and `CommandsCopied` for the invariants of the run.

`CommandsInductive` adds to `Rung`: `Queues` (from its first flag on a thread is
in one outbox or one queue of its CPU, once), `Batches` (what drain took is of
its own CPU), `Ends` (nothing comes after an EXIT, and the reference goes when
nothing names the thread), `Copies` (a WAKE on its way is of a thread that was
woken, and drain has waited for the copies of the batch it serves) and `Polls`
(the word of a CPU says that it polls exactly while it does, so that a sender
that sees no POLLING sends the SGI).
`OnceInQueues` bounds the places of a ring: with each thread at most once,
`CommandsOnce` is why a ring as long as there are threads is never full.

### 6.5 AsidProofs

For any CPUs, spaces and non-zero numbers, and any bound on generations
(`AsidAssumption`): `AsidInvariant`; `EntriesAreOwn`, `PagesForgotten` and
`AsidsUnique` for the invariants of `asid_spaces`.

`AsidInductive` says why a number may be given to another space while a CPU still
runs with a tag of an older generation: `Words` (`active` is of the running generation
on a CPU that owes no flush), `Claims`, `Unique` and `InUse` (a number a space
uses or may bring back is taken, and has one space), `Switches` and `Loaded` (the
number in a switch, and in TTBR0, is protected by `active` or by the CPU's
reservation), `FreshTlb` (a CPU that flushed has entries of this generation
alone) and `NoStrangers` (under the number a CPU runs with, or is about to, it
has no entry of another space). While `new_generation` is between two `active`
words, the generation whose numbers run is still the one before (`Current`).

### 6.6 ChannelProofs

For any finite sets of threads, processes and handles, any levels, any rights of
the handles, and any number of thread numbers and of counts
(`ChannelAssumption`, which also says how the handles begin: placed once, none
labelled, one with RECEIVE): `ChannelInvariance`; `ChannelReferences`,
`ChannelNeverBoth`, `ChannelGoneIsLast` and `ChannelAnswers` for the invariants,
`ChannelTokenOnce` and `ChannelPutInTime` for the action properties of the two
runs; and `ChannelUpcalls`: no thread waits in send or receive with an upcall
asked for (`NoSleepOnUpcall`, which no run repeats).

A step of a channel lets several things go one after another, and what is let go
may close the channel, post CLIENT_GONE and end a wait. So the invariant of the
object graph is a predicate of a record, `Sound(x, r, c, f)`: the queue, the
counts and their meaning, with `r` receivers, `c` copies and `f` references that
are counted and held by nothing, because they are about to be let go (or, below
zero, about to be taken). Each operator of the module has a lemma that takes
`Sound` with one number to `Sound` with another (`SoundReleaseChannel`,
`SoundReleaseSession`, `FirmPost`, `SoundDropTransit`, `SoundLeaves`,
`SoundJoins`, `SoundAccept`, ...), so that the handlers are chains of them that
begin and end with zeros, and the order of the code is the order of the chain.
The parts:

* `QueueOK`: a thread is in the queue, once, exactly while it waits there, a slot
  exactly while it holds something, and the queue is of one kind;
* `Counts` and `Status`: the four counts, and what close, shell and session say
  of them;
* `Gone`: CLIENT_GONE is told or in the slot exactly when the copies are zero;
* `Placed`: a handle is in one table or with one message;
* `Waiting`, `Stopped`: who may wait, carry a handle and have an accepted
  request; no thread of a process past its stage Threads runs, which is what
  `PutInTime` rests on;
* `Holders`, `TokensOK`: a number has one holder and a free one none; the token of
  a waiting request is the last its number gave, and a request in the queue has a
  count left, so that the count of a number never goes back to zero though it
  has the width of its field.

Without `TokensOK` neither token property is inductive; without `Gone` and
`Placed` the counts could not be told apart after a failed transfer.

The elements of sequences are treated as sets with `Distinct`: the position at
which `PushTail` inserts matters to no property but the order of service, which
none of the theorems is about.

### 6.7 FutexProofs

From `FutexAssumption` (finitely many threads; any words, levels, numbers of
calls, of events from outside and of frames) it proves that one frame of one
thread at most holds the lock of the layer and that the word of the lock is not 0
while one does (`LayerExclusion`, from `LayerInvariance`), and that a wait which
a waker counted is never answered as a timeout (`CountedIsWoken`, from
`CountInvariance`). Neither has the clause `over = {}` of `BucketExact` and
`NoLostWake`: both hold over a bucket spoilt as in section 5.1.

`LayerExclusive` counts the frames of every stack, those below a handler too, so
its invariant has to follow the stacks. `LayerInductive` has three parts:

* `StackOK`: frames have their types, the frame of the program is at the bottom of
  its stack, and a frame that prepares or runs a handler is one of a delivery.
  Without the last, a return of a handler could remove the frame of the program
  and, with it, a lock it holds.
* `WordOK`: the words have their values. The lock's word is apart from the
  program's, so no call of a program writes it.
* `Exclusive`: two frames that hold the lock are one, and the word is not 0 while
  a frame holds it. `CallLock` and `Swap` take the lock only of a word that is
  0, and so when nobody has it; a wait interrupted between two swaps holds nothing.

A step touches the frame on top of one stack. Four lemmas say what that does to
the invariant: a quiet step moves a frame that neither held nor holds
(`QuietTop`, `QuietStack`), one takes the lock (`TakesTop`), one gives it back
(`FreesTop`), and the actions are sorted among them.

`WakeIsKept` speaks of frames that are in no call any more. `KeptInductive` adds
to `LayerInductive`:

* `KeptFrame`, of each frame: nothing has counted it before its node is linked, a
  call of the lock of the layer has no deadline and no timeout, the word of a wait
  or a wake is a word, and a frame outside its call has not both the count and a
  timeout. The word matters to a waker: a node it finds is linked, since no word
  is `NoWord`.
* `Linkage`, of each linked node: the frame that linked it sleeps still, waits on
  the word of the node, has not been counted, and no frame above it sleeps. So
  `Finish`, which sees its node linked, sees its own (`TopLinked`) and may keep the
  timeout, and a waker counts a frame that is asleep and will look at its node
  again. A handler that links the node of the wait below it takes the node over.

The list of the bucket plays no part: a waker takes any place of it whose node
has the word (`OfWord`), and a place that names no thread changes nothing.

### 6.8 PkgdProofs

From `StoreAssumption` (at least one place and two extents beside the copies of
the superblock; the empty name is no package's) and `PkgdAssumption` it proves, for
any names, sessions, places, extents, contents, sizes of groups, crashes and
failures:

| Theorem | States |
|---|---|
| `ThreadsInStep` | `HandOff` |
| `StoreInvariance`, `StoreAtomic` | `Atomic`: `Pkgd` implements `AtomicStore` |
| `LayersInvariance`, `LayersShown` | `LayersMatch` |

None has a hypothesis on what the sessions send or on what fails.

The invariants, each used by the next:

* `HandBase` holds whatever the sessions send. It ties the place of the worker to
  the state of the cell, the kind of the transaction to that of the job, and says
  that a change other than an installation meets no group.
* `HandInductive` is for `ThreadsInStep`: who waits is there and owns the job; a
  receipt that is fed is the open one and nothing is about to drop it, unless
  `hasty`; a begin finds the store free; an open receipt is fed, about to be,
  committed or about to be dropped. The last is why the store is never held for a session that went.
* `DiskOK` says for every place of the worker what the medium and the pending
  writes hold. `State` is a whole state: a copy of the superblock, the table it
  names, the data of every record (`Has`, until `sure` is "lost"), and an older
  superblock or none in the other copy (`Elder`, while `sure` is "yes"). `Based`:
  the accepted state is on the medium and no write is pending in its blocks,
  whence a crash keeps it. `TxOK`: the data of the next table are flushed before
  the table, and the table before the superblock, so that a crash at `f3` finds
  the one state or the other. `Late` is what a superblock whose write failed
  leaves: the next state may be there, and nothing is written before the next job.
  While `sure` is "no" the accepted state is whole and the other copy may be
  anything, and the next superblock goes over that copy: a change that is made
  ends the doubt. `OffOK` is what a start may find, which is `AtomicStore`'s
  promise.
* `GroupOK`: each package of the group has a place and an extent that the accepted
  state does not use, of its own. Without it the data of a commit could be those
  of another package when the flush makes them durable. Places and extents come
  from `CHOOSE` of the least free one; that there is one is proved from the
  well-founded order of the numbers.
* `LayerOK`: objects, layers and entries against the table, and, by the kind of
  the transaction, what it attaches and detaches against its table (`SwapShape`,
  `SettingsShape`, `SerialShape`, `RevokedShape`). From `attach` to the end
  LAYER_OF has the next state; an undo has to find the objects of the old one. No
  package of a list that was read (`listed`) comes back into the tree by a group.

The refinement is step by step (`AtomicStep`): a step that begins a transaction
is `AtomicStore`'s `Try`, one that ends it `Made` or `Refused`, the first job after
a failed superblock `GoOn`, a crash `Crash`, a start `Recover`, `Older` or `Blind`
by what it could read, and the others leave `held`, `flight` and `up` as
they are.

### 6.9 What is only model-checked

* Liveness (`PeriodEnds`, `ParkedGoesOn`, `TornDown`, `Taking`, `ClosedWakes`,
  `RepliesWake`, `LockComes`, `DeadlineEnds`): the prover has neither fairness
  nor ENABLED.
* `TypeOK` of `Channel`: its bound on the length of the queue and its Booleans are
  no part of `ChannelInductive`.
* `BucketExact` and `NoLostWake` of `Futex`.

## 7. Not modelled, and the plan

Left out of the modules above:

* `Qsbr`: weak memory (the source uses SeqCst there), the time limit of a wait.
* `IrqLines`: labels, priorities and quotas; several channels at a time.
* `ProcessControl`: stages Stop to Notify in detail, trees of processes, levels
  of the item (a portion may come at any time).
* `Commands`: the places of a ring (they are as many as threads; `OnceInQueues`
  is why that is enough), the length of the poll window (it may end at any time).
* `Asid`: the search order for a free number (any free number), weak memory.
* `Channel`: levels change nothing but order here (no boost, requeue or
  `lift_servers`); one session at a time; one handle a message; portions of one
  head; the bytes of a message; calls that do not wait; masks and deferrals of
  upcalls; sources other than the channel's own and the session's, which behave
  as these two.

* `Futex`: words of shared mappings, more than one bucket, the levels a lock
  raises its holder to, the remake of a timer, `abandon_ended` and `after_fork`,
  masks and actions of signals, sigwait.
* `Pkgd`: WORLD_SET (a transaction of the table alone, as SERIAL_SET), the
  dependencies that refuse a REMOVE, packages of the image, signatures and
  formats (a package passes or does not), buffers and clones of sessions, a
  device without flush, the sequence lock of the readers, FEED in parts.

Not modelled at all, with the reason, are the components marked `not_modelled`
in `PROJECT.json`: boot and architecture code, allocators and tables that are
sequential under OBJ and covered by host tests, the logic of the other services,
the rest of the POSIX libraries, tools.

Next, in this order:

1. `Scheduler` with inheritance: boosts of receivers, the chain of servers up to
   LIFT_DEPTH, and their end; composed with `Channel`'s waits.
2. `Teardown`: trees of processes with Stop, Children and hasten, under
   `ProcessControl`'s item.
3. `Timers`: set, cancel and expiry against a dying timer, over `Commands`.
4. `Upcall`: masks, deferrals, nested entries. `Obj`: the tickets. Then the pipe
   service, and the restarts of init.
5. An abstract specification of a channel (calls and replies, each request
   answered once or failed) that `Channel` implements.
6. Proofs: `BucketExact` and `NoLostWake` of `Futex`, up to the first handler that
   begins over a wait.
