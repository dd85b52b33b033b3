# A TLA+ model of Zircon's kernel objects and synchronization

The repository is a copy of Fuchsia's Zircon: a microkernel whose objects
(`src/kernel/object/*_dispatcher.cc`) are reached from user space through
handles, together with its boot code, drivers, user-space libraries and tools.
This directory models the concurrent core of it: the locks and queues that
everything blocks on, the deferred work and timers, the suspension of the
system, and the objects through which processes signal and talk to each other.

## 1. The system and its parts

| Part | Source (under `src/kernel`) | Module |
| --- | --- | --- |
| Semaphore | `kernel/semaphore.cc` | `Semaphore`; abstract: `CountingSemaphore` |
| Mutex | `kernel/mutex.cc` | `Mutex`; abstract: `RwLock` |
| Reader-writer lock | `kernel/brwlock.cc` | `BrwLock`; abstract: `RwLock` |
| Futexes, owned wait queues | `object/futex_context.cc`, `kernel/owned_wait_queue.cc` | `Futex` |
| Event (kernel) | `kernel/event.cc` | `Event` |
| DPCs | `kernel/dpc.cc`, `kernel/mp.cc` | `Dpc` |
| Timer queues | `kernel/timer.cc`, `kernel/deadline.cc` | `TimerQueue` |
| Timer objects | `object/timer_dispatcher.cc` | `TimerDispatcher` |
| Suspend and resume | `kernel/idle_power_thread.cc` | `Suspend` |
| Port: observers | `object/port_dispatcher.cc`, `object/dispatcher.cc` | `PortObserver` |
| Port: packets | `object/port_dispatcher.cc` | `PortQueue` |
| Channel | `object/channel_dispatcher.cc`, `lib/syscalls/channel.cc` | `Channel` |
| Interrupts | `object/interrupt_dispatcher.cc` | `Interrupt` (with `Event`) |
| Fifo | `object/fifo_dispatcher.cc` | `Fifo` |
| Socket | `object/socket_dispatcher.cc`, `object/mbuf.cc` | `Socket` |
| User threads, exceptions | `object/thread_dispatcher.cc`, `object/exceptionate.cc`, `object/exception_dispatcher.cc`, `kernel/thread.cc` | `UserThread` |
| Jobs and processes | `object/job_dispatcher.cc`, `object/process_dispatcher.cc` | `Tasks` |
| Handles, handle tables | `object/handle.cc`, `handle_table.cc`, `lib/syscalls/handle_ops.cc` | `Handles` |

`PROJECT.json` lists every part of the repository, also those that are not
modelled, with the reason; section 6 sums the reasons up.

How the parts interact, and how the models do:

* A thread registers a wait on an object (`zx_object_wait_async`); the observer
  is on the port's and on the object's list; whoever makes a signal active calls
  it back, and it queues its packet and posts the port's semaphore.
  `PortObserver` has the lists, `PortQueue` the packets. `PortQueue` uses the
  semaphore through the actions of `CountingSemaphore`, which `Semaphore` is shown
  to implement.
* An interrupt signals an `Event`, which `Interrupt` instantiates, or queues its
  own packet on a port.
* A timer object's `Timer` is on a timer queue, expires in interrupt context and
  queues a DPC. `TimerDispatcher` keeps of the queue and of the DPC what
  `TimerQueue` and `Dpc` say about them.
* The port's and the channels' locks are mutexes. That a thread waiting for
  one is handed it, which the liveness runs assume of those locks, is
  `MutexGranted` of `Mutex`.
* A killed process kills its threads: `Tasks` has the tree and the lists,
  `UserThread` one thread of it with its suspensions, its exceptions and its
  exit. That a kill reaches every thread of the process but one that is already
  leaving (`KillReachesThread`), and that a thread it reached leaves (`TasksEnd`),
  is checked of `UserThread`; `Tasks` assumes no more. A thread that was leaving
  waits for the debugger that took its exit exception, and in both modules
  nothing obliges the debugger to let it go.
* A closed or moved handle cancels the waits and calls made through it: the
  removal is in `Handles`, its effect in `PortObserver` and `Channel`.

## 2. Modules

Each action is named after the function it models. What a lock covers is one
action where nothing outside the lock can observe its middle; every atomic access
outside a lock, every drop of a lock inside a loop and every callback made
outside a lock is a step of its own. A variable's comment names the member it
stands for. All atomic accesses are sequentially consistent.

**Semaphore, CountingSemaphore.** One action per atomic access of `Post` and
`Wait`. `count` is negative while threads are queued, and stays so when they
time out, until a later `Post` notices (`PostReset`). `WakeOneLocked` may back off
(`PostBackoff`), and the woken thread runs before the poster has finished
(`PostZero`). `Refinement` says that it implements a number of permits and a set
of blocked threads.

**Mutex.** The word (`mxOwner`, `mxContested`), the queue and its lock. A fast
acquire or release is one exchange and may fall between any two steps of a
contended one. A contender sets the flag with `fetch_or`, and if the mutex was
released meanwhile takes it; otherwise it locks the chain and blocks, or backs
off and starts again with the flag left set. A contended release names the next
owner before it wakes that thread, and still has the queue's lock to give back
when the new owner may already be releasing (`ReleaseUnlock`). `MutexDestroy`
is the destructor with its wait for that lock.

**BrwLock.** `state_` with its counts of readers and waiters and its writer bit,
`writer_`, and the queue. A reader counts itself before it knows that it may
read and gives the count back for a waiter's. Upgrades, hand-over to one writer
or a run of readers by priority, and the back-offs of blocking and of waking are
steps. `RwLock` is what both locks implement: a writer, or readers.

**Futex.** `FutexContext` over owned wait queues: wait with its comparison of the
value, wake, requeue, owners, timeouts and the exit of a thread. The pool of
`FutexState`s is a number, since they are alike. The id of the futex a thread is
blocked on is written after the state's lock is released, as in the code.

**Event.** `Signal`, `Unsignal` and the two outcomes of `WaitWorker`, for other
modules to instantiate.

**Dpc.** A queue, an event and a worker per CPU; `Dpc::Queue` enqueues under the
lock and signals outside it. Unplugging is the two phases of `mp.cc`: `Shutdown`
stops the worker, `TransitionOffCpu` moves what is left. Between the two the unplug
may return an error (`DpcUnplugError`): the CPU stays online with its queue shut
down. The join has a deadline only in the halt of the system; the idle/power
thread's way offline has none.

**TimerQueue.** The sorted queue of each CPU with the coalescing of `Insert`, the
preemption timer, the one hardware deadline per CPU, `Tick`, `Cancel` waiting for
a callback on another CPU, and the move of a dead CPU's timers. Times saturate
as `zx_time_add_duration` does.

**TimerDispatcher.** `Set`, `Cancel` and the last handle's close against the
interrupt callback and the DPC, with the reference that a pending timer holds. The
timer is queued for any time its slack allows (`Earliest`, `Latest`), and
`OnTimerFired` arms it again if the deadline changed meanwhile. `tmWant` and `tmMay`
are history: the deadline set last and the time from which it may be signaled.

**Suspend.** The suspending thread, the idle/power thread of each CPU, wake
sources and the resume timer, at the grain of the exchanges on each CPU's state.
`RemoteWakers` are wake sources whose interrupt is taken by another CPU than the
boot CPU; a source on the boot CPU is not interleaved with the suspending thread,
which is pinned there. `TransitionFromTo` may find the target state reached, another
state, or no answer within a minute; the last two abort the suspension
(`AbortSuspend`), which then resumes the CPUs suspended so far, or stop the
resumption (`AbortResume`). `late` is the set of CPUs the calls gave up on.

**PortObserver.** Variables `onObject`, `onPort`, `queued`, `owned`, `canceled` and
`linked` say on which list, packet or pointer an observer can be found. Lists are
sets, since no decision depends on their order. The lock of an object (`dlock`)
is explicit because it is held while observers are called back one by one.
`TableReaders` is the handle table's lock, held by readers from lookup to return.
`SerializedCancelKey` restricts the environment: no `zx_port_cancel_key` overlaps a
`zx_object_wait_async` with the same key; `port_cancel_key_overlap` shows what
happens without it. `pre` and `voided` are history variables.

**PortQueue.** A packet is pushed under the lock and posted after it; `Dequeue`
takes a permit, looks at the interrupt packets, then at the others, and waits
again if both are empty. Cancels and `on_zero_handles` remove packets and leave
their permits. `abandoned` holds the packets of `zx_port_queue` that `CancelKey`
removes, which the code does not free.

**Channel.** Two endpoints with a shared lock, which is explicit while a write
notifies observers, since `Read` takes only `channel_lock_`. Each system call
looks its endpoint up and acts later, so that the handle may be closed or moved
in between. `w[t]` is thread `t`'s `MessageWaiter`. `txid_` is kept whole and compared
modulo `TxidModulus` (`SameTxid`), so that a reply can be told to be another call's
of the same txid. A transfer is three steps as in the code (`MoveHandle`,
`ReceiveHandle`, `SetOwner`), and `owners` has every process that `owner_` has
named, so that a message tells when its writer looked the endpoint up.

**Interrupt.** The state machine with every combination of flags that the kinds
of interrupt give it, the event, the one packet of the bound port and the mask
of the line. The deferred unmask, the wait itself and the hardware calls that
begin `Destroy` are outside the spinlock, hence steps. `carried` is the
`defer_unmask` that `WaitForInterrupt` keeps from an earlier turn of its loop. An
interrupt that the line has raised (`IrqRaised`) may reach its handler after the
line was masked; of the kinds of interrupt only PCI's bus looks at the mask again
and masks the line itself after the handler (`BusMasks`), unless the device cannot
mask (`NOT_MASKABLE`), when `MaskInterrupt` and `UnmaskInterrupt` do nothing.

**Fifo.** Two rings with free-running counters modulo `FifoModulus` (2^32); a copy
has two parts and may fault in either, which rolls the counter back. The
history variable is the queue a user would expect, for `FifoInOrder`.

**Socket.** Buffer chains of `MBuf`s of `Payload` bytes, of which the model keeps
lengths and packet boundaries; streams and datagrams, peeks, short copies,
thresholds, dispositions and closing, with the signals of both ends.

**Handles.** Slots with generations, tables, cursors that drop the lock between
batches, and objects' handle counts. Deleting a handle is three steps outside the
table's lock: the object's count, the arena's slot, `on_zero_handles`. A job,
process or thread (`HTasks`) may get a handle through its parent after its last
was closed, so that `on_zero_handles` runs as often as the count rose from zero.

**UserThread.** One user thread, its core thread (`utCore`, the signals of
`thread.cc`) and its lifecycle, against suspenders, a killer of the thread and of
its process, and the handlers on its exception channels. The exception objects
are slots (`UtExcs`); each has the step of `Exceptionate::SendException` it is in,
who holds it and how it was answered. A failed send discards the exception, so
that the closing of its handle is not taken for an answer.

**Tasks.** The tree of jobs and processes. A kernel thread in `Kill`,
`RemoveChild...` or a dead transition is an actor with a stack of frames: what it
does under one lock is an action, and a frame says how it goes on. The lists of a
`Kill` are sets. A task's place in the tree is a constant, its creation, start,
exit and destruction are actions. `zx_object_get_child` gives a listed task without
handles a handle again. A thread that exits by itself is DYING before it leaves
(`tkExiting`), and a kill passes it over. Whether the death of a critical process
kills its job depends on its return code and is a free choice.

The `MC` modules define constants, symmetry, a view and, for the sums below, which
component a behaviour is about.

## 3. Runs

The passing runs are *sums*: each extends several components at once. Their initial states choose one of them (`part`), whose steps
are then the only ones, so that each behaviour is a behaviour of one component
and the size is the sum, not the product, of the components'. The components of
a sum do not interact.

A property of these runs is a conjunction of named parts, defined at the end of
the component's module; what each part says is in the comment above it.

| Run | Components and instance | Properties | Size |
| --- | --- | --- | --- |
| `kernel` | semaphore: 3 threads, 6 calls | `NoLostWakeup`, `SemaphoreCounts`: a waiter sleeps only while there is no permit, a Post is worth one Wait; `Refinement` of `CountingSemaphore` | 368 thousand states for the whole run |
| | mutex, reader-writer lock: 3 threads | `MutexConsistent`, `BrwConsistent`: the words agree with the threads and remember every waiter; `MutexImplements`, `BrwImplements`: both are the lock of `RwLock`; `MutexNotFreedInUse` | |
| | futexes: 3 threads, 2 futexes, 3 calls | `FutexConsistent`: states counted exactly, the pool never runs out; `FutexNoCycle` of owners; `FutexNoMissedWake` | |
| | DPCs: 2 CPUs, 2 DPCs, 2 callers, 2 unplugs, with errors | `DpcConsistent`: run once, none on a dead CPU; `DpcWorkerWoken` | |
| | timers: 2 CPUs, 3 timers | `TqConsistent`: sorted, within their slack, canceled ones do not fire; `TqHardwareArmed` | |
| `observers_and_jobs` | ports: 3 threads, 2 observers | `ObserverConsistent`: one owner, no dangling pointer, objects outlive observers; `ObserverHears`: no deaf wait, no missed level-triggered signal; `CanceledStaysCanceled` | 419 thousand |
| | tasks: 3 jobs, a process of 1 and one of up to 2 threads, 2 actors | `TasksConsistent`: dead transitions once, no survivor of a kill, listed tasks exist, a process outlives its leaving threads | |
| `objects` | port: 3 threads, 4 packets, 4 posts | `PortConsistent`: permits and ephemeral packets counted, a packet in one place; `NoStrandedPacket` | 324 thousand |
| | interrupt: 3 threads, 3 interrupts | `InterruptConsistent`: none left masked; `NoLostInterrupt` | |
| | fifo of 2; socket of 3 bytes | `FifoConsistent`: order over wrap-around; `SocketConsistent`: sizes and datagrams whole; `SocketSignals` | |
| | handles: 3 slots, 2 processes, a task | `HandlesConsistent`: values not reused, `on_zero_handles` once for each time the count reaches zero, cursors complete | |
| | timer object: 2 CPUs, 2 callers, slack 1 | `TimerConsistent`: references exact; `TimerSignalIsLatest`, within its slack | |
| `channel` | channel: 2 callers, 1 server, four scenarios (`Scenario`) | `ChannelMessages`: READABLE exact, ownership in order; `ChannelCalls`: replies matched, txids unique over wrap-around | 559 thousand |
| | user thread: 2 exceptions, 3 calls | `UserThreadConsistent`: every exception answered once, by its handler; `UserThreadSuspended`: runs exactly when nothing suspends it | |
| | suspend: 3 CPUs, 2 sources and the timer, 2 suspensions | `SuspendConsistent`: boot CPU last, all resumed but those given up on; `NoMissedWake` | |
| `progress` | smaller instances of ten components | under fairness: `IpcProgress`, `LocksGranted`, `DeferredWorkRuns`, `WakeResumes`, `TasksEnd` | 39 thousand |

`TasksEnd` says that again and again no killed thread is in its process, no
resumed thread sleeps and no killed job is short of DEAD unless a debugger holds a
thread of a killed process. Kills are permanent and the calls bounded, so each
such condition ends.

`NoMissedSignal` speaks of level-triggered observers only: the comment at
`dispatcher.h:272` (no listed observer matches an active signal) does not hold of
edge-triggered ones, by design.

Disagreements between code and comments, each a run whose property TLC
violates:

| Run | What is written | What happens |
| --- | --- | --- |
| `port_size` | a node is erased through the list it is on (`intrusive_double_list.h:552`) | `MaybeReap` erases through `observers_` a node on a `CancelKey`'s list: the wrong size counter is decremented |
| `port_cancel_key_overlap` | an observer is destroyed only after `RemoveObserver` (`port_dispatcher.cc:208`) | `CancelKey` can do so before `AddObserver` has run |
| `channel_second_call` | only a process that breaks the vDSO's contract is killed (`channel_dispatcher.cc:258`) | a call that failed because its endpoint moved leaves its waiter in use |
| `channel_moved_calls` | a transfer cancels the calls waiting on the endpoint (`channel.cc:136`) | a call that starts between the cancelation and the change of owner is not canceled |
| `suspend_missed_wake` | setting Wakeup prevents the wake event from being missed (`idle_power_thread.cc:370`) | a source on another CPU whose exchange from Active fails does not try again from Active-to-Suspend |
| `dpc_stranded` | DPCs left by `Shutdown` execute once `TransitionOffCpu` is called, and queueing signals the worker (`dpc.h:80`, `dpc.h:33`) | the DPCs are moved to a list whose worker is not signaled |
| `fifo_wrap` | a written element is what the other endpoint reads (`fifo.fidl:28`) | with an `elem_count` that does not divide 2^32 the slots jump when the counter wraps |

The passing runs keep clear of the last three: `channel` has `RemoteWakers = {}`,
`DpcRuns` speaks of DPCs that were not moved, and `objects` uses an element count
that divides the modulus.

### Bounds

Calls, posts, writes, moves, operations and suspensions have a counter each
(`Max...`), which stands in the guards. Three threads let a holder, a waiter and a
thread on a fast path overlap, which the locks' hard cases need; two futexes, a
requeue; two CPUs, a callback on one during a cancel or an unplug on the other;
three CPUs, an abort between two secondary CPUs. Two observers are enough for
one to be reaped while another is popped or canceled. Four posts let a permit
outlive its packet and meet a later one; `MaxPackets = 0` puts the limit within
reach. `TxidModulus`, `FifoModulus`, `HGenerations` and `SizeModulus` stand for
2^31, 2^32, the handle generations and 2^64, and are small so that the counters
wrap. The deadlines of `kernel` are one of each slack mode, near enough to
coalesce, one reaching past both ends of time. Mutexes and the reader-writer
lock need no bound but that on back-offs of the latter.

`UtCalls` and `UtRaises` bound what is done to the user thread and the exceptions
it raises; `MaxTkThreads` is 2 so that the last thread of a process differs from
the others, which one process is enough for (`OneSingleThreaded`). With a slack of
1 and times up to 2 a timer can fire before, at and after its deadline, and for one
deadline within another's slack. `progress` has two suspensions and one wake event,
which is enough for one to find the system active, going to sleep or asleep, with
a CPU left behind by the suspension before.

`channel` checks four scenarios of one specification, chosen by a constraint:
two calls with writes; two calls with a transfer of an endpoint; writes with the
transfers that bring it back to its first owner; and as many calls as wrap the
txids, with a server that answers one. Its view (`MCThreadView` in
`MCThread`) tells states apart but for values that are overwritten before anything
reads them: status and event of a `MessageWaiter` between calls, its txid while it
is on no list and has no reply, and the answer left in an exception that its thread is through
with. No action reads them there, and of the properties only those of type, so states with the same view have the same
future; without the symmetry the number of states (860 thousand) does not depend on
the order in which they are explored, as it would if a hidden value mattered.

Deadlock is not checked: when every counter is at its bound, or the object is
closed or destroyed, the threads are idle, which is where these systems stop. The
properties of `progress` say that nothing stops before.

### Fairness

A thread inside the kernel keeps being scheduled: weak fairness of steps that
wait for nothing. A thread waiting for a lock gets it: strong fairness, since
`Mutex::ReleaseContendedMutex` (`kernel/kernel/mutex.cc:514`) makes a waiter the
new owner, and the wait queues' own locks are fair spinlocks. The vDSO resumes an
interrupted `zx_channel_call`. A server calls `zx_port_wait` again whenever it
returns. Interrupts that are due are taken, DPC workers run, time passes, and the
suspender's wait for the boot CPU has a timeout. Nothing obliges a thread to
kill a task, to begin a call, to release a lock it holds, or a driver to acknowledge a wake
event. A killed thread's exit and the destruction of a job
have a thread of their own in the code but need an idle actor in `Tasks`: strong
fairness (`TkEnds`). The fairness of `progress` is that of the components with what they ask
of one thread put together, since only one of them has steps in a behaviour.

## 4. Proofs

Each theorem holds for every value of the constants, under the `ASSUME`s of the
component's module, which TLC evaluates on the runs: the null value is no thread
(`ThreadsAssumption`, `MxNoneAssumption`, `BrAssumption`), bounds and counts are
numbers, the threads of `PortQueue`, `BrwLock` and `TimerDispatcher` are finitely
many (they are counted), a timer's callers are no CPUs (`TmAssumption`), the boot CPU is
one of the CPUs DPCs run on (`DpcAssumption`), priorities are integers, the boot CPU is no secondary one, and the
tasks form a tree (`TkTree`).

* `KernelProofs`, for the semaphore: `NoLostWakeup`, `PermitsConserved`, `TypeOK` and the
  refinement of `CountingSemaphore`. The invariant adds what each place knows of the count
  (`PcKnows`): a count seen negative under the lock stays so until the holder
  stores it, because the lock-free paths only exchange non-negative counts.
* `PortQueueProofs`: `TypeOK`, `PermitPerPacket` and from it `NoStrandedPacket`. The
  packets are compared with the permits stored, promised by a thread about to
  post, or carried by one about to look; the lemmas count threads by place. The
  invariant adds that a thread sleeps only while no permit is stored.
* `KernelProofs`, for the mutex: `MutexWordConsistent`, `MutexWaitersRemembered`,
  `MutexNotFreedInUse`, and that the mutex implements `RwLock`. The invariant says
  who holds the queue's lock, that the queue holds the sleeping threads, whom the
  word names by each thread's place, and that the flag is set on a free mutex
  only while a thread inside the lock is about to take it. Mutual exclusion
  needs the last part: a thread holds the mutex exactly if the word names it and
  it is not on its way there.
* `KernelProofs`, for system suspend: `AllResumed`, `BootLast`, `BootEndsInWakeup`; and, assuming that
  no wake source is remote, `NoMissedWake` and `WakeGivesUpSafely`. The invariant
  ties the state of each CPU that was not given up on to the suspending thread's
  place and to its sets of CPUs still to suspend or to resume, and says that the
  CPU it waits for is on its way; the last two need besides it that a source on
  the boot CPU finds the state it loaded.
* `TasksProofs`: `TasksConsistent`, for every tree (`TkTree`: a root, every task with
  a parent that is a job). Each kernel thread has a stack of frames, the calls of
  the code it is inside. The invariant says what a frame knows of its task
  whatever the other threads do (`FrameTrue`: a thread about to finish a process
  finds it dead and not yet taken out; one about to finish a job finds it killed
  and childless), that a dead process still in its job's list has a thread to take it out, and
  that two threads, or two places of one stack, never have the same dead
  transition ahead. The lemmas on stacks (`ReplacedFrames`, `StaysUnique`,
  `Pushes1`, `Pushes2`) say what popping a frame and pushing up to two does to
  these; `ProcessDies` and `ProcessMarked` are shared by the ways a process
  ends. That the threads a debugger may hold are among those of the process
  (`ExitingCounts`) is an invariant of its own.
* `InterruptProofs`: `NoLostInterrupt` and `InterruptConsistent`. The invariant adds
  that a triggered interrupt has its event signaled or a thread on its way back
  to the lock, and that a queued packet is of a bound interrupt. For the
  mask it needs more: only a PCI interrupt defers its unmask until the lock is
  dropped, at most one such unmask is on its way, and until it arrives the line
  is masked and no handler under way, so that no interrupt can come in between
  (unless the device cannot mask, and as long as no thread has
  carried a deferred unmask past a second interrupt, the case `carried` records).

* `BrwProofs`: `BrwConsistent`, and that the reader-writer lock implements `RwLock`,
  for any finite set of threads, any priorities and any number of back-offs.
  `state_` is compared with the places of the threads it should count (`Counted`),
  and the counts are turned into what they say of those threads (`CountsKnow`). The
  invariant then needs what a thread inside the queue's lock still knows of a
  state it saw before (`Knows`): the fast paths do not take that lock, but as long
  as anybody is counted a waiter they neither take the lock nor let a reader in,
  so a thread that saw no writer may still rely on it when it acts. `Remembered`
  is `BrwNoneForgotten` made inductive: threads about to block count as blocked.
  Most steps move one thread and leave the queue alone (`PlainStep`, `WriteStep`);
  blocking inserts into the queue (`Inserted`, `BlockStep`), and waking takes its
  first threads out and counts them over at once (`WakesKeep`). The same facts
  show each step to be a grant, an upgrade, a release or a stutter of `RwLock`.

* `TimerProofs`: `TimerSignalIsLatest` and `TimerConsistent` (the
  signal is the latest deadline's, and the object is freed once, by its last
  user), for any finite sets of callers and CPUs, any number of calls and any
  time. The reference the pending timer holds moves with it, from the queue to the
  interrupt that fires it, the DPC's list, and the worker, which drops it. The
  invariant (`TmWhere`) says where it is: who holds the object's lock, that
  at most one expiry is on its way, and that a deadline or `cancel_pending_` is set
  exactly while the timer is queued or its expiry under way. The timer is queued
  no earlier than the slack it was armed with allows. Counting is separate:
  each step says what its thread takes and drops (`TmAccounts`, `TmDrops`), and the
  last part adds it up over all threads (`CountChange`, `RefsStep`).
* `DpcProofs`: `DpcConsistent` and `DpcWorkerWoken`, for any sets of CPUs, DPCs and
  callers and any number of calls and unplugs. The invariant adds what the
  unplugging thread's place says of its CPU (`DpcUnplugging`: the worker is joined
  before the CPU goes offline) and that a worker that is awake still has its event
  signaled (`DpcAwakeSignaled`). A DPC's places on the lists are spoken of by index
  (`InTermsOfPlaces`), and each operation on the lists says which places it fills
  and empties: `EnqueueKeeps`, `PopKeeps` and, for `TransitionOffCpu`, which appends
  one CPU's list to another's, `MoveKeeps`.
* `SizeProofs` concludes the proofs that count threads. `PortQueueProofs`, `BrwProofs`
  and the last part of `TimerProofs` assume `FiniteSizes` (in `Sizes`), the facts
  about the size of finite sets they use, instead of extending the library's
  `FiniteSetTheorems`, whose definitions would slow every one of their steps.
  `SizeProofs` proves `FiniteSizes` from that library (`SizesHold`) and states their
  theorems without the assumption.

Checked by TLC only:

* all liveness (`MCProgress`), and `ENABLED`: outside the prover's reach;
* `Futex`, `Socket`, `TimerQueue`: `FutexConsistent`, `FutexNoCycle`,
  `FutexNoMissedWake`, `SocketConsistent`, `SocketSignals`, `TqConsistent`,
  `TqHardwareArmed`. Their models sum or fold over data (the references of a
  futex over all threads, the bytes of a list of buffers, one sorted list put
  into another), and what a fold computes takes induction over data;
* `Fifo`, `Channel`, `Handles`, `PortObserver`, `UserThread`: `FifoConsistent`,
  `ChannelMessages`, `ChannelCalls`, `HandlesConsistent`, `ObserverConsistent`,
  `ObserverHears`, `CanceledStaysCanceled`, `UserThreadConsistent`,
  `UserThreadSuspended`. Their inductive invariants have not been worked out;
* of `PortQueue`, the parts of `PortConsistent` about ephemeral packets
  (`EphemeralCounted`, `EphemeralBounded`, `PacketHeldOnce`, `ClosedPortEmpty`).

## 5. Known limits of the modules

Memory ordering is not modelled. Allocation failures, rights, and argument
checks that return before any state is touched are left out. The observer and
message limits raise a policy exception and change nothing here. A process is
killed in `Channel` only for misuse of `zx_channel_call`; other kills look like a
wait that ends. Priorities decide only who is woken first; their inheritance is left out.
Further:

* `Socket`: a datagram read whose copy to the user faults empties the buffer
  without raising WRITABLE (`socket_dispatcher.cc:333`), and `SetDisposition` may
  set WRITABLE while the peer's buffer is full; `SocketWriterWoken` therefore
  speaks of streams and allows the latter.
* `Interrupt`: the mask of a destroyed interrupt is free, since a deferred unmask
  may follow that of `Destroy`. A virtual trigger with timestamp 0 that finds
  NEEDACK is not pending afterwards. `MaskedWhileServiced` excludes a carried
  `defer_unmask`. The wake event of a wake vector is left out.
* `TimerQueue`: a callback does not both set and cancel its own timer
  (`timer.cc:308`).
* `Handles`: `zx_handle_replace` whose `Dup` fails leaves the source handle
  (`handle_ops.cc:67`).
* `Suspend`: a CPU's way offline is left out. A CPU that answers after its
  timeout is suspended then, and stays so until the next call finds it; that
  `AbortResume` leaves CPUs to resume is an assertion of debug builds only
  (`idle_power_thread.cc:343`), and the model goes on as a release build does. If a
  wake event arrives between the exchange and the idle thread's load, the
  suspender waits for its full timeout (`BootTimeout`).

* `UserThread`: a handler does not close an exception while its own call on it
  runs. The thread is the last of its process. Restricted mode, job debuggers,
  policy exceptions and allocation failures are left out.
* `Tasks`: policies, names, the count limits and the walk of the OOM killer are
  left out; a process's threads are a number.

## 6. What is not modelled

* *Scheduler*: fixed-point weights and deadlines, whose properties need the real
  ranges.
* *Virtual memory, pager*: deep data structures; the pager's use of a port packet
  is in `PortQueue`.
* *Chain locks*: the repository has its own model of them
  (`system/ulib/concurrent/models/chainlock_tla`); here their back-off is a step
  that undoes what was done and retries.
* *Other kernel objects, diagnostics, kernel libraries*: one lock each, or no
  protocol between threads.
* *Architecture, platform, boot, drivers*: register-level code.
* *User-space libraries, vDSO, headers, tools*: sequential or generated code.
