# Verification of WEOS

WEOS wraps an RTOS into the threading interface of the C++ standard library:
`std::thread`, `std::mutex`, `std::condition_variable`, `std::future`, and a few
extensions (message queues, memory pools, latches). The back end for CMSIS-RTOS
(`src/src/_cmsis_rtos`) implements these classes on top of four things the
kernel gives: tasks, a recursive mutex, a counting semaphore, and SVC handlers
that no thread preempts. That back end is modelled first. With it come the shared code in
`src/src` and `src/src/_common`, the parts of the C++ library that WEOS brings along for the ARM
compiler (`src/src/_armcc`: atomics, `function`, `unique_ptr`, exceptions), and the threads of the back end
for the host (`src/src/_cxx11`).

The modules are plain TLA+. `tlc -config X.cfg M` runs a model and `tlapm M.tla`
checks the proofs of a module; `PROJECT.json` lists the runs, the mutants that
show that each property can fail, the lines of the code behind each definition,
the hazards, and the theorems.

## 1. The system

| Component | State | Operations | Interacts with |
|---|---|---|---|
| **Thread lifecycle** `_thread.hpp/.cpp` | one `SharedThreadState` per thread, placed at the bottom of the thread's own stack: two semaphores, a reference count, the thread id; a global list of states | create, move, join, detach, the invoker, terminate, for_each_thread | kernel (create and terminate tasks), semaphore, heap or the client's stacks |
| **Queue of waiting threads** `_tq.hpp/.cpp` | a singly linked list of nodes on the stacks of waiting threads; two mark bits in each pointer; one semaphore per node | construct (link), wait / wait_for / wait_until, unlink, notify_one, notify_all | SVC handlers and interrupts; base of condition variable, latch and synchronic |
| **Mutexes** `_mutex.hpp/.cpp` | the kernel's recursive mutex and the flag `m_locked` | lock, try_lock, try_lock_for, try_lock_until, unlock | kernel; base of condition variable and lock guards |
| **Condition variable** `_condition_variable.hpp/.cpp` | one queue of waiting threads | wait, wait_for, wait_until with and without predicate, notify_one, notify_all | queue, mutex of the caller |
| **Futures and promises** `_future.hpp/.cpp` | a reference-counted shared state: flags, exception, value, a one-shot condition variable | set_value, set_exception, ~promise, get, wait, wait_for, ~future, async | semaphore, thread (async), heap |
| **Message queues** `messagequeue.hpp` | small elements: the kernel's ring; others: a shared pool, a kernel ring of pointers, and a semaphore that counts the free slots | send, try_send, receive, try_receive | kernel, semaphore, pool |
| **Memory and object pools** `memorypool.hpp`, `objectpool.hpp` | a free list of chunks, a semaphore of free chunks | allocate, try_allocate, free, construct, destroy | semaphore |
| **Latch, synchronic** `_latch.hpp`, `_synchronic.hpp` | a counter or an atomic object, and a queue | count_down, wait, expect, notify | queue |
| **Clocks** `_chrono_clocks.cpp` | the kernel's narrow tick counter, the hardware counter below it, one word that counts overflows | now | kernel, atomics |
| **Lock guards, std::lock** `_common/_lock_guards.hpp` | which mutexes a guard owns | lock, try_lock, unlock, release, move, swap | mutexes |
| **Semaphore, sleep** `_semaphore.cpp`, `_sleep` | the kernel's semaphore | post, wait, timed waits cut into pieces | kernel |
| **Atomics** `_armcc/_atomic.hpp` | a word, or a larger value beside a global mutex | load, store, exchange, compare_exchange, fetch_* | exclusive monitor, mutex |
| **intrusive_ptr, exception_ptr** `intrusive_ptr.hpp`, `_armcc/_exception.hpp` | a pointer to an object with an atomic count | copy, move, assign, reset, release | atomics, heap |
| **Captured exceptions** `_armcc/_exception.*`, `_common/_exception.hpp` | the current exception with its location and its nested exception, a list of converters | WEOS_EXCEPTION, current_exception, rethrow_exception, make_exception_ptr, throw_with_nested, registerExceptionType | exception_ptr, heap |
| **unique_ptr** `_armcc/_memory.hpp` | a pointer and its deleter | construct, move, assign, reset, release, swap | heap, pools |
| **Scope guards** `scopeguard.hpp` | a callable, and a flag or the number of exceptions under way | construct, move, dismiss, destroy | exceptions |
| **function** `_armcc/_functional.hpp` | a callable in place or on the heap | construct, copy, move, assign, swap | heap |
| **Durations** `_common/_chrono.hpp` | a number of ticks of a period | casts, ceil, comparisons, sums, differences, compound assignments | used by all timed waits |
| **C++11 back end** `_cxx11/_thread.*` | a shared state with flags, one mutex, one condition variable | create, join, detach, signals and waits for them | the library of the host |
| **SVC indirection, errors, other templates** | none of their own | | |

### What is hard here

* *Several parties own one object.* A thread and its handle, a promise and a
  future, each drop references in any order, and the last one must destroy the
  object, which contains the very semaphore, and often the very stack, that the other
  party has just used.
* *Handlers that preempt each other.* The list of waiting threads lives on the
  stacks of threads that may time out, and is changed by SVC handlers on top of
  which an interrupt may notify.
* *Timeouts.* A wait may run out at the moment it is notified; exactly one must win.
* *Notifications.* Between the test of a predicate and the queue, none may get lost.
* *Flags beside kernel objects.* The kernel's mutex is recursive, the class is not;
  the flag that makes the difference has no protection of its own.
* *Failures.* No memory, no task, a result whose constructor throws, in the middle of
  an operation.
* *Preemption between two instructions.* An exclusive store that comes too late, a counter
  that wraps between two reads, a reader of the clock that is overtaken.
* *Who owns what.* `unique_lock`, `function`, `intrusive_ptr` and pools pass a resource on by moves,
  swaps and assignments, some of them through temporary storage, or with destructors that destroy others.
* *Rounding.* Times go through several units and widths, and the kernel's ticks do not start when a
  wait does.

`PROJECT.json` lists each such place as a hazard, at its line, with the properties
that would catch it.

### What makes each component correct

* Thread lifecycle: no state is used after its destruction, leaked, or destroyed
  twice; a joinable handle names its own thread; the list holds only living
  states; no stack is re-used under a thread; `join()` returns and detached threads
  give their stack back. State and stack lie in their memory; no signal is lost or reported twice.
* Queue: the list contains exactly the threads that wait; every wait ends by one
  notification or by its timeout, and says which; sorted by priority behind the head.
* Mutex: it is a lock, one `unlock()` frees it, `lock()` succeeds in the end.
* Condition variable: the mutex is held whenever `wait()` has returned; no wake-up is lost.
* Future: one result; the state outlives all its users; every waiting thread
  returns; a promise that is destroyed without a result signals it.
* Message queue: a bounded queue, first in first out, whatever fails; pool: no chunk
  twice, none lost.
* Latch and synchronic: nobody sleeps through the update it waits for. Clock: counts every wrap once.
  `std::lock`: no deadlock; guards: each mutex is unlocked once. Timed waits: not early, not much too late.
* Atomics: every operation at one moment. `intrusive_ptr`, `unique_ptr`, `function`, object pools, promise and
  future: each resource is owned once. Scope guards: a callable runs exactly if its scope ends as it says. Exceptions: what is captured is caught by the handlers that would have caught what was thrown. Durations: what they mean in seconds.

## 2. The modules

    ThreadQueue      --implements-->  WaitQueue  <--extends--  ConditionVariable, LatchSynchronic
    Mutex            --implements-->  Lock       <--instance-- ConditionVariable
    ThreadLifecycle, Future, FutureHandles
    StackLayout, ThreadList, Signals, RecursiveMutex
    MessageQueue     --implements-->  BoundedQueue
    MessageQueue, ObjectPool  --extend-->  FreeList
    AtomicCell       --implements-->  AtomicRegister
    MCValues         --extends-->     LatchSynchronic, LockGuards, HostThread, TimedWait, Clock, AtomicCell,
                                      IntrusivePtr, FunctionValue, Duration, ExceptionCapture, ObjectPool,
                                      FutureHandles, StackLayout, ThreadList, Signals, RecursiveMutex,
                                      UniquePtr, ScopeGuard

The proofs are in modules of their own, which extend the models:

    ThreadLifecycle_proofs     ThreadLifecycle
    ThreadQueue_proofs         ThreadQueue, and its refinement of WaitQueue
    ConditionVariable_proofs   ConditionVariable
    Future_proofs              Future
    Sync_proofs                Mutex (with its refinement of Lock), RecursiveMutex, LatchSynchronic, LockGuards,
                               HostThread, AtomicCell (refines AtomicRegister), Signals, TimedWait, Clock
    Memory_proofs              FreeList, ObjectPool, ThreadList, StackLayout, IntrusivePtr, UniquePtr, FunctionValue
    MessageQueue_proofs        MessageQueue, and its refinement of BoundedQueue (uses Memory_proofs)
    Values_proofs              FutureHandles, ScopeGuard, ExceptionCapture, Duration; then MCValues as a whole
                               (uses Sync_proofs and Memory_proofs)

`WaitQueue` and `Lock` say what the queue and the mutex promise. The detailed models
`ThreadQueue` and `Mutex` implement them (properties `ImplementsWaitQueue` and
`ImplementsLock`), and the condition variable, the latch and the synchronic are modelled on top of the
promises, not of the details. `LockGuards` has its own function from mutexes to owners with
the same steps.

`MCValues` runs the parts that stand alone together: they call nothing of each other and
share no state. Its variable `component` selects one of them in the initial state, and a behaviour is
one of that part while the others stay where they are. So the state space is the sum
of those of the parts, not their product. Each property speaks about one part, or is a conjunction of one
property per part, each asked in the behaviours of that part only: `TypesOK` of all of them;
`ResourcesOwned` of `ReferencesExact`, `UniqueExact`, `CallablesOwned`, `PoolExact`, `HandlesExact` and `GuardsTell`;
`LocksExact` of `OwnersExact`, `NoCircularWait` and `LevelsExact`; `ThreadsAccounted` of `StackExact`, `ListExact` and
`SignalsExact`.

### ThreadLifecycle

A stack block is the identity of a shared state, as in the code. The variables have
the names of the code's members; `hpc[h]` is the next step of the operation of handle
`h`, `tpc[t]` that of `weos_threadInvoker` in task `t`. `mem` is the owner of a block.
An action is one semaphore operation, one atomic access or one SVC:

| Actions | Code |
|---|---|
| `Create_Allocate`, `Create_ConstructThrows` | `ThreadProperties::allocate`, the checks of the constructor |
| `Create_Construct`, `Create_Start`, `Create_StartThrows`, `Create_SetId`, `Create_IncRef` | `thread::create`, `thread::do_create`, `weos_createTask` |
| `Move` | move constructor and assignment |
| `Join_*`, `Detach_*` | `thread::join`, `thread::detach` |
| `Destroy_*`, `Invoker_Unlink/Dtor/Free` | `SharedThreadStateBase::destroy`, on the handle's and on the thread's own side |
| `Invoker_*` | `weos_threadInvoker`, `weos_terminateTask` |

A client that moves into a joinable handle loses a thread; C++ forbids it, and the
model's client does not do it. The list of states is a set here; its links are in `ThreadList`.

### StackLayout, ThreadList, Signals

What `ThreadLifecycle` takes for granted. `StackLayout`: from the attributes of a thread, a step for each
change of `m_stackBegin` and `m_stackSize`, to the stack of its task and to what `thread_info` says
about it; every check that fails ends the attempt. The two settings change at any time. `ThreadList`: the pointers, written
one after the other in SVC handlers, between which an interrupt may walk the list (`Walk`); `for_each_thread()`
is a handler of its own. A state that was unlinked is destroyed when its thread runs again (`unlinked`), others' handlers may come in between. `Signals`: the flags of one thread (`osSignalWait` and the setting of flags are
external), waits for any or for all of some with and without timeout, and the handle.

### ThreadQueue and WaitQueue

`m_h`, `next`, `notified`, `unlinked` are the words of the list; the pointer `m_v` is split
into its pointer and its two bits. `stack` contains the handlers under way, the running one
last; each frame has the locals `i` and `in` of the handler. Threads run only when the
stack is empty. An interrupt pushes a notification on top of a handler of a kind in
`Preemptible`. Every step of a handler is one access to memory that
a preempting handler could change, so a local that has become stale is stale in
the model too. The compare-and-exchange loops are kept as far as another handler can
make them fail.

`WaitQueue` has one phase per thread: idle, entering, waiting, notified, timeout. The
refinement mapping `PhaseOf` reads it off the list: a thread waits when its node
can be reached from the head. `notify_all` takes effect at its first access, when
it takes the whole list, although it posts the semaphores one after the other.

### Mutex and Lock

`owner` and `level` are the kernel's recursive mutex (external), `m_locked` is
the flag. Every operation is `osMutexWait` (`Wait`, `WaitFails`), the test of the
flag (`Check`), and for a second lock its undoing (`Undo`). `held` records what the
client was told. A holder may try to lock again at any time.

`RecursiveMutex` has the kernel's mutex as the recursive classes use it: `Rec_Call` starts a call that waits for ever, looks
once, or has a timeout of several pieces; a piece may end (`Rec_TimeOut`) at any time.

### ConditionVariable

`Wait_Construct`, `Wait_Link`, `Wait_Release`, `Wait_Timeout`, `Wait_Relock` are the
steps of one wait: the node is linked before `lock_releaser` releases the mutex.
`Pred_True`, `Pred_False` and `Last` are the loops around them. The clients are external:
consumers wait for an item, producers add one and notify with or without the mutex. A timed
form is one that may give up; times are abstracted.

### Future

One shared state from its creation to its deallocation, made for a promise or for
`async()` (`mode`). `Owner` makes it, owns the promise or calls `async()`;
`Setters` set results through the promise at the same time; `Task` is the thread of `async()`;
`Waiters` use one future object at the same time as far as its interface allows it.
`Start`, `Store`, `Store_Throws`, `SetReady`, `Notify` are `setValue()`/`setException()`;
`Check`, `Take`, `Post`, `TimeOut` are `wait()`/`wait_for()` with the
one-shot condition variable; `Attach`, `IncRef`, `DecRef`, `Free` are the references;
`Destroy_IsReady`, `Destroy_Count` are `~promise()`; `StartThread` is
`makeAsyncSharedState()` with its failure.

`FutureHandles` has several states, and the promise and future objects that come to share them: constructed,
moved, assigned (also to themselves), swapped and destroyed by one thread. An operation is one step, made of functions from states to
states in the code's order (`Dropped`, `Attached`, `Failed`, `Broken`). A `~promise()` that throws ends the program.

### MessageQueue, FreeList and BoundedQueue

The queue for elements that do not fit into a word. `m_numAvailable` is the semaphore, `m_first` and
`memory` are the pool, `m_pointerQueue` is the kernel's ring, which alone makes up the queue
for small elements. The chunk of an element holds the pointer of the free list when it is not allocated, as in the
code (`FreeList`), so a chunk that is used after it was given back shows
a pointer where an element should be. A step is one call of the kernel or one constructor:
`Send_Wait`, `Send_Allocate`, `Send_Construct`, `Send_Put`; `Receive_Get`, `Receive_Move`,
`Receive_Free`, `Receive_Post`. Constructors may throw (`Send_Throws`, `Receive_Throws`);
`lostTokens` and `lostChunks` count what that costs, and exist in the model only.

A token of `m_numAvailable` stands for a free chunk and a free place in the ring: with `ChunksExact`
the two assertions of `send()` hold.

`BoundedQueue` has a sequence of elements and what each receiver got last. A receiver has its element from the
moment it takes the pointer, although it reads the chunk in a later step. So the refinement
fails if anybody writes to the chunk in between.

### LatchSynchronic

One atomic object (`object`: the counter of a latch, or the object of a synchronic) beside a `WaitQueue`. A
call that waits enters the queue (`Construct_Begin`, `Construct_Enter`), looks at the object
(`Look`), and blocks or leaves; a call that updates stores and notifies in two steps.
`count_down_and_wait()` counts down in its look. `partial` remembers that the last update was announced to
one thread only, or to none. No client counts below zero, as the comments demand.

### LockGuards

`guard[t][g]` is a `unique_lock` of a thread with the code's two members, `loose` the mutexes
that `release()` or `std::lock` has left to the client. `Lock_First`, `Second`, `Second_Fails`,
`Back_Off`, `Give_Up` are `std::lock` and `std::try_lock`, which lock and unlock through a `unique_lock` of
their own. A step that locks is any of the ways to lock that succeeds.

### HostThread

The shared state of the C++11 back end, with the creator and the thread, which wait on one condition
variable (external, with spurious wake-ups; finding the predicate false, going to sleep and
waking up are steps of their own): `Create_*`, `Signals_*`, `Join_*` of the client; `Register`,
`WaitSignals_*`, `End_*` of the thread. A wait with a timeout gives up when it holds the mutex and its predicate is false. A change of a flag and its notification are one step only if the
code holds the mutex for both.

### TimedWait

One thread in one timed call. Time passes in units, `Unit` of which make a millisecond, and a wait of the
kernel of n ticks ends at the n-th tick, wherever between two ticks it began. `Piece_Relative` and
`Piece_Until` are one round of the loops that cut a timeout; `delay` counts the time during
which the thread is ready, but kept from running.

### Clock

Every access of `weos_chrono_getSystemClockTicks()` is a step, and between two of them the hardware counter
may move, the tick handler run, or another reader go on. `os_time` has `High * Low` values in place of
`16 * 2^28`. `Tick` stops when nobody has read the clock for `Low` intervals: the code demands such a reader.

### AtomicCell and AtomicRegister

`AtomicRegister` invokes an operation, lets it take effect at one moment, and responds.
`AtomicCell` has an exclusive load and an exclusive store, or the steps under
`g_atomicMutex`; `Preempt` clears the monitor. Values have `Width` bits and wrap around. A value narrower than its word
leaves what is in the rest of the word to `rest`, which a compare_exchange may trip over. The operators (`++`, `+=`, conversions) are the operations they call, with
what they return (`Returned`).

### IntrusivePtr, FunctionValue, ObjectPool, UniquePtr, ScopeGuard

`IntrusivePtr`: each change of a pointer and each operation on the atomic count is a step; different pointers
belong to different threads. `FunctionValue`: a call is one step, as a function object belongs to one
thread, but the step is composed of the code's clones and destructions in their order, on a record of the memory, which notes
every construction on top of a living callable and every use of a dead one. `means` is what the C++ standard
says the object holds. `ObjectPool`: constructors and destructors run between the atomic operations of the
pool, and may throw after they have written to the chunk. `UniquePtr`: each object has a `unique_ptr` for a member, as the element of a list
has, so that deleting one deletes others (`dying`); deleters differ, and `operator=` takes the other's
deleter last. `ScopeGuard`: `frames` is the stack of open scopes and of callables that run; an exception
unwinds them one by one, and the callables that run on the way open scopes and throw exceptions of their own.

### Duration and ExceptionCapture

`Duration`: a call of any operation on any two durations; results are compared with what the
durations mean in seconds (`Meaning`, in a unit that the ticks of both operands are multiples of): all conversions, comparisons, sums, differences, products by numbers and compound
assignments. Types have a period and a width, narrow enough to overflow; an operation
whose intermediate values do not fit is undefined in C++ and is not called. `ExceptionCapture`: an
exception is the set of classes whose handlers catch it, and whether it knows its location; `Handlers` and `converters` are searched in the
code's order. `weos::exception` is mixed in with the location, and by every wrapper and substitute of a capture (`Decorated`). Where a copy
constructor of the program is called, it may throw: in `clone()` (`Substitutes`) and in `make_exception_ptr()`, which captures
what the constructor throws (`Interferes`). Another exception
may be nested in it. Each exception remembers what was thrown and what the first capture made of it.

## 3. The runs

| Run | Instance | Distinct states | Shows |
|---|---|---|---|
| `lifecycle` | 2 handles, 3 tasks, 1 heap block, 1 custom stack | 64,175 | Eight properties: no use after destruction, exact counts, listed states alive, stacks quiet; `join()` returns, detached stacks come back |
| `lifecycle_stack` | the same | stops at the violation | **finding 1** |
| `thread_queue` | 3 waiters, 2 priorities, 2 nested handlers | about 161,000 | The list is exact, tokens match marks, the order holds, the queue is a `WaitQueue`, when interrupts preempt notifications only |
| `thread_queue_interrupt` | the same, any handler is preempted | stops at the violation | **finding 2** |
| `mutex` | 3 threads; lock, try_lock, try_lock_until | 2,989 | The class is a `Lock`; flag and count are exact; `lock()` succeeds |
| `mutex_try_lock_for` | 2 threads; lock, try_lock_for | stops at the violation | **finding 3** |
| `condition_variable` | 2 consumers, 2 producers, at most 3 items | 39,230 | `wait()` returns with the mutex, no wake-up is lost, items and waiting threads do not stay together |
| `future` | 2 setters, 2 threads on the future, promise and async | 14,708 | One result, no use after the end of the state, waits return, broken promises are signalled unless a constructor threw, async() blocks the last future |
| `future_broken_promise` | promise | stops at the violation | **finding 4** |
| `message_queue` | 2 senders, 2 receivers, 2 slots, 2 different elements | 37,530 | The assertions of `send()` hold; no chunk is in two places or lost without a throw; the queue is a `BoundedQueue`; a sender that waits gets a slot if receivers keep calling |
| `values` | eighteen parts, see below | 1,056,283 | see below |
| `latch_release` | 2 waiting threads, 1 that counts down, counter up to 2 | stops at the violation | **finding 5** |

The parts of `values`:

| Part | Instance | Distinct states | Property and what it says |
|---|---|---|---|
| `LatchSynchronic` | 2 waiting threads, 2 that update; counter up to 2, 2 values | 20,732 | `NoSleeperMissed`: a thread that is blocked while the object has the value it waits for will be notified |
| `LockGuards` | 2 threads with 2 guards each, 2 mutexes | 15,921 | `OwnersExact`: each held mutex has exactly one who unlocks it. `NoCircularWait`: nobody waits in `std::lock` for one who waits there |
| `HostThread` | 1 client, 1 thread, 2 signals | 1,128 | `NobodyOversleeps`: nobody sleeps while its predicate is true, but for a notification on its way |
| `TimedWait` | 2 units to the millisecond, pieces of 2, six timeouts | 14,328 | `TimeoutKept`: not early, at most one tick late (two for `sleep_for`) |
| `Clock` | 2 readers; 2 * 2 intervals of 2 ticks, 9 ticks | 625,183 | `NowExactUnlessLate`: every wrap is counted once, unless a reader was overtaken while the high bits changed |
| `AtomicCell` | 2 threads, 2 bits and one behind them, all operations and operators | 132,250 | `ImplementsRegister`: every operation takes effect at one moment |
| `IntrusivePtr` | 3 pointers, 2 objects | 7,474 | `ReferencesExact`: exact counts, no use or destruction of what does not exist |
| `FunctionValue` | 3 functions, 2 small and 2 large callables | 867 | `CallablesOwned`: each callable has one owner, and each function holds what C++ says |
| `Duration` | 4 types, 21 numbers of ticks | 42,681 | `DurationsExact`: results are what they mean in seconds |
| `ExceptionCapture` | 17 classes, 4 of them of the program, 3 thrown; 2 registrations | 26,613 | `CaptureFaithful`: only the first capture changes anything; the handlers of the list catch what they would have caught before, no other does but those for `std::exception` and `weos::exception`, and no location is made up, nor lost by a class of the list |
| `ObjectPool` | 2 threads, 3 chunks | 280 | `PoolExact`: no chunk in two places, none lost, whatever throws |
| `FutureHandles` | 2 promises, 2 futures, 3 states | 18,040 | `HandlesExact`: one promise and one future to a state, exact counts, and a future without a promise is ready |
| `StackLayout` | words of 2 bytes, 3 custom stacks, 6 sizes | 2,640 | `StackExact`: state and stack lie in their memory, aligned, and nothing of it is forgotten |
| `ThreadList` | 4 states | 39,074 | `ListExact`: an interrupt at any moment comes by every thread once, and by nothing else |
| `Signals` | 3 signals, 2 pieces | 8,624 | `SignalsExact`: none is lost, reported twice or reset unasked |
| `RecursiveMutex` | 2 threads, 2 levels, 2 pieces | 204 | `LevelsExact`: as many levels as the holder was told, whatever fails or times out |
| `UniquePtr` | 2 pointers, 2 objects with a pointer each, 2 deleters | 5,828 | `UniqueExact`: one owner to each object, which goes back where it came from |
| `ScopeGuard` | 4 frames with one guard each, 2 exceptions | 94,416 | `GuardsTell`: a callable runs exactly if its scope ends as it says, whatever other exceptions are under way |

Deadlock is checked everywhere but in the two `future` runs, in `message_queue`, and in `values` and `latch_release`. A future's
state is followed to its end, after which nothing happens any more. A message queue really stops when
throwing constructors have used up its tokens: `send()` gives the chunk back, but not the token, and
`receive()`, as a comment at `messagequeue.hpp:191` admits, neither. Every sender then waits for ever
beside an empty queue; `SenderServed` says that nothing else gets it there. Threads that wait for a latch whose
counter nobody decrements wait for ever, and the clock of the model ends.

### The bounds, and why they are enough

* *ThreadLifecycle.* Three tasks and two blocks: two threads run at the same time, the
  third takes the place of one that is about to terminate, which is the case that
  finding 1 needs. Both kinds of stack are there. Two handles: one to move
  from, one to move into, and two threads that are joined or detached at the same time. The
  theorems below remove these bounds for safety.
* *ThreadQueue.* Three nodes: the first, one in the middle and the last, one of them of
  another priority. `MaxNesting = 2`: a handler and one on top of it. A third level
  behaves for the second one as the second does for the first.
* *Mutex.* One holder, two threads that compete for it. `level` is not bounded by
  the model; it never exceeds two in this run.
* *ConditionVariable.* Two consumers and two producers: a notification for one that arrives when
  the other waits; `MaxItems = 3` lets more items than waiting threads pile up. The
  properties were also seen to hold with three consumers (567,000 states).
* *MessageQueue.* Two slots and two different elements: order matters, the ring and the pool are each full,
  empty and in between. Two senders and two receivers compete at both ends.
* *LatchSynchronic.* Two who wait and two who update: an update between the steps of another's wait, two notifications at
  once, and one notification for two. *LockGuards.* Two threads, two mutexes: the opposite orders.
* *Clock.* Nine ticks of the hardware counter are more than four intervals: os_time wraps around, and the
  second wrap begins. Two readers: one is overtaken by the other.
* *TimedWait.* Timeouts from zero to more than three pieces, on and between milliseconds; two phases of the tick.
* *AtomicCell.* Two bits, so that sums wrap and bits differ. With four bits (616,232 states) the property was also seen to hold.
* *IntrusivePtr.* Three threads on one object: two may drop it while a third copies it. *FunctionValue.*
  Three functions and a temporary; four heap blocks suffice (`HeapSuffices`).
* *Duration.* Periods of 1/6, 1/2 and 3, with common types finer than either; widths of 4 and 6 bits, so that
  casts narrow. *ExceptionCapture.* The whole hierarchy of the C++ library, and program classes below
  `exception`, below a library class, below each other, and below `weos::exception`. The library's own classes are
  caught by themselves; those thrown are the classes of the program, for which handlers, converters and slicing differ.
* *FutureHandles.* Two of each kind to move and swap, one state more than promises for `make_exceptional_future()`.
* *StackLayout.* Custom stacks that begin at every offset of the alignment, and sizes that are too small for the state, for its alignment,
  for the registers of the task, just enough, and too large. *ThreadList.* Four states: an interrupt that walks over the first, two in
  the middle and the last. *Signals.* Three: one asked for, one more asked for, one that is not.
* *RecursiveMutex.* Two levels, one thread that waits with each kind of timeout. *UniquePtr.* Two objects that may own one another: chains,
  but no cycles, which nobody could free.
* *ScopeGuard.* `MaxScopeGuards = 1`: a scope with more guards is one in which as many scopes are nested, which `MaxFrames = 4` allows.
  Two exceptions: one unwinds, one is thrown and caught by a callable in the meantime. `MovesAnyGuard = FALSE`: see section 5.
* *Future.* Two setters race, and both race with nobody else, as nobody may use a promise while it
  is destroyed; two waiters pass the token on. There is one promise and one future by the interface.

### Fairness

Weak fairness for a thread inside an operation: the kernel runs every ready thread at some
time. Strong fairness for threads that block on a semaphore or a mutex
(`Wait`, `Take`, `ConsumerLocks`, `Send_Wait`, `Receive_Get`): the kernel keeps them in a queue and each is
served at some time. In `Mutex`, strong fairness of `Unlock`: a client unlocks what it
holds, though it may try to lock again before. `Destroy_IsReady` and the invoked functions
are fair: a promise is destroyed and a threaded function returns. No client has to
call, and no timeout has to run out. In `latch_release` running threads go on; nobody has to count down. `SenderServed` states its assumption that receivers call in the property.

`JoinReturns` and `DetachedReclaimed` need no strong fairness: each of the semaphores has
one waiting thread. `LockSucceeds` is what `ConditionVariable` assumes of its mutex.

## 4. What is proved

For every value of the constants, by TLAPS.

**Thread lifecycle** (`ThreadLifecycle_proofs`), for any sets of handles, tasks and stacks,
finite or not, that fulfil `StacksDisjoint` and `NoneIsNothing`:
`TypeCorrect`, `NoUseAfterDestroy` (`SharedStateAlive`), `JoinableHasTask`, `ListSound`, `StackKept`
and `CountExact` (`ReferencesCounted`).

The properties are not inductive: that a handle may still use its semaphore depends on where the
invoker is, what the counter shows and which semaphores were posted. `IInv` says
it from three sides. `HandleInv(h)`: for each place of a handle, the
joint state of its invoker, counter and semaphores (`Kept`: not yet released, `Released`:
released and in one of four places). `TaskInv(t)`: for each place of the invoker, that
its block is its own, constructed and listed, and, if no handle is left, that it is the last.
`BlockInv`: nothing free or destroyed is listed, and no constructed state is forgotten.
`Invariance` has one step per action. `CountExact` follows from `IInv` with the cardinality of
sets of at most one element.

**Mutex** (`Sync_proofs`), for any set of threads: `TypeCorrect`, `MutualExclusion` and
`LockRefined` (`ImplementsLock`) for any set of operations, also with `try_lock_for`;
`FlagExact` (`HeldIsLocked`) and `OneUnlockFrees` (`UnlockFrees`) if `try_lock_for` is not
used, which finding 3 shows to be necessary. The invariant: an owner exists exactly if the count is
not zero; a thread that is told it holds the mutex or runs behind `osMutexWait`
is the owner, with two levels if both; a set flag has a holder; without
`try_lock_for` level and flag are exact.

**Queue of waiting threads** (`ThreadQueue_proofs`), for any finite set of nodes, any priorities and any depth
of nesting, under `Preemptible \subseteq {"one", "all"}`: only notifications may be interrupted between their steps.
Finding 2 shows that the assumption is necessary; `MCThreadQueue.cfg` fulfils it.
`TypeCorrect`, `QueueCorrect` (`QueueExact`), `TokensCorrect` (`TokensMatch`), `ListSorted` (`SortedBehindHead`) and
`QueueImplemented` (`ImplementsWaitQueue`). The handlers under way are one that links, or one that unlinks, or any number of
notifications. In each of these cases the list is intact: a sequence of different nodes, each of which points to the next, sorted behind the
first. It, the lists that notifications have taken, and the node that is being linked or unlinked have no node in common, and together they are the
nodes that wait and are not marked. The walks of the model follow such a sequence to its end, for it is not longer than there are
waiters (`List_Walk`); so what the properties say of walks follows from what the invariant says of sequences.

**Condition variable** (`ConditionVariable_proofs`), for any consumers and producers, finitely many or not: `TypeCorrect` and `NothingLost`
(`NoLostWakeup`). The invariant says where the mutex is held, that from the look at the predicate until the node is in the queue there is no item
(`StillFalse`), and `NoLostWakeup` itself: each item put while somebody waits has a producer that will notify, whose notification makes a waiting
consumer an active one.

**Future** (`Future_proofs`), for any setters and threads on the future: `TypeCorrect`, `NoUseAfterFree` (`StateAlive`),
`BrokenPromiseTold` (`PromiseKept`) and `CountExact`. The reference count is the number of its holders (`RefsHeld`), and the one that drops the last
reference is alone and destroys once (`DestroyedLast`). At most one thread carries the result, or the token of the semaphore that is
passed from one waiting thread to the next (`OneBaton`), and what is stored under it is what was asked for (`Stored`).

**Message queue** (`MessageQueue_proofs`), for any size of the queue, any threads and elements: `TypeCorrect`, `ChunksKept`
(`ChunksExact`) and `QueueCorrect` (`ImplementsQueue`). The free list is a path through distinct chunks, as in `FreeList`, whose lemmas are
proved once (`Memory_proofs`) and used for the object pool too. Each chunk is free, held by one thread or in the queue of pointers; free chunks are
counted against tokens and against threads between `wait` and `post`.

**What stands alone.** Each with an inductive invariant of its own:

| Theorem | For any | Says |
|---|---|---|
| `RecursiveLevels` | threads, levels | `LevelsExact` |
| `SleepersTold`, `LatchTypes` | threads that wait and that update, counts, values | `NoSleeperMissed`: at the place where a thread sleeps, the object does not yet have its value, or somebody has still to notify |
| `OneUnlocks`, `LockOrderFree` | threads, two or more mutexes, guards | `OwnersExact`, `NoCircularWait`: who blocks in `std::lock` holds nothing by it |
| `HostWaits` | signals | `NobodyOversleeps` |
| `AtomicCellCorrect`, `CellTypes` | threads, widths | `ImplementsRegister`: an exclusive store succeeds only if nobody has stored since the load |
| `SignalsKept` | signals | `SignalsExact` |
| `TimeoutsKept` | units, pieces, timeouts | `TimeoutKept`: passed time and what is left add up to the timeout, rounded up |
| `ClockCorrect` | readers, periods, widths | `NowExactUnlessLate` |
| `PoolCorrect`, `ListCorrect`, `StackCorrect` | number of chunks, finite set of states, addresses and sizes | `PoolExact`, `ListExact`, `StackExact` |
| `PointersCorrect`, `UniqueCorrect`, `CallablesCorrect` | pointers and objects (for `unique_ptr` a finite set); functions and more heap blocks than these, finitely many | `ReferencesExact`, `UniqueExact`, `CallablesOwned` |
| `HandlesCorrect`, `GuardsCorrect`, `CaptureCorrect` | promises, futures; frames, exceptions; hierarchies of classes | `HandlesExact`, `GuardsTell`, `CaptureFaithful` |
| `DurationsCorrect` | periods, widths of rep, numbers of ticks | `DurationsExact` |

*Clock.* os_time is a number below `High * Low`, the time modulo the wrap. The invariant says that the word counts the high bits of the newest
reader's time (`WordExact`), that this time is less than `Low` intervals behind, and that what a reader has seen is at most one interval ahead, and
not at all once it has read the pair twice (`Seen`): if the tick handler ran between its first two reads, the third one finds the time changed, and
the reader starts over. So its high bits are those of the word or the next ones, and their order tells whether they wrapped, even if there are only two values of them,
as in the run; the code has sixteen.
*ExceptionCapture.* `Bases(c)` is the least set of classes with `c` and the base class of each; the classes of the list come before those they derive from (`Cap_DerivedFirst`),
and, as there is single inheritance, of two base classes one derives from the other (`Cap_Chain`): so the first handler that catches a class catches
it as something that all its other listed base classes are bases of. The invariant adds that the names of an exception
are those of one class, `weos::exception` perhaps mixed in (`Named`), which no handler of the list names (`Cap_Mixed`), and that what was captured once is
captureable: it clones itself as it is from then on.
*Duration.* `static_gcd_impl` and the powers of two are recursive functions. That they are defined, and what they compute, follows from the least
number for which it would not be so (`GcdCorrect`, `PowerDef`); then `ratio_divide` and `common_type` are what they should be (`RatioFacts`, `CommonFacts`),
a value that can be held stays what it is when it is cast (`Narrowed`, `CastFacts`), and each function is exact in the unit of its two operands.
*UniquePtr.* Pointers that are members of objects form no cycle; the invariant has a rank of the objects (`Acyclic`), so
deletion ends.

`ValuesWaits`, `ValuesLocks`, `ValuesThreads`, `ValuesOwned`, `ValuesClock`, `ValuesDurations`, `ValuesExceptions` and `ValuesTypes` put this together for
`ValuesSpec`, as the run checks it: a step of one part leaves the others' invariants alone.

**The assumptions** are those the modules state and TLC evaluates, and those in the theorems: `Preemptible \subseteq {"one", "all"}` (finding 2),
`"try_lock_for" \notin Ops` (finding 3), `~MovesAnyGuard` (section 5: the move constructor of two of the three kinds of guards does not dismiss).
Of the constants the proofs needed to know that sets are finite that memory makes finite (nodes, states, chunks, heap blocks, objects), that the
minimum size of a custom stack is a number of words (`minimum_custom_stack_size` is 64, `_thread.cpp:42`), and that the kinds of places
(the temporary of a `function`, heap, buffers) are distinct.

**Model-checked only.** Liveness (`JoinReturns`, `DetachedReclaimed`, `LockSucceeds`, `ItemsServed`, `WaitReturns`, `SenderServed`), which
the prover cannot do, as it cannot do ENABLED. All invariants, refinements and action properties of the passing runs are proved.

## 5. Findings

1. **A detached thread frees its own stack too early** (`lifecycle_stack`,
   `_thread.cpp:276`). The invoker of a detached thread destroys the state, which frees the
   stack it runs on, and terminates only then. If another thread is created in between, it gets
   the same stack. The comment at `_thread.cpp:212` demands that there be no context switch.
2. **An interrupt breaks the list of waiting threads** (`thread_queue_interrupt`,
   `_tq.cpp:154` and 117). Both handlers read the next pointer and store it later; a
   notification between the two removes the node the pointer names. `notify_one()` and
   `notify_all()` of the condition variable are documented for interrupts.
3. **`timed_mutex::try_lock_for` does not set the flag** (`mutex_try_lock_for`,
   `_mutex.cpp:130`). `unlock()` then fails its assertion. It remains a lock (`LockRefined`), though.
4. **A promise whose value could not be constructed** (`future_broken_promise`,
   `_future.hpp:281`). `BeingSatisfied` stays set, and `~promise()` throws out of `setException`
   instead of signalling a broken promise.
5. **A latch that does not release** (`latch_release`, `_latch.hpp:80`). The thread that brings the counter to
   zero with `count_down_and_wait()` notifies nobody; those who block already stay blocked. The comment at
   `_latch.hpp:45` says they are released once the counter decrements to zero.

The models show more, which has no run of its own:

* A future of `async()` that is dropped as soon as the result is ready frees the stack of the thread, which is
  still in `notify()` (`_future.hpp:283`). `StateAlive` excepts exactly this;
  no line of the repository demands otherwise of `async()`.
* A reader of the clock that has read `os_time` and is preempted while the high bits change and another
  thread calls `now()` takes its old high bits for an overflow: it counts one, for everybody and for ever
  (`_chrono_clocks.cpp:109`). `NowExact` without the exception of `NowExactUnlessLate` is violated by the model,
  with the two readers of `values`. The window opens once in 2^28 intervals, so it is rarely hit.
* If the latch is destroyed as soon as its counter is zero, `count_down()` still uses its queue
  (`_latch.hpp:95`; `DestroyAtZero = TRUE` makes `LatchAlive` false).
* `wait_for()` with a predicate starts the whole timeout again after each wake-up
  (`_condition_variable.hpp:168`, where a comment admits it); `TimeoutKept` excepts it.
* The move constructor of a guard for failure or success does not dismiss the guard it moves from, as that of a guard for any exit
  does (`scopeguard.hpp:98`): both call the callable. `GuardsTell` is violated by the model if `MovesAnyGuard = TRUE`. The macros never
  move a guard into a second variable.
* `WEOS_EXCEPTION` with the location switched on slices an exception class that derives from `weos::exception`: operator<< returns a
  `weos::exception` (`_common/_exception.hpp:46`), so a handler for the class does not catch it. `CaptureFaithful` speaks of
  what is thrown in the end (`Raised`).
* All wrappers and substitutes derive from `weos::exception` (`_armcc/_exception.hpp:380` to 442). So a plain `std::runtime_error` that was captured
  and rethrown is caught by a handler for `weos::exception`, which would not have caught it before. `CaptureFaithful` excepts
  this class, as it does `std::exception`, which what nobody knows becomes.
* `allocate()` asks `malloc` for zero bytes when the default stack size is meant (`_thread.cpp:451`). `StackExact`
  excepts exactly this (`Undersized`).
* Seen beside the models: `try_construct_for()` ignores its timeout (`objectpool.hpp:236`) and `construct()` of the
  shared pool calls a member its pool does not have (`objectpool.hpp:208`); line 34 of that header says `#inlcude`, so that
  none of it compiles as it stands, and the models take it as meant; `post()` of the C++11 semaphore
  locks its mutex twice (`_cxx11/_semaphore.cpp:41`).

## 6. Not modelled, and the plan

Modelled: all modules of the first plan, and what it had left out: signals, stack layout, the list of threads, recursive mutexes, the
objects of promise and future, and of the library that WEOS brings along `unique_ptr`, scope guards, nested exceptions and their locations.

Proofs: all safety properties of the passing runs are theorems. Left is what the prover cannot do: liveness.

Left out for good, and why:

* Thread hooks: code of the client. Post and wait of the semaphore: one call of the kernel each.
* SVC indirection and error codes: calling conventions. An SVC is one step, or a frame of the
  handler stack, in the models.
* Tuples, `invoke`, `bind`, type traits, array and other templates: the compiler does their work, and no
  state changes. Durations whose ticks are floating-point numbers.
* Terminate handlers, `current_exception()` outside of a handler.
* Calls of a `function`, `target()`: they change no owner. `construct()` of the shared object pool, which does not compile.
* The semaphore of the C++11 back end, whose `post()` cannot return, and its futures, which are those of the host.
  Vendored code, tests, examples.
* The kernel, the hardware and the host's library themselves: modelled from how this code uses them.
