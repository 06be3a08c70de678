# L_builtin in TLA+

L_builtin is a loadable bash builtin, written in Rust with some C.  It gives scripts
process-shared mutexes, semaphores and barriers, variables shared between processes, wrappers
around system calls on descriptors, and commands that run other commands and capture what they
print.  Its hard part is what unrelated shells, their forked children, signals and longjmps do to
the same state at the same time.  These modules model that part, check it on small instances with
TLC and prove it for all instances with TLAPS where the prover reaches.

Contents: [Inventory](#inventory), [Modules](#modules), [Runs](#runs), [Fairness](#fairness),
[Proofs](#proofs), [Disagreements](#disagreements-of-code-and-documentation),
[Not modelled](#not-modelled-and-why), [Plan](#what-is-left).

## Inventory

Paths are under `src/l_builtin/src` unless they say otherwise.

| Part | Source | State | Operations | What is hard |
|---|---|---|---|---|
| Handle registry | `handles.rs` | per process: next handle, map from handle to mapping and name | store, lookup, take, for_each; map_anonymous, map_named, unmap | a forked child copies it; kept numbers of closed handles |
| Mutex | `cmd_mutex.rs` | a `pthread_mutex_t` in shared memory | create, open, lock (`-t`, `-n`), unlock (`-a`), close, destroy | interleaving, owners killed, names bound again, robust lists |
| Barrier | `cmd_barrier.rs`, `pthread.rs` | mutex, condition variable, count, satisfied | create, open, wait (`-t`, `-n`), reset, close, destroy | lost and spurious wakes, reset under waiters, a guard that is not robust |
| Semaphore | `cmd_semaphore.rs` | `sem_t`, or a name of the kernel | create, open, wait (`-t`, `-n`), post, close, destroy | two name spaces, the count that is left, interrupted waits |
| Variable database | `vardb.rs` | header and blob in a file or shm object, or an rwlock and a growing mapping; description and pid in each process | open, read, with_write | the header without a lock, flock and fork, kills between two writes |
| Shared variables | `cmd_shm.rs` | the databases a shell has bound, the hooks on its variables, its local copies | bind, unbind, drop, sync, clear, info, rm; get, assign, unset | stale local copies, lost updates |
| Makers of descriptors | `shared.rs`, `eventfd.rs`, `timerfd.rs`, `signalfd.rs`, `memfd.rs`, `pipe.rs`, `accept.rs`, `connect.rs`, `listen.rs`, `close.rs`, `cmd_fcntl.rs`, `../../dispatcher` | the descriptor table, and the numbers the script knows | create, dup, setfd, close | the limit of descriptors, cleaning up half-way, fork and exec |
| Input and output | `read.rs`, `write.rs`, `recv.rs`, `send.rs`, `splice.rs` | a description, with its `O_NONBLOCK` | one call, or a loop of calls | `O_NONBLOCK` set on a shared description; short transfers |
| Waits | `cmd_epoll.rs`, `../c/cmd_poll.c`, `accept.rs`, `sleep.rs`, `eventfd.rs`, `timerfd.rs` | the interest set and ready list of the kernel | poll, epoll add, mod, del, wait, accept `-t`, sleep | restarts after EINTR, draining, a number used again |
| Dispatch, capture, signals | `entrypoint.rs`, `subcmd.rs`, `cmd_run.rs`, `cmd_sig.rs`, `cmd_core.rs`, `../c/l_bash_api.c` | the stack of running calls: stdout, docs, masks, flags, traps | call, `-v`, run, sig run, block, unblock | nesting, longjmps over Rust frames, signals in between |
| Arguments | `cmdargs.rs`, `cmdargs-derive/` | the statics of `internal_getopt` | parse, twice for each call | what the parse before left behind |
| Names | `llib/src/intlookup.rs` | none | pack, sort, search | the borders of the search, prefixes |
| Text, lua, the rest of the bash interface | `bprint_bytes.rs`, `cmd_replace.rs`, `cmd_sedvar.rs`, `cmd_lua.rs`, `bash_api.rs` | bash's and lua's | conversions | none that interleaves |

The subcommands of one process run one after another or nested: bash is single-threaded, and so
is the library.  Processes interact through shared memory (mutexes, barriers, semaphores, memfd
and mmap databases), through files and POSIX shared memory objects (databases), and through
open-file-descriptions that children inherit.  Nothing is persisted except databases and names.

What makes each part correct: a mutex has one holder and an abandoned one can be recovered where
it is robust; a closed handle stays dead; what is mapped has a handle; a barrier opens for the
round it counted and lets everybody out; no unit of a semaphore is lost; a database is updated
whole, by one writer, and read at one moment; a number the script was told stays good and nothing
stays open that it was not told; a call puts back what it changed for its own use; the words of a
call mean the same whatever was called before; what can end does.

## Modules

| Module | What it is |
|---|---|
| `Handles` | the handle registry: pure operators on a record |
| `ShmMutex` | the mutex subcommands, with names, mappings, forks and deaths; instance `MCShmMutex`, proofs `ShmMutex_proofs` |
| `AbstractLock` | what a mutex promises: one holder, orphans when owners die |
| `Barrier` | the barrier, with its guard and condition variable; proofs in `Waiting_proofs` |
| `AbstractBarrier` | what a barrier promises: a round that fills, opens and empties |
| `Objects` | the lives of semaphores and barriers, and the semaphores' counts; `MCObjects`, `Objects_proofs` |
| `FlockStore` | the database in a file or shm object, with the subcommands that use it; proofs `FlockStore_proofs` |
| `AbstractStore` | what a database promises: whole updates of what was there before |
| `ShmVars` | a database in memory (memfd, mmap) and the shell variables bound to it; proofs `ShmVars_proofs` |
| `Descriptors` | the descriptor tables and what the scripts know of them; `MCDescriptors`, `Descriptors_proofs` |
| `DescriptorIO` | reads and writes on a description that processes share; `MCDescriptorIO`, proofs in `Descriptors_proofs` |
| `Waits` | poll, epoll wait, accept and sleep; `MCWaits`, proofs in `Waiting_proofs` |
| `Commands` | nested calls, captures, signals and longjmps in one shell; `MCCommands`, `Commands_proofs` |
| `IntLookup` | the table of names, built and searched; proofs in `Arguments_proofs` |
| `Arguments` | the two parses of a call around that lookup; `MCArguments`, `Arguments_proofs` |

`ShmMutex` and `Objects` compose `Handles` with the memory, the names and the processes;
`Arguments` composes `IntLookup` with the parser.  `ShmMutex`, `Barrier` and `FlockStore` end with
the refinement (`INSTANCE Abstract... WITH`) and its property `Implements...`.  In all modules a
variable or field whose comment says *history* is not in the code: it records what scripts were
told, for the properties.

### Handles and ShmMutex

`reg[p]` is `MUTEX_REGISTRY` of process `p`; `Store`, `Known`, `Take` and `Mapped` are
`store`, `lookup`, `take` and `for_each`.  An object is a piece of shared memory: anonymous
(`map_anonymous`) or with names (`bound`, the directory `/dev/shm`).  The kernel and glibc side
of a mutex is `owner`, `died` (FUTEX_OWNER_DIED), `waiters` (FUTEX_WAITERS), and `via`, the mapping
through which the robust list of the owner reaches it.  `create -n` is three steps (`CreateOpen`,
`CreateTruncate`, `CreateInit`), as other processes can run between `shm_open`, `ftruncate`
and `pthread_mutex_init`.  `lock` is one step when it does not block, else `LockBlock` and
then `LockWake`, `LockAgain` (woken, but too late: asleep again) or `LockTimeout`.  A call that fails and changes nothing is a stuttering step.
`held[p]` is what the script of `p` was told.  Undefined behaviour, a lock of bytes nobody
initialised or an init under waiters, is modelled by what glibc's structure does.

Who sleeps is woken by an unlock, or by the kernel at the end of an owner, if `waiters` is set
(`Wakes`, `Woken`).  A process that ends while it is woken passes that on, unless a newcomer has the
mutex by then, and has it without `waiters`.  An init clears `waiters` and wakes nobody; a lock of
zero bytes sleeps on a futex that is private to the process, which nobody wakes either.  `adrift` is
history: the sleepers that lost their wake-up in one of these ways.  `-t` makes no difference until
the time is over, so any sleeper may be given up by `LockTimeout`; a signal has a sleeper look again.

`Habits` says how careless scripts are: `recreate` a name in use (with the `-r` it was made with), open a name `early`, unmap
what they hold (`close_held`).  With none of them everything promised holds; for each the
properties and the proofs say what is left.

### Barrier

One barrier; `mtx` is the guard, `count` and `satisfied` are its fields, `pc` the place of each
process in `barrier_wait` (`locking`, `holding`, then `sleeping`, `woken`, `timedout`).  `Lock`
is `PthreadMutexGuard::lock`; `WaitOpen`, `ArriveLast` and `ArriveEarly` are the first pass
through the code, `WaitWoken` and `WaitTimedOut` the loop after a sleep.  `counted` (the wait calls,
each a process and the number of its call, that arrived in this round) is history.

### Objects

`sems` and `bars` are the two registries, `mapped` counts the mappings behind them.
`semNames` is where `sem_open` looks, `shmNames` where `shm_open` and
`shm_unlink` do: `DestroySem` calls the latter.  `create -n` of a barrier is two steps
(`CreateBarMap`, `CreateBarInit`), that of a semaphore one call of the library.  `WaitBlock` is
`sem_wait` or `sem_timedwait` going to sleep; `WaitFail` is the timeout and the interrupt alike,
as the code tells them alike.

### FlockStore

A process is its pid, so a fork onto a dead pid is a pid used again.  An open-file-description
has an inode (`file`) and a flock (`lock`), and lives while anyone has it open.  `handle[p]` is
`FlockState`: description and the pid that opened it.  An operation goes

    Open -> ClassifyOk | ClassifyInit, Stamp, Truncate -> Lock -> ReadDone -> Unlock
    Use  -----------------------------------------------> Lock -> ReadToWrite, Grow, Write -> Unlock

where `Use` is the path of `FlockState::refresh` when the pid is unchanged; `Open` is both the
subcommand that opens a database and the reopening in a forked child.  `bind` ends after the
header, `seed` is a bind that stores a first value.  The contents of a database are the set of
the variables in it.  `Grow` is the `set_len` before the `write_all`: the blob is lost between
the two (or not, when the size does not change), and `sound` says that what follows the header
was written whole.  Bytes that were not are an error, or by accident an empty database
(`Parses`).  `REGISTRY` can hold several databases, but a process is in one operation
at a time and each database has its own handle; the model has the one handle of one name.

`Habits`: `race` lets a process open a backing while another one is in its first open,
`mortal` kills processes at any step, `rm` removes the name.

### ShmVars

One variable, an indexed array, in every shell: `kind` and `copy` are what bash knows of it,
`bound` is its entry in `REGISTRY`.  A database is `stored` (its array), `torn` (the length in
the header is that of a blob that is not all written) and the rwlock in the memory (`writer`,
`readers`).  It exists while a process has it mapped; `Fresh` are the others.  A script's use of
the variable goes

    Start -> RdLock, Read, RdUnlock, Merge -> Found
          -> (Set ->) WrLock -> Overflow | Grow, Write -> WrUnlock

The four after `Start` are the getter `shm_array_getter`, which bash calls whenever it finds a
dynamic variable: `db.read` returns what it read (`op.got`) without its lock, and the merge, which
`Refreshed` shows element by element, comes after.  `past` is history: what the database has held
since the getter began.  The disjuncts of `Found` are what bash
or the subcommand does with what it found; `Set` to `WrUnlock` are the setter
`shm_array_setter`, once per element of the list (`op.todo`), or one `with_write` of the
subcommand (`bind -p`, `sync`, `drop`, `clear`).  A bind of a variable that is dynamic already
calls the getter a second time, on the new database (`bound`, `sown`).  The elements that bash
itself changes without telling anybody (`Delete`, `Forget`, the emptying in `Reassign`) change
the copy alone.  `Overflow` is `write_blob_to_mem` without room in a mmap region.  `Kill` leaves
the lock to `Dead`, for ever: the rwlock is not robust.

### Descriptors

`tab[p]` maps every number of a process to a description and `FD_CLOEXEC`; `told[p]` are the
numbers in the variables of its script, `lost[p]` those that are open although the variable could
not be set.  `LowestFree` is the kernel's choice of a number, `EnsureHigh` is `ensure_high_fd`.
`Make` is the common course of seven subcommands, which differ in the flags the system call is
given and in what happens when the variable cannot be set (`unbound`: the descriptor leaks, is
closed, or the low number is closed that was moved already).  `Pipe` has the guard that starts as
`{0, 0}`.  `Load` is the dispatcher, `Fork` and `Exec` are bash's: an asynchronous child has
`/dev/null` for 0, which is the reason for `L_FD_MIN`.  One call is one step: descriptor tables
are not shared.

### DescriptorIO

One description that all processes have; `nonblock` is its `O_NONBLOCK`.  `GuardGets`,
`GuardSets` and `GuardDrops` are the three `fcntl` calls of `NonblockGuard`; between them the
others run.  `CallRead` is the system call of read, recv and splice, `CallWrite` moves some units
at a time, as the kernel does while it waits for room; `Written` is the loop `total_written +=
written`.  `mixed` is history: guards, a `setfl` or a kill met, after which the code promises
nothing of the flag.

### Waits

One shell; `tab` is what its numbers refer to, `held` what its children keep open.  A free number
is used for another description (`Reuse`), or for one that has a number already (`Dup`: `fcntl dup`,
`exec {b}<&$a`).  epoll knows an item by number and description, and tells the number that `add` or
`mod` put into its event (`data`); it forgets an item when nobody has the description (`Kept`,
`Forget`).  `wanted` and `shut` are history: what the script registered, and what of it the script
closed without `epoll del` while the description stayed open; such a number goes on being told.
`interest` and `rlist` are the kernel's interest set and ready list, in the order epoll keeps them, because
the drain of `epoll wait` (`EpollReady`, `EpollDrains`) is about that order and about
`EPOLL_MAX_EVENTS`.  `Resumed` is what poll and sleep do after EINTR: sleep goes on with what
remained, poll starts again.  Time is the count `Tick`s; while a wait could return it does before
time passes, so that `waited` measures the waits and not the scheduler.  A call of epoll_wait goes
through the list until its buffer is `Full`: `Looked` is how far, `Reported` what it tells, and
`Collected` what it leaves, `Chosen` by places so that the order is kept.  `due` is history: what
the first call saw ready, less what children have emptied since (`KidTakes`) and what the kernel
has forgotten because its last holder ended (`ChildrenEnd`).

### Commands

`stack` has a record for each function and each call the shell is inside of, with what its
guards saved: fd 1 (`RedirectStdout`), the documentation (`SubcommandGuard`), masks and flags
(bash's unwind frames).  A call with `-v` goes `Call... -> Prints ... -> Leave -> Terminate ->
Collect`: the NUL is written, then the memfd is mapped and trimmed; children started inside it
(`Fork`) write in between (`KidWrites`).  `SigRunCaught`, `SigRunChecked` and `SigRunExecutes` are
the steps of `l_run_with_unblocked` between which a signal (`Send`) may come.  `Return` and
`Exit` leave by longjmp, and Rust's guards are skipped (`jumped`).  `Unwound(n)` is what bash's
frames above the first n have put back when the last of them has run, which is what the outermost
of each kind kept.  A `return` unwinds what is above its function.  An `exit` unwinds what is above
the outermost string that bash evaluates: the command of a `run` is one, and there may be an eval, a
sourced file or `bash -c` anywhere below it, or none.  At the top level of a script nothing more is
unwound: those n frames stay on the stack, and the EXIT trap runs under what they set.
What is printed is a token, so that a property can say where each went.

### IntLookup and Arguments

A word is a sequence of bytes over a small base; `Packed` is the integer the table holds, so
prefixes and the order of names are those of the code.  `Build` (`SortNext`, `Shift`,
`Duplicate`, `Place`) sorts the table when it is compiled, `Search` halves it.  `Arguments` is
`CmdArgs::parse` as a machine: `getopt` are the statics of `internal_getopt`, one action per kind
of word.  A call is parsed twice: first by `Outer` (`SubCommandCallerArgs`), then by what the
handler declares (`Declarations`: flags, options, positionals, rest, as the derive macro
generates them, with what each of them takes: `Converts`).  A rest field is a view, which takes any
words, or a `Vec`, whose words are converted like positionals (`shm bind`, `sync`, `drop` take names
of variables, `close` takes integers) and fail the parse.  `IsOuter` tells the two apart, as in between a name is looked up.  `Roles`,
`Used` and `Operands` define what the words mean without a machine; `ReadAsDeclared` compares the
two.

### Bounds

Each bound is a conjunct of the guard of the actions that start something: `MaxHandle` (handles a
process makes), `MaxCalls` (calls of a process on a barrier, calls in `Commands` and
`DescriptorIO`), `MaxOps` (operations, of all processes together), `MaxPosts`, `MaxSignals`,
`MaxKills`, `MaxPeer` (moves of the far end), `MaxKid` (moves of the children), `MaxTicks`,
`MaxPrints`, `MaxEvents` (what happens to a shell besides calls and prints), `MaxDepth` (of the
stack). `Length` bounds the indices of an array in `ShmVars`: an append beyond it does nothing.
Everything else is bounded by the sets given to the constants.

## Runs

| Run | Instance | What it shows |
|---|---|---|
| `mutex_safe` | 3 processes of which 2 unrelated, 2 objects, 1 name, 2 handles, no bad habit | exclusion, robust marking, no self-deadlock, dead handles, `unlock -a`, refinement of `AbstractLock` |
| `mutex_careless` | 1 shell and 3 children, 1 object, 1 handle, all three bad habits | while a mutex can be had and somebody sleeps on it, one of them has been woken, except those who lost their wake-up to an init or to a woken process that died too late |
| `barrier_safe` | 3 processes, target 2, 2 calls each, all requests, 2 processes may be killed, fair | count and flag, each wait call counts once, refinement of `AbstractBarrier`; everybody inside an open barrier leaves, the guard is given back |
| `store_safe` | 1 shell and its child (which may die and be forked again), 2 inodes, 2 descriptions, 2 variables, 3 operations, kills and rm, fair | exclusion, also from a header that is replaced without the lock, refinement of `AbstractStore`; every operation ends unless a dead process left its lock to a child |
| `vars_safe` | a shell and its child, 2 databases of which one has room for one element, 2 indices, 1 value, 4 operations, every use of the variable, kills, fair | whole reads, copies of one moment, hooks have a database, assignments touch their element alone; every operation ends unless a dead process has the lock |
| `objects` | 2 processes, 2 objects, 1 name, 2 handles in each registry, counts 0 and 1, `SEM_VALUE_MAX` 2, 2 posts | mappings and handles agree, no unit of a semaphore is lost or made |
| `descriptors` | a shell and its child, 3 descriptions, numbers 0 to 5 with `L_FD_MIN` 4, 4 operations | what the script was told holds, nothing is open untold, programs inherit no more than asked |
| `io` | 2 processes, room for 1 unit, writes of 2, 4 operations, 1 signal, 1 kill, 2 moves of the far end | `O_NONBLOCK` put back, `-n` does not wait, counts are right, EAGAIN only for a reason |
| `waits` | 1 eventfd, 1 timerfd, 1 description to reuse, 2 numbers, a buffer of 1 event, 4 operations, 1 signal, 1 move of a child, 3 ticks, fair | reports are complete and current, waits take their time, a drain ends |
| `commands` | 2 memfds, 1 child, 1 signal, 3 calls, depth 3, 2 prints, 2 events, longjmps and readonly variables | output lands where it should, captures are whole, docs, masks, flags and traps are put back (less what an `exit` does not unwind), `sig run` does not miss a signal |
| `arguments` | 4 tables of 3 or 4 names, bytes 1 to 5, words of up to 4 bytes, calls of up to 4 words, 4 handlers (two of them with a `Vec`), any number of calls one after the other | names and unique prefixes resolve as `IntLookup` promises; what is parsed is what the words say |
| `arguments_exclusive` | 4 handlers, the calls that give two exclusive options or one | *violated*: a `post` hook that keeps options apart does not run |

Why the bounds are enough for what the runs ask:

* Two processes conflict and a third inherits or takes over; two objects (inodes) and one name
  give a rebinding; two handles let a process have two of one mutex, or a closed one and a live
  one.  Two calls let a process come back to a barrier in the same and in the next round, and a
  target of 2 with 3 processes leaves one late; one process that is never killed is the one that
  must get out.  Four processes on one mutex are an owner, two that sleep, and the one that creates
  it again, or that takes it before the sleeper that was woken.
* Three operations on a file database are a writer, one that interferes, and one that sees the
  result; its two descriptions are the one that is shared after a fork and the one opened anew.
  In memory a bind, a second database, an assignment and an operation of the child are four; two
  indices tell the element that is assigned from the one that is not, and one value is enough since
  an element that is unset differs from it.
* Numbers 0 to 5 with `L_FD_MIN` 4 leave one low and two high numbers free: the table is full
  after three descriptors, so that each way `ensure_high_fd`, pipe and listen run out occurs,
  and a low number can be taken before.  A pipe, another maker, a fork and a close are four.
* A description with room for one unit and a write of two make every write short once; four
  operations give a guard, another guard, a `setfl` and a call without `-n`.
* A buffer of one event and two items make `epoll wait` drain, within four operations because the
  eventfd and the timerfd may be ready from the start; a child can take what the first
  call saw; closing, using the number again, for another description or as the second one of the
  same, and waiting are the remaining operations.
* Depth 3 is `run` within a capture within a function, or two captures within each other; a
  second print is the one after the inner capture ended.
* The four tables have an exact name that is a prefix of another, names of the full width, an
  ambiguous prefix, and a duplicate name (which the compiled table refuses); the words have every
  kind that `internal_getopt` distinguishes.

Deadlock is not checked (`CHECK_DEADLOCK FALSE`): when the bounds are used up, or everybody is
dead or asleep, the system does stop.

Every property of a passing run has a mutant in the modules (comments `Mutant of ...`): the action
or operator with a plausible mistake in it, with which the property fails.  They are not used by
the specifications.

## Fairness

* `Barrier`: weak fairness of the code between two blocking calls (`Progress`) and of clocks
  (`Timeout`): processes are scheduled; nobody has to call, reset or die, and spurious wakes need
  not happen.
* `FlockStore` and `ShmVars`: weak fairness of the steps within an operation (`Work`).  Since a
  run has `MaxOps` operations the lock is not handed around for ever, so weak fairness is enough:
  flock(2) itself promises no order of its waiters, and starvation by an endless sequence of
  operations of others is not excluded.
* `Waits`: weak fairness of what the shell can do next inside a wait (`PollReady`, `EpollReady`,
  `TimedOut`) and of `EpollDrains`.  Children and signals need do nothing.
* The other modules have safety properties only, and no fairness.

## Proofs

Proved with TLAPS for every value of the constants that satisfies the assumption named in the
module (`MutexAssumption`, `HandleAssumption`, `BarrierAssumption`, `ObjectsAssumption`,
`StoreAssumption`, `VarsAssumption`, `DescriptorsAssumption`, `DescriptorIOAssumption`,
`CommandsAssumption`, `IntLookupAssumption`, `ArgumentsAssumption`, `WaitsAssumption`). What
`ArgumentsAssumption` says of the constants is so in the code: no structure declares `-h`, which
the derive macro gives every handler, none has a letter for a flag and for an option, and every
name of a table has a handler. The proofs go by one lemma per action or group of actions, each with
one step per conjunct.

* **`ShmMutex_proofs`**: `TypeCorrect`; `Exclusion` (mutual exclusion); `RobustRecovery` (a robust
  mutex of a dead owner is marked); `StaleHandles` (a closed handle never resolves again);
  `NoSelfSleep`; `AllReleased` (`unlock -a`); `NoLostWake` (`SleepersWoken`); `MutexRefines` (the
  refinement of `AbstractLock`).
  The invariant is `MutexInv`.  `MutualExclusion` alone is not inductive: that a script's view
  (`held`) agrees with the mutex (`owner`) is `HeldIsOwned`, which a late `InitMutex` would
  break unless nobody can reach the object before it is ready (`Published`), which needs to know
  that what is reached is allocated, and is not an anonymous object for a name (`Reached`), and
  that a create in progress keeps its handle and its process (`Reserved`).  On top of it:
  `OwnersKnown`, the converse, for `RobustMarked`; `Awake`, that who waits does not own, for
  `NoSelfDeadlock`; `Through`, that a mutex was locked through a handle its owner still has, for
  `unlock -a`, which goes by the handles; and `Unowned`, that nobody owns bytes that are not a
  mutex yet.  `RInv` (`MutexInv`, `OwnersKnown`, `Unowned`) is what every step is mapped under to
  a step of the abstract lock.  `SleepersWoken` speaks of a mutex that can be had; `WakesKept` adds
  one that is owned: its owner has `waiters` set, and so will wake one, or one is awake already.
* **`Waiting_proofs`**, of `Barrier`: `FlagAndCount` (`SatisfiedIffFull` and the type), `NoLostWake`
  (`NoSleeperWhenOpen`), `CountedOnce` (`EachCallCountsOnce`) and `Refinement` (of
  `AbstractBarrier`).  `EachCallCountsOnce` compares the count with a set of calls; `IInv` adds
  `ArrivalsMade`: who is about to arrive is in a call that is not in that set yet, because no call
  in it is later than the last one its process made.
* **`Waiting_proofs`**, of `Waits`: `WaitsInvariant` (`WaitsInv`), `WaitsTyped`,
  `WaitsTakeTime`, `DrainTellsAll`, `ReportsStayCurrent`: all its safety properties, for any numbers, descriptions,
  buffer and timeouts.  (The module extends both components, which is why those definitions of
  `Waits` that every component has carry its name: `WaitsInit`, `WaitsSpec`.)  `Current` says that an item tells the number it was
  added with, and that it is wanted, or its number was closed and the description is open
  elsewhere (`Alive`); several numbers may share a description.  `InTime`: what passed and what
  is left add up to what was asked, or to at most that once more per interruption (`Limit`); with
  `Asked` (only poll starts again) this is exact for a sleep, and `Connected` says that accept(2)
  begins in time and finds a connection unless a child took it.  `Owed`: in a drain, what is due
  was told or is in the list still, in front of what will be looked at.  What epoll_wait leaves is
  chosen by places in the list (`Chosen`); that none is lost (`ChosenPlaces`) is an argument about
  ranks and least numbers (`RankGrows`, `Ranked`, `LeastNumber`) in place of an induction over the
  list.  An earlier form of `ChildrenEnd` left what the kernel forgets due: `Owed` does not survive
  that, and with it neither does `DrainComplete` once two items are ready.
* **`Objects_proofs`**: `MappingsKept`, `UnitsKept`, `WellTyped`.  `MappingsHaveHandles` compares
  a counter with two cardinalities; `Below` (numbers not given out are unknown) makes a stored
  handle a new one, and `Placed` says what a call in progress is about.  `UnitsConserved` needs
  `Counted`: what can be waited for or posted was made, or a new semaphore would inherit counts.
* **`FlockStore_proofs`**: `Inductive` (`StoreInv`) and `StoreExclusion` (`Exclusion`).  Exclusion
  rests on `LocksHeld` and `LocksCompatible`, the promise of flock(2); but flock is a lock
  between descriptions, so two processes with one description would both have it.  That this
  does not happen is `OneUser`: in an operation a process uses a description all of whose
  handles record its own pid; it is preserved by forks because children copy the recorded pid
  and not their own, by `Use` because of `SamePid`, and by pid reuse because the process that
  had the pid is gone (`Alive`).  `Inductive` holds with racing first openers (`race`) as well, and
  `Excludes` with it: of two that have the lock none writes.  But a header is replaced without the
  lock, and `Exclusion` counts that as writing; `StoreExclusion` is therefore about scripts that do
  not race, and needs `SInv` (below).
  The second half of the module is that exclusion and `StoreRefines`, that without `race` every step implements
  `AbstractStore`.  Locks are not enough: an update is whole only if what the writer read is what
  it replaces (`CopiesRead`), and a first open truncates without a lock, so who is past the
  opening must have seen a header that stays (`HeadersSeen`), one process at a time must be
  opening and truncate only what is empty (`OpenedAlone`), and a backing nobody stored in must be
  empty (`FilesKnown`).  `SInv` is their conjunction with the locks.
* **`ShmVars_proofs`**: `VarsInductive` (`VarsInv`), `ReadsWhole`, `HooksStayBound`,
  `GetterSeesOneMoment` and `ElementsKept`.  `ReadWhole` needs where the locks are: who reads holds the
  lock of the database its variable is bound to (`LockHeld`), readers keep writers out
  (`LockExcludes`), and a torn database is locked by its writer or by a dead process
  (`TornIsLocked`); none of these is inductive without `HasDatabase`, since a new database
  (`Fresh`) is reset and must not be one that somebody is in the middle of.  `HooksAreBound` is a
  part of it because a shell goes to the lock when its variable is dynamic.  A copy need not be
  current when the getter returns, as its lock is gone by then.  `GetterSeesOneMoment` is an
  induction on top of `VarsInv`: what was read is among the moments of the database (`SeenIsPast`),
  and the element-wise merge, whatever the old copy was, makes exactly that of it
  (`GetterCopies`).  `ElementsKept` adds `HasWork`: a setter that is about to write has an element
  to write; `WhoStores` says that a database changes in a write only.
* **`Descriptors_proofs`**, of `Descriptors`: `TypeCorrect`, `ToldKeepsHolding`, `NothingOpenUntold`,
  `InheritNoMore`.  `DInv` strengthens them by `Holding` (what was told of a number is there, its
  `FD_CLOEXEC` too where it was asked for and set; a program keeps its promise because the shell it
  was forked as did) and `MadeHigh` (what a subcommand made is at `FdMin` or above, or bash's
  `/dev/null` and a failed pipe could take it away).  `AddsKeeps` is the common part of all
  subcommands: what was open stays as it is, what is new is told or lost; `HighOrGone`, `Raised` and
  `PipeEnds` say that of `ensure_high_fd`, once, after a system call, and twice, for a pipe whose
  second end may fail.
* **`Descriptors_proofs`**, of `DescriptorIO`: `FlagRestoredHolds`, `NoWaitHolds`,
  `WriteCountsHolds`, `PlainAgainHolds`.  (This module too extends both components: hence
  `IOInit` and `IOSpec`.)  `GuardsAlone` says what a guard that met nothing has saved and set,
  `GuardSteps` that only `read -n` gets to the guard's steps, `InTransfer` that a write in progress
  has put out what it will tell.
* **`Commands_proofs`**: `CommandsInvariant` (`IInv`), `CommandsOutput`, `CommandsCapture`,
  `CommandsDocs`, `CommandsBash` and `CommandsSigRun`: all five properties of the run, for stacks
  of any depth.  None is inductive, as each speaks of the shell and a step may put back what a
  frame kept long ago; so `IInv` says of every frame what it kept.  `Pointed`: the stdout a call
  found is that of the innermost open capture below it, which with `Apart` (no two captures share
  a file) and `KidsPointed` gives `OutputInPlace` and `CapturedWhole`.  `Masked` and `Trapped`: the
  outermost `sig run` and `run` kept what the script asked for, which is why a longjmp over any
  number of frames, in which the outermost frame of each kind runs last, puts the right thing
  back; `Ignored` and `Immediate` are the same for errexit.  `Chained` says that the mask for
  children changes only at a `sig run` that is not over; it compares any two frames with nothing
  between them that changes the mask, since comparing neighbours only would need an induction
  over the stack.  With `Listed` (what a `sig run` changed is that the listed signals are
  unblocked) it gives `KidsMasked`.  `Early`: a listed signal that waited is among the traps until
  they are checked.  The 26 actions come down to five things that happen to the stack (`Moves`:
  it stays, grows, goes on at its top, shrinks by one, or is cut), and each part of `IInv` has one
  lemma over those.
* **`Arguments_proofs`**, of `IntLookup`: `LookupInvariant` (`TableIInv`) and `LookupFinds`
  (`FoundAsNamed`), for any table, any word, any base and any width of the integer.  While sort
  holds an entry the table has another one twice: `Complete` counts the held entry at the hole
  (`Held`), so that moving one up exchanges two places and every name keeps its entry.  `Ordered`
  is the order around the hole, which strict comparisons and the duplicate check make strict;
  `Bracketed` is what the search has excluded.  `Resolved` is the answer: the entries that match
  the mask are neighbours, because masking keeps the order (`MaskType`); matching is beginning
  (`MaskMatches`), because what is masked out of a sum of digits is less than one unit of what
  stays (`MaskIsLead`); and the word itself is the smallest of them (`PackedLeast`), so that a name
  which also begins others is found first.  These speak of sums over words of any length.  The
  induction theorems of the library cannot be instantiated, but an induction over numbers up to a
  bound can be had from least numbers (`UpTo`), with a set for the predicate, and functions
  defined by recursion exist by the same argument (`Recursion`).
* **`Arguments_proofs`**, of `Arguments`: `ArgumentsInvariant` (`ArgsInv`, with `TableIInv`),
  `ParsesAsDeclared` (`ReadAsDeclared`), `CallsUseTable` and `CallsFindHandlers` (`FoundAsNamed`),
  for any declarations, any words and any number of calls. `ReadAsDeclared` speaks of a parse that
  is over; `Scanned` says where `internal_getopt` may be in one that is not (it has passed options
  and their values only, and inside a word no letter took the rest of it), and `Taken` that what is
  applied is what the letters in front of that place (`PastIn`) say. `PastGrows` is the argument:
  one step of the parse puts exactly one letter more in front (`FlagNext`, `OptionNext`), none of a
  value. As an option that has its value takes the rest of the word, a word has at most one letter
  with a value, and so the last value of an option is that of its last word. When the options end,
  all letters are in front (`OptionsRead`) and `loptend` is at the operands (`OperandsAre`: once a
  word is an operand all that follow are), so that they can be bound just when the words fit
  (`Fills`). `Roles` is a recursive function over the words; `RolesAre` gets it from its
  definition, word by word, with the same induction as above. None of this refers to the parse
  before it: `ResetGetopt` makes `Scanned` true at the start (`ParseBegins`), whatever the statics
  were. `InStep` ties the parse to the table: a name is looked up only between the two parses of a
  call, in a table that is ready. With it each step of a call is a step of `IntLookup` or leaves
  its state alone (`CallsUseTable`), so that what is proved of `TableSpec` holds in every call.

Only model-checked is liveness under fairness (`OpenReleasesAll`, `GuardReturned`,
 `OperationsEnd`, `AccessesEnd`, `DrainEnds`), which is out of the prover's reach,
as is `ENABLED`.  Every other property of a run that passes is proved.

## Disagreements of code and documentation

With a run (`findings` in `PROJECT.json`): `arguments_exclusive`.  The argument structures of
`shm bind`, `clear` and others define an inherent method `post` that keeps `-s`, `-n`, `-M` and
`-F` apart; `parse` is a default method of the trait (cmdargs.rs:343) and calls the trait's own,
empty `post`.  The comment at cmdargs.rs:293-298 says that the inherent one is run.  With two of
the options the first one the handler looks at wins.

Met while modelling, in the models, and without a run of their own:

* `mutex create -n` of a name whose mutex is held or waited for initialises it again
  (cmd_mutex.rs:139, 155): two holders, and sleepers that FUTEX_WAITERS no longer tells of; nobody
  wakes them, though a robust mutex is to "recover instead of deadlocking" (line 122).  `mutex_safe` and
  the proof of `Exclusion` are about scripts that do not; `Clean` in `MutualExclusion` says for which
  mutexes the claim is left, and `adrift` in `SleepersWoken` for which sleepers.
* Who opens a name before its `create` has returned locks zero bytes, and may go to sleep on a
  private futex (cmd_mutex.rs:95): nobody wakes it, also once the mutex is initialised.
* A robust mutex is handed on by the kernel to one sleeper.  If a newcomer takes it first and the
  woken one is killed, the newcomer does not know of the others (`LostWith`).
* `barrier wait` is said to block "until COUNT distinct processes have called `wait`"
  (cmd_barrier.rs:7-9).  It counts calls: an arrival stays counted when its `-n` or `-t` wait
  fails (line 131), so one process that tries COUNT times opens the barrier.
  `EachCallCountsOnce` is what is left.
* `close` and `destroy` of a robust mutex that is held unmap it while it is in the robust list
  (cmd_mutex.rs:281, 323): when the process exits it stays locked and unmarked.
* `barrier reset` between the broadcast of a full round and the wake of a sleeper sends the sleeper
  back to sleep (cmd_barrier.rs:134).
* `barrier wait -n` takes the guard of the barrier first, and blocks in it when another process
  was killed while it had it: `-n` is then not a poll.
* Two processes that open a new backing at once may both replace the header, and the later
  truncation drops what the first one stored (`init_or_check_magic`, vardb.rs:333, runs without
  the lock).
* `shm sync` cannot bring a deletion to the others: it finds the variable, the getter runs and
  brings the deleted element back before `sync` looks (cmd_shm.rs:647).
* `bind -p` is "done atomically in one step" in the help (cmd_shm.rs:1036); it reads the array
  under one lock and stores it under another (line 597), and what others assign in between is lost.
* The help says that an assignment to a database without room fails (cmd_shm.rs:1021, 1051).
  The setter drops the error of `with_write`, so the assignment succeeds in the shell, and the
  next getter takes it back.
* An `unbind` of a variable that is not bound deletes the variable.
* `destroy` of a named semaphore calls `shm_unlink` (cmd_semaphore.rs:134, comment at 127, help at
  374-375): the semaphore stays, and a mutex, barrier or database of that name loses its name.
* `-v` with a command that leaves by `return`, `exit` or a failing assignment: the guards of
  entrypoint.rs are skipped, the script's stdout stays the memfd, and a trap on EXIT prints into it
  (entrypoint.rs:134).
* The comment at l_bash_api.c:312-314 has the mask of the process survive "any non-local exit".  An
  `exit` inside of `sig run` in a script file reaches the top level without the unwind frame: the
  EXIT trap runs with the signals unblocked, and inside of `run` without the ERR trap
  (l_bash_api.c:166, 351).  `BashRestored` counts that trap as inside of the call.
* `sig block` changes the mask of the shell but not bash's `top_level_mask`, which children are
  started with; the help says that subsequent commands inherit the mask (cmd_sig.rs:279-281).
* The empty name fails an assertion in `pack` (intlookup.rs:125), and a duration of `inf` makes
  `from_secs_f64` panic (cmdargs.rs:182); the build aborts on panics, so either ends the shell.
* The help of `semaphore` and `mutex` shows options after positionals; `internal_getopt` stops at
  the first word that is no option.
* `timerfd set` replaces both values (timerfd.rs:158-192), where its help has
  it read the current settings and change what is given (timerfd.rs:46-48): an interval alone gives
  a value of 0, which disarms the timer.
* A structure does not inherit `HAS_REST` from one it flattens (cmdargs-derive/src/lib.rs:391), where
  cmdargs.rs:284 says "Whether this struct (or a flattened child) declares a variadic `rest`": with
  a flattened rest every word beyond the positionals would be too many.  No structure in src
  flattens one with a rest, and `Declarations` has none.
* `epoll wait` fails on EINTR where `poll` starts again.
* The drain of `epoll wait` does not end while as many level-triggered descriptors as one call can
  tell stay ready (cmd_epoll.rs:402): each call tells them again.  `DrainEnds` has the exception.
* `ensure_high_fd` leaves `FD_CLOEXEC` as it is when the kernel gave a high number already
  (shared.rs:37), so such a descriptor goes to programs.  `ProgramsGetNoMore` has the exception.
* The guard of `pipe` starts as `{0, 0}` (pipe.rs:65): when pipe(2) fails, it closes 0 of the
  script.  `TakenAway` in `ToldHolds` is this, and bash's own `/dev/null`.

Hazards that no property states, besides those in `PROJECT.json`: a handle keeps a name that was
bound again before `destroy` unlinks it (cmd_mutex.rs:299); the deadline of `barrier wait -t` is
computed anew after each wake (cmd_barrier.rs:126); an append takes its index from a copy, so two
may take the same (cmd_shm.rs:243); an entry of the other kind of array replaces the whole
variable (vardb.rs:121); a post at `SEM_VALUE_MAX` fails and wakes nobody (cmd_semaphore.rs:120).

## Not modelled, and why

* Failures of `mmap`, `shm_open`, `fstat` and of memory; the wording of messages; clocks (a timed
  wait may end at any time, except in `Waits`, where the time is counted).
* The values of variables, and in `FlockStore` their elements; associative arrays (the same code
  with keys for indices), variables local to a function, and several variables in one command of
  `shm`.
* flock, lseek, shutdown, `timerfd` gettime and read, the records `signalfd read` prints, and the
  reports of `fcntl`: one system call with its arguments translated; the state is the kernel's.
* `sig list`, the tables of signal and flag names, decimal output (`intstr.rs`), the default
  values of fields, the text of durations, how wide integers are, which variables are readonly, and the C macro of `l_getopt.h`.
* Text subcommands, lua, accessors to bash's structures, cells for single-threaded globals:
  conversions, or other programs.  The archive the dispatcher unpacks, build files, generated
  documentation, examples and tests.

## What is left

In this order:

1. That a database in memory implements `AbstractStore`, as the one in a file does.
2. Indexed and associative arrays of one name in two shells.
3. The composition of `DescriptorIO` with `Waits`: a poll that finds ready what a read without
   `-n` then waits for.
