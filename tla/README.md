# TLA+ models of libsolcompat

libsolcompat supplies POSIX.1-2024 functions on Solaris 7 SPARC.  The modules here
model the functions that keep state of their own, share state between threads, emulate
something the kernel does not offer by a sequence of steps that can be interrupted,
interleaved or fail half way, or are algorithms with edge cases of their own.  Source
paths are given as in the repository (`src/at_funcs.c`); `PROJECT.json` maps every
definition to its lines.

Read a component's module first.  Components that share no variable are put side by
side by `Threads`, `Processes` and `Sequential`, whose properties the runs check and whose
`Proofs` modules have the theorems.  `tlc -config X.cfg M` repeats a run,
`tlapm M.tla` a proof.

## The parts of the system

The library has no main loop: every part is a set of functions that any thread of
the program may call.  What connects the parts is the process they share: one
working directory, one environment, one locale, one signal mask and floating-point
status per thread, one table of descriptors, one memory.

| part | source | module | how far |
|---|---|---|---|
| atomic primitives | `atomic_ops.c` | `AtomicCalls`, `AtomicExpr`, `AtomicOps`, `AtomicMemory` | modelled, proved |
| memory barriers | `atomic_ops.c` | `AtomicFences` | modelled, proved |
| `*at()` emulation | `at_funcs.c` | `AtFuncs` | modelled, proved |
| `utimensat`, `fdopendir` | `filesystem.c` | `AtFuncs` | the working-directory steps |
| C++ destructors | `cxa_atexit.c` | `CxaAtexit` | modelled, proved |
| memory streams | `memstream.c` | `MemStream` | modelled, proved |
| timed semaphore and lock waits | `stubs.c`, `process.c` | `TimedWait` | modelled, proved |
| sleeping, monotonic waits | `clock.c`, `stubs.c` | `Clocks` | what keeps or compares times |
| `ppoll`, `pselect` | `poll.c` | `Poll` | modelled, proved |
| floating-point environment | `fenv.c` | `Fenv` | modelled, proved |
| random numbers | `random.c` | `Random` | all but the generators' arithmetic; proved |
| locale objects | `stubs.c` | `Locale` | modelled, proved |
| environment, `timegm` | `stdlib.c`, `clock.c` | `Environ` | modelled |
| `mkdtemp` | `stdlib.c` | `TempDir` | modelled, proved |
| pseudo terminals, `daemon`, `accept4` | `pty.c`, `process.c`, `network.c` | `Terminal` | their descriptors; proved |
| `posix_spawn`, `pipe2`, `dup3`, `mkostemp` | `process.c` | `Spawn` | modelled, proved |
| option parsing | `getopt_long.c` | `Getopt` | modelled |
| `qsort_r` | `stdlib.c` | `QSort` | modelled |
| IPv6 addresses as text | `network.c` | `Inet` | modelled |
| `getaddrinfo`, `getifaddrs` | `network.c` | `NetDB` | modelled |
| `execvpe`, `getgrouplist`, `dl_iterate_phdr`, interface names, `getnameinfo` | `process.c`, `dl_iterate_phdr.c`, `network.c` | `Lookup` | modelled |
| `getdelim`, `preadv`, `pwritev` | `stdio.c` | `GetDelim`, `VectorIO` | modelled, `getdelim` proved |
| formatted output | `snprintf.c`, `stdio.c` | `Format` | modelled; a text is its length |
| file times, `flock`, `scandir`, `posix_fallocate` | `filesystem.c` | `Files` | modelled |
| allocation, `mmap` | `memory.c` | `Memory` | modelled |
| strings | `string.c`, `wchar.c` | `Text` | copying, searching, splitting |
| UTF-16 conversion | `wchar.c` | `Utf16` | modelled; bytes are libc's |

**Not modelled**, because a model would say nothing the code does not: one-line stubs and
wrappers of one system call (most of `stubs.c`, `hwcap.c`, `xpg.c`, `ctype_compat.c`),
tables (`gai_strerror`, `strsignal`), error messages (`error.c`, `err` and `warn`), the
stack guard that `ssp.c` sets once before the program starts, and `posix_fadvise`,
`posix_madvise` and the extended attributes, which do nothing.  Because TLC cannot:
floating-point arithmetic (`math.c`, `complex_math.c`), and what the random generators
compute.  Because it is data: terminal settings, the text of paths and messages,
`AF_INET` addresses as text, and number conversion (`strtoimax`, `strtoumax`).

## The modules

### Atomic primitives: `AtomicOps` implements `AtomicMemory`

One process per thread.  A call (`Invoke`) takes the stripe of its object
(`sst_ldstub`, `Spin`), loads the object word by word (`LoadWord`), stores it word
by word if it stores at all (`StoreWord`) and unlocks (`sst_stripe_unlock`);
`__atomic_load_4` and `__atomic_store_4` are the single unlocked accesses they are
in the code (`PlainLoad`, `PlainStore`).  The exported functions are six locked
families and two plain ones; what they compute is in `AtomicCalls` and, for the
operators, with the width of the object, in `AtomicExpr`.  `AtomicMemory` is the
promise: each call takes effect in one step.  `Linearizable` says that `AtomicOps`
implements it; a call takes effect at its first store, or at its last load if it
stores nothing.

`AtomicFences` puts a store buffer in front of memory.  The build (v7: `stbar`; v9:
`membar`) and the order the machine keeps among stores (TSO, PSO) are chosen in the
initial state.  Loads keep program order: TSO guarantees it, and v9's barrier asks
for it.

### `*at()` emulation: `AtFuncs`

`cwd` is the kernel's working directory, `home` the one the application chose.
Each thread steps through `at_enter`, the system call and `at_leave`, or through
`resolve_dirfd_path` for each relative path of `renameat` and `linkat`.
`utimensat` and `fdopendir` take the same steps without the mutex.  `hit` records
where each path was looked up.  Path text, and its truncation at 1024 bytes, is
left out.

### Destructors: `CxaAtexit`

Threads register (`cxa_atexit`), finalize (`Enter`, then `Skip`, `Take`, `Call`,
`Return` for each entry from the top, `Leave`) and exit.  A destructor is user code
that may do all of these, so a thread has a stack of calls.  `cleanup` tells whether
`atexit` has `cxa_atexit_cleanup` on its list, has refused it, or has run it.

### Memory streams: `MemStream`

Each libc call inside `memstream_sync`, `fflush`, `fclose` and `fmemopen` is a step.
A stream is its `FILE`, which libc uses again after `fclose`.  `want` and `wpos` keep
what the contents and the position should be; `heap` tells the blocks that are
allocated.

### Waiting: `TimedWait`, `Clocks`, `Poll`

`TimedWait` is the polling loop of `sem_timedwait` and the timed lock functions over a
semaphore and a lock that other threads use too: a try, a look at the clock, a poll of
10 ms.  `free[t]` remembers whether the object was there at every moment since `t`
called or last woke up.  `Clocks` has two clocks that advance together, an operator who
sets the wall clock, and a caller who sleeps or waits for a condition; arithmetic on
`timespec`s is kept with its carries, with `NS` nanoseconds in a microsecond and `US`
microseconds in a second.  `Poll` takes the change of the mask, the wait and the old
mask again as three steps, before each of which an unblocked signal is handled, and
converts the timeout to an `int` of milliseconds or to microseconds.

### State of the process: `Random`, `Locale`, `Environ`, `TempDir`, `Terminal`, `Spawn`

`Random` follows threads through the unprotected probe for a source of random bytes,
the loops over short reads, and the EGD protocol; a byte is known by its origin.
`Locale` follows nested switches with locale objects in a heap, to names that the
system knows and names that `setlocale` refuses.  `Environ` keeps the
environment as a sequence of strings, in which a name may occur twice, and the zone
that libc derives from it.  `TempDir` has processes that race for names.  `Terminal`
keeps the descriptor tables of a process and its child.  `Spawn` has a thread that
makes descriptors and sets their flags afterwards, one `fcntl` at a time, and another
that forks a child, which then executes a program.

### One caller at a time

`Fenv` is the status register and a stack of environments saved by `feholdexcept`;
`raised[k]` records what each section should see.  `Utf16` converts a text unit by unit
and back, each direction with a surrogate in its state.  `Format` follows a call through
`preprocess_fmt`, the block that is doubled until the text fits, `vasprintf`'s two passes
and `dprintf`'s loop of writes.  `NetDB` and `Files` build lists block by block with
every allocation failing, while another thread's lookup overwrites the `hostent`, or
another process writes to the file; `Files` also has `flock` as record locks, which the
`close` of any descriptor of the file gives up.  `GetDelim` and `VectorIO` are loops over
reads that may be short or fail.

The rest are calls compared with a reference definition over all small inputs: `Getopt`
with what a command line means when it is read without a cursor, `QSort` with order and
multiset, `Inet` with the set of texts that denote an address (a number is its value and
the form it is written in: up to four digits, with `0x`, or with more digits), `Text`, `Lookup` and
`Memory` with what the functions are to return.  `QSort`'s comparison function may be an
order or answer anything.

### Side by side

`Threads`, `Processes` and `Sequential` put components that share no variable side by
side: the initial state settles which one a behaviour exercises (`part`), and the others
stand still.  Nothing is lost by that, as no step of one could disturb another.  Their
properties combine those of a component, under `part = "..."`; each conjunct is stated and
explained in the component's module.  `MCSequential` adds to `Sequential` the components
that are only model-checked, `Getopt` with its recursive operators among them: `PartsSpec`
of `Sequential` is what the run's specification does to the variables of `Sequential`.

## The runs

| run | module, cfg | bounds | checks |
|---|---|---|---|
| `threads` | `MCThreads`, `Threads` | atomics: 2 threads; 3 objects, two on one stripe, one of two words; 1-bit words. Timed waits: 2 threads, deadlines 0 and 1, one setting of the clock at any moment | `Linearizable`, `StripeReleased`, `WaitResult`, `WaitReturns` |
| `at_funcs` | `MCAtFuncs`, `AtFuncs` | 2 threads, 2 directories, every kind of call; unlocked ones alone, the way back does not fail | `RightDirectory`, `CwdRestored`, `NoDescriptorLeak`, `MutexReleased` |
| `cxa_atexit` | `CxaAtexit`, `CxaAtexit` | 2 threads, 1 shared object, a table of 3 | `AtMostOnce`, `Drained`, `ReverseOrder`, `ExitRanAll`, `LockReleased` |
| `memstream` | `MCMemStream`, `MemStream` | 2 threads, 2 `FILE`s, 3 blocks, contents of 2 bytes, a buffer of 1 | `TypeOK`, `RegistryExact`, `Transparent`, `Snapshot`, `HeapSound` |
| `processes` | `Processes`, `Processes` | requests of 3 bytes, chunks of 2; 3 locale objects, 3 deep, one name that `setlocale` refuses; 3 strings; 2 processes, 2 names, 3 attempts; 5 descriptors; fences: 3 threads, v7 and v9, TSO and PSO | `Types`, `AllFilled`, `SwitchedBack`, `Environment`, `OneOwner`, `Descriptors`, `Inherits`, `Fences` |
| `sequential` | `MCSequential`, `Sequential` | see below | `MeansWhatItSays`, `InBounds`, `Sorts`, `Addresses`, `Lines`, `AsAsked`, `Strung`, `RoundTrip`, `Formats`, `FilesAsAsked`, `Answers`, `MaskBack`, `Deadlines`, `FloatingPoint` |
| `atomics_mixed` | `MCAtomicOps`, `AtomicOpsMixed` | one object stored plainly and updated under its lock | `Linearizable` fails |
| `at_funcs_rename` | `MCAtFuncs`, `AtFuncsRename` | `renameat` with `AT_FDCWD` twice | `RightDirectory` fails |
| `cxa_atexit_nested` | `CxaAtexit`, `CxaAtexitNested` | 1 thread, a table of 2 | `ExitRanEvery` fails |
| `locale_first` | `Locale`, `Locale` | 2 locale objects, 2 names known | `TemporarySwitch` fails |
| `sleep_last_microsecond` | `Clocks`, `Clocks` | 2 ns in a µs, 3 µs in a s | `NeverUnderSleeps` fails |
| `format_overrun` | `Format`, `Format` | a block of 2, texts of up to 9 | `NoOverrun` fails |

The type invariants of `AtomicOps`, `AtFuncs` and `CxaAtexit`, and the mutual exclusion
of their locks, are proved and not checked again; `Types` stands for the type invariants
of several components, `InBounds` and `Descriptors` for what several say of indices and
of descriptors.

What the runs show, in short:

* `threads`: every primitive is one atomic step for callers that heed
  `StoreDiscipline`, and stripes are given back; results of timed waits are true, none
  is missed, all end.
* `at_funcs`: every path is looked up where the caller asked, and working directory, mutex
  and descriptors are given back whatever fails on the way in, if calls that do without the
  mutex are made alone.  That no descriptor is lost and that the mutex has the owner it
  should when they are not, or when the way back fails, is proved (`DescriptorsClosed`,
  `MutexHeldInside`).
* `cxa_atexit`: no destructor runs twice or is passed over, whoever finalizes meanwhile.
* `memstream`: flushing is invisible to the stream, and the caller's memory holds all
  that was written to a stream that stands at its end, though libc reuses the `FILE`.
* `processes`: success means that every byte came from a source of entropy, or from the weak
  generator where that is allowed; locale, time zone and descriptors are as they should be
  after every call, failures included; a spawned program has the environment given and no
  descriptor that was to be closed, but for forks between the making of a descriptor and
  its flag (`Inherits`); the barriers order what the locks and the flags need on machines
  that delay or reorder stores (`Fences`).
* `sequential`: the functions compute what their reference definitions say, no index
  leaves its array, no block and no descriptor is lost whichever allocation or call fails,
  signal mask and floating-point environment come back, and sleeps are long enough but
  for the last microsecond of a second.

**Why these bounds are enough.**  Every lock in the library is a single mutex or a
spin byte per stripe, so two threads show each race between a holder and one who
waits or does without; the fences have three, so that a primitive follows two others
under the same lock and a flag is read by two threads.  Two words of one bit show a torn
value.  A table of three entries leaves one below, at and above a walk.  Two `FILE`s and
two threads give one to be reused while the other is in use.  A request of three bytes
with chunks of two needs a second, shorter chunk; an interrupted read can fall in each.
Five descriptors, with each of the three standard ones open or closed at the start, leave
room for a master and a slave in some cases and run out in others.

In `sequential`, command lines have up to two elements, each of up to three characters
behind its dashes, over letters that take no, a required and an optional argument and
five long options, some of which are prefixes of others.  Arrays have up to four elements
for an arbitrary comparison function, five for an order, and 16 if they are sorted or
reversed, with the cutoff to insertion sort at 2 in place of 12 so that partitions
happen.  Addresses have five words, 0 or 1, which gives two separate runs of zeroes of
equal length.  Files have up to five bytes and a line's block starts at two, so that it
is doubled twice; vectors have three elements of up to three bytes.  Searches go over
lists of up to three elements, each with every answer the system may give.  A `size_t` of
0..15 with pointers of 4 has products that wrap around and alignments that are too large,
not a power of two or too small.  Characters and UTF-16 units are those on either side of
each limit, in texts of up to three, so that a pair is followed or split by another unit.
The block of `solcompat_vsnprintf` starts at 2, with the limit at 4: texts of up to 9 fit
at once, after one doubling, after two, or not at all.  A `scandir` list starts at 1 and
is doubled twice for three entries.  Hosts have up to two addresses and there are as many
interfaces, so that a failure can fall on the first, a later or no block.  A wait of up to
5 ticks, 2 to the unit and an `int` of at most 1, has timeouts that are rounded and
timeouts that wrap.  Sleeps are of up to 7 ns with 2 ns in a µs and 3 µs in a s, so that
every carry happens.  Floating-point sections nest twice.

**Fairness.**  `StripeReleased`, `MutexReleased`, `LockReleased` and `WaitReturns` assume
weak fairness of the steps of a thread *inside* a library function (and, for
`WaitReturns`, of the clock): a runnable thread is scheduled again, and time passes.
Nobody is obliged to call a function, to post a semaphore or to unlock.  Strong
fairness of the spin loop is not assumed, and so no property says that a particular
thread gets a stripe: `sst_stripe_lock` has no queue, whatever the "bounded" of
`atomic_ops.c:331` suggests.  In `CxaAtexit` a destructor is user code and need never
return; the lock is free while it runs.  No liveness is claimed of `ppoll` and `pselect`:
a signal handled between the mask and the wait does not end the wait, as `poll.c:8` says.

Deadlock is checked in every run; components that finish have an explicit last step
that stutters.

## What is proved

TLAPS checks the following for all values of the constants.  Each item names the inductive
invariant behind the property, and why the property alone does not carry itself.

* `ThreadsProofs`.  `StripesExclude`: no two threads inside one stripe.
  `PrimitivesAtomic` and `ThreadsAtomic`: `AtomicOps` implements `AtomicMemory` for any
  threads, objects, operators and number of stripes, if an object that is stored with the
  plain `__atomic_store_4` is otherwise accessed by plain loads and stores only
  (`StoreDiscipline`; `atomics_mixed` shows what happens without it).  The invariant is
  `LocalsCurrent`: what a holder has loaded is still in memory, word by word, because every
  other writer of the object is kept out by the same stripe.  The refinement is then one
  lemma per action: a stutter, or the abstract step at the first store or the last load.
  `WaitTells`: the conjuncts of `WaitResult` for any threads, deadlines and settings of the
  clock.  That no wait times out in vain (`NotMissed`) is not inductive; `TriedInVain` says
  it already of a thread that has tried and not woken up since, and no step of another
  thread makes an object free all along that was not.
* `AtFuncsProofs`.  `TypeCorrect`, `MutexHeldInside`, `DescriptorsClosed` without further
  assumptions; `PathsGoWhereAsked` and `CwdComesBack` for programs whose calls all take the
  mutex (`LockedOnly`) and a way back that does not fail.  `RightDirectory` is not
  inductive: a thread that is about to look a path up must be known to be alone, and `cwd`
  to be the directory it entered.  `CwdTracked` says where `cwd` is at every step of the one
  thread that holds the mutex.
* `CxaAtexitProofs`, for any number of threads, objects, entries and nested calls.
  `CalledOnce` needs to know that an entry that a thread is about to call is consumed and
  that no other thread is about to call it (`OnceInv`); `NothingPassed` that every suspended
  call on a thread's stack has consumed what lies above it (`Good`, `Busy`).
  `LaterOnesFirst` and `ExitRunsThem` rest on `Settled`: an entry is in use, has been
  called, or is with the one thread that took it; and on `ExitInv`, which follows the call
  that `exit()` makes.
* `MemStreamProofs`, for any threads, `FILE`s, blocks and sizes.  `MemStreamTypes` (no copy
  leaves the caller's buffer) and `ListIsExact` hold of all programs; `SyncIsTransparent`,
  `HeapIsSound` and `CopyIsExact` of those whose threads keep to their own streams
  (`~Shared`).  `AskInv` says at each step inside `memstream_sync` where the stream stands
  and what is still to be read; `BlockInv` who owns each block, the thread that has just
  allocated it included; `SnapInv` what part of the copy is already in the block.
* `SharedStateProofs`.  The barriers and the random bytes, component by component.
  `FenceInv`: what a store buffer may hold at each step (`BufferInv`), and that a store
  which has left it is in memory, the datum before the flag (`Published`); one thread holds
  the stripe, until its release has left the buffer (`OneHolder`), and the counter with what
  its holder has buffered is the number of additions (`Counted`).  `RandomInv`: how far
  each loop has filled the request (`Good`), and how many threads are between opening the
  device and saying so, which bounds the devices opened (`Counts`).
* `DescriptorProofs`.  `Terminal` (`TtyInv`) and `Spawn` (`SpawnInv`), component by
  component: the descriptors of parent and child at each step of `openpty`, `forkpty`,
  `daemon` and `accept4`, all others being the ones there were; and for every descriptor that
  a program was given, whether its flag was yet to be set at the fork.
* `ProcessesProofs` states these of `Processes`: `BarriersOrder`, `BuffersAreFilled`,
  `DescriptorsAccounted`, `ProgramsInherit`; each `Same...` lemma says that the instance
  there is the component the proof was about.  It adds `NamesAreOwned`, for any processes,
  names and number of attempts, which needs that a process that still tries has an attempt
  left and, at `mkdir`, a name (`Trying`); `SwitchesComeBack`, of every program until it
  gives `LC_GLOBAL_LOCALE` back to `uselocale` (`undone`), where `Nested` says that what each
  `uselocale` returned is still allocated, has the name the process had if the system knows
  that name, and is the object of no later switch; and
  `PartTypes`, for every part but the environment.
* `SequentialProofs`, of `Sequential`:
  * `FlagsAreExact`, for any exceptions, rounding directions and depth.
    `HeldWithoutTraps` is not inductive: the environment that `feupdateenv` restores inside
    another section must be known to have no traps either.
  * `MaskComesBack`, for any signals, masks and timeouts.  Between the two changes of the
    mask the mask is the one asked for and `origmask` the caller's, and every handler that
    has run was let through by one of them (`PollInv`); `PollTime` relates the clock to the
    timeout that was converted.
  * `LinesAreWhole`, for any stream and any block the caller begins with: `LineInv` says
    that the first `pos` cells of the block are the bytes read, none of them the delimiter.

Assumptions on constants are named `ASSUME`s: of the component modules (`Dir` not empty,
the model values distinct, `SST_STRIPE_COUNT` positive, `EXPR` staying in the type of its
object, and so on), or, for components that are put side by side, operators such as
`TempDirAssumption` that `WaitAssumption`, `ProcessesAssumption` and `PartsAssumption`
collect.  TLC evaluates them in the runs.  They ask for no more than a finite set of
threads, distinct values, and bounds that are natural numbers, positive where the code
divides by them.

Only model-checked:

* liveness (`StripeReleased`, `MutexReleased`, `LockReleased`, `WaitReturns`), which the
  prover has no rules for;
* what a loop or a recursive definition computes for every input, which takes induction
  over data: `MeansWhatItSays`, `Addresses`, `Formats`, `RoundTrip`, `Strung`, `AsAsked`,
  `FilesAsAsked`, and `AtomicExpr`;
* `Sorts` and `InBounds`: that a partition leaves the two parts in order takes induction
  over the calls still to be made, each about a set of elements counted by `Cardinality`;
* `Deadlines`, whose times are products of the units, where the prover's arithmetic is
  linear; and `Answers`, about lists that are built, joined and freed node by node;
* `Environment`, and the types of `Environ`: `environ` is changed with `SelectSeq`, of which
  the prover knows nothing, and facts about it would take induction over sequences.

## Where code and comments part

Six disagreements have a run of their own (`findings` in `PROJECT.json`):

* a plain store that a locked update overwrites (`atomics_mixed`);
* `renameat`'s way around the mutex (`at_funcs_rename`);
* a destructor registered during `exit()`, which never runs (`cxa_atexit_nested`);
* the first `uselocale` returns `LC_GLOBAL_LOCALE`, and giving that back restores nothing
  (`stubs.c:100`), against the "set to C locale temporarily" of `stubs.c:45` and
  `README.md:123` (`locale_first`);
* a sleep whose fraction lies in the last microsecond of a second is rounded down
  (`clock.c:165`), against "so we never under-sleep" (`sleep_last_microsecond`);
* `vsprintf` writes a text that is too long behind its block before the block is doubled
  (`snprintf.c:182`), against the "before the first write overflows" of line 169
  (`format_overrun`).

Others are conditions that the checked properties state, since they hold only so far, or
promises that no property makes:

* `__sync_synchronize` of the v7 build is `stbar`, which does not keep a later load
  behind an earlier store (`atomic_ops.c:64`; the comments at 24 and 569 call it a
  full fence).  `FullFence` is claimed for v9.
* `utimensat` and `fdopendir` move the working directory without the mutex
  (`filesystem.c:148`, 327).  `at_funcs` lets them run alone; together with another
  `*at()` call they can leave the process in the wrong directory.
* Two threads that finalize together call destructors out of order, because the lock
  is free between taking an entry and calling it (`cxa_atexit.c:109`); `ReverseOrder`
  speaks of the destructors one call runs, but for those another thread has taken.
* `__cxa_atexit` does not look at what `atexit` returns (`cxa_atexit.c:64`): if it refuses,
  `exit()` runs nothing of what is registered.  `ExitRanAll` is about the other case.
* After a seek back the copy that `fflush` or `fclose` leaves ends at the position
  (`memstream.c:137`), where the comments at 69 and 75 speak of the written bytes and 125
  of a stream "positioned at EOF".  `Snapshot` is about streams that stand at their end.
* `memstream_sync` holds no lock over rewind, read and seek (`memstream.c:141`), so
  `Transparent` is about streams that one thread uses.  `fflush` of a read-only
  `fmemopen` stream takes the `open_memstream` branch with a null `ptr` (161): the
  model has it as `fault = "null"`.  A failed `make_entry` leaves `_bufendtab` set
  (235), and mode `a` writes from the start of the buffer (149).
* `*remain` trusts the wall clock (`clock.c:175`), and a wait for a monotonic deadline goes
  by the wall clock to its end (`stubs.c:334`): the comment at 271 says that a jump matters
  only during the translation, the one at 286 that it distorts the timeout by its size.
  The run sets the wall clock at any moment; `SleepsEnough` excepts the calls during which
  it was set where `*remain` or a wall-clock time is meant, and `CondDeadline` lets a wait
  end early by the size of the jump, as line 286 has it.
* `timegm` takes a failed `strdup` for an unset `TZ` and ignores a failed `setenv`
  (`clock.c:212`, 214); `UtcAndBack` speaks of calls that were refused
  no memory.
* `uselocale` does not look at what `setlocale` returns (`stubs.c:107`): it remembers a
  locale that the system does not know while the process keeps the one it had.
  `SwitchedBack` is about switches back to names that are known.
* Threads that probe for a random source together can change it after it was chosen
  (`random.c:188`); `Descriptors` bounds the devices opened by the number of threads.
* An array of equal elements makes `qsort_r` nest once per element
  (`stdlib.c:264`); `Shallow` is about sorted and reversed arrays, as its comment is.
* `inet_pton` accepts one `:` behind the last number (`network.c:474`), and numbers with
  `0x` or more than four digits, since it reads them with `strtoul` (468); `Understands`
  says so.
* `execvpe` reports `EACCES` if any candidate gave that (`process.c:430`), also when
  another error ended the search; the comment has it for the only kind of failure.
  `RunsFirst` asks for `EACCES` in that case, and among several kinds for one of those that
  were met.  If no candidate is short enough to try, `errno` is left alone.
* `dl_iterate_phdr` passes over the main program (`dl_iterate_phdr.c:70`), as the comment
  there explains; the one at 46 says that it calls back for it.  `VisitsEach` is about
  shared libraries.
* `posix_spawn` ignores file actions and attributes (`process.c:321`), where `README.md:26`
  has "full file_actions + spawnattr".  `Inherits` says nothing of descriptors with an action.
* `stpncpy` returns `dst + n` for every string (`string.c:155`), where line 154 has it
  return a pointer to the first NUL it wrote; nothing is claimed of the pointer.
* `vasprintf` ignores the result of its second pass (`stdio.c:42`): without memory there
  it returns success with a buffer that is not filled; `WholeText` excepts that case.
* `c16rtomb` keeps a high surrogate across an ordinary character (`wchar.c:266`), and
  joins a later low one to it; `PairsUp` allows that and no more.
* `futimens` fails with `ENOTSUP` when no path leads to the file; the comment at
  `filesystem.c:71` has it succeed silently.
* A write between the look of `posix_fallocate` or `futimens` at the file and the change
  may be cut off again or have its time put back (`filesystem.c:405`, 91); `AsAsked`
  excepts it.  `flock` ends with the `close` of any descriptor of the file, as record
  locks do (`filesystem.c:219`); `FlockExcludes` says so.
* A lookup of another thread between the parts of `getaddrinfo` changes its answer
  (`network.c:168`); `Answers` is about lookups left alone, `NoBlockLost` about all.
  Results come twice, for TCP and for UDP, only with hints and for the name of a host (219,
  152), where the comment at 218 has it for every call without a socket type; `Answers`
  asks for both lists only then, and if memory does not run out.
  `getnameinfo` may cut a port number (`network.c:328`).
* The slave that `openpty` opens is that of another terminal if another thread's
  `ptsname` falls in between (`pty.c:42`); `Descriptors` shows that nothing is lost then.
* `ppoll` converts its timeout to an `int` (`poll.c:32`); `TimesOut` excepts timeouts of
  more milliseconds than that.

Outside the models: a caller of `getopt` that gives up inside a cluster of short options
and begins again with `optind` (`short_next` keeps its place, which only the end of the
cluster resets), formats longer than the 2048 bytes of `preprocess_fmt`, sums of
`offset` and `len` that overflow in `posix_fallocate`, interface numbers above `INT_MAX`,
and what happens after `vsprintf` has written behind its block (`Format` stops there, or
goes on as the code does when the slack it counts on was enough).
