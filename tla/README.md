# A TLA+ model of tf-utility

tf-utility is a C++ utility library with a fork of the coroutine library libco
in it.  The coroutine part is the one whose behaviour is hard to see and hard
to test: every thread runs a scheduler, coroutines share stacks, timers and
events resume them.  This project models it first and in most depth; the
utilities around it, which share no state with it or with one another, have
smaller modules.

Paths are relative to the repository's root, which is `src/` here:
`src/src/coroutine/co_routine.cpp` is the repository's
`src/coroutine/co_routine.cpp`.  Line numbers without a file are in that file.

## Contents

- [The system](#the-system)
- [Modules](#modules)
- [How state and actions correspond to the code](#how-state-and-actions-correspond-to-the-code)
- [Runs and bounds](#runs-and-bounds)
- [Fairness](#fairness)
- [What is proved](#what-is-proved)
- [What is only model-checked](#what-is-only-model-checked)
- [Where code and comments disagree](#where-code-and-comments-disagree)
- [Not modelled](#not-modelled)
- [Plan](#plan)

## The system

| Component | State | Operations | What makes it correct |
|---|---|---|---|
| Coroutines (`co_routine.cpp` 285-333, 536-850) | per thread: `pCallStack`; per coroutine: `cStart`, `cEnd`, `stack_mem`, `stack_sp`, `save_buffer`; per stack: `occupy_co` and its bytes | `co_create`, `co_resume`, `co_yield`, end of `pfn`, `co_reset`, `co_release` | a coroutine finds its local variables as it left them, whoever ran on its stack meanwhile |
| Time wheel (398-531) | `pItems`, `ullStart`, `llStartIdx`, the links of the items | `AddTimeout`, `TakeAllTimeout`, `RemoveFromLink` | nothing fires early, nothing due stays |
| Event loop (945-1094) | `pstActiveList`, epoll registrations, the wheel | one round: `epoll_wait`, prepare, timeouts, process, `pfn` | every signal, event and timeout resumes its waiter once, for the wait it was meant for |
| Polls (1168-1319) and condition variables (1404-1520) | `stPoll_t`, `stCoCondItem_t`, the condition's queue | `co_poll_inner`, `co_cond_timedwait`, `co_cond_signal`, `co_cond_broadcast` | as above |
| Mutex (`co_comm.cpp`) | `m_iWaitItemCnt`, a condition variable | `CoLock`, `CoUnLock` | exclusion, in the order of the calls, and everybody's turn comes |
| Lists of items (162-278) | `head`, `tail` of a list; `pPrev`, `pNext`, `pLink` of an item | `RemoveFromLink`, `AddTail`, `PopHead`, `Join` | a list is a sequence, and an item is in one list at most |
| Hooked system calls (`co_hook_sys_call.cpp`) | `g_rpchook_socket_fd`, per descriptor: flags, timeouts, destination | `socket`, `connect`, `read`, `write`, `poll`, `close`, `fcntl`, ... | an entry belongs to the open descriptor it was made for; a call blocks the coroutine, not the thread |
| Environment of a coroutine (788-944) | `g_co_sysenv`, `pvEnv` | `co_set_env_list`, `setenv`, `unsetenv`, `getenv` | a listed variable is the coroutine's own |
| Names (945-1070) | `hostbuf_wrap` per coroutine, a lock per thread | `gethostbyname`, `gethostbyname_r` | an answer stays until its coroutine asks again |
| kqueue emulation (`co_epoll.cpp`) | per descriptor: a `kevent_pair_t` | `co_epoll_wait`, `co_epoll_ctl` | the events epoll would report |
| Context switch (`coctx.cpp`, `coctx_swap.S`) | registers | `coctx_make`, `coctx_swap` | - |
| Coroutine-specific data, closures | `aSpec[1024]` per coroutine | `co_setspecific`, macros | - |
| Cron (`cron.cpp`) | none: an algorithm | `nextcron` | the least matching time after the given one |
| Singletons (`singleton.h`) | `__pInstance`, `__destroyed` | `getInstance`, `destroySingleton` | one instance per process |
| One process per directory (`app_singleton.cpp`) | a lock file | `enter_app_singleton` | one process enters, and the file does not name another |
| Signal callbacks (`port.cpp` 266-328) | `_callbacks`, `_mutex` | `registerSig`, `sighandler` | a callback runs for its signal, and no deadlock |
| Flags (`Flags.cpp`) | a table filled by initializers of globals, `FLAG_name` | register, parse, set, load, save | a saved file gives the values back |
| Commands, metrics | tables filled by constructors of globals | register, run | - |
| Arena (`short_alloc.h`) | a buffer, `ptr_` | `allocate`, `deallocate` | blocks do not overlap |
| Dates (`common.cpp` 514-573, 1001-1583) | none | `nextDate`, `lastDate`, `getMatchPeriodDays`, ... | they follow the calendar |
| Strings (325-429, 661-842; `common.h` 1082) | none | `sepstr`, `trim`, `replace`, `bin2str`, ... | what one does another undoes |
| Files, stopwatch, platform | the operating system's | I/O | - |

How they interact: the hooked calls and the mutex call `co_poll_inner` and
`co_cond_timedwait`.  These link a timer item into the thread's wheel, register
descriptors with epoll or append to a condition's queue, and call
`co_yield_env`, which switches to the coroutine that resumed this one.  In the
end control is back in `co_eventloop`, in the main coroutine.  Its round moves
items from epoll and from the wheel to the active list and calls `pfnProcess`
of each, which is a `co_resume`.  The utilities are independent of it.

What is hard: the same timer item is moved by signals, timeouts, events and the
loop, in any order and in the middle of the loop over the list that holds it;
stacks are overwritten while their owners sleep; the clock is `gettimeofday`,
which can be set; and time differences are stored in an `int`.  The list of
hazards is in `PROJECT.json`, each at its line.

## Modules

| Module | What it is |
|---|---|
| `Coroutines` | abstract: coroutines that each have local variables nobody else touches |
| `CoRoutine` | the call stack, the objects' lives, shared stacks and `co_swap` |
| `CoRoutineProofs` | its invariant, the preservation of local variables, the refinement |
| `TimeWheel` | the arithmetic of the wheel, used by the next two |
| `TimerSet` | abstract: a set of deadlines, and what a loop may do to it |
| `CoTimeout` | the wheel under a clock that jumps, and the loop's use of it |
| `CoTimeoutProofs` | its invariant, nothing early, nothing overdue, the refinement |
| `CoEventLoop` | composes wheel, active list, epoll, condition variable and call stack |
| `CoEventLoopProofs` | its invariant, no signal lost, nobody woken without a reason, events reach their polls |
| `FifoLock` | abstract: a lock that is granted in the order of the calls |
| `CoMutex` | `clsCoMutex` |
| `CoMutexProofs` | its invariant, exclusion, the safety half of the refinement |
| `HookSysCall` | the hooked system calls, their table of descriptors, and the kernel around them |
| `HookSysCallProofs` | its invariant, that no hooked call blocks a thread, and that calls report rightly |
| `LinkSeqs` | abstract: sequences, and moving items between them |
| `DList` | the doubly linked lists, pointer by pointer |
| `KqueueEpoll` | epoll on top of kqueue |
| `SysEnv` | the environment variables a coroutine has of its own |
| `HostByName` | the buffer and the lock of `co_gethostbyname` |
| `CivilTime` | the calendar of the C library |
| `Cron` | `TC_Cron`: expressions, and the recursion of `findNext` |
| `Dates` | dates of eight digits and the periods they are in, as operators |
| `Calendar`, `PeriodDays`, `DailyClock` | a date that walks by `Dates`; a list cut into periods; a caller of `getNextAbsClockMs` |
| `Text` | functions on strings, as operators, and two strings that grow |
| `Singletons` | `TC_Singleton` between threads and `exit()` |
| `AppLock` | `enter_app_singleton` between processes |
| `Signals` | `registerSig` and `sighandler` |
| `Flags` | the table of flags, the command line, the scanner of files |
| `Arena` | `arena` of `short_alloc.h` |
| `UtilityProofs` | the calendar, the periods, and what the search of `Cron` finds |
| `ServiceProofs` | the invariants and theorems of `DList` and of the other small modules from `KqueueEpoll` down |
| `SequenceLemmas` | induction, functions by recursion, facts about sequences: what the proofs share |
| `MC...` | the sets of model values TLC uses, one module per specification; `MCServices` for all from `DList` down |

`CoRoutine` knows nothing of waits, and `CoEventLoop` nothing of stacks: the
loop resumes only coroutines that left through `co_yield_env`, so the two meet
in the call stack, which both have.  `CoMutex` takes from `CoEventLoop` that a
signalled waiter stays in the active list until it runs (`NoSignalLost`,
`SignalledRuns`); its waits have no timer, so `waits_long` does not concern it.
`HostByName` takes from `CoMutex` that the lock is granted in turn, and the
sequences of `CoEventLoop` and `CoMutex` are what `DList` implements.

`MCServices` puts modules side by side that share no variable: `component`
names the one that a behaviour belongs to, and the variables of the others stay
as they are.  So the states of the components add up, and no interleaving
between them is explored, as there is none in the code.

## How state and actions correspond to the code

**CoRoutine.**  A stack is a row of `Depth` cells; `sp[c]` is
`stack_bp - stack_sp`, in cells.  `co_swap` is one action with the code before
`coctx_swap`, which the old coroutine runs, and the code after it, which the
new one runs: no other code of the thread runs in between, so `env->pending_co`
and `env->occupy_co`, which carry the two pointers across, are not state.  A
coroutine that enters its function does not run the code after the switch (it
never called `co_swap`), hence the parameter `enters`.  `Push`, `Pop` and
`Assign` are what any compiled function does to its stack.  Each coroutine
object is a name that is used again after `co_release`.  What the code leaves
to its callers is in `MayResume` (not on the call stack, not ended, fewer than
128 deep) and in `MayVacate`, which `OccupantMayGo` switches off.

**CoTimeout.**  `slot`, `expire` and `taken` say where an item is linked and
with what time.  `Wait` is the part of a wait that arms a timer, with its error
return; `TakeAllTimeout` is one round's call with all its early returns;
`PutBack` and `Fire` are the two ways the loop handles an item it took.
`llStartIdx` is not reduced modulo `iItemSize` in the code, nor here.  Waits
are above 0, so the error at 459 (`ullExpireTime < allNow`) cannot occur in a
wait; it is modelled all the same.

**CoEventLoop.**  A coroutine is in one wait at a time, so its items carry its
name; a doubly linked list is a sequence, and the tests of `RemoveFromLink` and
`AddTail` for an item without or with a link are the membership tests.  `Poll`
and `CondWait` go up to the yield, `Awake` is what the coroutine does when it is
resumed until its wait returns: that code runs without a switch, so it is one
step with the `co_resume`.  `LoopPoll` is the top of a round, which calls no
user code: `epoll_wait`, `OnPollPreparePfn` for each event in any order,
`TakeAllTimeout`, the marking and the join.  From then on each item of the
active list is a step (`LoopPutBack`, `LoopResume`), because what it resumes
may signal, wait or resume others before the next one.  Epoll is
level-triggered: a registration points to one poll, a second `EPOLL_CTL_ADD`
fails and changes nothing, `EPOLL_CTL_DEL` deletes whatever is registered.
Programs are free within these limits: nobody resumes a coroutine out of a
condition wait (the timer item would stay linked after `free(psi)`), and,
unless a run allows it, no condition wait exceeds the wheel and no two
coroutines poll one descriptor.  An ended coroutine is one that yields and is
not resumed.

**CoMutex.**  Coroutines switch only in waits, so `CoLock` up to its wait and
`CoUnLock` are one step each.  Callers interleave in any order, which includes
every order that the call stack allows.

**HookSysCall.**  `entry` is `g_rpchook_socket_fd`; of `rpchook_t` it keeps
whether `user_flag` has `O_NONBLOCK`, and one timeout for both directions.
`opened`, `nonblock`, `readable`, `room` and `conn` are the kernel's.  The table
belongs to the process, so each coroutine is taken to be on a thread of its own:
a call may be interrupted between any two system calls, which includes what
coroutines of one thread do to each other while they wait.  `call[c]` is the
call `c` is in, `at` the system call that comes next.  `socket` is `Socket`,
`Alloc`, `SetFl`, `Record` (the last two are the `fcntl` it calls); `Accept` is
`co_accept` and the `fcntl` with `O_NONBLOCK` that programs have to add
(`src/test/coroutine/example_echosvr.cpp:158-159`); `close` is `Close` and
`SysClose`.  `read`, `recv` and `recvfrom` differ in the native call only, and so
do `write` and `send`.  A read or a write does not look at what `poll` returned:
`Polled` has no outcome, and the next step tries the kernel, which may take any
part of a message, fail, or answer 0, which ends a write.  `connect` is one native call and up to three polls.
Calls that the hook passes on (no entry, `user_flag` non-blocking, hook off) are
the native ones and are not followed.  Programs use a descriptor between the
return of the call that made it and its close; `Fits` is the rule that a
descriptor with an entry is used with the hook on, and `MixedHooks` drops it.

**DList.**  `pPrev`, `pNext`, `pLink`, `head` and `tail` are functions to items
or `Null`, assigned in the order of the code where the order matters.  The four
templates are called with any item and any two lists, as the loop, signals and
timers do.  The refinement maps a list to the chain from its `head`.

**KqueueEpoll.**  `fdMap` is the per-thread map, `pairs` the records, by address;
`filters` is what the kernel has, with the record each `udata` points to.
`Ctl` is an addition or a modification of which the first `done` `EV_ADD`s
succeed; refused calls change nothing and are left out.  A wait on a filter
that points to a freed record would be undefined, so `co_epoll_wait` asks that
there is none; `torn` are the descriptors that can come to that.

**SysEnv, HostByName.**  `pvEnv[c]` is the copy `dup_co_sysenv_arr` makes at the
first call.  `Sorted` is `qsort`, `Unique` the loop that drops repeated names,
and `Found` is what `bsearch` promises: it finds a name only if the array is
sorted, so that it is a matter of proof that `co_set_env_list` leaves one that
is.  `said` records what a coroutine wrote, for the property alone.
`HostByName` is two steps of a call: up to the lock, and under it, where the
resolver answers, fails or finds the buffer short and asks for the lock again.
Buffers are addresses that `malloc` may give out again.  A coroutine that ends
leaks them, or keeps them after `co_reset`.

**Cron.**  `frames` is the C++ stack of `findNext`; each field is a step of the
innermost call, and a call of `findNext` pushes a frame.  `marked` are the fields
that were found in place: only these are reset when a later one moves.
`setField` normalizes by `mktime`, so a month set on the 31st may become the
next one.  Items of an expression are records; what a step of 8 bits does to
the loop `i += delta` is in `ItemBits`.

**Dates, Calendar, PeriodDays, DailyClock.**  A date is a number of eight digits
and a time a day and a second, since both zone offsets of `str2time` and
`tm2str` are the same one.  `DailyClock` has a day of a few milliseconds.

**Text.**  Loops over positions are recursive functions of a position.  A string
is a sequence of character codes; `char` of 255 and digits above 9 tell the
signed and unsigned readings apart.

**Singletons.**  The two loads, the store and the registration with `atexit` are
steps of their own, under the mutex or not as in the code, and so are the
deletion, the reset of the pointer and the mark of `destroySingleton`.
`alive` are the objects not deleted; `undisturbed` the calls that no
destruction met.  **AppLock**: every system call is a step, and a process may
die before each.  **Signals**: a thread runs a stack of frames, since handlers
run on top of whatever it does; `_mutex` blocks its owner.

**Flags.**  `Define` is the initializer of a `FLAG_name`, which assigns its
default after `Recognize`; `Parse` an option of the command line.  A line of a
file is a sequence of words and signs, and `Scan` is `LineScanner::Next`, which
leaves a closing quote to the next token.  **Arena**: blocks are offsets;
everything of the heap is at `Heap`, so blocks of one size there are one.

## Runs and bounds

| Run | Instance | States | Shows |
|---|---|---|---|
| `coroutine` | 3 coroutines, 2 on one shared stack of 2 cells, 1 with its own; call stack of 3 | 319,214 | `IInv`, `OnlyOwnerWrites`, refinement of `Coroutines` |
| `coroutine_any` | the same, any `co_release` and `co_reset` | - | `OnlyOwnerWrites` fails |
| `timers` | 2 timers, 3 slots, clock 1..6 in any order, timeouts 1..4 | 40,788 | `IInv`, `NeverEarly`, `NoOverdue`, refinement of `TimerSet` |
| `timers_gap` | the same, an `int` of 8 values | - | `NoOverdue` fails |
| `waits` | 3 coroutines, 1 descriptor, 3 slots, 5 ms, one step back of the clock | 669,112 | `LoopInv`, `NoSignalLost`, `WokenForAReason`, `EventReachesPoll` |
| `waits_served` | 3 coroutines, 1 descriptor, 2 slots, 3 ms | 52,338 | `SignalledRuns`, `DueRuns` |
| `waits_long` | 2 coroutines, condition waits of 3 ms on 2 slots | - | `NoSignalLost` fails |
| `waits_shared` | 2 coroutines on one descriptor | - | `EventReachesPoll` fails |
| `mutex` | 5 coroutines | 651 | `IInv`, `MutualExclusion`, `EveryLockReturns`, refinement of `FifoLock` |
| `hooks` | 2 coroutines, 1 descriptor number, messages and buffers of 2 bytes | 122,748 | `HookInv`, `ThreadsRun`, `CallsReport`, `EveryCallReturns` |
| `hooks_mixed` | the same, without the rule `Fits` | - | `OnlyHookedWait` fails |
| `services` | 14 components side by side, bounds in `MCServices.cfg` | 101,902 | a property or two of each |

Why these are enough to see what can happen:

- `coroutine`: a switch involves the one that leaves, the newcomer and the
  occupant it evicts; with a private stack in between, all three differ.  Two
  values and two cells tell a lost, a stale and a foreign cell apart.  A second
  shared stack would only add independent copies; the proofs cover it.
- `timers`: timeouts of 4 on 3 slots are beyond the span, so early timers, put
  back up to several times, occur; the clock passes the whole wheel in one jump
  and goes back.
- `waits`: the poll timeout (4) exceeds the wheel (3 slots); condition waits
  are with and without a timer; two waiters may be signalled or expire while a
  third runs.  `MaxNow` stops the clock and keeps deadlines finite, `ClockBacks`
  limits how often it is set back.  Both are guards of the environment's
  actions only.
- `waits_served`: smaller, as liveness is expensive; three coroutines are the
  fewest in which two keep each other busy and a third waits.
- `mutex`: one owner, one that is signalled, and a queue in which order shows.
- `hooks`: the table has independent entries, so one number that is closed and
  opened again by either coroutine shows what reuse can do; a message of 2 bytes
  can be taken in parts, with an error, a timeout or the other coroutine's bytes
  between them.
- `services`: lists: 4 items in 3 lists have a head, a tail and two between, and
  a list to join and one to stay.  kqueue: 2 descriptors with both filters and 3
  events a wait give every order of a merge.  Names: 2 coroutines, buffers that
  double once and 3 addresses, so that one is given out again.  Environment: a
  list with a name twice and an empty one.  Singletons: the main thread at exit,
  one that makes an object, one that meets it; 3 objects.  Lock file: one that
  has it, one that tries, one that creates.  Signals: 2 threads, 2 signals, 3
  frames: a handler on a handler on a registration.  Flags: every type, `int` of
  3 bits and `strtoll` of 4, a file by hand and the one saved.  Arena: 12 bytes
  in units of 4, 4 blocks.  Cron: 11 expressions from 9 times, at the ends of
  months and years and in a leap year.  Dates: day by day for 15 months with a
  29th of February, also by 31 days on and 7 back.  Periods: 4 of 13 dates
  around the ends of every period, and a 0, which is passed over.  Strings: up to 4 and 3 characters.

`IntSpan` 64 makes an `int` hold every difference; `timers_gap` makes it too
small for the clock.

## Fairness

`CoEventLoop`: time passes (`WF Tick`; up to the bound, after which everything
is due); the loop's own code runs on when it is its turn (`WF Loop`); `pfn`
returns (`SF LoopAgain`: strong, since coroutines it resumes interrupt it); and
each coroutine that runs again and again gives control back again and again
(`SF` on its blocking steps).  The last two are what cooperative scheduling asks
of programs; a coroutine that never blocks stops its thread, in the code as in
the model.  No fairness is assumed of events, signals, or setting the clock.

`DueRuns` holds only for behaviours in which rounds begin again and again.  TLC
finds the other ones: two coroutines that signal each other for ever keep the
active list from becoming empty (1055-1082), and neither `epoll_wait` nor the
wheel is looked at.  `SignalledRuns` needs no such premise.

`services` assumes none: its properties are about safety.

`CoMutex`: the loop serves the active list, and who holds the lock releases it.

`HookSysCall`: each call goes on (`WF Step`).  `poll` is the only step that
waits, and it returns as its wait has a timer (`DueRuns`); the other steps are
system calls on non-blocking descriptors (`ThreadsRun`).  Nothing is assumed of
the kernel: no byte need ever be taken.

## What is proved

Everything in this section is for all values of the constants that satisfy the
named assumptions; TLC checks the same formulas on the instances above.

- `CoRoutineProofs`.  `IInv` is `TypeOK` with `CallStackInv` (distinct live
  coroutines above `Main`), `OccupantInv` (an occupant exists, was started and
  belongs to that stack), `ResidentInv` (who runs occupies its stack, who was
  switched out does so or has exactly its `sp` cells in the buffer) and
  `ViewInv`.  Type correctness alone is not inductive: saving needs `sp` of the
  occupant, restoring the length of the buffer.  `Invariance` holds for every
  program; `SwitchesLoseNothing` and `Refinement` assume `~OccupantMayGo`.  The
  lemma behind both is that `co_swap` leaves every `View` unchanged: the evicted
  one's goes from the stack to its buffer, the newcomer's the other way.
- `CoTimeoutProofs`, under `ShortGaps`.  `SlotInv` says that a timer lies `k`
  slots ahead of `llStartIdx` and `ullStart + k` is not after its expiry; `k` is
  quantified, which keeps modular arithmetic out of the step.  `RoundInv` ties
  the active list to the round's clock.  `NothingEarly`, `NothingOverdue` and
  `Refinement` follow from the invariant.
- `CoEventLoopProofs`, of behaviours in which two rounds are never half an `int`
  apart (`[]ShortGap`; `timers_gap` shows what happens without it).  `LoopInv` is
  `TypeOK` with `StackInv` (the call stack is `Main` below distinct coroutines,
  and those above it wait for nothing), `LinkInv` (where an item is linked
  follows from the wait its coroutine is in, and it is linked once),
  `OnlyWaitersLinked` (who waits for nothing is linked nowhere), `RoundInv` (the
  active list against the round's clock), `EpollInv` (a registration is of a
  poll that listens to it) and `SlotInv` as above.  None is inductive without
  the others: that `TakeAllTimeout` hands an item to one list only takes
  `LinkInv`, that the loop resumes a coroutine that can be resumed takes
  `StackInv`, and that what it resumes does not turn up in the list again takes
  `OnlyWaitersLinked`.  `WokenOnlyForAReason` needs no more; `SignalsKept` adds
  that condition waits keep within the wheel (`~LongCondWaits`), `EventsReachPolls`
  that polls do not share descriptors (`~SharedFds`).  `waits_long` and
  `waits_shared` show that neither can be dropped.
- `CoMutexProofs`.  `OwnerInv` (one holder, or one signalled, or nobody at all),
  `CountInv` and `QueueInv` are inductive together and give `Exclusion`;
  `InOrder` is the refinement without its fairness.
- `HookSysCallProofs`, under `~MixedHooks`.  `HookInv` is `TypeOK`, `CallInv`
  (a call is about an open descriptor; who makes or closes one is alone with
  it), `TableInv` (which descriptors have an entry) and `FlagInv` (those with an
  entry are non-blocking in the kernel, except while their maker has not set the
  flag).  The table alone is not inductive: that `alloc_by_fd` and `free_by_fd`
  meet no call of another thread takes `CallInv`.  `NoThreadBlocks` follows.
  `CallsReportRightly` needs `ReportInv` on top: in the middle of a write
  `wrotelen` is the length of what was sent, and that is a prefix of the
  message; after `connect` has polled, its descriptor has an outcome.
- `ServiceProofs`: one inductive invariant for each small component.
  - `AppInv`: on a file system with locks, who is past the lock holds it, and once
    one has entered the file names nobody else.
  - `SingletonInv`: a thread that makes an object is `holder`, no function of
    `atexit` is left that could delete one, and the object between its `new` and
    its store is the only one; at other times the instance is, unless it is
    deleted and not cleared yet, when no call is undisturbed.
  - `SigInv`: among all frames of all threads at most one is past the mutex, and
    one that walks over a list has the list as it is.
  - `HostInv`: a buffer is live and of one coroutine, and holds the answer to what
    that coroutine asked once it was returned.
  - `ArenaInv`: blocks in use end below `ptr_`, which stays aligned, and are apart.
  - `KqInv`: filters agree with the record of their descriptor, and records with
    the map, except for `torn` descriptors; `MergeInv` adds that all `fire_idx`
    are 0 between waits.  Inside one, an induction over the events that `kevent`
    returned shows that the entries so far are one per descriptor met.
  - `EnvInv`: the list is strictly increasing and names what was given (`Sorted`
    and `Unique` are shown to do that), each array has the names of the list, and
    its values are what its coroutine set.
  - `DailyInv`: every moment between the first question and the last answer was
    notified, and the clock is at most a day after the last answer.  The theorem
    assumes that a caller is at most a day late, `Late <= ONE_DAY_MS`.
  - `FlagsInv`: a flag that is defined has its own type and a value of it, and the
    file has one kind of line only, `name = value` as `Repr` prints it, a line for
    each value that was saved.  `Token` is followed through the four kinds of such
    a line; an induction over the lines (`FileLoads`) shows that what one sets no
    other disturbs.  The theorem is for every set of flags, with types that
    `SetFlagFromString` has, names without signs, and any files by hand; that the
    bytes of a saved string have no quote and end no line is part of the model.
  - `DListInv`: the pointers represent a sequence per list (`Represent`): `head` and
    `tail` are its ends, `pNext` and `pPrev` its neighbours, `pLink` the list, and
    an item without a list has no neighbours.  Each template keeps it with the
    sequences that `LinkSeqs` says.  `ChainIs` then shows that following `pNext`
    from `head` gives that sequence, whence `PointersAgree` and the refinement
    `PointersAreSequences`.
- `UtilityProofs`, of the calendar.  `CivilBack` shows that `CivilOf` finds the day
  that `DayOf` was given, from the divisions of `CivilTime` alone: a year has one
  place in its cycles of 400, 100 and 4 years (`YearParts`, `YearOf`), and a day of
  the year is in one month (`MonthOfEveryDay`).  So the day by number and the day
  by digits step together (`DayOfNext`, `NextIsSuccessor`).  `CalendarInv` is that
  the walk meets dates only; `DaysFollowHolds` and `PeriodsEndHolds` follow.
- `UtilityProofs`, of cron.  `CronInv` says that an expression that was made has
  values in each field, all in range, and adds `Searching`: the time of each frame
  is a struct tm in order and not before the one asked about, and the fields the
  innermost frame has passed are in their sets.  A later field that moves may
  disturb the earlier ones, but then a new frame begins, which has passed none.
  It is needed since `FoundMatches` speaks of the end only; from it
  `FoundMatchesHolds` follows, for expressions with a `*` in one of the two fields
  that choose a day (`FreeDay`): otherwise `findNextDay` may give up after 366 days
  and what it returns does not match.  `FirstInv` adds `Thorough`, that no instant passed
  over so far would have matched (`QuietAfter`) and which fields a frame has
  marked: all it has passed, but perhaps the second.  A field that moves to the
  next value of its set passes over periods of that field only (a count of
  periods, `Instant` by one field of the clock, shows it), and the reset of the
  marked fields brings the time back to the start of the new one, if the
  expression is `Aligned`: exactly one second, and all months or no day after the
  28th.  With `FreeDay` besides, `FirstWhenAlignedHolds` follows.
- `SequenceLemmas`.  The induction theorems of the prover's library take a
  predicate as a parameter; `NatInd` takes the set of the numbers that have it,
  and `RecursionExists` a step function that is a value.  With these what a fold,
  a filter or a recursive function of a model computes can be proved after all.

Assumptions on constants: `CoAssumption`, `StackAssumption`, `WheelAssumption`,
`ClockAssumption`, `LoopAssumption`, `HookAssumption`, `DListAssumption`,
`KqAssumption`, `EnvAssumption`, `HostAssumption`, `SingletonAssumption`,
`AppLockAssumption`, `SignalAssumption`, `ArenaAssumption`, `DailyAssumption`,
`FlagAssumption`, `CalendarAssumption`, `CronAssumption`: that numbers are numbers, that marks such as `Null` are no element, that sets
of what a thread walks over are finite, that the arena's size is a multiple of
its alignment, which `short_alloc.h` asserts, that dates are of the years 1970 to
9999, which `nextMonth` keeps, and that a time is one `localtime_r` makes.  TLC evaluates them in the runs.

## What is only model-checked

Liveness (`EveryLockReturns`, `SignalledRuns`, `DueRuns`, `EveryCallReturns`, and
the fairness in `FifoLock`), since it is beyond the proof system.

Of safety:

- `KthOfEachPeriod` of `PeriodDays`: a rank among the dates of a period against a
  place in a slice, for lists cut by another number than the period.
- `TextPutBack` and `MatchesStand` of `Text`: what several recursive functions over
  strings compute, each against the other.  The one of patterns is a search
  with a position that goes back.

## Where code and comments disagree

The five runs that expect a violation; `PROJECT.json` quotes the comments.

1. `coroutine_any`: the occupant of a shared stack is released or reset while
   another coroutine is saved from it.  That one runs next without its cells.
2. `waits_long`: a signal for a timer that was taken early is lost, as the loop
   puts the item back into the wheel.  A wait of more than a minute is needed.
3. `timers_gap`: the difference of two clock readings does not fit an `int`.
4. `waits_shared`: two coroutines that poll one descriptor take each other's
   registration away.
5. `hooks_mixed`: a coroutine without the hook closes a descriptor that has an
   entry.  The entry stays, and whoever gets the number next, from `open`, `pipe`
   or `accept`, is treated as if the hooks had made it.

Other disagreements, which no run of its own shows:

- `cron.h:86` says that `nextcron` returns the first trigger after the given
  time.  `FoundMatches` holds where one of the two fields for the day is a `*`, and
  `FirstTrigger` does only where `FirstWhenAligned` says: a second that moved is not reset when the minute or
  the hour moves later (`10,30 0 * * * *` from 00:05:20 gives 01:00:30, not
  01:00:10; nor is a 0 among the seconds of help, `*/20 */30 12 * * *` from 12:05:05
  gives 12:30:20), a month set on the 29th to 31st may overflow into the next one
  (`0 0 12 * 2 *` from 2021-01-31 gives 2022-02-01), and `findNextDay` gives up
  after 366 days with a time that does not match (`0 0 0 13 * FRI` from 2027-08-14).  With a step of 197 or more
  the 8-bit counter of `setCronField` wraps.
- `getNextAbsClockMs` gives out the moment just reached for two more seconds, so
  a caller that asks again at once is told twice.
- `matchPeriod` of two dates does not look at the year: dates of one month of
  two years, next to each other in a list, are in one slice; the week of a turn
  of the year is in two.  `lastDate` of the first half year is June 31st; its
  weeks end on Saturday, those of `dateToWeek` on Sunday.
- `replace` with a map that has an empty key does not return.  `*` of a pattern
  takes all up to a dot and does not give back: `*a` matches nothing.
- `singleton.h:54-56` says that a `DefaultLifetime` object that is asked for
  after its end throws.  A thread that asks between the reset of the pointer and
  the mark (293-294) makes a new one.  One that asks between the deletion and
  the reset is given the deleted one.
- `Flags`: an option of the command line for a flag that is defined later is
  applied by `Recognize` and then overwritten by the initializer, one for a flag
  that is defined is not applied at all; a saved string is the bytes of its
  pointer; the first growth of the table, from 0, doubles to 0.
- kqueue: the result may have a hole among the entries that the count covers; a
  second `EV_ADD` that fails leaves a filter with a freed record; a descriptor
  closed with an entry gets `EEXIST` when its number returns.
- `port.cpp`: a signal that meets its thread in `registerSig`, or a callback that
  registers one, stops the thread for good.
- `co_free` leaks `pvEnv` and the buffers of names; `co_reset` leaves both to the
  coroutine's next function.

## Not modelled

Registers and assembly; the fall-back to the native `poll` for descriptors that
epoll refuses; `poll` with timeout 0 (a plain system call) or below (`INT_MAX`
ms, which to the wheel is a timer beyond its span); the limit of 10240 events
per `epoll_wait`, which only delays the rest to the next round; failing
`malloc`.  How `poll` merges duplicates of one descriptor.  Time zones with
daylight saving: `str2time` uses one offset for all times, cron uses `mktime`.
Flags that are functions, `Shutdown` and the sorting of the table (the
comparison takes elements for what they point to).  Number formats, upper and
lower case, and `MATCH_DOUBLE` (`common.cpp:31-40`).  Commands, metrics, files,
stopwatch: no sequence of calls of theirs could go wrong, or they are the
operating system's; the reasons are with the components in `PROJECT.json`.

## Plan

The code that has behaviour is modelled, and the safety of every component with
actors, of the calendar and of cron is proved.  What is left:

1. `Text`: `TextPutBack`, by induction over the positions of the strings.
2. `PeriodDays`: that the slices are the periods, now that dates are known to
   follow the calendar.
