# Formal models of the CSE 422 archive

The repository holds the kernel modules and user programs of an operating
systems course: two labs and about ten studios, in C, for a four-core Raspberry
Pi with a 5.10 SMP PREEMPT kernel (the programs of studios 13 and 20 are built
for x86-64). This directory holds TLA+ models of them, the TLC configurations
that check the models on small instances, and proofs of the safety properties
for every value of the constants.

1. [Inventory](#1-inventory)
2. [The modules](#2-the-modules)
3. [The runs](#3-the-runs)
4. [Fairness](#4-fairness)
5. [The proofs](#5-the-proofs)
6. [Findings](#6-findings)
7. [What is not modelled](#7-what-is-not-modelled)
8. [Plan](#8-plan)

How to run: `tlc -config paging_two.cfg MCPaging` (a configuration's module is
named in `PROJECT.json`), `tlapm PagingProofs.tla`.

## 1. Inventory

The programs are small and mostly independent; what connects them is the kernel
they run on. The interactions inside each one, and the behaviours that are hard
to test, are these.

**Paging device, lab 2** (`labs/lab2/mod/paging.c`, used by `labs/lab2/user/*.c`).
State: the parameter `demand_paging`, two counters `alloc_count` and
`free_count`, one global list `ref_page_list`, and for each mapping a
`pa_state_struct` with a reference count, held in `vm_private_data`. Operations:
init and exit, `paging_mmap` (with a loop that maps every page when demand paging
is off), `paging_vma_fault`, `do_fault`, `paging_vma_open`, `paging_vma_close`.
User programs call mmap and touch the pages; the kernel calls the handlers, also
on splits, partial unmaps, exits and kills. Hard: the handlers of several
processes run at once without a lock on the list and the counters; every call in
`do_fault` can fail half way; the module can go at any time. Correct when a
reference count is the number of VMAs that use it, the counters tell how many
pages are out, no page is freed twice, while it is mapped, or never.

**Recurring timer, lab 1** (`labs/lab1/mt_recurring_timer.c`; the single-threaded
`recurring_timer.c` and its copy `bkp_recurring_timer.c`). State: a high
resolution timer, `arr_threads`, `iters`, and each thread's task state and stop
flag. Operations: `mod_init` creates, binds and wakes the threads and starts the
timer; `timer_expire` wakes all threads from its interrupt; `spawn_func` counts,
sleeps and tests its stop flag; `mod_exit` cancels the timer and stops the
threads. Hard: the interrupt, rmmod and the threads race on task states; wake-ups
can come before the sleep they are meant to end. Correct when the timer never
touches a released task, no wake-up counts twice, nothing outlives the module,
and the module can be removed.

**Per-core threads, studio 8** (`studios/studio8/core_thread.c`,
`core_thread_atomic.c`). State: `shared_data` (an int, or an `atomic_t`),
`arr_taskptr`, and one static loop index `i` that `mod_init`, `mod_exit` and
every thread share. Hard: lost increments, and loops that move each other's
index. Correct when no task is forgotten and the count is right.

**Shared memory, studio 13** (`studios/studio13/leader.c`, `follower.c`,
`shared_process.h`). State: a POSIX shared memory object with three guards and an
array. The leader creates it, waits for `write_guard`, fills the array, sets
`read_guard` and waits for `delete_guard`; the follower sets `write_guard`, waits
for `read_guard`, copies, unlinks the name and sets `delete_guard`. Hard: the
object outlives a killed process with its guards set, and the next run takes it
as it is. Correct when a copy is complete, an acknowledgment is not an old one,
and two live processes come to their end.

**Kernel memory, studio 12** (`studios/studio12/kernel_memory.c`). State: `pages`,
`nr_pages`, `order`. A thread computes how many pages hold `nr_structs` structs,
allocates `2^order` of them and fills them; exit stops the thread, checks the
contents and frees the pages. Hard: the arithmetic of `my_get_order` at powers of
two, an allocation that fails and is used, exit before the thread has run.

**VFS thread, studio 15** (`studios/studio15/vfs_thread.c`). State: the module, and a
kernel thread that prints the root directory, looks up a process by its number,
loads its files, and writes to its standard output through the file's operations.
Hard: exit does not wait for the thread; the target can close its output, exit or be
reaped between any two steps; the reference of `get_pid_task` holds the task, but
nothing holds its files. Correct when only these disturbances can kill the thread, and
an undisturbed target gets the message.

**Sysfs objects, studio 5** (`family_reader.c`, `kobject-example.c`). State: static
ints that `show` and `store` handlers read and write without a lock;
`family_reader` walks the parents of the process that was stored. Hard: writers
that share the variable, a walk over tasks that exit and are adopted. Correct when what
was written can be read, no handler outlives the files, and a walk that no reaping
disturbs comes to the root of the family: init, or number 0 for the threads of the kernel.

**Fork trees** (`studios/studio5/tree_fork.c`, `simple_fork.c`, copies in
`user_space/`). Every process of a generation forks two children and waits for
one. Hard: who outlives whom, a fork that fails, lines in a buffer that every fork
copies.

**Workloads, studio 14** (`sort.c`, `parallel_dense_mm.c`, `dense_mm.c`,
`arr_search.c`, `sing.c`; copies in `user_space/test_programs`, and the lab 2
versions on device memory). A randomised in-place quicksort and matrix products,
one of them split over threads. Hard: inclusive bounds (`quicksort(A, 0,
array_size)` has the cell after the array take part), unsigned arithmetic at 0 and beyond
32 bits, one product that several threads write.

**File programs, studio 16** (`appendfile_count.c` writes a line with its length in
front, `readfile.c` reads it back; four simpler ones copy text). Hard: several
appenders on one file, `feof`, a buffer that `getline` replaces by another than the one
the program has measured.

**Server, studio 18** (`serverip.c`). Accepts one client after the other, reads once
into a buffer of twenty words and goes over the words up to a newline or 418, whatever was
received. Hard: messages in pieces, silent clients, and words of an earlier client in
the buffer that is allocated again.

**Signals, studio 20** (`sender.c`, `receiver.c`). The sender queues n realtime
signals of value 0 and a last one of value 1; the receiver counts in its handler
and spins on `done`. Hard: the limit of the queue, the order of delivery.

**Small programs** (`do_nothing.c`, `ten_malloc.c`, `getres.c`, `getdelay.c`,
`print500000.c`, `printmypid.c`) have no state worth a model, and the `.cmd`,
`.mod.c`, `.o`, `.ko` files and traces are generated. The object files were read in
one place, studio 8, where the C leaves the accesses to the compiler.

`PROJECT.json` lists every component with its status and every hazard at its line.

## 2. The modules

Each `MCx` module extends the component `x` for TLC; `MCStudios` extends three small ones together
and `MCPrograms` eight, with a variable `program` that says whose behaviour it is. Each `xProofs`
module holds the theorems of `x`; `SoleMappingProofs` those on `Paging` with one mapping at a time,
`StudioProofs` those of the three modules of `MCStudios`, and `ProgramProofs` those of the seven of
`MCPrograms` beside `RefPageList`. In a component, one action stands for one operation or for the
part of it between two points where another actor can act. A few one-line operators (`LastRef`,
`NextCell`, `InArray`, ...) name single tests or assignments of the code, so that a mutated form of
each can be put in its place to see a property fail; the mutated forms stand together before them
and no action uses them.

### Paging

| code | model |
|---|---|
| `demand_paging`, the module itself | `demand_paging`, `module` |
| `vm_area_struct`: owner, range, `vm_private_data` | `owner`, `cover`, `private` |
| `pa_state_struct`, its `ref_count` | `pas`, `ref_count` |
| `ref_page_list`, a list of nodes with one page each | `ref_page_list`, the set of their pages |
| what `list_add` has loaded: the first node and the list behind it | `seen` |
| page allocator, page tables | `used`, `pte` |
| `alloc_count`, `free_count` | the same, modulo `Modulus` |
| local variables of a handler | `pc`, `curVma`, `curAddr`, `curPage`, `prepaging`, `exiting`, `ret` |

`paging_mmap` is `paging_mmap`, `PasFails` and, for its loop, `CountAlloc` and
`AbortMmap`; `do_fault` is cut at its calls (`alloc_page`, `remap_pfn_range`,
`kmalloc_node`, `list_add`, `CountAlloc`) with one action for each failure (`AllocFails`,
`RemapFails`, `NodeFails`). `paging_vma_close` is cut between `atomic_dec` and
`atomic_read`, and its loop goes page by page: `FreePage` frees a page and its node,
`CountFree` counts it, `LoopEnds` frees the `pa_state_struct` when nothing is left on the list.
What the kernel does around the handlers is modelled as far as they depend
on it: it clears page table entries before it calls close, it frees the VMA
afterwards, it drops a VMA whose mmap failed without calling close, and a process
that dies in `paging_mmap` keeps its address space locked. A process is single
threaded, as every program that opens the device is. After the module's removal
none of its code runs in the model; on the machine it would run in freed memory.

Nothing locks the list, and the model keeps that. `list_add` is two steps: the load of the head's
next pointer (`kmalloc_node`, which keeps what the list was then in `seen`) and the store that makes
the head point to the new node (`list_add`, after which the list is that node and `seen`). When two
of them meet, the one that stores first is lost with its page, and an add that loaded a list before
others changed it brings that list back. `addsMet` records that this has happened; the properties
speak of it openly. The backward pointers, which only `list_del` uses, are left to `RefPageList`.

When a close meets an add or another close, nodes are used that are already freed, and what follows
is damage on damage. The model records the meeting (`closeMet`) and stops there (`Running`,
`Stopped`): this is a named bound, no property of `Paging` speaks of what comes after, and
the code does reach this point. `RefPageList` shows what goes wrong first.

### RefPageList

The same list pointer by pointer, on several CPUs without a lock: `next` and `prev` are the two
pointers of every `list_head`, and a step is one load or store of `list_add`, of
`list_for_each_entry_safe`, or of `list_del`. `new->next` and `new->prev` are one step, since before
`list_add` publishes the new node only a close that meets it can reach it. `kfree` gives a node
back; using the pointers of one that is not allocated, or freeing a page twice, is `oops`, where the
model stops. `addsMet` and `closeMet` record which operations have been under way together. `Begins`
is a named bound: once a close has met another operation nothing more begins, since everything after
that is damage on damage.

### PageSet

What the list stands for: a set of pages taken from the kernel, to which `do_fault` adds one at a
time and which a close gives back all at once. Two modules implement it (`ImplementsPageSet` in
each): `Paging` with its variable `ref_page_list`, and `RefPageList` with the nodes a walk from the
head reaches (`Listed`). In both the set is empty as soon as the loop of a close has begun, and what
it was is given back at that moment: the close is then the only one that sees its nodes. When adds
have met, an add may lose others or take lost pages up again (`AddInto`); when a close has met
something, nothing is promised any more (`closeMet'`). So the two descriptions of the list, the set
with its two-step `list_add` and the pointers, promise the same.

### PageLending

The abstract promise of the device: pages are taken from the kernel, lent to one process
at most, and given back only when nobody has them. `Paging` maps to it by `lent` = the
frames in the process's page table and `out` = `used`; the mapping is the `INSTANCE` in
`Paging`, `ImplementsLending` the property. It holds with one `pa_state_struct` and not with two,
where the close of one mapping frees the pages of the other (`paging_shared_list`).

### RecurringTimer

`ctl` and `index` are the place of `mod_init` or `mod_exit` and its loop index;
`armed` and `waking` the timer and the loop of `timer_expire`; `tpc`, `state`, `stop` a
thread's place, task state and stop flag. `wake_up_process` changes a task that
waits and no other. A step reads or writes one thing that two actors share, so
`spawn_func` is five actions: the wrapper's first test, the count,
`set_current_state`, the return from `schedule`, the test of the stop flag. A thread
that could not be created is an error pointer; its use by `timer_expire` or
`mod_exit` crashes the machine (`WakeError`, `StopError`), since neither tests it.
`N = 1` is `recurring_timer.c`. The interval, the cores and the messages are left
out.

### CoreThread

`build` tells which of the two modules runs. The shared index is not volatile, so
the C does not say which of its accesses reach memory. The model takes those of
`core_thread.o` and `core_thread_atomic.o`: in the first, a thread counts its rounds in
a register (`count`) and stores `i` once, after the loop (`SetIndex`); in the
second, it stores 0 at the start (`Begin`) and loads and stores `i` in every round
(`ReadIndex`, `WriteIndex`). `mod_init` and `mod_exit` load `i` again after every call
(`LoadIndex`, `StoreIndex`, `ReadSlot`); the value they keep in a register is
`slot`. `Entry` gives the pointer at an index: a task, null, an error pointer, or
`Wild` beyond the array; a bad one ends insmod or rmmod (`InitOops`, `StopOops`).
`kthread_bind` comes after the wake-up and has no effect but a warning.

`mod_exit` can leave its loop early, because a thread that finishes sets `i` past the
array, and then the module goes with threads still in its code. The model has
this behaviour (`Unload` ends in `"removed"` with tasks in the loop) and no property
denies it.

### SharedMemory

An element of `Leaders` or `Followers` is one run of its program, an element of
`Objs` one object that `shm_open` makes. A guard is the set of the objects in which
it is 1, `data` the cells of an object that are written, `arr` the cells a follower
found written. `rand` is never seeded, so every leader writes the same numbers and
written or not is all there is to tell. Each access to the object is an action, in
program order: the fields are volatile, and x86-64 makes stores visible in order. The
mapping's failure is never noticed (`mapping < 0` does not hold of a pointer), so a
follower without an object, or with one that has no size, is killed by its first
store. `Crash` kills any process in `CanCrash` at any point.

### KernelMemory

`mctl` and `mpc` are the places of insmod or rmmod and of the thread; a page is an index,
`filled` the indices the thread has written, `pages` the size of the allocation the pointer
stands for. The variable `order` is 2 to the order, so `ShiftOrder` doubles it.
`nr_structs` can be written through sysfs at any time (`SetNrStructs`); the thread loads
it once, as `kernel_memory.o` does. A failed allocation is reported and used: the write
through the pointer computed from null may kill the thread (`WriteOops`) or hit mapped
memory, and exit dies on it (`ExitOops`). The thread waits in a loop around `schedule`
without setting a task state, so it never sleeps and a stop cannot be lost, which is
the difference from `RecurringTimer`.

### Signals

`pending` is the kernel's queue of the receiver, the values of its signals in order;
`sigqueue` fails when it is full or the receiver is gone, and the sender does not look
(`lost`). The handler runs on the receiver's only thread with the signal blocked, so it is
one step, and it can come between the loop on `done` and the `printf` (`"print"`). Before
`sigaction` a signal kills the receiver. The kernel counts pending signals for each
user; the model has the senders and the receiver alone.

### Quicksort

The recursion is the stack `calls` of ranges; a call of `partition` is its beginning
(`ChoosePivot`), a round of its loop (`Scan`) and its end with the two recursive
calls (`PlacePivot`). `swap` keeps one value in an unsigned, so doubles are counted in halves
and `ToUnsigned` cuts a fraction off and makes a negative number 0, as the ARM does.
`quicksort` takes an inclusive end and main passes `array_size`: the cell behind the
array is part of the model, with any number in it (`Behind`) or with no memory there
(`mapped`), which in lab 2 is the case when the array fills its last page.

### VfsThread

`vfsPc` is where `thread_fn` is, with one action for each load it makes through the target
(`LoadFiles`, `fcheck_files`, `LoadFop`, `CallWrite`). The target closes its output, becomes a zombie
(its `files` pointer is then cleared) and is reaped at any time (`TargetMoves`); an entry of
the root directory may be freed under the walk (`RootEntryFreed`). Reading freed memory
either kills the thread or gives one of the outcomes named in the action; so does running in
the removed module (`RunFreedCode`), which is always fatal here. `pinned` is the reference of
`get_pid_task`, which the module never gives back.

### KobjectExample and FamilyReader

The handlers of several users of one file run at once; the kernel's part is that a handler
runs only while the file exists and that the removal waits for it (`Drained`, `fam_exit`).
`foo_store` parses into the static variable itself and is one step; `b_store` parses into a
local variable (`b_parse`) and assigns. `kobKept` are the users whose number nobody has
overwritten.

In `FamilyReader`, `kstrtoint` writes to the static `pidme` and `find_vpid` reads it later, so
another writer can come between. `life` and `real_parent` are the process table, numbers not in use
included. It has two roots, init (1) and kthreadd (2), both children of the idle task (`Idle`, number
0, which `find_vpid` does not find): the test `this_pid > 1` ends a walk at either 1 or 0.
`kthreads` remembers what began below kthreadd. `TaskExits` gives the children to init, also those
of a thread of the kernel, `TaskReaped` frees the task unless a reference of `get_pid_task`, never
given back, holds it (`taken`); a child already reaped keeps its stale pointer. `PidTask` is what
`get_pid_task` may return: the number's task, or, if that was reaped since `find_vpid`, nothing, any
other task, or a death. A walk over a freed task goes anywhere or dies (`WalkUp`, `WalkOops`).
`FamReturn` is the end of a handler, where its variables go.

### ForkTree

A process is the path from the root to it; `treePc` is its place in the loop. `buffer` holds the
lines the C library has not written, which every fork copies and every exit writes out;
on a terminal (`tty`) each line is written at once. `wait(NULL)` takes any one child that has
ended, or none if there is none. A parent that ends leaves its children to init
(`InitReaps`).

### CountedFile

A character of the file is its line and its place, so that a torn line can be told. An
appender hands its line to the kernel in pieces of the C library's buffer, and each piece
goes to the end of the file in one go (`appendfile_count`). `readfile` is `OpenText`, `getLineLen`,
`GrowData` and `getline`; `maxlen` is what the program believes of its buffer, `capacity` what
the buffer has. It is modelled on files of whole lines, since it tests nothing. A
blank in a line, the number's digits and the separator are one place.

### Server

`conn` and `sent` are the clients, `data` the buffer, `got` the words of the one read, `cell` the loop
index. `Clobbered` words are overwritten by the allocator when the buffer is freed. A read
delivers any number of whole words and maybe a piece of the next, whose value with the rest
of the cell is any word (`torn`). The clients' steps are those the read can see: what happens before
the server reads is as if it happened then.

### DenseMM

`mmProg` is one of four programs: the rows outermost (serial, device), the columns outermost
(parallel, timed), one thread or several (`First` and `EndOf` are the static schedule of OpenMP),
C cleared (`C0` is 0) or, on the device, as its pages happen to be (`C0` is 0 or another number:
nothing clears them). `round` holds the variables of the
three nested loops of each thread. `+=` on an element of C is a load and a store. An unsigned
number has one of `UintValues` values (2^32 on the machine), the bytes of an allocation are counted
in them (`AllocSize`), and an access outside a matrix, of the product or of its verification, stops
the model. `Product` is the sum the loops should have added up, without their order; `ProductRight` says that
one pass over cleared memory computes it, `SumRight` what is there after any number of passes.

## 3. The runs

| run | instance | states | shows |
|---|---|---|---|
| `paging_two` | 2 processes, 3 VMAs, 2 structs, 2 pages, every call failing | 1,260,169 | `RefCountExact`, `CountersBalance`, `PagesAccounted`, `NothingLeftBehind` |
| `paging_sole` | 2 processes, 3 VMAs over 3 pages, 1 struct | 144,513 | `ImplementsLending` |
| `paging_live` | 2 processes, 2 VMAs, 1 page | 55,249 | `HandlersReturn` |
| `paging_shared_list` | 2 processes, 2 VMAs | | violates `MappingsSound` |
| `paging_unload` | 1 process | | violates `CleanUnload` |
| `timer_safe` | 3 threads, 2 expirations, creation failing | 34,784 | `TimerSafe`, `ItersBounded`, `ThreadsGone`, `StopHeard` |
| `timer_unload` | 1 thread, 1 expiration | | violates `UnloadCompletes` |
| `core_both` | 2 entries, 2 tasks, 3 rounds, both builds | 184,521 | `TotalBounds`, `NoTaskLost`, `CountingEnds` |
| `core_atomic` | 2 entries, 2 tasks, 2 rounds | | violates `CountExact` |
| `shared_handshake` | 2 leaders, 2 followers, 2 objects, 2 cells, all killable | 21,806 | `CopyComplete`, `AckMeansCopied`, `NoStaleAck`, `HandshakeEnds` |
| `studios` | kernel memory: 0 to 19 structs, 2 in a page; signals: 2 senders of 0 to 3, limit 2; sort: arrays of 0 to 4 numbers, 6 values behind them | 88,391 | `WritesInside`, `PagesClean`, `UnloadEnds`; `PrintedExact`, `LostOnlyLast`, `ReceiverEnds`; `SortInv` |
| `programs` | list: 2 CPUs, 3 nodes; sysfs: 2 users, 2 numbers; family: 2 writers, 4 tasks, depth 3; forks: 1 to 3 generations; files: 3 appenders; server: 2 clients, 2 words; matrices: 0 to 3 rows and sizes that overflow | 326,890 | `ListWhole`, `ImplementsPageSet`; `OopsExplained`, `HelloWritten`; `ReadBack`; `OopsNeedsReap`, `FamilyShown`; `RootAfterLeaf`, `LinesMultiply`; `AppendWhole`, `BufferFits`, `RoundTrip`; `StopAsked`, `EachServed`; `ProductRight`, `NumbersFit` |

Each property is stated in words above its definition. The module of every component has a type
invariant; it is proved (section 5), `SortTypeOK` as a part of `SortInv`, and no run spends time on
it. Properties that are proved and add little to a neighbour in the same run (`PagesReturned`,
`PagesEnough`, `TaskHeld`, `HandlersDrained`, `OwnUntilStop`, `SoleMappingSound`, `SumRight`,
`ImplementsPageSet` of `Paging`) are left to the proofs. Every property of a passing run has a
mutant in `PROJECT.json`: a one-operator change of the code (a forgotten `atomic_inc`, a `list_del`
left out, `hrtimer_try_to_cancel` for `hrtimer_cancel`, a loop one round short, a name that is not
unlinked, ...) under which the same run finds it violated.

Why the bounds are enough:

- *Paging.* Three VMAs and two structs are the least with which one process has a
  split mapping while another has its own; two pages let both fault while one
  closes, and let two list_adds meet and lose a page. Counters wrap at 3, so both wrap within a run. The third page of
  `paging_sole` lets a mapping be split twice. The demand paging flag may change at
  any step. Processes, VMAs, structs and pages appear only in equality and set
  membership, so their permutations are a sound symmetry; the run with a liveness property
  does not use it.
- *RecurringTimer.* Three threads give the loops a first, a middle and a last round;
  two expirations meet a thread that has not gone back to sleep. `MaxTicks` bounds
  the expirations only.
- *CoreThread.* Two threads race; three rounds are one more than either needs to
  overtake the other; `mod_init` is still creating when the first thread finishes. The
  atomic counter wraps at 8, more than the 6 rounds of all threads, though not
  more than what they count when they repeat rounds.
- *SharedMemory.* Two runs of each program are a pair and its restart; two objects
  are the old one and a new one; two cells let a copy be partial.

- *KernelMemory.* Up to ten pages cover zero, one, every power of two up to eight and the
  numbers next to them, with full and partly filled last pages; `Width` of 5 bits holds
  them all.
- *Signals.* One signal more than the limit is refused, the limit itself can lose the
  last signal, less cannot; the second sender mixes with the first.
- *Quicksort.* Four numbers of three values have equal ones, sorted and reversed orders,
  and both recursive calls; every pivot is tried. Behind the array stand a negative number,
  zero, one below, between and above the numbers, and fractions.

- *RefPageList.* Two list_adds on a list that has a node already is the least in which they
  can lose one; the third node is the one a close meets.
- *VfsThread, KobjectExample, FamilyReader.* One target; two users are a race on a variable.
  Four tasks are init, kthreadd and either a process below init with a number that is not in use, or
  a chain of two below kthreadd; adoption makes the other families. `MaxDepth` is deeper than the
  family, so the counter ends no undisturbed walk, and a stray one is bounded (500 in the code).
- *ForkTree.* Three generations are the least with a process that has a parent, children and
  a sibling.
- *CountedFile.* The library's buffer is 6: lines of 2 and 5 fit, 6 fills it exactly, 8 is
  torn; a line of 5 or 6 after one of 2 is more than twice as long, which is where the
  reader's buffer is too small.
- *Server.* Two words hold a stop and what is behind it; the first one is overwritten by the
  allocator and the second is not; the second client finds what the first has left.
- *DenseMM.* An unsigned number has 64 values and a double 2 bytes, so that 6 rows are 72 bytes,
  8, the root of 64, is the largest size accepted and 63 a negative argument; two threads share three columns
  unevenly; two iterations add the product up.

Where `CHECK_DEADLOCK FALSE` stands the system really may stop: a thread that lost its
stop and rmmod that waits for it, a process that waits for a killed one, a receiver whose
last signal was lost, a server whose client is silent, a module that is gone, a program at
its end.

## 4. Fairness

Weak fairness only, and only of steps that somebody executes: each handler once
entered (`Handler`), each thread (`spawn_func`, `boring_func`), insmod and rmmod once
started (`mod_init`, `Unload`, `kernel_memory_exit`), the timer's interrupt once it runs (`timer_expire`), each
process once started (`leader_main`, `follower_main`, `sender_main`, `receiver_main`), and the
delivery of a pending signal (`sig_handler`), which the kernel does on every
return to a process. The kernel is preemptive and its
default scheduler starves nobody; two processes that busy-wait on one core are
preempted too. Nothing is assumed of what users choose (mmap, exit, rmmod, starting a
program), of failures and kills, or of the timer's expirations. The threads of studio 8
are created for all processors, and `kthread_bind` comes too late to change that.

`HandlersReturn` of `Paging` covers the loop of `paging_vma_close` as it is cut there, one page after
the other. It leaves out, beside a removed module and a task that died, a close that met another
operation on the list, where the model stops; on the machine such a loop may also run for ever.

In `programs` there is one condition, on the steps of the one program that runs: `vfs_thread_fn`, the
processes of the fork tree (`TreeNext`), or `server_main`. Each of the tree's processes makes finitely many
steps, so it is enough that some one that can go on is scheduled. Clients may be silent for
ever, and `EachServed` names this way out. The other programs of the run have no liveness property.

## 5. The proofs

For every value of the constants, from the assumptions named in the modules:

| module | assumptions | theorems |
|---|---|---|
| `PagingProofs` | `ConstAssumption`: `None` is no object, there is a page of address space; `FiniteAssumption`: finitely many processes, VMAs, structs and pages, fewer processes and pages than a counter counts | `TypeCorrect`, `RefCountsExact`, `CountersBalanced`, `PagesAreAccounted`, `LastCloseLeavesNothing`, `PagesAreASet` |
| `SoleMappingProofs` | those of `PagingProofs`, and for the refinement exactly one struct | `SoleMappingsAreSound`, `PagingImplementsLending` |
| `RecurringTimerProofs` | `TimerAssumption`: at least one thread | `TypeCorrect`, `TimerIsSafe`, `ItersAreBounded`, `ThreadsAreGone` |
| `CoreThreadProofs` | `CoreAssumption`: at least one entry, at least two rounds and at least as many as entries (the code has 4 and 1000000), a counter that holds their product | `TypeCorrect`, `TotalIsBounded`, `NoTaskIsLost` |
| `SharedMemoryProofs` | `SharedAssumption`: at least one cell, leaders are not followers | `TypeCorrect`, `CopiesAreComplete`, `AcksMeanCopied`, `NoAckIsStale` |
| `StudioProofs` | `MemAssumption`: at least one struct in a page, an unsigned int holds the number of structs | `MemTypeCorrect`, `WritesAreInside`, `PagesAreClean`, `PagesAreReturned`, `PagesAreEnough` |
| | `SigAssumption`: a limit of at least one | `SigTypeCorrect`, `CountIsExact`, `OnlyLastIsLost` |
| | `SortAssumption`: the numbers of the array are whole (counted in halves), behind it is any | `SortIsRight` |
| `RefPageListProofs` | `ListAssumption`: finitely many nodes, the head is none of them | `ListTypeCorrect`, `ListIsWhole`, `ListIsPageSet` |
| `ProgramProofs` | none on `VfsThread` | `VfsTypeCorrect`, `TaskIsHeld`, `OopsIsExplained` |
| | `KobAssumption`: 0 is a number, what is refused is none | `KobTypeCorrect`, `WhatIsWrittenIsRead`, `HandlersAreDrained` |
| | `FamAssumption`: init is a task, numbers are positive, what is refused and the null pointer are no numbers; for `FamilyIsShown`, no task of the first state lies deeper than `MaxDepth` below its root | `FamTypeCorrect`, `OopsNeedsAReap`, `OwnFamilyIsFound`, `FamilyIsShown` |
| | `ServerAssumption`: a buffer of at least one word | `SrvTypeCorrect`, `OwnWordsUntilStop`, `StopIsAsked` |
| | `TreeAssumption`: at least one generation | `TreeTypeCorrect`, `RootIsAfterLeaf`, `LinesAreRight` |
| | `FileAssumption`: a line has its number and at least a newline, buffers have room for one character | `FileTypeCorrect`, `AppendIsWhole`, `BufferIsFit`, `RoundTripIsRight` |
| | `MatrixAssumption`: `sqrt_of_UINT32_MAX` is the root of the number of unsigned values, at least one thread | `MatTypeCorrect`, `SumIsRight`, `ProductIsRight`, `NumbersDoFit` |

For each component an inductive invariant (`IInv`, or its name with the component's letters before
it) is proved to hold always, and the others are derived from it.

- *Paging.* `RefCountExact` alone is not inductive: a close subtracts from the struct
  of the VMA it works on, so `CurInv` says that this VMA is in use and the process's
  own; `VmaInv` that VMAs which share a struct belong to one process (the VMAs are
  `VM_DONTCOPY`) and that a VMA is in use exactly when it has a struct, so the last close leaves
  none behind it; and that a prepaging VMA is alone, so that the abort of
  `paging_mmap` strands nobody else's count. While the loop of a close runs its count stays at zero
  (`ZeroInv`), so no second close of the same struct begins. `HandInv` is about the pages: those in
  hand are different, not on the list, and not in what any `list_add` is going to put back (`seen`);
  orphans are nowhere. As long as no two `list_add`s have met nothing else is allocated, because then
  the only add under way has loaded the list as it still is (`MeetInv`); and a loop that has met
  nothing is alone with the list. `CountersBalance` counts what `list_add` has entered and no close
  has freed, lost or listed, so a store to the head that loses pages does not change it (`EnteredStep`);
  the bounds of `FiniteAssumption` let no counter wrap twice. `NothingLeftBehind` follows with one more
  invariant (`ListInv`): without a struct the list is empty, since only a process that has a mapping
  lists a page, and the loop that runs before the last struct is freed ends with an empty list.
  `PagesAreASet` follows from the same invariants: what `list_add` stores is the page in its hand and
  allocated pages, without meeting adds exactly the list as it is, and the loop of a close gives back
  nothing but what the set was when it began.
- *One mapping at a time.* `MapInv` says more of a page than that it is sound: what is mapped
  belongs to a VMA that is not being closed (`Covered`), VMAs of a process do not overlap
  ((`Disjoint`), the page `do_fault` is about to map is mapped nowhere (`Fresh`) and the
  addresses before the loop of `paging_mmap` are empty (`Ahead`). With one struct the last
  close is the close of the only VMA left (`RefCountExact`), so by `Covered` nothing is mapped when
  its loop frees the list. That process is the only one with a mapping, so no operation on the list
  meets another (`Alone`). Every step is then a step of `PageLending` or leaves its variables alone.
- *RecurringTimer.* The key is `TimerInv`: the timer is active only before `mod_exit` has
  passed `hrtimer_cancel`, and tasks are released only after that (`CtlInv`). `IterInv`
  counts, for each thread, the expirations that have reached it (`Woken`) and allows
  one round more; a thread past its sleep has one in hand or is stopped.
- *CoreThread.* In the plain build a store by a thread that has stored before is at
  least two, since its load came after its own first store; `DataInv` carries this. The index
  only moves forward for `mod_init` and `mod_exit`, since all a thread writes to it is
  `Iters`, so the entries from the index on are untouched (`IndexInv`, `ArrInv`, `FreedInv`).
- *SharedMemory.* `WriteInv`: the read guard is set only when every cell is written, and
  cells are never cleared; `ReadInv`: a follower copies only after it has seen that
  guard; `AckInv`: the follower that acknowledges has unlinked the name, and a name is
  never given to an old object again.

- *KernelMemory.* `OrderInv` is the loop invariant of `my_get_order`: what is left to shift, plus
  one, times what has been shifted is at least the number of pages (`ShiftKeeps`), so the order is
  large enough. `SmallestInv` says that it is not too large: their product without the one is at
  most the number of pages, and less where that is a power of two, since the code then begins one
  lower. Where it is none the order, which is a power of two, cannot be equal to it, so a round that
  doubles the order starts below the number of pages. The powers of two are a recursive function,
  reached as described under Induction (`PowersExist`, `PowerRecursion`). `CtlInv` says that the
  thread has ended when exit reads the pages, and `FillInv` that it has then written all of them.
- *Signals.* For a lone sender, `LoneSending` says that what it has sent is counted or queued, so
  the queue is shorter than the limit before the last signal, and `LoneSent` that the last
  signal, if it was queued, stands behind all others.

- *The programs.* `VfsThread`: a thread past the lookup holds its task (`Pinned`), and uses a file
  only if it has found one, or `files` is null because the process has exited (`Found`).
  `KobjectExample`: handlers run only while the files exist or are being removed
  (`HandlersInFiles`), and the number of a user in `b_store` is its own (`VarIsOwn`).
  `FamilyReader`: every parent of a process that is not reaped is alive, since children are adopted at
  once (`ParentsAlive`), so a walk undisturbed by reaping never holds a freed task (`OnTheWay`). `Server`: no stop is in the
  words the loop has passed (`NoStopBefore`), a 418 in the buffer was sent by the client or left by
  an earlier one behind its newline (`StopsKnown`), and what was read was sent (`ReadIsSent`).

- *Quicksort.* `SortInv` says that the array is a permutation of what it was, sorted as far as the
  code's own ranges go. It needs that the ranges still to be sorted have no cell in common
  (`CallsApart`, `CurrentApart`), and that cells of different ranges are in order already
  (`RangesInOrder`); `LoopInv` is the loop of `partition`. The cell behind the array can bring in a
  number with a fraction, which `swap` cuts off. That keeps it on its side of every whole number, and
  there is no second one with a fraction (`OneFraction`).
- *RefPageList.* Two `list_add`s that meet leave pointers behind that no longer match, so that a
  walk ends cannot be read from the list. `Chained` says that there is a set of nodes `L` and a rank
  for each of them, such that from the head and from every node of `L` the next pointer stays in `L`
  or goes to the head and lowers the rank. A node that is published gets a rank one above that of
  the node it was linked to, which stays in `L` even if another node was published in between and is
  lost; a close takes the first node out of `L`. As long as no two adders have met, `L` also has
  every node, and both pointers of each agree (`NoneLost`). For the refinement (`ListIsPageSet`) the
  question is what each store does to the nodes that can be reached: a walk is the same as long as
  no pointer on it has changed (`WalkSame`), so the stores to the new node and to `prev` are
  stutters and only `Publish` adds (`AddSet`). A walk goes down (`WalkGoesDown`), so the node a
  close unlinks is the first and the walk after it is what was left of the one before
  (`WalkShorter`); a close alone with the list keeps in its nodes and pages exactly what is still to
  be given back.
- *FamilyReader.* `FamilyShown` also says where a walk ends. With a depth `d` that every
  parent lowers (`Deepens`; adoption by init keeps it, since init has depth 0, and number 0 has none) an
  undisturbed walk has at least as many rounds left as its task is deep (`RoundsLeft`), so the counter
  does not end it early. It ends at a root (`RoundsEnd`), and at which one `KernelBelow` tells: above a
  process of init's family there are only such processes and init; above a thread of the kernel there
  are threads of the kernel up to number 0, until one of them has exited (`KernelExit`), which never
  becomes untrue again (`KernelExitStays`).
- *ForkTree.* `ChildEnded`: without a failed fork a process is past its `wait` only with a child
  that has ended. From the root one goes down from ended child to ended child; the longest such path cannot
  end before the last generation. For the lines (`LinesInv`), the buffer of a process holds those of all
  processes above it, which fork has copied, and a line has been written as often as processes
  below it have ended; since whoever is born has a parent that was born (`BornDown`), and without a failed
  fork both children are there once the parent waits (`BothBorn`), the end has the
  lines of the whole tree (`LinesAreRight`).
- *CountedFile.* A line that fits the library's buffer is handed over in one piece, so the file is
  a row of whole lines (`WholeLines`). `ReadInv` follows the reader: between two lines it stands
  where the next begins and has printed `LinesIn` of what is before it (`BetweenLines`), in a line it
  knows its length (`InLine`); the buffer is one for twice the last line (`LastMade`), which the
  next one fits unless it is longer, as `BufferFits` says.
- *DenseMM.* The columns (or rows) of the threads follow each other (`PartsFollow`), so each element
  has one owner (`OneOwner`), and different elements have different addresses although these are
  computed modulo the number of unsigned values (`OneCell`), since the test of the argument keeps
  the number of rows at its root or below. `Summing` gives each element the terms its owner has passed;
  what a thread has loaded stays true until it stores, since nobody else writes there. That gives what
  is in C after any number of passes (`SumRight`); one pass over cleared memory is the case in which this
  is the product (`OnePass`) and in which the program's own comparison holds (`AssertHolds`).
  If the matrices are too small for the product the owner of an element outside stops the model, and then
  the number of bytes has overflowed (`OopsMeansOverflow`). `Times` bounds the sum of the times by the
  extremes.

Induction. The theorem of the library that states induction over the naturals takes an operator as
its parameter, which the provers here cannot fill in. `SetInd` states it for a set of naturals and is proved
from the well-foundedness of `<`; `LeastNat` and `HighestRank` find extremes the same way. What a
recursive function (`LinesIn`, `Sums`, `PowerOf2`) computes is reached through a sequence that satisfies its
recursion (`LinesExist`), which exists by that induction.

Only model-checked: liveness (`HandlersReturn`, `StopHeard`, `HandshakeEnds`, `CountingEnds`,
`UnloadEnds`, `ReceiverEnds`, `HelloWritten`, `LinesMultiply`, `EachServed`), which is outside the
prover's reach. What `LinesMultiply` says of the end is proved (`LinesAreRight`); that the end is
reached is not. `ListWhole` and every other invariant and action property of a passing run is the subject
of a theorem.

## 6. Findings

Runs that are expected to be violated state what the code's own words promise:

- `paging_shared_list`: the comments say that a page is stored in the list of its
  `pa_state_struct`; the list is global, so the close of one mapping frees the pages of
  all, while they are mapped. The run ends where the page is freed.
- `paging_unload`: `dev_ops` has no owner, so the module can be removed under a mapping and
  its message then reports more allocations than frees.
- `timer_unload`: a stop between the thread's test and `set_current_state` is lost, and
  rmmod waits for ever.
- `core_atomic`: the atomic counter is race free and the total is wrong all the same: the
  loop index is shared, and `mod_init` clears the counter after it started the
  threads.

Other behaviour worth knowing, against which the code makes no claim: a follower killed
between unlink and acknowledgment leaves its leader spinning; a second follower on one
object unlinks the name a later leader has made meanwhile; an error pointer in
`arr_threads` crashes the next expiration; `mod_exit` of studio 8 can return with threads
running; the node allocation in `do_fault` is not tested; `paging_mmap` returns its errors
as positive numbers (lines 145, 164 and 168), which reach the user programs as
addresses, since they test for `MAP_FAILED` only; rmmod of studio 12 before its thread has run,
or after a failed allocation, uses and frees the null pointer and dies; a sender asked for
exactly the limit can lose its last signal, and the receiver spins for ever; the sorts
take the cell behind the array into the array if it holds a small number, give wrong
orders if it holds a negative one, and in lab 2 are killed if the array ends with its
last page.

On the list of lab 2: nothing locks it. Two `list_add`s at once lose a node, which leaks its page and
leaves the counters of the last message unequal (`NothingLeftBehind` makes the exception), and does
nothing worse; a close that meets a fault or another close uses freed memory and frees pages twice
(`ListWhole` makes the exception). The code has no word on either; its last message, "Verify memory
cleanup", is what would show a leak.

From the programs of the other studios: `vfs_thread.c` and `family_reader.c` never give back the reference of
`get_pid_task`. `family_reader` prints the family of the number another writer has stored if
the two overlap, and walks over freed tasks if one is reaped; for a thread of the kernel its last
line, "(init/root)", names number 0. The root of a fork tree may
end before half of the tree, and with its output in a file each line appears once for the
process and once for each descendant. `readfile.c` believes its buffer to be as large as the
longest line so far while `getline` has replaced it by one of twice the last line, and prints
what is in it once more at the end of the file. The server stops for a 418 that an earlier
client has left in the buffer behind its newline, it takes words of 32 bits through `ntohs`, and a
client that says nothing keeps all others waiting. The test of the matrix programs accepts sizes whose bytes
do not fit a `size_t` of 32 bits (above 23170 rows; the test allows 65536).
`timed_parallel_dense_mm.c` and the lab 2 `dense_mm.c`
both begin with "computes A*B = C" (line 9 of each). The first adds the product up over its
iterations, so with more than one C is a multiple of it and the program's own comparison (line 123, with
`VERIFY_PARALLEL`) fails; the second adds it to whatever the device's pages hold, since `alloc_page`
does not clear them. `ProductRight` is limited to one pass over cleared memory for that reason, and
`SumRight` says what the other cases leave in C; no run shows the disagreement. The timed copy
also divides by the number of iterations, also by 0.

## 7. What is not modelled

Without a model: `arr_search.c` (compares pages of read-only data one after the other), `sing.c`,
`getres.c`, `print500000.c`, `printmypid.c` and the rest of the small programs, the four programs of
studio 16 that only copy lines to a file, `simple_fork.c` (a tree of two processes without a wait).
They keep no state across a call. Left out of the modelled components: faults of two threads of one
process (no program has them), execution in memory of a removed module, a machine out of shared
memory, timer intervals, core numbers, printed messages, what a write through the null page
overwrites, signals that other programs of the user queue, numbers of structs near 2^32, a failed
`malloc` or `mmap` in the matrix programs, names and texts. Of the list's damage, only what goes
wrong first is modelled (`closeMet`, `Begins`). Generated files have no state.

## 8. Plan

Done: thirteen of the fifteen components have models and runs (two of them in part, section 7);
the other two keep no state. Every safety property of a run that passes has a proof, and so have all
three refinements (`PageLending`, and `PageSet` twice). Left:

1. An abstract counted channel that `Signals` with one sender below the limit implements.
2. `Quicksort`: that nothing is left to be done when the array is sorted, as a measure on `calls`.
3. How many pages the list can lose: `CountersBalance` and `NothingLeftBehind` say that the counters
   show them, `ListIsPageSet` and `PagesAreASet` that they may come back, and neither bounds them.
4. A run that shows the added-up product of the timed program against its first lines.
