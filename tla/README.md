# Formal models of the IRAF system

IRAF v2.16.1 (`src/iraf.v2161`) is a portable data reduction system. Its programs
stand on a *virtual operating system* (`sys/`), which stands on a small host
kernel (`unix/os/`); its users work in a command language, the CL (`pkg/cl`),
which runs their tasks in subprocesses. This directory holds TLA+ models of the
parts where order matters and a mistake loses data, hangs a session or runs the
wrong program: the locking, the name database and the buffering of files (FIO),
and the processes: the kernel's process table and IPC channels, the CL's cache of
subprocesses and its background jobs. TLC checks small instances, TLAPS proves
theorems for all of them.

Paths below are relative to `src/iraf.v2161/`.

## 1. Inventory

| Component | State it keeps | Operations | How it interacts | What is hard | What makes it correct |
|---|---|---|---|---|---|
| File locking, `sys/fio/osfnlock.x` | three empty files beside each mapping file; creation times | `osfn_lock`, `osfn_timeleft`, `osfn_unlock`, `osfn_rmlock`, `osfn_initlock` | called by `vfnmap` only; works through `zfdele`, `zfmkcp`, `zfinfo` | every kernel call of every process interleaves; stale locks are broken; deaths anywhere; one-second clock | exclusion until broken; serial, spaced breaking; no permanent lockout |
| File name database, `sys/fio/vfnmap.x`, with `filopn`, `falloc`, `fmkcopy`, `delete`, `frename`, `fclobber`, `access` | the mapping file `zzmap.` of a directory; the MFD of an open VFN; the files themselves | `vfnopen`, `vfnadd`, `vfndel`, `vfnmapu`, `vfnclose` and the procedures that use them | each transaction takes the lock; the file operation is sometimes inside it and sometimes after it | two processes in one directory; mapping files made and deleted; updates given up; one step of several failing | each file is found under its name; a transaction changes its own pair |
| Buffered binary i/o, `ffault.x` and about 16 others in `sys/fio` | per file: `bufptr`, `buftop`, `boffset`, `iop`, `itop`, `otop`, `FILSIZE` | `read`, `write`, `getc`, `putc`, `seek`, `flush`, `close`, `fset` | calls the device driver; `fio_cleanup` at task end | long sequences of legal calls; end of file; partial blocks; errors between steps | it is a byte file; the kernel gets aligned whole blocks |
| Pushback, `ungetc.x`, `unread.x`, `ungetline.x`, `fcanpb.x` | a stack of i/o pointers and chars in one buffer | push, pop in `filbuf`, cancel in `seek`, `flush`, `close` | replaces the i/o pointers of FIO | overflow, nesting | what is pushed is read first, then the file goes on |
| Name translation, `vfntrans.x` | none | string functions | used by `vfnmap` | - | - |
| URL cache, `fcache.x` | cache directory | `fcadd`, `fclookup`, ... | files of other processes | races without locks | one file per URL |
| Datafile manager, `sys/fmio` | page table, file table, header on disk, LRU of open datafiles | lfile open, read, write, extend, `fm_sync` | on FIO channels | crash between data and header; cache eviction | pages belong to one lfile; a synchronised header describes the file |
| Process table, `unix/os/prwait.c`, with `zfiopr.c`, `zopdpr.c`, `zoscmd.c` | `prtable`: pid, whether active, exit status | `zopcpr`, `zclcpr`, `zopdpr`, `zcldpr`, `zoscmd` | `fork`, `wait` and `kill` of the host; called by the process control of the VOS | `wait` returns any child; interrupts jump out of it; killed children end later | a close returns the status of the process closed |
| IPC channels, `unix/os/zfiopr.c` | a pipe each way, `pr_ionbytes` | `zardpr`, `zawrpr` | between the CL and each subprocess | partial reads and writes, interrupts between them, death of the writer | records arrive whole and in order; the reader stays in step |
| Process cache, `pkg/cl/prcache.c`, with the task stack (`exec.c`, `task.c`, `errs.c`, `main.c`) | a list of slots in use order: pid, name, flags, process number, time | `pr_connect`, `pr_disconnect`, `pr_dumpcache`, `pr_prunecache`, `pr_setcache`, lock | opens and closes children by the VOS; error recovery unwinds the stack over it | interrupts at every system call, children that die, executables relinked, nested tasks | a task has a process of its own program for itself; processes are given back |
| Background jobs, `pkg/cl/bkg.c`, `modes.c` | `jobtable`, `lastjobno`; per slot a bkgfile, a query and a response file | `bkg_spawn`, `bkg_wait`, `bkg_kill`, `bkg_update`, `service_bkgquery`; of the job `bkg_query` | through files only | names that are used again, timeouts, kills and crashes between the steps | an answer goes to the question that was shown |
| Process control of the VOS, `sys/etc/pr*.x`, `psio*.x` | process table, redirected streams | `propen`, `prclose`, `prpsio` | between the process cache and the channels | multiplexing of a child's streams | nobody waits for a child that waits |
| CL parameter files, `pkg/cl/pfiles.c` | loaded pfiles, copies for running tasks | `pfileload`, `pfilewrite`, `pfcopyback`, `pfileupdate` | files shared by all CLs of a user | delete and rewrite without a lock | - |
| Errors and exit, `sys/etc/xer*.x`, `onexit.x`, `main.x` | handler stack, exit lists | `iferr`, `erract`, `onexit` | jumps over all others | errors in handlers | cleanup runs once |
| Memory, symbol tables | heap, hash table with marks | `malloc`, `stenter`, `stfree` | everywhere | alignment, freeing to a mark | - |
| Kernel, `unix/os`; network kernel, `sys/ki` | host descriptors | `z*` procedures | below everything | - | contracts used by the above |
| `vmcached`, magtape, image i/o, `clio`, the rest of the CL interpreters, graphics, pixel lists, `fmtio`, `mwcs`, `libc`, `imfort`, boot tools, applications, third party code | - | - | - | - | see `PROJECT.json` |

`PROJECT.json` lists every component with its status, and every hazard with the
line where it bites and the properties that would show it going wrong.

## 2. Modules

    AdvisoryLock        abstract: one token, taken, given back, broken
      ^ implemented by
    FileLock            osfnlock.x call by call, used as vfnmap.x uses it
    FileLockProofs      TLAPS: seven inductive arguments about FileLock
    VfnMap              transactions of the name database and their callers,
                        over the lock; its use of the lock is also checked
                        against AdvisoryLock
    VfnMapProofs        TLAPS: types, the use of the lock, the pairs, the files
    ByteFile            abstract: content, what of it is permanent, a position
      ^ implemented by
    FioBuffer           the one-buffer file fault machinery
    FioBufferProofs     TLAPS: types, the kernel's contract, errors, end of file,
                        refinement
    ChildProcs          abstract: processes, how each ended
      ^ implemented by
    ProcTable           prwait.c and the primitives that start and wait
    ProcTableProofs     TLAPS: types, the table, the refinement
    RecordQueue         abstract: a queue of records
      ^ implemented by
    IpcChannel          zardpr and zawrpr over a pipe
    IpcChannelProofs    TLAPS: types, the reader in step, the refinement
    ProcPool            abstract: connected processes, running and idle
      ^ implemented by
    PrCache             prcache.c with the task stack and its recovery
    PrCacheProofs       TLAPS: types, new images, slots in use, own processes,
                        packages, refinement
    BkgJobs             bkg.c, and both ends of a query
    BkgJobsProofs       TLAPS: types, the job table, the answers
    LeastElement        least and greatest members, for the searches
    MCFileLock, MCVfnMap, MCFioBuffer, MCPrCache    symmetry and constraints

### FileLock

One variable per file: `main` (the mapping file), `lockfile`, `timelock1` and
`timelock2` (its creation time in whole seconds, or `NoFile`). Each process has a
place `pc[p]`, named after the kernel call it makes next, and the locals of
`osfn_lock` and `vfnclose` (`tries`, `delay`, `fi`, `locktime`). Each action is
one kernel call with the code up to the next one. The correspondence:

| action | code |
|---|---|
| `Access`, `Take`, `TryAgain`, `TimeOut` | the loop of `osfn_lock` on the lockfile (83-121) |
| `MayBreak`, `MayNotBreak`, `Recover` | the semaphore `timelock1` (123-141) |
| `StatLock`, `CheckAge`, `Break1..3`, `PutBack` | the break section (129-138) |
| `Set1..3` | the new stamp (143-150) |
| `Check1..3`, `Unlock1..3`, `SeeLockfile`, `SeeStamp` | `osfn_timeleft`, `osfn_unlock` |
| `Remove1..3`, `Init1..3` | `osfn_rmlock`, `osfn_initlock` |
| `FindMain` ... `VfnClose` | the calls that `vfnmap.x` makes around them, the rollback included |
| `Tick`, `Die` | the clock; the death of a process at any call |

Nothing sleeps between the tries: `osfn_lock` counts them as seconds, and how long
they take depends on the host, so that the clock is not tied to the steps.
`CreateMain` may fail, and so may the write and the close of the mapping file in
`vfnclose` (`Update`, `CloseNoUpdate`): the errors leave the procedure with the lock set, as
in the code, and others have to wait until it has expired. `lastBreak`, `installed` and
`recovered` are history variables: they record that exclusion has ended by design,
and no guard reads them.

### VfnMap

The names are those of one directory whose squeezed roots collide, so that they
compete for one series of OSFNs (`0` the plain root, `k` the k-th name `vfn_enter`
makes). `map` is the mapping file, `disk` the file under each OSFN, `st[p]` the
place and the descriptor of each process (its MFD `mem`, whether it was read or
made `fresh`, whether its channel is `linked` to the present file). `open`,
`alloc`, `delete` and `rename` go through `fclobber`, `vfnopen`, `vfnadd` or
`vfndel`, the file operation and `vfnclose` in the order the code has, which
differs: `filopn` closes the VFN before it makes the file, `delete` after. The
lock is a token (`free`, `owner`); that it may stand for `FileLock` is the
property `LockProtocol`. Reading or writing the mapping file is one step. It may fail
(`MakeFails`, `WriteFails`, `CloseFails`): the procedure ends with an error and the
lock set, except that `frename` restores the old name when the error came from the
`fclobber` it has called. Whether a transaction that succeeded has changed the map is
`added`.

`harm` records that a flaw of the code has occurred (a leaked lock, a rename
whose undelete misses, a pair committed for a file that is not made, a replaced
mapping file, a death); `FilesFound` speaks of states before that. An update whose
write or close fails is a flaw exactly where it parts the map from the files: a
write after the file was moved, deleted or made under a new name, a close after a
pair was written for which the caller then does not make or move the file, and any
failure of a `frename` that is to restore a name. The other failures are not, and
`FilesFound` goes on after them.

### FioBuffer

Pointers are counted from `bufptr`: `bufptr` is 0 and `buftop` is `bufsize`. `f`
is the descriptor, `disk` the device, `call` the transfer that is going on, `out`
what the last step delivered. The operators up to `Fault` are the macros of
`fio.h` and the procedures that a fault calls, as functions of the descriptor;
the actions are the calls of a program. A `read` or `write` takes one step for
each pass of its loop. Raising an error ends the program's use of the file
(`Cleanup` follows). The mapping to `ByteFile` puts what is dirty in the buffer in
front of the device: `Content`.

### ProcTable

`prtable` has the entries with their `pid`, `active` and `status`; `child` is what
the host knows of each process and `held` what it is to the program. `call` is
the primitive that is under way, since `pr_wait` stops in `wait()`. An exit is
"ok" or "fail"; a death by a signal is "ok" to `WEXITSTATUS`, as in the code.

| action | code |
|---|---|
| `ZOPCPR`, `ZOPDPR` | `fork` and `pr_enter` of `zopcpr`, `zopdpr` |
| `ZOSCMD`, `ZOSCMD_Enter` | `zoscmd`; the interrupt may come between the two |
| `Close` | `zclcpr`, `zcldpr`: `pr_wait` up to its first `wait()` |
| `PrWaitNext` | one return of `wait()` in its loop |
| `Kill` | `zcldpr` with the kill flag: `kill` and `pr_release` |
| `Interrupt` | the handler, which jumps out of the primitive |

The table is as large as the limits of the VOS on connected and detached
processes together (`TableAssumption`; `MAXPROCS` is 20, and the limits are 10 each).
A command needs an entry besides: when the others are all taken, or commands that
were interrupted have kept theirs, `pr_enter` finds none and `kernel_panic` stops the
program (`call.op = "panic"`). The run `proc_table` has as many processes as entries and
does not reach that; the proofs cover it.

### IpcChannel

The unit is the SPP char of two bytes: a record is a magic number, a count and its
chars. `pipe` is what is in the pipe, `writer` and `reader` say where each end is
in the procedure. The writer takes three kinds of step (`WriteMagic`, `WriteCount`,
`WriteData`; interrupts are blocked from the first to the last), the reader six
(`ReadMagic`, `ReadCount`, `Mask`, `ReadData`, `Discard`, `ReadDone`, with
`ReadEnd` and `ReadCountFails` for the end of file). Data may equal `IPC_MAGIC`.
`hist.torn` records that an interrupt has come after the reader took the magic
number: from then on the code promises nothing.

### PrCache

`slot` is `pr_cache`, `rank` the order of the linked list, `stack` the tasks,
`child` the children as the host and the VOS know them. An operation of the CL is
cut where it calls the system: `job.at` is the place (`find`, `get`, `spawn`,
`stat`, `start` of `pr_pconnect`; `close` of `pr_pdisconnect`; `dump`, the loops of
the flushes) and `job.then` what follows a disconnect.

| action | code |
|---|---|
| `Run`, `Find*`, `GetSlot`, `GetFails`, `Spawn`, `SpawnFails`, `Stat`, `Start` | `pr_connect`, `pr_findproc`, `pr_getspace`, `pr_pconnect`; `execnewtask` |
| `Close`, `CloseFails`, `StartFails`, `Raise` | `pr_pdisconnect`; the X_IPC handlers `pr_onipc` and `onipc` |
| `FlushAll`, `FlushOne`, `DumpNext`, `DumpEnd` | `flprcache`, `pr_dumpcache`, `pr_prunecache` |
| `CacheTask`, `StartLocked`, `SetCache`, `Resize` | `prcache` (`pr_cachetask`, `pr_lock`), `pr_setcache` |
| `RunScript`, `DefinePackage`, `RunCl`, `Bye` | `callnewtask`, `clpackage`, `oneof`, `iofinish`, `restor` |
| `TaskFails`, `ErrorStatement` | `cl_error`; the statement `error`, which pops its task first |
| `Unwind`, `Resume` | `taskunwind` with `killtask` and `restor` |
| `Interrupt`, `Environment` | `onint`; deaths of children, relinked executables |

Error recovery takes several steps. `cl_error` calls `iofinish` for the tasks above the
last interactive one (`Recover`), which gives their processes back. Then `taskunwind`
kills them one after the other (`Unwind`): `killtask` sends an interrupt and waits for
the child, so that an interrupt of the user may come in between. If a task in a
process is current then, `onint` may jump back to it, although it was finished and its
process is marked idle (`Revived`; see `OneTask` in section 3). `Resume` goes on with the
interactive task and prunes the cache if that has to be done.

`hist` records what an interrupt has done to a process (`leaked`: it came after
P_ACTIVE was set and before the task was on the stack; `hurt`: it came while the slot
was being filled or emptied, or made a finished task current again), a relink
between spawn and `c_finfo` (`raced`), and process numbers begun anew (`reset`).

### BkgJobs

`jobtable` has the flags of each slot, `job[p]` the place of each job in
`bkg_query`, `bqfile` and `qrfile` the files, by slot, with the number of the
question they are about. `cl` is the operation of the CL that waits (`bkg_wait`,
or the prompt of `service_bkgquery`). Every operation of the CL begins with
`bkg_update`, which is part of its action (`Updated`, `Reaped`). `Ask` (the old query is
deleted), `Create` (the file is there, and empty), `Clear` (an old response is deleted),
`Write` (the prompt is in it), `Poll`, `Read` and `Timeout` are the file accesses of
`bkg_query` in order; `Respond` and `DeleteQuery` those of the CL. `written` has the
queries whose prompt is in their file, `cl.shown` says whether the prompt was there when
the CL read it, and the history `hist.unseen` has the queries that were answered without
it. `hist.left` has the slots whose answered query was left there by an interrupt, until
that query is deleted: by the next question of the job or by the next job in the slot.

## 3. Runs

| run | instance | checks |
|---|---|---|
| `file_lock` | 2 processes, period 1 s, clock to 2, 1 death | `TypeOK`; `UnbrokenExclusion`, `OwnStamp`, `OneBreaker`, `BreakSpacing`; `Refinement` to `AdvisoryLock` |
| `file_lock_live` | the same with fairness, clock to 1, map permanent | `LockoutEnds`, `PermitReturns` |
| `vfn_map` | 2 processes, 2 names, open and delete, failures, 1 death | `LockProtocol`, `OnePairChanges` |
| `vfn_map_files` | 2 processes, 3 names, all four procedures, failures | `TypeOK`, `FilesFound` |
| `fio_buffer` | 4 chars and a seek beyond them, blocks of 2, buffers of 1 and 2 blocks, transfers of 1 and 2, errors | `TypeOK`, `Refinement` to `ByteFile`, `KernelContract`, `OnlyStrayFails`, `EndOfFile` |
| `pr_cache` | 3 pids, 2 executables, 2 slots, stack of 3, 2 events (deaths, relinks, interrupts) | `TypeOK`, `OwnProcess`, `ActiveIsOwned`, `UsesNewImage`; `Refinement` to `ProcPool` |
| `pr_cache_packages` | the same with packages, 3 process numbers, no events | `PruneComplete` |
| `proc_table` | 3 pids, 3 entries, 2 connected, 1 detached, 1 interrupt | `TypeOK`, `EntriesOwned`, `WaitReturns`; `Refinement` to `ChildProcs` |
| `ipc_channel` | 3 records of 1 or 2 chars, a pipe of 3, 4 reads of 1 or 2, 2 interrupts | `TypeOK`, `InStep`, `ReadEnds`; `Records` (refinement of `RecordQueue`) |
| `bkg_jobs` | 2 pids, 2 slots, 2 questions, 2 crashes or interrupts | `TypeOK`, `JobsListed`, `AnswersQuery`, `WaitEnds` |
| `no_lost_update`, `uncorrupted` | a small instance that shows it | one property each, quoted from the repository, which the code violates |

**Bounds.** Two processes suffice for every race of the lock that the code
distinguishes between "me" and "somebody else"; the proofs remove the bound.
With a period of one second and a clock to two a lock can expire, be broken, and
the new one expire again. Two OSFN rounds of two reach a second round, and with
three names and `MAX_LONGFNAMES` of two the table overflows. Files of four chars
have two device blocks, and the buffer of one block can be on either, before, at
or beyond the end; the unaligned buffer size 3 is promoted to 4. A file opened for
append is one opened READ_WRITE and positioned at its end, so that `fio_buffer`
opens only such (a seek to BOF gives the other). Two chars
suffice because FIO never looks at them; `Junk` stands for what a fresh buffer
or a hole in a file holds. `MaxTime`, `MaxDead`, `MaxXfer` and `MaxSize` are the
only bounds on counters. Chars, processes and names are interchangeable, so
symmetry is sound for the safety runs; the liveness runs use none.

In `pr_cache` a stack of three over two slots needs a process more than there are
slots, so that the cache overflows and recovers; three pids let a new process be
connected while two are known; two events are, for instance, a death during the
recovery from an interrupt. Packages need the stack to be three deep, and process
numbers to 3. The pipe of `ipc_channel` is shorter than a block of two chars with
its header, so that a record goes through it in pieces. In `proc_table` the limits
sum to `MAXPROCS`, as in the code. In `bkg_jobs`
two slots and two pids suffice for a slot and a pid to be used again, and two
questions for an answer to meet the wrong one. `MaxEvents`, `MaxPno`, `MaxDepth`,
`MaxRecords`, `MaxReads`, `MaxInterrupts` and `MaxQueries` are the bounds there.

Deadlock is checked in `pr_cache`, `pr_cache_packages` and `bkg_jobs`, where the CL
can always do something. It is not in the others: in the instances of FIO the
processes may all be dead, or the clock, the names or the file at the bound; in
`proc_table` killed processes that nobody waited for may have used up the process ids;
in `ipc_channel` the records or the reads are at the bound.

**Fairness.** Four runs assume some, always weak. `file_lock_live`: the clock and
the steps of each live process, which the host's scheduler gives; no process
has to start a transaction, and strong fairness is not assumed: a waiter may
starve while others get the lock, so `LockoutEnds` says that somebody gets it: not
that the old lock is broken, but that a process holds the lock after that. It is
claimed where the bounded clock runs long enough for the present lock to expire
(`CanExpire`): the clock ends at 1, locks stamped at 0 expire, and those stamped at 1
would only after the end of the clock.
`proc_table`: `wait()` returns while there is a child it can return; children
need not end. `ipc_channel`: a write that has begun goes on when there is room,
and a read when there is data (both ends are processes that the host runs); no
record has to be sent. `bkg_jobs`: each job runs, and the loop of `bkg_wait` does;
the user need not answer, so jobs end by their timeout.

**Violations.** Two runs show a disagreement of code and text that is listed under
"findings" with the line and the quotation:

- `no_lost_update`: a process that found no mapping file never reads the one that
  has appeared when it gets the lock.
- `uncorrupted`: an interrupt after the magic number of a record leaves the rest of
  the header to the next read.

The following are stated in the modules and *refuted* by the models too (TLC shows
each on the instance of the module's first run), but are no runs of the project:

- `FileLock!LockGuaranteed`: between the deletion of the lockfile and the new
  stamp a waiter sees no stamp or the old one, and breaks a lock a moment old.
- `FileLock!RollbackEnds`: the loop of `vfnclose` goes on with a descriptor that it
  has freed, because `mfd` is not set again after the transaction was repeated.
- `VfnMap!NoUpdateKeepsMap`: a transaction that is given up deletes the mapping
  file when its descriptor has become empty.
- `VfnMap!RenameUndeletes`: the undelete of `frename` meets the file itself and
  makes a new OSFN, under which there is nothing.
- `FioBuffer!InBounds`: `ffilsz` counts data that is still in the buffer, so that
  `awriteb` lets a block pass that begins beyond the end of the file. On this
  host that makes a hole; elsewhere the kernel may refuse.
- `FioBuffer!CancelRefills`: after `F_CANCEL` in the first block the i/o pointer is
  in an invalid buffer, and the next write is not faulted.
- `PrCache!RightProcess`: an interrupt between the spawn and the end of
  `pr_pconnect` leaves a slot that has the name of another executable.
- `PrCache!OneTask` (`exec.c:1277`): an interrupt while the CL waits for a task that it
  kills makes the task current again, and the next task is started in the same process,
  which is marked idle.
- `ProcTable!NoneLost` (`zoscmd.c:79`): with `USE_SIGACTION` interrupts are not ignored
  during an OS command, and its entry stays in the process table.
- `BkgJobs!PromptShown` (`modes.c:779`): a user who serves a query before the prompt is
  in its file sees nothing, and the job takes what he types for the answer.
- `BkgJobs!QueryPosted`: `service_bkgquery` deletes whatever query is there when the
  response has been renamed, which may be the job's next.

## 4. Proofs

Every theorem is about all values of the constants that satisfy the module's
assumption: any number of processes, slots, entries, questions, any period.

**The lock** (`LockAssumption`).

- `AdvisoryExclusive`: exclusion of the abstract lock, inductive as stated. A lemma of
  `FileLockProofs` and, for its own instance, of `VfnMapProofs`.
- `TypeCorrect`: one lemma per part of the protocol (`ReadMapFileType`,
  `LockType`, `VfnCloseType`, `UnlockType`, `RemoveType`), one step per action.
- `Implementation`: each action is a step of `AdvisoryLock` or changes nothing it
  sees. The simulation needs `Fresh` besides the types: before `osfn_initlock`
  has run for a file that had no lock files, and before anyone has broken a lock,
  there is no lockfile and no holder, so that its first run is an `Install`.
- `Exclusive`: `UnbrokenExclusion`, from the two theorems before.
- `StampIntact`: `OwnStamp` is not inductive: a process about to write `timelock2`
  for another reason must find no holder. `StampInv` says who may be at such a
  place, using `OnlyHolder`.
- `BreakersExclusive`: `OneBreaker` with what `osfn_initlock` may find
  (`BreakerInv`): `timelock1` is a semaphore of its own, whatever happens to the
  lock.
- `BreaksAreSpaced`: `BreakSpacing` speaks of breaks that are decided by the age of the
  lock. It needs that a breaker renews `timelock2` before it gives `timelock1` back
  (`SpacingInv`, `Renewed`). A break because `timelock2` is missing has no such
  distance from the one before it.

**The name database** (`MapAssumption`), in `VfnMapProofs`.

- `TypeCorrect`: `TypeOK` is not inductive; `TypeInv` ties what a process is doing to
  the names it does it with (`Work`), and knows that a channel is linked only to a
  mapping file that exists. That no MFD outgrows `MAX_LONGFNAMES` needs finite
  domains, hence the lemmas on `Removed` and on an added pair.
- `Protocol`: `LockProtocol`, that every step of a transaction, of its failures and of
  the error exits is a step of `AdvisoryLock` or leaves it alone.
- `PairsAreOwn`: `OnePairChanges` follows from `PairInv`: what a process has read, and
  changed since, agrees with the mapping file on every VFN but its own, until it
  gives the lock back. That others do not write meanwhile is the exclusion of
  `AdvisoryLock` (`AdvisoryExclusive`), which `Protocol` carries over.
- `FilesAreFound`: `FilesFound` speaks only of names that nobody works on. `FileInv`,
  which holds until a flaw, a death or a broken lock, follows a file through the whole
  transaction. A file without a pair is one that some process is to give a pair
  (`Carries`): `rename` after it has removed the old name, `rename` and `falloc` when they
  have moved or made the file and not yet updated the mapping file. A pair without a
  file is one that some process is about to make or to remove (`Awaits`). `Knows` is
  what a process in a transaction knows of its pair and file, place by place, and
  `Placed` where each procedure can be. Steps that touch neither the mapping file nor
  a file need only keep these for the process that takes them (`OneKeeps`);
  the others are `FilesAfter`, with the exclusion of the lock (`OthersOut`) for what the
  other processes know. `MapAssumption` says that `NoName` is no OSFN because `Entry` is
  `NoName` where there is no pair.

**Buffered i/o** (`BufferAssumption`), in `FioBufferProofs`: any block size and
buffer sizes, any chars, transfers and seeks, and files of any length.

- `TypeCorrect`: the types are inductive only with what the pointers mean (`Good`).
  `Placed`: an allocated buffer is made of blocks and lies on one, and the dirty part
  of it is all that is good, or all of it. `Clean`: a buffer that is not dirty holds
  what the device holds. `Covers`: a buffer that is not good to its end is the last
  one of the file, so that writing it leaves nothing behind it to be lost. `FILSIZE`
  is never less than the file. A lemma for each macro and procedure that a fault
  calls says what it keeps of `Good` and what the program then sees (`View`).
- `KernelContractHolds`: `KernelContract`, from `Placed` and `Covers`.
- `OnlyStrayFailsHolds`, `Implementation`, `EndOfFileFound`: `OnlyStrayFails`, the
  refinement of `ByteFile` step by step (`AsOpen` ... `AsWrite`, then `OpenStep` ...
  `CleanupStep`), and `EndOfFile`. All three assume `CancelModes \subseteq {"ro"}`, that only
  files opened READ_ONLY are cancelled, as in the run. FIO does not enforce it, but
  the sources cancel terminals, channels to other processes, sockets and spool
  files, none of which is modelled, and of blocked files a tape that is only read
  (`noao/mtlocal/camera/cam_rpixels.x:88`). Without it an invalid buffer may be
  written into (`CancelRefills`, refuted above), and what is written there is lost;
  `RInv` adds that an invalid buffer is one of a READ_ONLY file. `TypeCorrect` and
  `KernelContractHolds` hold however it is used.
- `EndOfFileFound` needs the other bound on `FILSIZE` (`Counted`): FIO never takes the
  file for longer than it is with the dirty part of the buffer. It may, though, be
  longer than the file on the device, which is why `InBounds` fails.

**The process table** (`TableAssumption`), in `ProcTableProofs`.

- `TypeCorrect`, one step per action.
- `EntriesAreOwned`: `EntriesOwned` is inductive only together with `CallInv`, which
  ties the call under way to the table: a process that was forked has no entry
  yet, one that is waited for has one. Three lemmas say what writing (`Written`),
  freeing (`Freed`) and taking (`Entered`) an entry do to all of `Entries`.
- `Implementation`: `Refinement`, step by step (`OpenStep`, `CloseStep`,
  `PrWaitNextStep`, `InterruptStep`, ...). It needs the invariant in both states: that
  a process has *one* entry makes the status that `pr_findpid` finds the one that
  `wait()` has put there.

**The IPC channels** (`ChannelAssumption`), in `IpcChannelProofs`: any `IPC_MAGIC`, record
lengths and read sizes, any data, and pipes that deliver in any pieces.

- `TypeCorrect`, with the bounds on what the reader has still to read and to discard.
- `StaysInStep`: `InStep` speaks only of a reader between two records. `StepInv` holds
  everywhere unless a read was torn: what is in the pipe, what the writer has still
  to write and what the reader has taken of the current record (`Agree`) add up to
  the stream of the records that were sent and not yet received. It covers a writer
  that died, by what it would have written, so that the end of the file always
  falls within the last record (`StreamLong`, `StreamNotAhead`). That the data may
  equal `IPC_MAGIC` does no harm: the reader looks for it only where a record starts.
- `Implementation`: `Records`, step by step: a read that returns data returns what
  the record at the head of the queue has room for (`ReadReturns`), one that meets the
  end of the file meets it in a record the writer did not finish (`RecordCut`,
  `CountCut`), or when all are read (`AllRead`).
- The stream is the concatenation of a queue of records (`FlattenSeq`). That it grows
  and shrinks with the queue is proved by induction on the length, stated over a set
  of numbers (`LeastElement!NatSetInduction`); every lemma from `FlattenStep` to `StreamLong`
  serves this.

**The process cache** (`CacheAssumption`), in `PrCacheProofs`.

- `TypeCorrect`: the types are inductive only with `SlotInv` (no two slots have one
  process, an empty slot is not in use, a slot has the name of its child's
  program), `TaskInv` (the tasks with a process are the `ext` ones, the first is a
  `cl`, so that `cl_error` finds an interactive task) and `JobInv` (what an operation
  that is under way still relies on when it goes on: its slot is linked and has
  its process, what is to be flushed is connected, the new process is nobody's; during
  `taskunwind` the tasks that are to be killed are finished, `Ended`).
  `Tidied` says once what `pr_checkup`, `pr_disconnect`, `iofinish` and a close leave of
  the slots; each of these operations has a lemma that it tidies.
- `NewImagesAreUsed`: `UsesNewImage`, from the clause of `SlotInv` that a slot whose
  time is not older than the executable has a child that runs it as it is.
- `ActiveAreOwned`: `ActiveIsOwned`. The case that takes work is the end of tasks: those
  that are finished or popped are those whose processes are disconnected (`BackKeeps`).
- `TasksOwnProcesses`: `OwnProcess`, for the tasks that run, assuming `ResizeBusy = FALSE`.
  It is inductive with two facts on the operation under way (`OwnInv`): the process that
  is about to be started is in no task on the stack, and while `pr_setcache` works no
  slot is in use; and with `FinishedInv`: tasks that were finished are on the stack only
  while `taskunwind` kills them, above the last interactive task and with their
  processes idle - unless an interrupt made one current again, which hurts its process.
  Without the assumption the second fact fails, and with it `OwnProcess`; `pr_setcache`
  does not refuse to work while a task runs, so that this is up to the user.
- `PackagesArePruned`: `PruneComplete`, without that assumption. `NumbersInv` follows
  `pr_pno`: every process in the cache was there when a package was loaded, or has
  a greater number than the package, or was hurt before it had one; it
  holds while no forced flush has begun the numbers anew under a loaded package.
  `PruneInv` says of a prune that what is idle and was connected since is still to
  be looked at or is being closed. A slot is numbered only after `c_finfo`, and an
  interrupt in between hurts its process, which is why `PruneComplete` excepts it. A
  prune that is interrupted is given up, so the property speaks only of those that
  have looked at all their slots.
- `Implementation`: `Refinement` to `ProcPool`, under the same assumption. `TidiedIn`
  says of one process who is in the pool after a step that tidies; such a step is
  then a `Disconnect` (`TidiedPool`), a `GiveBack` (`GivenBack`) or a `Start` (`Reused`). For
  the last two `OnlyDeadGo` is needed as well: what `pr_checkup` removes has died.

**Background jobs** (`JobsAssumption`), in `BkgJobsProofs`.

- `TypeCorrect`; `NewSlotFree` shows that the circular search ends in a slot of the
  table without a job.
- `JobsAreListed`: `JobsListed` is inductive with the types; the work is in `Updated`,
  which removes all jobs that have ended at once.
- `AnswersAreOwn`: `AnswersQuery` says that an answer is for the query the user served. It
  says nothing of what he was shown: the query file can be seen before the prompt is
  in it (`PromptShown`, which the code violates). The action property follows from an
  invariant on the files, `Asked(p)`: what is in the query file of a job, what the CL
  has read of it and a response that may still be written are for the job's present
  question, or the slot is one with an answered query left by an interrupt. It needs
  `JobsListed`, because two jobs with one slot would share the files.

TLC checked each invariant first (those of `PackagesArePruned` also with an interrupt, a
death or a relink, which the run leaves out for its time). Only model-checked: the
liveness properties, because TLAPS 1.4.5 has no rules for `ENABLED`.

## 5. What is not modelled

- `FileLock`: hosts with file locks (`OS_FILELOCKING`), and failures of `zfmkcp` and
  `zfdele` for other reasons than that the file is there or not.
- `VfnMap`: the strings of names, degeneracy flag files, several directories at
  once, torn reads of the mapping file and its checksum, writes of it that are cut
  short (the code notices errors only), the counter `M_NFILES` (the model has the set of
  pairs, which it counts except after an error), subfiles.
- `FioBuffer`: text, string and spool files, streaming devices, `WRITE_ONLY` files
  (their blocks are zero-filled), `FIRSTBUFOFF`, an external buffer (`F_BUFPTR`),
  channels shared by `reopen`, asynchronous i/o mode flags, offsets below 1, and
  programs that go on after an error.
- `ProcTable`: a process id that the host uses again while it is in the table, and errors
  of `wait()`: a process that is waited for is a child that nobody has waited for, and
  the handlers of the CL jump out of the call instead of returning to it (EINTR).
- `IpcChannel`: the terminal debug mode, in which text goes through instead of
  records, and the trace files.
- `PrCache`: `chdir` and `set`, which are sent to all cached processes; listings; a
  list that an interrupt leaves half relinked; a process id that is used again
  while a slot or a task remembers it; `set prcache` while a task runs in a process
  (`ResizeBusy` is there for it, and FALSE in the runs: the code then flushes a
  process that is in use); the end of the CL at the fourth error within the recovery
  from errors (`errlev`); how many interrupts in a row are passed on to a task before
  the CL takes one for itself (`MAX_INTERRUPTS`, a choice in the model); what is still
  to be written to a child that has died when it is killed.
- `BkgJobs`: the content of the bkgfile, messages, ids of jobs that ended; the
  signal that kills a job takes effect at once, `bkg_kill` does not meet a process
  that cannot be signalled (it would close the job without J_KILLED), and `kill 0` is
  repeated kills; interrupts within `bkg_update`, `bkg_spawn` and `bkg_close`, whose
  waits are for jobs that have ended: the next update finds what they have left.
- `unix/boot/vmcached/vmcache.c` was read and left out: it is not built by default,
  and it does not work well enough to have properties (the first `vm_access` fails
  because `vm_cacheregion` returns NULL for a region that is not to be mapped, and
  the list is relinked with stale back pointers).

The other components are out of scope for the reasons in `PROJECT.json`, or in the
plan.

## 6. Plan

1. *Done*: `AdvisoryLock`, `FileLock`, `FileLockProofs`.
2. *Done*: `VfnMap`, `VfnMapProofs`.
3. *Done*: `ByteFile`, `FioBuffer`, `FioBufferProofs`.
4. *Done*: `ProcTable`, `ProcTableProofs`, `IpcChannel`, `IpcChannelProofs`, `PrCache`,
   `PrCacheProofs`, `BkgJobs`, `BkgJobsProofs`.
5. `ParamFiles`: the pfiles of tasks, which two CLs of a user (a job and its
   parent) rewrite without a lock.
6. `Pushback`: the stack of pointers against an abstract sequence; its bounds.
7. `Fmio`: the page table of lfiles, `fm_sync` and a crash, refining a map from
   lfiles to contents; `FmCache`: the LRU of open datafiles with its reference
   counts.
8. `PrIpc`: streams of a child over one channel (`prpsio`), with its death.

The order is that of the damage a mistake does: locks and names are shared by
processes, then come the processes themselves; buffers are per process, the
rest is above them.
