# A verification project for xv6 (w3/ and w5/)

The repository holds two copies of the xv6 teaching kernel for RISC-V with the
lab work of an operating systems course. `w3/` is the newer kernel (lazy `sbrk()`,
`ireclaim()` at boot, a `monitor()` system call), `w5/` an older one with a
user-level thread package and a hash table lab. `bio.c`, `pipe.c`, `sleeplock.c`
and `virtio_disk.c` are the same in both; where the copies differ, the modules
follow `w3/kernel`.

Here are TLA+ modules of the kernel and of three programs that run beside it,
the TLC configurations that check them on small instances, and TLAPS proofs, for
every instance, of the safety of the log, the buffer cache with its disk driver, the file
system's inodes and names, open files, the process table, memory, pipes, the console, the hash
table and the user-level threads.

    tlc -workers 2 -config MCPipe.cfg Pipe        # check an instance
    tlapm Pipe_proofs.tla                         # check the proofs of a module

`PROJECT.json` lists the components, the runs, the hazards, the theorems and,
under `map`, the source lines that each definition translates.

## 1. Inventory

| Component | State | Operations | Correct when |
|---|---|---|---|
| Write-ahead log, `log.c` | header `lh` (memory and disk), log blocks, `outstanding`, `committing` | `begin_op`, `log_write`, `end_op`, `commit`, `recover_from_log` | a crash leaves all of a group of system calls or nothing; the log never overflows; nobody waits for ever |
| Buffer cache, `bio.c` | buffers with data, `refcnt`, `valid`, LRU list | `bread`, `bwrite`, `brelse`, `bpin`, `bunpin` | one buffer for a block; one user at a time; a logged block is not recycled |
| Disk driver, `virtio_disk.c` | descriptors, free map, available and used rings | `virtio_disk_rw`, `virtio_disk_intr` | each request ends once; a descriptor chain belongs to one request; out-of-order completions wake the right process |
| Inodes and blocks, `fs.c` | inode table (`ref`, `valid`, lock), on-disk inodes, bitmap | `iget`, `ilock`, `iput`, `ialloc`, `itrunc`, `bmap`, `balloc`, `bfree`, `ireclaim` | no block in two files; an inode is freed only without links and references, and then it is |
| Directories, system calls, `fs.c`, `sysfile.c` | directory entries, link counts | `dirlookup`, `dirlink`, `namex`, `link`, `unlink`, `create`, `open` | `nlink` equals the number of entries; a failing call undoes what it did; no deadlock of two inode locks |
| Open files, `file.c` | file table with reference counts, descriptors | `filealloc`, `filedup`, `fileclose`, `fileread`, `filewrite`, `sys_pipe` | the last close, and only it, gives up what is behind the file |
| Pipes, `pipe.c` | ring of 512 bytes, two counters, two open flags | `pipealloc`, `pipewrite`, `piperead`, `pipeclose` | first in, first out; no lost wakeup; freed once, by the last close |
| Processes, `proc.c` | process table, `wait_lock`, `cpu->proc` | `fork`, `exit`, `wait`, `kill`, `sleep`, `wakeup`, `yield`, `scheduler` | one CPU for a process; no exit missed; no orphan without a parent; freed only when finished |
| Locks, `spinlock.c`, `sleeplock.c` | lock word, holder, `noff`, `intena` | `acquire`, `release`, `push_off`, `acquiresleep` | mutual exclusion; interrupts back on exactly when no lock is held |
| Memory, `kalloc.c`, `vm.c`, `exec.c` | free list, page tables, `sz` | `kalloc`, `uvmalloc`, `uvmcopy`, `vmfault`, `copyin/out`, `kexec` | each page has one owner; a failing fork or exec gives back every page |
| Console and UART, `console.c`, `uart.c` | line buffer `r`, `w`, `e`; `tx_busy` (w3), transmit ring (w5) | `consoleread`, `consoleintr`, `uartwrite`, `uartintr` | a line is read once and whole; a writer asleep is woken |
| Traps and system calls, `trap.c`, `syscall.c` | trap frame, `ticks` | `usertrap`, `kerneltrap`, `clockintr`, `syscall` | a killed process leaves at its next trap |
| Shell and init, `user/sh.c`, `user/init.c` | the tree of a line, descriptors, children | `parsecmd`, `runcmd`, `main` | a line is read by its grammar; each command gets its input and output; the prompt returns |
| User threads (w5), `uthread.c` | 4 thread slots, saved registers | create, yield, schedule | a thread resumes with its own stack and registers; all of them finish |
| Hash table lab (w5), `ph-*.c` | buckets, a lock for each | `put`, `get` | no insertion is lost |

How they interact. A system call on a file runs inside `begin_op()`/`end_op()`;
`fs.c` changes buffers and hands them to `log_write()`, which pins them in the
cache until the last system call of the group commits. `fileclose()` ends in
`iput()` inside a transaction or in `pipeclose()`. Everything that blocks
(log, pipe, sleep locks, wait, disk, console) goes through `sleep()`/`wakeup()`
of `proc.c`; `kill()` wakes any sleeper. `exit()` closes the files, gives the
children to init and wakes the parent. The timer interrupt ends in `yield()`
from user and kernel code that holds no spinlock. A buffer that misses goes to the
disk driver; the console echoes from the interrupt handler on the port that
`uartwrite()` and `printf()` use too. `fork()` touches all tables at once: it copies
memory page by page, descriptors one by one, and shares the files behind them; the
shell is the program that leans on this most.

What is hard: interleavings of processes on several CPUs with sleep, wakeup and
kill; power loss between any two block writes, also during recovery; tables and
rings at their limit; error paths that must undo earlier steps. The 40 places in
the code where these bite are listed, each with the properties that watch it or the reason why none does,
under `hazards` in `PROJECT.json`.

## 2. What is modelled

| Module | Models | Grain |
|---|---|---|
| `AtomicFs` | what the log promises: groups of updates, atomic at a crash | abstract |
| `Log` | `log.c` and the part of `bio.c` it needs | a critical section of `log.lock`; one block write |
| `ProcTable` | `proc.c`: scheduling, fork, exit, wait, kill, sleep and wakeup | a critical section of `p->lock`; every step under `wait_lock` |
| `Channel` | what a pipe promises: a bounded first-in first-out channel | abstract |
| `Pipe` | `pipe.c`, with closing from `file.c` | every byte and every test, because `kill()` may come in between |
| `FileSystem` | `fs.c` and `sysfile.c`: the inode table, inodes on disk, directories, and the calls on names, on top of the log | a critical section of `itable.lock`; what is done with locked inodes |
| `Dictionary` | what the hash table promises: `put()` in one step | abstract |
| `HashTable` | `ph-with-mutex-locks.c` of w5 | a visit of one list entry |
| `BlockStore` | what the buffer cache promises: one content and one holder for a block | abstract |
| `Virtio` | `virtio_disk.c` and the device: descriptors, chains, rings, interrupt | a critical section of `vdisk_lock`; one entry of the used ring |
| `Bcache` | `bio.c` and `sleeplock.c`, on top of `Virtio` | a critical section of `bcache.lock` or of a sleep lock's spin lock |
| `FileTable` | `file.c`, descriptors, and the calls of `sysfile.c`, `pipe.c`, `proc.c` on them | a critical section of `ftable.lock`, `itable.lock` or `pi->lock` |
| `AddressSpaces` | what a process may rely on: its memory is its own | abstract |
| `Memory` | `kalloc.c`, `vm.c`, and the memory of `sbrk`, `fork`, `exec`, `exit` | one `kalloc()` with its mapping |
| `Tty` | what a terminal promises to those who read it | abstract |
| `Uart` | output of `uart.c` (w3): `uartwrite`, `uartputc_sync`, `uartintr` | a register access or a test of `tx_busy` |
| `Console` | `console.c`, on top of `Uart` | a critical section of `cons.lock`, echoes one by one |
| `UThread` | `uthread.c` and `uthread_switch.S` of w5, the program included | between two calls of `thread_schedule()` |
| `ShellParser` | the parser of `sh.c`, as functions, beside its grammar | |
| `Shell` | `runcmd()` and `main()` of `sh.c`, the waits of `init.c`, for any parser | a system call |
| `ShellLine` | `Shell` with `ShellParser`, and what a line says of inputs and outputs | |
| `MC*` | symmetry sets, views and inputs for TLC | |
| `Log_proofs`, `Bcache_proofs`, `Pipe_proofs`, `Console_proofs`, `FileSystem_proofs`, `Memory_proofs` | theorems about the module they are named for | |
| `Process_proofs` | theorems about `ProcTable` and `FileTable` | |
| `User_proofs` | theorems about `HashTable`, `UThread` and `Shell` | |

Operators named "mistake" in comments (`LogWriteUnpinned`, `WriteByteOver`, ...)
are not part of any specification. Each is a plausible bug in the action that
follows it; put in the action's place it breaks the property it is paired
with under `mutants`.

### Log

The disk is `home` (blocks at their home location), `dhdr` (the log's header
block) and `dlog` (its data blocks); the rest is memory and is lost in `Crash`,
which is possible in every state, during recovery and after a panic too.
`cache[b]` is `b->data`, or `NotCached` when no buffer holds the block; `pins`
are the references of `bpin()`. `stage` and `tail` are the place and the loop
index of `commit()` (`write_log` -> `install` -> `finish`) and of
`recover_from_log()` (`read_head` -> `recover`). The panics "too big a
transaction" and "log.committing"/"outside of trans" are stages that nothing
but a crash leaves.

| Action | Code |
|---|---|
| `BeginOp`, `Kill` | one round of the loop of `begin_op()`; `kill()` of a sleeper only makes it test again |
| `Modify`, `LogWrite` | `bread()`, change, `log_write()`, `brelse()`; absorption, pinning, both panics |
| `EndOp`, `FinishCommit` | `end_op()` before and after `commit()` |
| `WriteLog`, `WriteHead`, `InstallTrans`, `ClearLog` | `write_log()`, `write_head()`, `install_trans()`, the cleared header: one block write each |
| `Read`, `Recycle` | another reader's `bread()`; `bget()` recycling an unpinned buffer |
| `Crash`, `ReadHead` | power loss; `read_head()` at boot |

A block write is atomic: `bwrite()` writes one block, and what the header needs
fits into its first sector. A system call is what `log.c` sees of it: it
changes and logs at most `MAXOPBLOCKS` different blocks, each held while it is
changed. That is the callers' side of the contract that `log.c` states at line 16 and
`param.h` at `MAXOPBLOCKS`.

### ProcTable

A slot of `proc[]` is a process; its pid is left out, because slots identify
processes and a pid of 0 is the same as `UNUSED`. `run[c]` is the process whose
kernel stack CPU c is on, and `plock[p]` says that p holds its own `p->lock`
while it gives up the CPU: from the change of `p->state` over `sched()` and
`swtch()` until `scheduler()` releases it (`SwitchedOff`). Any other critical
section of `p->lock` is one step. `wait_lock` is held over many steps. `pc` is
the place of the kernel thread; in the places of `Preemptible` it holds no
spinlock and a timer interrupt may come.

| Action | Code |
|---|---|
| `Dispatch`, `SwitchedOff`, `Yield`, `Tick` | `scheduler()`, `swtch()`, `yield()`, `clockintr()`'s wakeup |
| `PauseCall`, `PauseSleep` | `sys_pause()`: the kill test, then `sleep()` |
| `ForkAlloc`, `ForkFail`, `ForkParent`, `ForkRunnable` | `kfork()`: `allocproc()` and its failure, `np->parent` under `wait_lock`, `RUNNABLE` |
| `WaitCall`, `WaitLock`, `WaitReap`, `WaitBadAddr`, `WaitNoZombie`, `WaitSleep` | `kwait()`: scan, `freeproc()`, a failing `copyout()`, no children or killed, `sleep()` |
| `ExitCall`, `ExitLock`, `ExitReparent`, `ExitWake`, `ExitZombie` | `kexit()`: `reparent()` with its wakeups of init, wakeup of the parent, `ZOMBIE` |
| `Kill` | `kkill()` |

The other reasons to sleep (pipe, log, disk) are represented by `sys_pause()`;
files, memory and the trap frame are left out. init neither exits nor is
killed: if it were, the kernel would panic ("init exiting") and nothing after that
would be a behaviour of the system.

### Pipe

One pipe after `pipealloc()` and the forks that share it: each process has the
read file or the write file. `lock` is the holder of `pi->lock`, and the loops of
`pipewrite()` and `piperead()` take one step for a byte, since `killed(pr)` is
tested each time. `wait` is the interval in `sleep()` in which `pi->lock` is
still held. The counters wrap at `UINT` (2^32 in the code), which the ring's
size divides (as 512 does).

| Action | Code |
|---|---|
| `Call`, `Acquire`, `Sleep` | entry from `fileread()`/`filewrite()`, `acquire()`, `sleep()` |
| `WriteByte`, `WriteFull`, `WriteFail`, `WriteReturn` | `pipewrite()`: a byte, a full ring, the two early returns, the end (also after a failing `copyin()`) |
| `ReadEmpty`, `ReadFail`, `ReadStart`, `ReadByte`, `ReadFault`, `ReadReturn` | `piperead()`: wait, killed, loop, a failing `copyout()` that loses its byte, the end |
| `Close`, `PipeClose` | `fileclose()` with its reference count, `pipeclose()` with `kfree()` |
| `Kill` | `kkill()` |

### FileSystem

`disk` and `ents` are the inodes and directory entries as `bread()` finds them;
`stable` is what a crash leaves: their values at the last commit, as `AtomicFs`
promises. `core`, `valid`, `ref` and `lock` are the inode table. A process has its
system call in `call`, its place in `pc`, and in `drop` the inodes it still has to
`iput()`: every way out of a call is one list of them, in the order of the code, and
`iunlock()` happens with the step before. `iput()` itself takes five steps, since
it gives up `itable.lock` and `ip->lock` while it frees an inode.

| Action | Code |
|---|---|
| `Begin`, `Close`, `EndOp` | entry of `sys_open` ... `sys_link`, `sys_close` with `fileclose()`; `begin_op()`, `end_op()` |
| `Walk`, `WalkFail`, `WalkParent`, `WalkEnd` | one round of `namex()` with `dirlookup()` |
| `Put`; `PutLast`, `Trunc`, `Inval`, `Dec` | `iput()`: not the last use; the last use of an inode without links |
| `CreateExists`, `CreateNew`, `Ialloc`, `IallocFail`, `Iget`, `Fill`, `FillFail` | `create()` with `ialloc()`, `iget()`, `dirlink()` and `fail:` |
| `Open`, `OpenFail` | the rest of `sys_open()`, of `sys_mkdir()` on an existing name |
| `UnlinkLookup`, `UnlinkFail`, `UnlinkNotEmpty`, `UnlinkEntry`, `UnlinkEnd` | `sys_unlink()` |
| `LinkDir`, `LinkCount`, `LinkEntry`, `LinkNoRoom`, `LinkExists`, `LinkUndo` | `sys_link()` with `dirlink()` and `bad:` |
| `ReclaimSkip`, `Reclaim` | `ireclaim()`, before the first system call |
| `Crash` | power loss, and the log's recovery |

Abstractions. `ialloc()` takes any free inode, which includes the first. `dirlink()`
may fail for lack of blocks at any time; blocks and file contents are left out. An
entry of the table loses `valid` with its last reference, where the code clears it
when `iget()` recycles the entry; nobody looks at it in between. The table has an
entry for each inode (`NINODE` is not modelled). Paths are absolute, not empty, and
without `.` and `..`. A process has at most one open file.

### HashTable

A list is a sequence, oldest entry first, so that an entry keeps its index when
others are inserted at the head. `next` is the list that `insert()` got as its
argument `n` and links the new entry to; `e` is the pointer of the loops.

| Action | Code |
|---|---|
| `Lock`, `Walk`, `Update`, `Insert`, `Store`, `Unlock` | `put_thread()` and `put()`: the mutex, the search, the new value or the new entry |
| `StartGets` | `main()`, when it has joined every put thread |
| `Get`, `Search`, `GetReturn`, `EndGets` | `get_thread()` and `get()`, without a mutex |

### Bcache and Virtio

A buffer is `blockno`, `valid`, `refcnt`, `lock`, and `data` and `busy` (`b->disk`),
which the driver shares. A request is a chain of three descriptors; `avail` and
`used` are the rings, `avail` a set because the device may serve requests in any
order. The device writes `data` or `disk` and raises `pending`;
`virtio_disk_intr()` holds `vdisk_lock` from `IntrBegin` to `IntrEnd`.

| Action | Code |
|---|---|
| `GetCached`, `GetFree` | `bget()`: a hit; a free buffer is recycled. Without one it panics and no step follows |
| `AcquireSleep`, `SleepOnLock`, `ReleaseSleep`, `Unref` | `acquiresleep()`, `brelse()` with `releasesleep()` |
| `Bwrite`, `TransferDone`, `Modify`, `Bpin`, `Bunpin` | `bwrite()`, the return of `virtio_disk_rw()`, the callers' use |
| `Submit`, `NoDescriptors`, `Finish` | `virtio_disk_rw()`: a chain and the first `sleep()`; too few descriptors, with the wakeups of `alloc3_desc()`'s `free_desc()`; `free_chain()` |
| `Serve` | the device |
| `IntrBegin`, `IntrEntry`, `IntrEnd` | `virtio_disk_intr()` |

The callers keep what `bio.c` (lines 3-15) and the log ask of them: one
buffer at a time, a changed one is written or pinned before `brelse()`, and unpinned
only when it is on disk. The order of the LRU list is left out, so any free buffer
may be recycled, which includes the one that the list would give.

### FileTable

What a call has and its process has not is one list, `held[p]`, of files, inodes
and ends of a pipe: every error path of the code gives up such a list in the order of the code,
and `fileclose()` on the last reference puts what is behind the file at its head. The descriptors
of other processes are not visible, so what a process does to its own before a lock is part of
the step. Names begin with `Files` where `ProcTable`, with which the module shares a module
of proofs, has them too (`FilesSpec`, `filevars`), and `np` and `call` are its `child` and `pc`.

| Action | Code |
|---|---|
| `Open`, `OpenFile`, `OpenNoFd`, `OpenNoFile` | `sys_open()` from the inode on: `filealloc()`, `fdalloc()` and their failures |
| `PipeFirst`, `PipeSecond`, `PipeBad`, `PipeReturn`, `PipeFail` | `pipealloc()` and `sys_pipe()`: each file, no second file or page, success, no descriptors or a failing `copyout()` |
| `Dup`, `Close`, `Chdir`, `ChdirNotDir` | `sys_dup()`, `sys_close()`, `sys_chdir()` and its exit for a file |
| `Fork`, `ForkCopy`, `ForkReturn` | `kfork()`, a descriptor at a time, then the working directory |
| `Exit`, `ExitFile`, `ExitCwd` | `kexit()`: a descriptor at a time, then the working directory |
| `FileDrop`, `FileFree`, `PipeClose`, `Iput`, `Given` | `fileclose()`, `pipeclose()`, `iput()` |

An inode is its reference count here, and a pipe the set of its open ends;
`FileSystem` and `Pipe` are those parts in detail.

### Memory

A page table is its root page, its tables and its leaves; below the root there is
one level instead of two. `sz` counts half pages, since sizes need not be multiples
of a page. A step allocates one page with the table that `walk()` may need for it, so that
two processes compete for every page. Freed pages are filled with junk, as `kfree()` does.

| Action | Code |
|---|---|
| `SbrkLazy`, `Sbrk`, `GrowPage`, `GrowFail`, `GrowDone`, `Shrink` | `sys_sbrk()`, `growproc()`, `uvmalloc()` with its roll-back, `uvmdealloc()` |
| `VmFault`, `Store` | `vmfault()` from a trap or from `copyin`/`copyout`; a store |
| `Fork`, `ForkTable`, `CopyHole`, `CopyPage`, `ForkFail`, `ForkDone` | `allocproc()`, `uvmcopy()` and its roll-back, `freeproc()` of the unfinished child |
| `Exec`, `LoadPage`, `ExecFail`, `ExecDone` | `kexec()`: the second page table, `bad:` for any reason, the exchange |
| `Exit`, `FreeProc` | `kexit()`; `freeproc()` from `kwait()` |

### Uart and Console

`fifo` and `thri` are the port: characters to send, and its transmit interrupt.
`hpc` is where `uartintr()` is. `consoleread()` is one step up to `sleep()` or its
end, but a `kill()` may come between its test and `sleep()`; `consoleintr()` holds `cons.lock` while it echoes, a character at a time, and readers
wait for it. `printf()`, which uses the port without `tx_lock`, may print at any time.

| Action | Code |
|---|---|
| `Write`, `WriteChar`, `WriteSleep` | `consolewrite()`, `uartwrite()`: a character, or `sleep()` while `tx_busy` |
| `PrintWait`, `PrintPut`, `EchoWait`, `EchoPut` | `uartputc_sync()` for `printf()` and for `consputc()`: the test of LSR, then the write |
| `Transmit`, `Receive` | the port |
| `IntrAck`, `IntrTx`, `IntrReturn` | `uartintr()` |
| `KillLine`, `Erase`, `Store`, `Drop`, `EchoDone` | `consoleintr()`: ^U, ^H, any other character, no room |
| `Read`, `ReadLine`, `ReadEof`, `ReadWait`, `ReadFault`, `Kill` | `consoleread()`: a line or n characters, ^D, `sleep()` or a kill, a failing copy |

### UThread

The machine is what `thread_switch()` saves: `ra`, `sp`, and one register `s` for
all the callee-saved ones, which holds the loop variable. `stack` is where the call
of `thread_schedule()` in each stack returns to. A call of it is part of the step that makes it:
nothing interrupts a user thread.

### ShellParser, Shell and ShellLine

A line is a sequence of tokens. `Parsecmd` is the recursive descent of the code, as
functions from a position to what it read and where it stopped; `Trees` is a
grammar, independent of it. `Shell` has the parser as its constant `Parse`, which `ShellLine`
gives that value; so `Shell` has no recursive definition. A process of `Shell` is the node
of the tree that it runs, its descriptors and its parent; files are named by the node. Every
`fork1()`, `pipe()`, `open()` and `exec()` may fail.

| Action | Code |
|---|---|
| `Type` | `main()`: a line, `fork1()`, `parsecmd()` |
| `RunExec`, `RunRedir`, `RunList`, `RunBack`, `RunPipe` | the cases of `runcmd()` |
| `ForkLeft`, `SetLeft`, `ForkRight`, `SetRight`, `ClosePipe` | PIPE, step by step |
| `WaitChild`, `Done`, `InitWait` | `wait(0)` wherever it is, `exit(0)`, `init.c` |
| `Stop` | a program ends |

## 3. The runs

| Run | Instance | Shows |
|---|---|---|
| `log` | 2 blocks, 2 values, 2 processes, a log of 4 blocks, 2 for a call; 0.45 million states | `CrashAtomic`: `Log` implements `AtomicFs`, where the disk after a reboot only changes by one atomic commit with no system call running. `SpaceReserved`: `begin_op()`'s reservation suffices. `CachedCopies`: unlogged buffers equal the disk, logged ones are pinned. `QuietCommit`: nothing changes under a commit. `SleepersMustWait`: nobody sleeps in `begin_op()` while the log has room for his call. `SleeperWoken`: nobody stays there |
| `proc` | init and 3 slots, 2 CPUs; 0.9 million states | `CpusTrue`: a process is on one CPU, and its state says so. `NoMissedExit`, `ParentsLive`, `FreedAlone` |
| `proc_live` | init and 2 slots, 1 CPU | `OrphansReaped`, `ExitEnds` |
| `pipe` | 1 reader, 2 writers, calls of up to 2 bytes, a ring of 2 bytes, counters that wrap at 4; 0.6 million states | `Fifo`: `Pipe` implements `Channel`. `NoLostWakeup`, `CloseEndsCalls`, `FreedOnce` |
| `fs` | a root and 2 more inodes, 2 names, 2 processes, paths of 1 or 2 names, 3 calls for a commit; 0.7 million states | `NoDangling`: no name, on disk or after a crash, and no open file leads to a freed inode, and no link count is too small. `RefsBalanced`: every way out of a call gives back its references and locks. `NeverStuck`: no panic, no circle of inode locks, and `iput()`'s `acquiresleep()` does not block. `ReclaimComplete`: a boot frees every orphan |
| `hash` | 2 threads, 2 buckets, 4 keys out of 3 values, any choice of them | `PutsAtomic`: `HashTable` implements `Dictionary`. `KeysOnce`: one entry for a key, none missing. `AllEnd`: the program ends |
| `disk` | 3 processes, 3 buffers, 3 blocks, 8 descriptors, 1 pin | `Coherent`: `Bcache` implements `BlockStore`. `RefsBalanced`: a buffer in use is not recycled. `ChainsOwned`: a descriptor is free or in one request's chain, and what a ring holds has a waiting owner. `NoLostWakeup` |
| `files` | 2 processes of 2 descriptors, 3 files, 2 pipes, 2 inodes | `FileRefs`, `BehindOpen`: the last close, and only it, gives up what is behind a file; no error path leaves a slot, a descriptor or an end behind |
| `memory` | 2 processes, 7 to 9 pages, 3 virtual pages, tables of 2 entries | `OwnMemory`: `Memory` implements `AddressSpaces`, so that what memory contains does not depend on when a page is allocated. Whether a call fails does: a fault may find no memory, and `copyinstr()` does not make the page it lacks. `PagesOwned`: every page is free or in one place |
| `console` | 2 readers, 1 writer of up to 2 characters, reads and a buffer of 2, counters that wrap at 4; 1.1 million states | `LinesRead`: `Console` implements `Tty`. `ReaderWoken`; `PortShared`: no writer loses its wakeup to the users of the port that ignore `tx_busy`, and the port is not overrun |
| `uthread` | the program: 3 threads, 4 slots, loops of 98 or 100 | `OwnContext`: a thread finds its stack and loop variable as it left them. `AllFinish` |
| `shell` | all lines of up to 5 tokens for the parser, 2 out of 9 lines to run | `GrammarParsed`; `Wired`: a program has the input and output that its line says and nothing else. `Waited`, `PromptAgain` |

Why the bounds are enough. Two system calls of two blocks and a log of four
fill the reservation exactly, so that one more begins only after one has ended; blocks are
absorbed, and a group has a commit of several block writes with a crash between any two.
Three slots next to init give a grandchild that is
orphaned while its parent and init wait, on two CPUs with a third runnable
process. A ring of two bytes with counters of four wraps index and counter at
different times; a write of two bytes can block half-way and be killed, and two writers
compete for the byte a read frees. The safety properties of these, and of
`HashTable`, `FileSystem`, `FileTable`, `Memory`, `Console` and `UThread`, and `Waited` of
`Shell`, are proved for every size as well (section 5). In `FileSystem` three
inodes hold a directory and a file in it, and run out when a
third is made; `MaxLink` 2 lets a file have two names or a
directory (counting its own name) one subdirectory; two processes race for every lock,
and a commit covers up to `MaxGroup` 3 calls, so that a crash undoes several. Four
keys out of three values give two threads equal keys, different keys in one bucket,
and keys in different buckets.

Eight descriptors, as in the code, are two chains and a rest of two, so that a third
process finds too few; three buffers with a pin leave two for three
processes, which fight for them over three blocks. Three files and two descriptors
make every allocation of `open`, `pipe` and `dup` fail in some state, with another process
holding what is missing. On seven pages a `fork` fails at each of its pages, on nine it
succeeds; three virtual pages need two tables. A console buffer of two is full with a line of
one character and its end; counters of four wrap at twice its size; a writer of two
characters sleeps between them. `uthread` is the program itself; the bound 98 makes threads end at
different times. The nine lines of `MCShell` nest every construct of the shell in another one.

Deadlock is checked except where the system may stop: in `pipe`, where every process may have
closed its end, and in `hash`, `uthread` and `shell`, where the program ends or the last
line is typed (`AllEnd`, `AllFinish` and `PromptAgain` say that they get there). In
`log` and `fs` a crash is always possible, so that TLC's check is
empty: `SleeperWoken` and `NeverStuck` say what it would. `SYMMETRY` is used
only in runs without liveness properties, `VIEW` only to leave out what no step looks at: the
names of pages, and the part of the console's buffer that is not in use.

### Fairness

* `Log`: a disk write completes (weak fairness of the commit's steps); a
  runnable process runs; a system call ends after finitely many `log_write()`s
  (strong fairness of `EndOp`, which is disabled while the call holds a buffer).
* `ProcTable`: the timer keeps interrupting (`Tick`, `Yield`), `scheduler()`
  goes round the table and so does not pass over a runnable process for ever,
  a spinning CPU gets the lock in the end (`amoswap` of the hardware), init's
  program (`user/init.c`) calls `wait()` for ever, and a killed process is in `usertrap()`
  by its next timer interrupt. These are strong because another process can
  hold the lock or the CPU meanwhile.
* `Pipe`: the same of a process inside the kernel.
* `UThread`: the process goes on running.
* `Shell`: every process that can take a step takes one, and a program whose input
  has ended ends.
* `HashTable`: a thread that can take a step takes one; a mutex holder always can.

No fairness makes a process call the kernel, exit, kill, close or crash.

`OrphansReaped` is conditional on forks coming to an end, because `kwait()` takes
the first zombie in table order: children that keep dying in earlier slots make init
pass over a zombie in a later one for ever.

## 4. Observations

What the code does that a reader may not expect. None of it breaks a property of a
run; where a property has to make room for it, this is said.

1. `writei()` (fs.c:543) releases a buffer that `either_copyin()` has partly filled
   without logging it; cache and disk differ until the buffer is recycled or written
   again. `CachedCopies` is about calls whose copies do not fail.
2. `kkill()` wakes a process only if it is already `SLEEPING` (proc.c:617);
   `sys_pause()` (sysproc.c:87-92), `kwait()` (proc.c:420-427) and `consoleread()`
   (console.c:96-100) test `killed()` before `sleep()`. A kill in between waits for some other wakeup.
3. `pipewrite()` returns at pipe.c:86 without the wakeup of its other exits, though it
   may have written bytes. `NoLostWakeup` of `Pipe` names it as its exception.
4. `iput()` (fs.c:358-361) does not test again before `ref--`: an inode that `ialloc()`
   has reused meanwhile can be left allocated without links or users. `ReclaimComplete`
   says that the next boot frees it.
5. `create()` (sysfile.c:254-256) and `sys_link()` do not test whether the parent they
   lock has been removed since `nameiparent()`; the new name is unreachable.
6. `log_write()` (log.c:221) tests for a full log before it looks for absorption, so that a
   second write of a logged block panics on an exactly full log (stage `too_big`).
7. `kill(0)` finds an unused slot, whose pid is 0, and marks it killed; `Kill` of
   `ProcTable` does the same.
8. A full log pins `LOGBLOCKS` buffers, which is all of them (`NBUF`), and `bget()` panics (bio.c:88).
   No property forbids this; `GetFree` of `Bcache` has no step then.
9. Two processes that both find too few descriptors wake each other in `alloc3_desc()` for
   as long as neither gets them: no deadlock, but no rest either.
10. The lazy `sbrk()` (sysproc.c:65) tests for wraparound only, not for `TRAPFRAME`;
    the model's sizes stay below `MaxVa`, a bound without a counterpart in the code.
11. Of `a > x > y` the output goes to x: the first redirection is the innermost.
12. When the second `fork1()` of a pipeline fails, the left command is left running and
    nobody waits for it. `Waited` names it as its exception (`stray`); `PromptAgain` has none.

## 5. Proofs

All theorems are about `Spec` for every value of the constants that satisfies
the module's `ASSUME`, and follow the same pattern: an inductive invariant `IInv`
stronger than the properties, its initiality and its preservation by each
action, and `[]`-theorems by PTL. TLC has checked each `IInv` on the instances above.

`Log_proofs` (assumptions: `MAXOPBLOCKS` positive and at most `LOGBLOCKS`,
finitely many processes, the two markers outside their sets)
* `Refinement`: `CrashAtomic`, for any number of blocks, processes and crashes.
* `ReservationSuffices`: `SpaceReserved`, and with it `NewBlockFits`:
  the panic "too big a transaction" cannot hit a block that is new to the log.
* `CacheCoherent`: `CachedCopies`; `CommitIsQuiet`: `QuietCommit`.
* `NeverMisused`, `NoStrandedSleeper`: two panics never fire, a sleeper has a waker;
  `RoomIsTaken` (`SleepersMustWait`): nor does he sleep while there is room for him. It takes three
  processes for `end_op()` to give a reservation back while another sleeps, so the wakeup of
  log.c:163 is the business of this theorem; the run, with two, has the wakeup of a commit only.
* The argument: `outstanding` is the number of processes between `begin_op()`
  and `end_op()`; while a commit runs there are none; the header on disk,
  the log's blocks and the cache agree stage by stage. The reservation counts
  `Claims`, pairs of a system call and one of its `MAXOPBLOCKS`: a `log_write()`
  of a new block takes one claim away for the block it adds.

`Process_proofs`, `ProcTable` (init is a slot; `None` is not)
* `NeverOnTwoCpus` and `StateIsTrue`, together `CpusAgree` (`CpusTrue`);
  `OrphansAdopted`, `NoExitMissed`, `FreedSafely`; `WaitLockExclusive`.
* `IInv` adds how `p->state` and the place of the kernel thread agree, whose fork is
  building which slot, that a process past `reparent()` has no children, and
  what `wait_lock` protects between two steps: a zombie's parent is not asleep in
  `wait()`, nor about to be after a scan that found nothing.

`Process_proofs`, `FileTable` (`FileTableAssumption`: finitely many processes, `Null` outside the sets)
* `FileCounted`: `FileRefs`; `BehindClosed`: `BehindOpen`.
* `FilesInv` says of each file, end of a pipe and inode that its count is that of the `Places`
  which hold it (`CountsInv`). That alone is not inductive: `CleanInv` says that a free slot of
  `ftable` has nothing behind it, so that `filealloc()` adds one reference and no more; `ShapeInv`
  what the list of each call is, and that the files `pipealloc()` has taken are still fresh: one
  reference, which is the call's, and nothing behind, so that the end of `sys_pipe()`
  writes over nothing; `CwdInv` who has a working directory; `ChildInv` that a child under way
  belongs to one fork and has only descriptors of its parent, each the same, and that a slot
  without a process has none, so that `ForkCopy` never writes over a descriptor.
* The argument: the places are a finite set, so a step changes a count by what it changes in the one,
  two or three places that it writes, and all else is the same; each action comes down to
  one of a few lemmas about such a sum.

`Pipe_proofs` (`PIPESIZE` divides `UINT` and is smaller; both ends have a process)
* `SafelyFreed` and `LastCloseFrees`, together `FreedProperly` (`FreedOnce`);
  `WakeupsKept`, and `FirstInFirstOut`: `Pipe`
  implements `Channel`.
* `IInv` adds who holds `pi->lock`, that an end is open until its last process has
  closed it, and what is true of the ring while somebody waits: a
  sleeping writer's ring is full, or a reader that will wake it holds the lock.
  `FirstInFirstOut` rests on lemmas about the ring: two positions less than a lap
  apart use different slots, and slots wrap together with the counters.

`User_proofs`, `HashTable` (threads divide the keys; `random()` is not negative)
* `KeysUnique` and `NothingLost`, together `KeysKept` (`KeysOnce`), and `Linearizable`: `HashTable` implements
  `Dictionary`, each `put()` taking effect at its one write to the list.
* `IInv` adds which mutex each place of a thread holds, that the list is as long as the
  search saw it while the mutex is held and that no entry before the pointer has
  the key, which keys each thread has stored, and that nobody writes once
  `get_thread()`s run.

`User_proofs`, `UThread` (`UThreadAssumption`: no function is given to two threads, and the table
has a thread more than there are functions, for `main()`)
* `ThreadsResume`: `OwnContext`.
* `UInv` says what a thread has where it is (`Own`): thread k runs the k-th function in stack k, and
  its register agrees with what it has counted in memory. This holds for the registers of the
  running thread (`RunningInv`) and for what `thread_switch()` would load for each that waits
  (`SuspendedInv`); while `main()` runs, the threads it has created are those at its left in the
  table, and nobody has counted (`MainInv`).
* The argument: a context that was saved leads through the top of the thread's own stack, and a
  step writes only to the running thread's, which is another. `thread_yield()` always
  finds a thread, if only its own, so that the "no runnable threads" exit cannot
  hit a thread between its count and its loop variable.

`User_proofs`, `Shell` (no assumption: any lines, any parser, any number of lines)
* `PromptAlone`: `Waited`.
* `ShellInv` says which children a process can have at each place (`Forks`): none while it
  is in a leaf of its part, the one or two that it has just forked in a list or a pipeline, and
  only background ones when it exits; and that each process of the foreground has a parent in the
  foreground with a shorter name, unless a `fork()` failed half way through a pipeline (`Parents`).
* The argument: at the prompt `main()` has no child; of the processes in the foreground,
  one with the shortest name would have a parent there with a shorter one. Since a process is named
  by a part of a command, that a `fork()` never takes a name in use has to be proved as well:
  nobody else is in what a process has still to run (`OwnParts`).

`Bcache_proofs` (`VirtioAssumption`: finitely many processes, the markers outside their sets)
* `ReferencesCounted`: `RefsBalanced`; `DescriptorsOwned`: `ChainsOwned`; `SleepersWoken`:
  `NoLostWakeup`; `CacheCoherent`: `Bcache` implements `BlockStore`.
* `IInv` adds to the types which places of a process have a buffer and which of them hold
  its lock; that `refcnt` is the number of users and the pin; that chains are disjoint and not
  free, and that free descriptors and three for each waiting request add up to `NUM`; that each
  request is in exactly one of the rings, once; that who sleeps for descriptors has found
  fewer than three, and who sleeps for a lock, a holder; and for the data: one buffer for a
  block, and a valid buffer that is neither locked nor pinned equals the disk.
* The refinement: getting the lock of a valid buffer, and the end of a read, are `Get`; `Modify` is
  `Change`; `ReleaseSleep` is `Put`; all else stutters. That `bget()` may recycle a valid
  buffer without anyone noticing is what the last part of `IInv` is for.

`Console_proofs` (`UartAssumption`, `ConsoleAssumption`: the buffer's size divides the counters' range)
* `PortIsShared`: `PortShared`; `ReadersWoken`: `ReaderWoken`; `LinesAreRead`: `Console`
  implements `Tty`.
* `IInv` adds to the two that the characters in the port, and one more for `printf()` about to
  write, for the echo about to write and for a cleared `tx_busy`, are at most three, and what a
  writer in the loop still has to write.  A sleeping writer means that `tx_busy` is set and its
  interrupt is still to come; `r` moves only where something is ready and `w` only with a wakeup.
* The refinement maps the ring to the queue of what is ready, from `r` to `w`, and the line being
  typed, from `w` to `e`. Its invariant `LInv` adds that the two are together no longer than
  the buffer (`BufInv`), and that neither the line (`LineInv`) nor what a reader has so far
  (`GotInv`) has an end of a line in it. The lemmas are about slices of the ring: one that begins further on, one
  that ends further on, two that meet, and that a slot outside a slice can be written
  without changing it, counters that wrap included. ^U is `Kill`, ^H `Erase`, a character with room
  `Type`, the ways out of `consoleread()` `Read`, `ReadEof` and `Fault`, its beginning `Begin`;
  all else, a character copied to a reader among it, stutters.

`FileSystem_proofs` (`FsAssumption`: finitely many processes, inodes and names; the root is an
inode; `None` is outside the sets; `MaxLink` is positive)
* `ReferencesBalanced`: `RefsBalanced`; `NothingDangles`: `NoDangling`; `NobodyStuck`:
  `NeverStuck`; `OrphansReclaimed`: `ReclaimComplete`.
* `IInv` says, place by place, which inodes a process refers to (`PlaceInv`), which of them it has
  locked (`LockInv`), what it knows of their types (`TypeInv`), and which inode only it can reach
  (`PrivateInv`). `ref[i]` is the number of these references of all processes (`RefInv`); a
  valid copy equals the disk (`ValidInv`); directories are a forest (`TreeInv`); the names
  of an inode, with those about to be made or taken back, are at most its `nlink` (`LinkInv`); and
  `StableInv` says the last two of what a crash leaves.
* The argument: `Step(p)` is what a step of p may change of what others rely on, so that
  each action's lemma is about its own process and about links only, and `AllKept` does the rest.
  `iput()` frees an inode when it holds the only reference to it and it has no links, so
  that neither a name nor an open file leads there. Who waits for an inode's lock while
  holding another is `unlink()`, from a directory to its child, or `create()`, whose other inode
  nobody knows yet; a circle of waiting processes would be a circle of directories.
  `ReclaimComplete` needs a second invariant, `BootInv`, of the state during `ireclaim()`: nobody
  is in a call, and each orphan is still to be visited or is being put.

`Memory_proofs` (`MemoryAssumption`: `None` is outside the sets; the image fits below `MaxVa`, and
the first process, which runs it, into the memory of the smallest machine)
* `PagesHaveOneOwner`: `PagesOwned`; `MemoryIsOwn`: `Memory` implements `AddressSpaces`.
* `IInv` says that no page is in two places and that those in none are the free ones
  (`OwnInv`); that a process has no page beyond its size, or beyond the point that
  `uvmalloc()` has come to, and which fields each state of a process leaves empty (`StateInv`);
  and what the loops have done so far: `growproc()` has added only pages of zeros (`GrowInv`),
  `uvmcopy()` has given the child an equal page for each of the parent's and none else
  (`ForkInv`), `kexec()` has loaded the image up to `at` (`ExecInv`). Two parents do not
  build the same child (`OneParent`).
* The argument: an action takes pages from the free list for places that were empty
  (`Keeps`, `MapAs`), or empties places and frees what was in them (`UnmapStep`), and leaves the pages
  of all other places alone; so it changes neither the memory nor the part of `IInv` of another
  process. `StateInv` is why emptying the places below `sz` empties them all, which
  `freewalk()` panics about if it is false, and why a page that `growproc()` has added
  already has the contents of one that a fault would add later.
* The refinement: the end of `growproc()` is `Grow`, `uvmdealloc()` is `Shrink`,
  `Store` is `Store`, the ends of `kfork()` and `kexec()` are `Fork` and `Exec`, `kexit()` is `Exit`;
  a lazy `sbrk()` is `Grow` too, and a page fault, like everything else, stutters.

Only model-checked are the liveness properties (`SleeperWoken`, `OrphansReaped`,
`ExitEnds`, `CloseEndsCalls`, `AllEnd`, `AllFinish`, `PromptAgain`), since liveness under
fairness is out of the prover's reach; and `GrammarParsed` and `Wired`, about trees, whose
definitions are recursive. Every other safety property is proved.

## 6. Not modelled, and the plan

Not modelled, on purpose:

* device and CPU set-up (`start.c`, `main.c`, `plic.c`, `entry.S`), `printf.c`, `string.c`,
  `ramdisk.c` (not called), the monitor's mask: straight-line code or formatting;
* register save and restore of the kernel (`swtch.S`, `trampoline.S`), whose twin in
  `uthread_switch.S` is modelled;
* the test programs (`usertests.c`, `grind.c`, ...): clients of the system calls. They are
  a quarter of the repository's lines;
* `w5` where it repeats `w3`: about a third of the lines is a second copy of the same
  kernel and shell, which would be the same definitions again. What is different in w5:
  its transmit ring in `uart.c`, no lazy `sbrk()`, no `ireclaim()`, a test in `log_write()`
  against `log.size`, which `mkfs` writes (`mkfs` is not in the repository);
* of the shell `cd`, blank lines, `nulterminate()` and a failing `malloc()`; of the kernel's memory the third
  level of page tables and the contents of ELF files; of the console ^P.

The system call hooks of the labs (`LAB_SYSCALL` and the like) are taken as undefined.

Still to do, in this order:

1. Block allocation: `balloc`, `bfree`, `bmap` and `itrunc`, with the limit of the
   log that makes `filewrite()` split its writes.
2. `SpinLock`: `push_off`/`pop_off` across `swtch()`; w5's transmit ring; `umalloc.c`'s
   free list; the limit `NINODE` and relative paths in `FileSystem`.
