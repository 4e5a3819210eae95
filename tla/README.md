# A TLA+ model of the JEOS kernel

JEOS is a small x86-64 kernel in C: it boots with Limine on one or more CPUs,
mounts a file system, starts `/bin/init` and runs user programs with fork,
exec, wait, files, pipes and brk. This directory holds TLA+ modules translated
from that code, the TLC configurations that check them on small instances, and
proofs checked by TLAPS. `PROJECT.json` is the index: runs, mutants, the map
from definitions to source lines, hazards and theorems. Source names below are
relative to `src/src/kernel/`.

Contents: 1 inventory, 2 modules and the code, 3 runs, 4 bounds, 5 fairness,
6 proofs, 7 what the runs show about the code, 8 what is not modelled,
9 plan.

## 1. Inventory

| Part | State it keeps | Operations | What makes it correct |
|---|---|---|---|
| Processes and scheduler (`proc.c`, `spinlock.h`, `swtch.asm`, `idt.c`) | `proc_table`, `next_pid`, `proc_lock`; per CPU `proc`, `scheduler_ctx`, `ncli`, `intena` | `scheduler`, `yield`, `swtch`, timer interrupt, `proc_alloc`, `proc_create`, `proc_fork`, `forkret` | a process is on one CPU at a time; the lock is balanced across `swtch`; `mycpu()->proc` is what the CPU runs; nobody starves |
| Exit and wait (`syscall.c`) | `state`, `ppid`, `exit_code` | `sys_exit`, `sys_wait` | a zombie is reaped once, by its parent; wait returns |
| Page allocator (`mem.c`) | `buddy.free_lists`, `buddy.lock` | `freerange`, `kalloc`, `kfree` | no page handed out twice or lost; blocks aligned; buddies merged |
| Address spaces (`mem.c`, `proc.c`, `syscall.c`) | `p->pml4`, `p->kstack`, `p->brk`, page tables, CR3 per CPU | `create_user_pml4`, `copy_user_pml4`, `free_user_pml4`, `map_page_pml4`, exec, `sys_brk`, reaping | no page has two uses; nothing leaks when an allocation fails; a CPU runs on live tables |
| Descriptors and open files (`syscall.c`, `proc.c`, `vfs.c`) | `p->files`, `f->refcnt` | open, close, dup, dup2, pipe, fork, exit | the count is the number of descriptors; no use after free; no leak |
| Block layer and disks (`blk.c`, `ahci.c`, `ata.c`) | `dev->current_req`, the request on the caller's stack, command slots, status registers | `blk_submit_sync`, `blk_complete`, `ahci_submit`, `ata_submit`, both interrupt handlers | a call returns, and with the outcome of its own transfer; the request is alive while it is current |
| Ring buffers (`ring.h`, `ps2.c`) | `buf`, `head`, `len`, `cap` | `ring_write`, `ring_putc`, `ring_read` | bytes come out once, in order; only overflow loses any |
| Pipes (`pipe.c`) | `struct pipe`, reader and writer counts | `pipe_create`, `pipe_read`, `pipe_write`, `pipe_close` | bytes in order; a reader sees end of file when the last writer is gone |
| VFS (`vfs.c`) | file system types, mounts, dentries, the root | register, path walk, mount, umount, open, stat, mkdir, unlink, seek | a path finds what it names through any mounts; no dentry in use is freed |
| ext2 (`ext2.c`) | superblock, group descriptors, one page or two per inode | mount, block map, lookup, read, readdir | a file offset maps to one block; read and readdir stop only at the end; a failed mount gives everything back |
| devfs, initfs (`devfs.c`, `initfs.c`) | node table, directory table, file positions | register, lookup, readdir, read, write, seek, mkdir | a listing is complete; a partial sector write keeps the rest of the sector |
| Console (`kconsole.c`) | the screen, cursor, colours, escape parser | `kconsole_putc` | the screen shows the last lines written, in their colours |
| Keyboard, mouse (`ps2.c`) | modifiers, prefix, mouse packet, the controller's one buffer | `ps2_init`, both interrupt handlers, mousectl | what the user did is what programs read, in order |
| System call entry (`syscall_entry.asm`, `idt.c`, `proc.c`) | the frame on the kernel stack, `p->tf` | entry, `sysret`, `isr_common`, `trapret`, `kstack_setup`, `build_fork_tf`, exec | registers and result reach the right process |
| Program loading (`proc.c`) | the pages of a new program | `read_elf`, `elf_load_segments`, `setup_user_stack` | pages hold the bytes of the file and zeros; argv is as the caller gave it |
| Boot and SMP (`main.c`, `gdt.c`) | `cpus`, `ncpu`, `ap_started`, GS and TSS of each CPU | enrolment, release, `ap_entry`, barrier | every CPU with a slot enters the scheduler with its own state |
| APIC, PCI, ACPI, serial, printf, string | device registers | register access | out of scope, see section 8 |

How the parts interact. A system call runs on the caller's kernel stack with
RFLAGS.IF = 0 (`init_syscall` masks it). It calls the VFS, which calls a file
system or a device; a disk file goes to `blk_submit_sync`, which waits for an
interrupt or polls. `kalloc` and `kfree` are called from everywhere and take
`buddy.lock`. The timer interrupt of each CPU calls `yield`; device interrupts
go to the boot CPU. `proc_lock` protects the process table and is held across
`swtch`; nothing else has a lock: reference counts, rings, `current_req`,
mounts and inodes are shared without one.

What is hard. (1) The lock handed from one stack to another across `swtch`,
with `ncli` and `intena` kept per CPU and interrupts that nest. (2) State read
before interrupts go off and used after (`yield`). (3) Objects shared by CPUs
without a lock. (4) Waiting for an interrupt with interrupts off. (5) Page
tables freed while some CPU is on them. (6) Every `kalloc` can fail, half way
through fork, exec, brk, mount or a lookup. (7) Registers saved in one layout
and restored from another, on another CPU. (8) Which dentry may be freed, with
mounts and ".." on the path. (9) Bytes of two devices in one buffer. (10)
Boundaries: orders, regions that end inside a page, indirect blocks, full rings,
pages and tables, wrapping offsets. The list, line by line, is under `hazards`.

## 2. Modules and the code

`Sched` - the process core. A *thread* is a kernel stack with the code on it:
one per CPU (boot code, then `scheduler`) and one per slot. `pc` is the point a
thread has reached, `cur[m]` the thread CPU m executes, `ei` RFLAGS.IF, `lock`
the CPU in `proc_lock.cpu`. `yc`, `yp`, `ra` and `sysp` are the locals of the C
functions that survive an interrupt; an interrupt pushes them on `stack`. Every
`acquire` is two steps, the call (pushcli, the test for a CPU that already
holds it) and the successful `xchg`, so spinning is visible. The panics of
`spinlock.h` lead to the point `halt`, and a return into an exited process to
`dead`. Code that runs with interrupts off and touches only its own CPU, or
that runs under `proc_lock`, is one action. `YieldRead` reads `mycpu()` and its
`proc` in one step; they are two loads in the code, and a process moved between
them sees a mixture the model does not have.

`SchedInv` - the inductive invariant; `SchedProofs` - its proof.

`Buddy` - `mem.c`'s allocator, one action per iteration of the loops that merge
and split. A page number stands for an address: `hhdm_offset` is a multiple of
the largest block, so the xor looks at bits of the page number. A free list is
a set, as its order only picks among blocks of one size. `npages[c]`, `addr[c]`
and `order[c]` are the locals of a call in progress on CPU c. `PageAlloc` is the
abstract allocator that `Buddy` refines: aligned runs of a set of free pages,
taken and given back atomically. `FreeBlocks` and `HeldBlocks` are the blocks
that count as free for a caller: those on lists and those a call that has the
lock has in hand. `BuddyProofs` has the proofs.

`AddrSpace` - the pages of processes. `tree[r]` is what hangs below the pml4
page `r`: tables and user pages by virtual page. `op`, `child`, `root`, `elf`,
`todo`, `page` and `arg` are the locals of the call a CPU is in (`proc_create`,
fork, exec or brk). The three loops that map pages share the actions
`MapPage`, `MapTable`, `MapEntry`, one `kalloc` each, and differ in what a
failed `kalloc` does: fork skips the page, brk returns, exec frees what it has
built; a failed table allocation is a page fault in all of them. Freeing a
space is one step. The loops over tables and pages go from the lowest index up:
`Ascending`, from `SetOrder`, is a set of numbers in that order. Pages are interchangeable, so `kalloc` takes the lowest free
one, or one that is still in some CR3. `lost` collects the pages the code can
no longer free. A kernel stack and the ELF buffer count as one page; the levels
of tables are a parameter (`Walk`). `AddrSpaceProofs` has the proofs, and
`SetOrderProofs` those about `Ascending`, division and folds.

`Files` - descriptor tables and `refcnt`. A call changes its own table at once
(nobody else reads it) and leaves a list `todo` of `vfs_file_get` and
`vfs_close` calls, each a load and a store. `fork` publishes the child after
the last of them. The close operations of devfs and ext2 do nothing; that of a
pipe is not reached, because `make_pipe_end` leaves `f->fops` null.

`Blk` - one block device with one of two drivers (`setup`). The request is
named by the CPU that waits for it. A transfer is abstracted to its outcome.
The device, its registers and the I/O APIC are external: a failed AHCI command
keeps its slot issued (the port is never restarted), an edge interrupt masked
at the I/O APIC is lost, and the interrupt of the boot-time IDENTIFY is pending
at the start (the channel's interrupt is routed and `sti` executed before
`ata_init` runs). `hlt` is two steps after the test of `done`.

`Ring` - the keyboard ring. Bytes are numbered in typing order. `ring_putc` is
three steps, `ring_read` one per byte; `len++` and `len -= n` are loads and
stores. The branch for a write of at least `cap` bytes is included although the
kernel's rings (1024 and 256 bytes) never get one so long.

`Vfs` - names, mounts and dentries, with initfs. A path is a sequence of
components. A walk is a record `[mnt, cur, d, fr, rc]` that `Step` carries from
component to component, as `vfs_lookup`'s locals: the mount it is in, the dentry
it is at, all dentries, the free pages and the error. Every lookup allocates a
dentry and an inode per component and frees almost none of them; `free` counts
the pages, so lookups, mounts and mkdir fail at each of their allocations once
enough is lost. `dent` keeps only the dentries that a mount reaches, as the
others are never looked at again. Whether the device can be read is an argument
of `vfs_mount`. The ghost `mtab` says which superblock is to be seen at which
directory; `RefWalk` follows it and is what `vfs_lookup` is compared with.

`Ext2` - mount as a list of steps (`ext2_mount_fs`: allocate, check or free, each
with what the code frees when it fails), then one open file or directory. The
disk is given by where each block of the file is (`Data`); `inode_block` and
`Entry` build the pointer blocks from that, and `ext2_block_map` has to find its
way back with the code's arithmetic. A block is named by what it is for, its
kind and the first block of the file it reaches. A read is one step per round of
the loop. Unreadable blocks and failing `kalloc`s are arguments of each call; the
entry of a pointer block that could not be read is `Unread`, and what follows it
may be anything: bytes of no meaning, or the end of the read. A directory is a
sequence of records with their offsets; a call of readdir or lookup takes the
first record in use that its loop gets to, from its start or from where the
directory was sought (`vfs_seek_dir`, as its operations have no `llseek`; the
ghost `begin`). Positions that are neither the start nor the end of a record are
reached but not listed from: the code takes the bytes there for a record.
`vfs_seek` wraps at 2^w; a count does not, as `sys_read` passes on 32 bits of it.

`Devfs` - three independent halves: the node table with a listing in progress,
the block device with its read-modify-write and an offset that wraps, and the
positions of the other devices. Only the block device and the framebuffer have an
`llseek`; on `fbctl`, `null`, `zero`, `cons` and the directory, `SYS_SEEK` takes the
generic path of `vfs_seek`, which leaves any position (`vfs_seek_node`,
`vfs_seek_root`, `Sought`), also one past the text of `fbctl`; a listing keeps 32
bits of it (`Idx`). `DevfsTypeOK` therefore bounds the position of the framebuffer
only. A byte of the disk is the number of the write it came from; `wanted` is the
disk as the writes meant it.

`SysEntry` - what is saved where. `PushOrder`, `TfOffset`, `PopOrder`,
`IsrOrder` and `TrapretOrder` are the tables the assembly is; a frame is the
sequence of values pushed, and popping reads it by position, so an order that
does not match shows up as a register with another's value. Register values are
fresh each time a program computes. `krsp` is the stack an entry goes to, which
the scheduler sets. `want` is what a program should find.

`Exec` - loading a program, byte by byte: `read_elf`, one page of a segment per
step, the stack pages, then the strings and the table of `setup_user_stack`.
The byte at offset o of the file has the value o + 1, so that misplaced bytes
are seen. `Room` and `Fits` say when the strings and the table fit in the page.
`JobsAssumption` has the types of the headers and that a string has at least
its NUL.

`Console` - `kconsole_putc` over a screen of cells. A text comes with its
meaning (the colour numbers and the characters for the screen), and the ghost
`page`, which never scrolls, is typed from the meaning alone.

`Ps2` - the driver over a model of the 8042: one buffer `obuf` of bytes tagged
with their device, whose first byte raises its device's interrupt. Scancodes and
packets are the real bytes. `typed_runes` and `moves` are what the user meant at
the time of the key or the movement. `calm` is the set of devices of which
`ps2_init` has read all answers and nothing else.

`Boot` - `_start` from the SMP part on and `ap_entry` on every other CPU, for
each of a set of machines (APIC ids in the loader's order).

`MCFs` puts `Files`, `Vfs`, `Ext2` and `Devfs` in one run, and `MCKernel` puts
`Blk`, `Ring`, `Ps2`, `Console`, `SysEntry`, `Exec` and `Boot` in another. These
share no state at the level they are modelled at, so `part`, chosen at the start
and never changed, says which of them moves; the run explores the sum and not
the product of their state spaces, and each property is about one of them. The
other `MC*` modules and the `*.cfg` files only give constants values.

The proofs about `Files`, `Devfs` and `Ext2` are in `FilesProofs`, those about
`Vfs` in `VfsProofs`; those about `Blk`, `Ring`, `SysEntry` and `Exec` are in
`KernelProofs`, those about `Console`, `Ps2` and `Boot` in `DeviceProofs`.

## 3. Runs

| Run | Instance | Shows |
|---|---|---|
| `sched_up` | 1 CPU, 3 slots, 4 pids, 3 nested interrupts | `TypeOK`, the inductive invariant `IInv` (user code preemptible and pids unique are two of its conjuncts), `NoPanic`, `ReapedByParent` |
| `sched_smp` | 2 CPUs, 3 slots, fork and exit | `IInv`, `CurrentProc`, `OneCpuPerProcess`, `LockBalanced` |
| `sched_live` | 1 CPU, 2 slots, fair | `RunnableRuns`: no runnable process starves; `WaitReturns`: wait returns when a child is a zombie |
| `sched_smp_wait` | 2 CPUs with wait | violation of `CurrentProc` |
| `buddy` | 2 CPUs, orders 0-2, 3 regions of which one has no whole page, requests of 0-3 pages | `NoOverlap`, `NoLeak`, `Aligned`, `Coalesced`, `IInv`, refinement of `PageAlloc` |
| `addrspace` | 2 CPUs, 2 slots, 14 pages, 4 calls | `TypeOK`, `NoAlias`, `NoLeak`, `OwnSpace`, with memory running out at every `kalloc` |
| `addrspace_cr3` | the same | violation of `Cr3Intact` |
| `fs` | files: 1 CPU, 2 processes, 3 descriptors, 3 files; vfs: 3 mounts, 7 paths, 27 pages; ext2: a file over all levels of the block map and a directory; devfs: 3 nodes, 3 sectors | `TypeOK`, with the position in the framebuffer inside it; `RefsExact`: a count is the number of descriptors; `WalkCorrect`: a path finds what it names; `MountRootsAlive`: no mount's dentry is freed; `ReadFaithful`, `DirComplete`, `MountFailsClean` of ext2; `ListedOnce`, `DiskAsWritten` of devfs |
| `vfs_dotdot` | the same mounts and one path more, `/dev/../../bin` | violation of `MountRootsAlive` |
| `kernel` | see section 4; fair | `TypeOK`; `OwnCompletion`, `RequestLive`, `SubmitReturns` of the block layer; `OnlyOverflowLoses` of the ring; `InputAsSent`: programs read what the user did; `ScreenIsWindow`; `RegsIntact`: a program finds its registers, all of them after an interrupt; `ImageLoaded`, `ArgsIntact`; `Online`: all CPUs come up |
| `blk_syscall` | AHCI in a system call | violation of `SubmitReturns` |
| `sysentry_result` | 2 CPUs, 2 processes | violation of `ResultReturned` |

Every property of a passing run has a mutant: an operator with a plausible bug
(a lock not released, a buddy left on its list, a reference not taken) that
replaces a definition and makes TLC report the property.

## 4. Bounds

- `Sched`: three slots are a parent, a child and a grandchild or a sibling;
  `MaxPid` lets a slot be reused once, which is what uniqueness of pids and
  stale parents need. `MaxNest` = 3: `IInv` shows that a frame above the first
  is always an interrupt on its way out, so depth 3 repeats depth 2. The
  theorems hold for every value of all of these.
- `Buddy`: with `MAX_ORDER` = 3 there is a smallest, a middle and a largest
  order; the three regions adjoin, so blocks of one merge with blocks of
  another, the second ends inside a page and the third has no whole page.
  Proved for every value.
- `AddrSpace`: two processes, each with up to seven pages (stack, pml4, two
  tables, text, stack, heap), fill the fourteen pages, so every `kalloc` both
  succeeds and fails. `MaxCalls` = 4 is what it takes to grow, shrink and grow
  the heap around a fork or an exec.
- `Vfs`: 27 pages are enough for initfs, ext2 and devfs to be mounted (13 pages)
  and for a few lookups after that, so that every operation also meets each of
  its failing allocations. Two mounts on `/` hide one another, and the paths
  have ".", ".." inside a mount and at its root, a file used as a directory, a
  name that does not fit, and names below a mount.
- `Ext2`: two pointers to a block give 12 direct, 2 single, 4 double and 8
  triple indirect blocks; a file of 102 bytes in blocks of 4 ends inside the
  last one. Reads of 1, 7 and 110 bytes start and end inside and at block
  boundaries, holes lie in the direct and in the indirect ranges, and offsets
  wrap at 256. Blocks of data, single and triple indirect blocks fail. Directory entries are deleted at the start, in the middle and at
  the end of a block.
- `Devfs`: three slots and four registrations reuse a slot during a listing;
  transfers of 1 and 3 bytes over sectors of 2 begin and end inside a sector;
  the seek argument 15 is -1 in 4 bits, and a u32 has 3 of them, so that a listing
  is also sought to positions that wrap to a slot.
- `SysEntry`: two processes on two CPUs, one the child of the other, and two
  sets of register values: a process goes on after the other has used its CPU.
- `Exec`: pages of 16 bytes and words of 2; segments start before, at, inside
  and across pages, have zeros after their bytes or none, share a page or not;
  the arguments leave room, fill the page exactly and do not fit.
- `Console`: a screen of 2 by 2 and three parameters; five texts wrap and
  scroll it several times with colours changed in between.
- `Ps2`: three key events of which one may come during `ps2_init`, one packet, a
  handler that takes two bytes at a time instead of 64, so that bursts end
  inside packets and prefixed keys.
- `Boot`: one to four CPUs with three slots, the boot CPU first, in the middle
  and last.
- `Files`: three descriptors are the standard ones, so tables are full or
  nearly so most of the time; with three files the heap is full too.
- `Blk`: six requests on two AHCI slots let both slots be lost to errors and
  calls go on without any.
- `Ring`: capacity 3 and keys of up to four bytes reach both overflow paths;
  `U32` = 16 is large enough not to wrap by itself and small enough to show a
  length that has gone below zero.

## 5. Fairness

`Sched!Fairness`: a CPU does not stop between instructions (WF of `Step`); the
local APIC keeps the timer interrupt pending until IF is set, so it is taken
although IF comes and goes (SF of `Timer`); and the timer period is longer than
a few instructions, so the code at each depth of nesting makes progress between
interrupts (SF of `Progress`). Without the last, a process in `sys_wait` could
be preempted for ever at the same instruction.

`MCKernel!FairSpec` has the fairness of two components. `Blk`: a CPU that is not halted goes on, the device answers each
command, a pending interrupt is taken when IF is set, and the periodic timer
ends a `hlt` of a CPU that has IF set. A CPU halted with IF = 0 has no fair
action: that is what `blk_syscall` shows. `Boot`: every processor runs, so the
boot CPU's loop and the others' way through `ap_entry` go on (WF of `BspStep` and
`ApStep`). No progress is claimed of `ps2_init`, which waits for a mouse for ever.

## 6. Proofs

Every theorem below is proved for all values of the constants that satisfy the
named assumptions of its module; a further hypothesis stands in the theorem
itself. In each module the shape is the same: an inductive invariant, one
lemma per action with a step per conjunct the action can disturb, and a last
step that combines them.

| Module | Theorem | Property | Hypothesis besides the module's |
|---|---|---|---|
| `SchedProofs` | `Invariance`, `TypeCorrect`, `CurrentProcSafe`, `StackExclusion`, `LockDiscipline`, `PanicFree`, `ReapSafe` | `IInv`, `TypeOK`, `CurrentProc`, `OneCpuPerProcess`, `LockBalanced`, `NoPanic`, `ReapedByParent` | `Pinned`: one CPU, or no calls of wait |
| `BuddyProofs` | `BuddyInvariance`, `BuddyNoOverlap`, `BuddyNoLeak`, `BuddyAligned`, `BuddyCoalesced` | `IInv`, `NoOverlap`, `NoLeak`, `Aligned`, `Coalesced` | none |
| `BuddyProofs` | `BuddyRefinement` | `RefinesPageAlloc` | none |
| `AddrSpaceProofs` | `TypeSafe`, `PagesApart`, `PagesAccounted`, `RunsInOwnSpace` | `TypeOK`, `NoAlias`, `NoLeak`, `OwnSpace` | none |
| `FilesProofs` | `FilesTypeSafe`, `CountsExact` | `RefsExact` | `NCpu = 1` |
| `FilesProofs` | `DevfsTypeSafe`, `ListingExact`, `WritesExact` | `ListedOnce`, `DiskAsWritten` | none |
| `FilesProofs` | `Ext2TypeSafe`, `MountClean`, `ReadsExact`, `ListsAll` | `MountFailsClean`, `ReadFaithful`, `DirComplete` | none |
| `VfsProofs` | `VfsInvariant`, `VfsTypes`, `LookupCorrect` | `WalkCorrect` | none |
| `VfsProofs` | `RootsAlive` | `MountRootsAlive` | `ClimbsLast`, always |
| `FilesProofs` | `FsTypeSafe` | `MCFs!TypeOK` | `NCpu = 1` |
| `KernelProofs` | `BlkTypeSafe`, `ResultIsOwn`, `RequestNotDead` | `OwnCompletion`, `RequestLive` | `Callers = {BSP}` |
| `KernelProofs` | `RingTypeSafe`, `RingFaithful` | `OnlyOverflowLoses` | `RingCpus = {KbdCpu}` |
| `KernelProofs` | `SysEntryTypeSafe`, `RegistersKept` | `RegsIntact` | none |
| `KernelProofs` | `ExecTypeSafe`, `ArgsHandedOver` | `ArgsIntact` | none |
| `KernelProofs` | `ImageExact` | `ImageLoaded` | `SegmentsBelowStack` |
| `DeviceProofs` | `ConsoleTypeSafe`, `ScreenFollows` | `ScreenIsWindow` | none |
| `DeviceProofs` | `Ps2Invariant`, `Ps2TypeSafe` | | none |
| `DeviceProofs` | `InputKept` | `InputAsSent` | `SmallMotions` |
| `DeviceProofs` | `BootTypeSafe`, `SlotsApart` | `EachInItsSlot`, the safety half of `Online` | `BspFits` |
| `KernelProofs` | `KernelTypeSafe` | `MCKernel!TypeOK` | `Callers = {BSP}`, `RingCpus = {KbdCpu}`, `BspFits` |

Where a hypothesis restricts the CPUs, the code shares state without a lock and
the property is false without it (section 7): the proofs say that one CPU is
enough, not that one is all there is. `SegmentsBelowStack` says that no segment
of any program reaches the stack; `elf_load_segments` does not check it, and the stack
would replace such a page. `ClimbsLast`: whenever something is mounted, a path
leaves the root of a mounted file system by ".." with its last component only;
`vfs_dotdot` is the run that breaks `MountRootsAlive` without it. `SmallMotions`:
no movement of the mouse is of 128 or more to the right or upwards, as
`process_mouse_packet` takes such a one for a negative one. `BspFits`: the boot
CPU's APIC id fits in `cpus[].apic_id`; an id that is cut could be that of another
CPU, which would then share slot 0. The instances of section 3 satisfy all of
them, the two violation runs made to break one excepted.

`SchedProofs`. The properties are not inductive by themselves: that a process
resumes on a stack nobody uses depends on where each idle thread was left
(`IdleInv`), on who owns an EMBRYO slot between two critical sections
(`CreatorInv`), on the locals of `yield` still naming the CPU they were read on
(`LocalInv`), on interrupts being off at the points where the locals are in use
(`MaskInv`), and on every saved frame returning to a point that was
interruptible (`FrameInv`). `LocalInv` is where `Pinned` is needed: without it a
process in `sys_wait` moves between the read and the use, which is
`sched_smp_wait`.

`BuddyProofs`. `NoOverlap` alone is not inductive: merging is sound only
because blocks are aligned (a block and its buddy make an aligned block of the
next order), because only the holder of the lock has a block in hand that is
also on its way to a list (`LockInv`), because a block being split is at least
as large as the request (`RequestInv`), and, at boot, because everything handed
over lies below `p` (`BootInv`). `Coalesced` speaks of moments when nobody has
the lock; it rests on `Merged`, that no list below the largest order ever holds
a block and its buddy, inside the critical sections too. The assumptions are
that the sizes double and that the memory map is sorted without overlaps.

The refinement takes each step of `Buddy` to a step of `PageAlloc` or to a
stutter: merging and splitting move pages between blocks and leave `AbsFree` as
it is. The hard case is a `kalloc` that returns 0, which `PageAlloc` allows only
if no aligned run of free pages is long enough. Suppose there were one, with no
free block of that order or a larger one. Among the blocks in it take one of the
least order (`NoRun`, a least element of a set of naturals by well-foundedness):
its buddy lies in the run too and is covered by free blocks that are no smaller
and aligned, hence by one of the same order, against `Merged`.

`AddrSpaceProofs`. Its `IInv` is `TypeOK`, `OwnSpace` and `NoLeak` with: what the
locals of a call are at each of its points (`LocalInv`), what a slot has in each
process state (`SlotInv`), that every table tree has one owner, a slot or the
call that builds it (`RootInv`), that a page that is no root has an empty tree
(`Tidy`), and that two holders never hold the same page and no held page is free
or lost (`Exclusive`, which is stronger than `NoAlias` in that it also names who
holds a page). The lemmas `Kept`, `Released`, `Still` say once what a step that
changes few holders does to `Exclusive` and `NoLeak`; each action cites them.
`Ascending` enumerates a finite set of naturals in order: that it exists, is
strictly increasing and has exactly the elements of the set is proved in
`SetOrderProofs` with a least counterexample, a set of naturals, in place of an
induction over sets. The levels of tables, the images and the number of pages are
arbitrary.

`FilesProofs`. `RefsExact` has the pending calls in it: the count of a file is
the number of descriptors on it, less the references still to be taken, plus
those still to be given back. To be inductive it needs that on one CPU only one
process has calls pending (`Alone`), that a count loaded is the current one
(`Loaded`), that a process not alive has an empty table unless
a fork is about to publish it (`Unused`), and which
lists of calls occur (`Shaped`). The counting lemmas are about cardinalities of
sets of descriptors and of positions in a list.

`FilesProofs`, `Devfs`. `ListInv` follows a listing: what it has shown, with the nodes
still ahead of its position, is every node that was ahead when it began, or was
sought, and stayed; a slot reused behind
the position is not shown again. `DiskInv` follows the read-modify-write.

`FilesProofs`, `Ext2`. `MountInv` has the table of what is held before each step
(`HeldAt`): what a failing step frees is exactly that. The block map is proved
level by level: `ViaSingle` and `ViaUpper` say what following one pointer finds
(the block that holds the data, a hole only if all blocks below are holes, or
`Unread` if the pointer block is among those that failed), and `BlockMapFinds`
puts them together with the quotients and remainders of the code, for every
number of pointers to a block. `ReadInv` then follows the loop: the bytes so far
are right and the call asks for nothing beyond the end. `DirInv` says that the
entries listed are, in order, those in use between `begin` and `f->pos`. `DirentsAssumption`
is about the disk: records follow one another, no name is in use twice, and none
is in use after a record too short to be one, at which the code stops.

`KernelProofs`, `Blk`. `PhaseInv` says in which phases a request can be (not
submitted, polled, under way, signalled, answered) and what the driver, the
device and the interrupt line are in each; `Links` that `current_req` and the
command slot name the request of the caller that waits.

`KernelProofs`, `Ring`. `RingOrder`: the `len` bytes behind `head`, modulo the
capacity, are the last ones put, in order. `RingPhase` and `ReadPhase` are the
states within `ring_putc`, `ring_write` and `ring_read`, where `head` and `len`
do not agree yet. `RingAssumption` asks that twice the capacity does not wrap.

`KernelProofs`, `SysEntry`. `OwnStack`: the CPU that runs a process enters the
kernel on that process's stack. `RegsSaved`: whatever state a process is in, the
registers it should find are either in the machine, in the frame on its stack in
the layout of the path that will restore it, or in `p->tf`. That covers `rax`
through interrupts; only where the result of a call is due (`Results`) nothing is
claimed of it, as `sysentry_result` shows. The push and pop
orders are tables, and that each pop reads what the matching push wrote is
proved by positions.

`KernelProofs`, `Exec`. `LoadPhase` says how far the two loops have come: which
pages the headers before `hdr` and, of the current one, the pages before `va` have
mapped. `PagesInv` says that each of them has what the last of these segments puts
there (`IsLast`), so that nothing is assumed of their order or overlap.
`ArgsPhase` says which strings are in the page (`Strings`), where `sp` and the
pointers in `uvas` are, and that below `sp` the page is still blank.
How much of the page the strings take is a sum over the arguments. It is given
by the function `room`, one value per argument, that `Fits` asks for, so that
the proof follows the copying loop step by step and needs no induction.

`VfsProofs`. `VfsInv` has five parts: the file systems and directory names;
the dentries (`DentOK`: a parent is older than its child, and a dentry without
one is the root of its file system);
the mounts (`MountsOK`: each has a root of its own, the only dentry without a
parent that a walk inside it meets, and only the last is mounted nowhere); that
the table of what is to be seen where agrees with the list of mounts
(`TableOK`); and the pages (`PagesOK`: what can still be given back fits in what
there is, which is why `free` never runs over). `LookupCorrect` follows a walk
component by component: while no component has climbed out of a mount, the
dentry the walk is at, looked through all mounts on it, is the inode that
`RefWalk` has got to with the components read, `..` having taken away the last
of them. A walk that ends early has either met a name that is not there, which
the reference does not find either, or failed to allocate. `RootsAlive` follows
the references instead: the dentries a walk gives back are those it made, as long
as it does not take the root of a mount for one of them, which happens where a
".." leaves the mount and something follows.

`DeviceProofs`, `Console`. The invariant says that there are a page `pg`, a text
`t` and a number `k` such that `t` is the text being written with what is on the
screen already left out, `pg` is the page so far, whose last lines the screen
shows (`Window`), the ghost `page` is `pg` with the rest of `t` shown on it, and
the escape parser is where `k` characters of the opening of `t` leave it
(`ReadTo`), with the numbers read so far in `esc_params` (`Collected`). Typing a
text and applying its numbers are folds, and a fold over two parts is the fold
over the second from the result of the first; so every `kconsole_putc` takes one
character from the text to the page.

`DeviceProofs`, `Ps2`. The invariant looks ahead: if the driver decoded the bytes
that wait in the controller one after the other, from the state it is in, it
would have given out all that the user has done (`KbdInv`, `MouseInv`). A key or
a packet adds bytes at the end, and what they decode to is what the user meant
(`CodeIs`, `ThreeBytes`); an interrupt takes bytes from the front, which leaves
the fold as it was; bytes of the other device do not change it. Then `InputAsSent`
is the case of an empty buffer.

`DeviceProofs`, `Boot`. Until the boot CPU has given out all slots no other CPU
is let go (`SlotsGiven`); each that runs has found the slot with its id
(`SlotsFound`), so the slots tell the CPUs apart, those that run are at most
`ncpu - 1`, and the barrier waits for as many.

`MCFs` and `MCKernel`. A step of the whole is a step of one component and leaves
the others as they are (`FsSteps`, `KernelSteps`), so a behaviour of the whole is
one of each component, and what is proved of the components holds of the whole.

Induction over data. A property of a fold over a sequence of any length cannot be
proved with an induction theorem that takes a predicate. Where it was needed, the
set of the lengths for which it holds is shown to contain 0 and with n also n + 1
(`SetInduction` in `SetOrderProofs`, itself from a least counterexample). The
folds of the community modules are functions over the subsets of a domain; for
each folded operator one lemma (`TypedFold`, `WalkFold` and others) gives the
sequence of its intermediate values, and the rest goes step by step.

What is only model-checked, and why: liveness (`RunnableRuns`, `WaitReturns`,
`SubmitReturns`, and of `Online` that the boot CPU gets to its scheduler), as
fairness and ENABLED are out of the prover's reach. Every other property of a
passing run is stated by a theorem.

## 7. What the runs show about the code

On one CPU the process core, descriptors and rings are correct as checked; the
allocator is correct on any number of CPUs. Paths, ext2, devfs, the console, the
input devices, program loading and bring-up do what they should within the
limits below. The five violation runs each end in a trace through the code:

- `sched_smp_wait`: `yield` (proc.c:476) reads `mycpu()` before `acquire`
  turns interrupts off. Called from `sys_wait` with interrupts on, the process
  can be moved to another CPU in between and then clears the wrong CPU's
  `proc`.
- `addrspace_cr3`: a CPU that goes idle stays on the page tables of the process
  it ran last; `sys_wait` on another CPU frees them and they are reused.
- `blk_syscall`: a system call that reaches an AHCI disk executes `hlt` with
  interrupts off and never returns.
- `vfs_dotdot`: the dentries without a parent, which `vfs_dentry_put` frees as
  temporary (vfs.c:36), are the roots of mounts. The walk of `/dev/../../bin`
  leaves devfs's tree but not its mount, takes the root of ext2 for a temporary
  dentry and frees it.
- `sysentry_result`: `pop rax` (syscall_entry.asm:138) replaces the handler's
  result by the number of the system call.

Known limits that the models contain as steps and the properties allow for:

- `fork` and `proc_create` that fail after `proc_alloc` lose the kernel stack,
  and `sys_brk` that grows over pages it left mapped loses them (`lost` in
  `AddrSpace`; `NoLeak` says that nothing else is lost).
- `map_page_pml4` does not test `kalloc`, and `proc_exec` reads the path after
  it has replaced the address space: both are page faults (`panic`).
- `copy_user_pml4` skips a page it cannot allocate (`CopySkip`).
- `ata.c` drops an error that the drive reports only in its own status
  register: the outcome `unreported` of `Blk` is returned as success.
- Shared state without a lock is checked on one CPU, where a system call is not
  interrupted: with two, `refcnt` loses updates and a file in use is freed
  (`Files`), a second request takes the first one's completion (`Blk`), the ring
  loses count (`Ring`), and two writers mix on the console (`Console`).
- Every lookup loses its dentries and inodes, as `vfs_tmp_dentry` gives them a
  parent and only those without are freed; and a mount can be removed only when
  another one hides it or the path leaves it with "..", because `vfs_umount`
  compares the dentry that the lookup ends at (`Vfs`).
- ".." at the root of a mount goes to the mount point, not to its parent
  (documented as best effort): `WalkCorrect` leaves such paths out.
- `ext2_block_map` does not look at whether a pointer block was read, nor
  `blkdev_write` at whether the sectors to be changed were (`ReadFaithful`,
  `DiskAsWritten` except just these bytes). A hole ends a read of ext2.
- `read_elf` takes a short read for a complete one; of two segments on one page
  the later replaces the other; arguments that do not fit in a page are written
  below it, and when `kalloc` fails the program gets none (`Exec`).
- `ps2_init` takes any byte for an answer. A mouse that acknowledges its reset,
  or a key pressed meanwhile, leaves a stray byte that shifts every later
  packet: `InputAsSent` is about devices in `calm`. Movements of 128 and more to
  the right or up come out negative, and are not among the packets. Releasing
  one of two shift keys ends the shift.
- An APIC id of 256 or more does not fit in `cpus[].apic_id`: that CPU halts and
  the boot CPU waits for ever. The instances of `Boot` have ids below `U8`.
- `struct pipe` is larger than the page `pipe_create` allocates for it, and its
  memset clears the start of the next page. `sys_close` clears a descriptor
  with an index it has not checked in full. Contents of pages and bits above the
  32nd are outside the models.
- `vfs_umount`, `ext2_readdir`, `devfs_readdir` and `devfs_unregister` have no
  caller at this commit (all nodes are registered at boot). They are modelled as
  operations, with `DirComplete` and `ListedOnce` about what they promise a future
  caller; no hazard of the running system rests on them.
- A child whose parent has exited stays a zombie: nothing adopts it.
- Pipe files have no `fops`, so reads and writes of a pipe fail.

## 8. Not modelled

- Device set-up (AHCI port start-up, IDENTIFY, APIC, PCI, ACPI, serial): fixed
  sequences of register accesses without state of their own. The models take
  from them where interrupts go.
- printf, klog, string functions, font rendering: output and library code.
- The boot protocol (`limine.h`) and its responses, but for the memory map.
- `pipe_read`, `pipe_write` and `pipe_close`: no call reaches them at this
  commit, as pipe files have no `fops`. Modelling them would check code that
  does not run.
- Text that is only formatted: `mouse_read`, `mousectl_read`, `fbctl_read` (its
  length and position are modelled, the position also as the generic path of
  `vfs_seek` sets it).
- The kernel half of the page tables (`map_page`, `map_mmio`), which changes
  only at boot, and TLB contents.
- User programs: any process may make any system call at any time.

## 9. Plan

All components with logic of their own are modelled, and every safety property
that a run checks is proved. What could follow, most important first:

1. Two CPUs. `RefsExact`, `OwnCompletion` and `OnlyOverflowLoses` are false with
   two, so that the next step is a lock in the code and its steps in `Files`,
   `Blk` and `Ring`.
2. `AddrSpace` over `PageAlloc`, so that `NoAlias` rests on the allocator that
   `Buddy` is shown to implement. Freeing a space is one step now and would have
   to be one per page.
3. `pipe_read`, `pipe_write` and `pipe_close`, once pipe files have `fops`.
