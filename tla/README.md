# HPCAP: a TLA+ verification development

HPCAP captures network traffic at 10 and 40 Gb/s on commodity NICs.  A kernel
module (`src/driver/common`, built into modified `ixgbe` and `i40e` drivers)
takes frames out of the RX descriptor rings with one or more poll threads per
queue, stores them in a circular buffer, and a client library
(`src/srclib/libhpcap`) reads that buffer, mapped into the client's memory, with
no copy.  Almost nothing in it is protected by a lock: the poll threads share the
descriptor ring and one running write offset, and the clients come and go while
the poll threads run.  That is what is modelled here.

Paths below are under `src/driver/common/` unless they say otherwise.

## 1. The system

| component | code | state | operations |
|---|---|---|---|
| RX descriptor ring | `hpcap_rx.c` 21-252, 334-425, 665-726 | descriptors and their DD bits, NIC head, tail register, `can_free[]`, `freed_last_rxd[]`, `thi->rxd_idx` | `check4packet`, `hpcap_advance_read_descriptors`, `rxd_calc_next`, `can_lock_ring` |
| Capture buffer | `hpcap_rx.c` 468-663, 739-860; `hpcap_listeners.c` 52-133 | the bytes, `consumer_write_off`, the global listener's offsets | `hpcap_rx`, `hpcap_poll`, push and pop of listeners |
| RAW stream | `hpcap_rx.c` 427-663; `srclib/libhpcap/libhpcap.c` 398-516 | records in files of `HPCAP_FILESIZE` bytes, padding | `set_padding`, `hpcap_read_packet` |
| Listener slots | `hpcap_listeners.c` | `listeners[]`, `listeners_count`, `already_popped` | `hpcap_add_listener`, `hpcap_del_listener`, reset, `hpcap_push_all_listeners`, `hpcap_pop_global_listener` |
| Character device sessions | `hpcap_cdev.c`, `hpcap_listeners.c` 206-348 | `opened`, `last_handle`, kill marks, `force_killed_listener_ids` | open, release, read, ioctls `KILLWAIT`, `KILL_LST`, `LSTOP` |
| Client handle | `srclib/libhpcap/libhpcap.c` 22-315, 639-691 | `rdoff`, `avail`, `acks` | `hpcap_wait`, `hpcap_ack`, `hpcap_ack_wait(_timeout)`, reads |
| Poll thread launch and stop | `hpcap_rx.c` 730-1000 | `created`, `thread_state`, the marks and offsets the launch resets | `hpcap_launch_poll_threads`, `hpcap_stop_poll_threads`, the loop of `hpcap_poll` |
| Hugepage buffers, mapping | `hpcap_hugepages.c`, `hpcap_vma.c`, `srclib/libhpcap/libhpcap.c` 75-160, 519-653 | `bufferCopia`, `old_buffer`, `bufSize`, `huge_pages`, `mmapCount` | `HUGE_MAP`, `HUGE_UNMAP`, `BUFINFO`, `mmap`, `hpcap_map`, `hpcap_map_huge` |
| Device registration | `driver_hpcap.c`, `hpcap_cdev.c` 20-123, the HPCAP calls of `hpcap_i40e-2.4.6/driver/i40e_main.c` | `adapters[]`, `bufp` of each ring, the device regions | load, probe, `hpcap_register_adapters`, remove, unload |
| Parameters and PCI numbering | `hpcap_params.c`, `hpcap_pci.c` | `Mode`, `Pages`, `hpcap_iface_pci_ids` | the check at the load, the reading at the probe, the numbering |
| Duplicates, filters, statistics | `hpcap_dups.c`, `hpcap_sysfs.c`, `hpcap_latency.c`, `hpcap_rx_profile.c` | | |
| Monitoring library, samples | `srclib/libmgmon`, `samples/` | | |

How they interact.  The NIC writes a frame in a descriptor and sets its DD bit.
A poll thread finds it (`check4packet`), reserves room with one atomic add on
`consumer_write_off`, copies the frame, and now and then gives descriptors back
through the tail register.  Poll thread 0 alone, between two calls of
`hpcap_rx`, moves the global read offset up to the slowest listener and pushes
what was reserved to every listener (`hpcap_poll`).  A client sees its listener
through ioctl `LSTOP` only: it tells what it has read and is told the offset to
read from and how much there is.  Opening, closing and killing go through the
character device and a spin lock the poll threads never take.  The interface
going up and down launches and stops the threads one at a time; `HUGE_MAP` and
`HUGE_UNMAP` replace the buffer under all of them; and everything starts with the
registration, which numbers the cards, cuts the buffers out of one pool and makes
a character device for each queue.

What is hard in it, and hard to test:

* two or more poll threads pass the right to write the tail register to each
  other with plain test-and-clear marks, and the release happens in two places;
* a limit computed from offsets that everybody else moves; bytes reserved by one
  thread and published by another;
* two moduli at once, the buffer and the file, with padding between them;
* listeners added and deleted in the middle of the poll thread's loops;
* a kill that closes a file under a program which is reading or closing it;
* the client's own copy of its offsets, which has to stay in step with the
  driver's across timeouts and killed waits;
* the buffer full, the ring empty, everyone waiting;
* threads that start and end one by one over marks and offsets each of them
  resets for itself;
* a buffer replaced while it is written and mapped, by calls that take no lock
  and fail half-way;
* queues registered one by one, any of which may fail, for cards that are found
  in any order, unbound and plugged in late.

`PROJECT.json` lists each of these at its line, with the properties that would
catch it going wrong.

## 2. The modules

| module | models | composed with |
|---|---|---|
| `RxRing` | the descriptor ring, NIC and poll threads | |
| `RxRing_proofs` | theorems about `RxRing` | extends `RxRing` |
| `CaptureBuffer` | reservation, copy, publication, reclaim with fixed listeners | implements `FrameBroadcast` |
| `CaptureBuffer_proofs` | theorems about `CaptureBuffer`, and its refinement | extends `CaptureBuffer` |
| `FrameBroadcast` | abstract: each reader gets the same stream of whole records | |
| `RawFile` | the records, padding and files inside the buffer, and the client that reads packets | |
| `Listeners` (`MCListeners`) | listeners that come and go against one poll thread | |
| `Listeners_proofs` | theorems about `Listeners` | extends `Listeners` |
| `Sessions` (`MCSessions`) | open files: open, release, read, kill | |
| `Sessions_proofs` | theorems about `Sessions` | extends `Sessions` |
| `ClientHandle` | the library's handle against its listener | |
| `Client_proofs` | theorems about `ClientHandle` and `RawFile` | extends both |
| `PollThreads` | launch, stop and loop of a queue's threads, with a client that comes and goes | |
| `PollThreads_proofs` | theorems about `PollThreads` | extends `PollThreads` |
| `BufferMemory` (`MCBufferMemory`) | replacement by hugepages, mapping, and the thread's use of the buffer | |
| `BufferMemory_proofs` | theorems about `BufferMemory` | extends `BufferMemory` |
| `Registration` (`MCRegistration`) | parameters, numbering, probe, registration, unloading | |
| `Registration_proofs` | theorems about `Registration` | extends `Registration` |

The `MC` modules only add the symmetry set TLC uses, or the values of constants
that are functions and sets of records.  An operator whose comment
says "Mutant of X" is a deliberately wrong X, kept to see that the properties
notice it; no specification uses it.

### RxRing

State: `hasData` is the DD bit of each descriptor; `head` and `tail` delimit what
the NIC owns; `canFree` and `freedLast` are the marks of the same name; `rxdIdx`
is `thi->rxd_idx`; `qidx`, `lastRead`, `reads` are locals of `hpcap_rx`
(`reads` counts modulo the batch, keeping 0 apart).  `ReadFrame` is one turn of
the loop (`check4packet` to the test at line 686), `ExitLoop` the call behind the
loop (694).  `hpcap_advance_read_descriptors` is split at every access to state
another thread uses: `TakeMark` (189), `Grant` (194), `TestCanFree` (204),
`Release` (the tail register), `MarkFreed` (239), `UnsetCanFree` (244), `Finish`
(251).  The NIC is external: it fills its next descriptor as long as it owns
one.  History variables `retired` and `repeated` remember that a call has
released its last descriptor, and that it then took a mark to release it again.

### CaptureBuffer and FrameBroadcast

State: `writeOff` is `consumer_write_off`; `globalRd`, `globalWr`, `rd`, `wr` are
the offsets; `limit`, `cnt`, `start`, `size` are locals of `hpcap_rx`.  Each byte
of the buffer (`cell`) is a hole, written when it is reserved, or a byte of a
record: a bit that alternates from record to record and a mark on the first byte.
`StartRx` (line 782), `Reserve` (574-599), `Copy`, `EndRx`, `PopGlobal`,
`PushAll` (830) are the steps of a thread, `Ack` is the client.
`FrameBroadcast` says what a capture buffer promises: there is one stream of
records, every reader gets all of it, whole and in order, at its own pace.
`ImplementsBroadcast` is the refinement; its mapping reads the queue of a
listener out of the bytes between its two offsets.

### RawFile

Each byte is the first of a record, with the kind and length a reader would find
there, or any other byte.  `Reserve` with `PadTail`, `PadHead`, `PadGap` and
`WriteFrame` are the `do` loop of `hpcap_rx` (569-663), record by record.
`stage` is where each thread is in it; `writeOff`, `readOff`, `pubOff` are the
running offset and the client's two.  The names differ from those of the other
modules so that one module can state theorems about this one and another.
`ReadPacket` is `hpcap_read_packet`: it follows the lengths in the headers over
at most four of them, and aborts where the code does.  History variables:
`misread`, that the client read a header that lies across the end of the buffer;
`strayed`, that a reservation ended inside the first header of a file, or that a
padding header was written on bytes reserved before it and not read yet, be they
published or not, or on the first byte of its own reservation (`NotReadBefore`).
That takes a nearly full buffer (section 5).

### Listeners

The poll thread's program counter `ppc` goes through `hpcap_poll`: the count,
the reset (three steps, because it runs against `hpcap_add_listener`),
`hpcap_rx`, the pop (two steps per slot: its id, its read offset), the push of
the global listener and of each slot.  A client's `cpc` goes through
`hpcap_add_listener` and `hpcap_del_listener` step by step, and acknowledges in
two (`already_popped`, then the pop).  Every record has `FrameLen` bytes, so
"the start of a frame" is a multiple of it.  `raced` remembers that an add or a
delete overlapped an unlocked update of the poll thread, `unreset` that a first
listener came before the poll thread had reset the offsets.

### Sessions

One variable per field of the device (`opened`, `lastHandle`, `count`, `killed`)
and of a slot (`id`, `kill`, `pending`, `filp`), one program counter per program.
`hpcap_open` is `CountOpen`, `TakeHandle`, `AddListener`, `SetPrivateData`, with
`OutOfMemory` and `UncountOpen` as its failures; `hpcap_release` is
`ReleaseListener` and `ReleaseOpened`; `hpcap_kill_listener` is `StartKill`,
`KillClose`, `KillRecord`, `KillDelete`.  A kill is of any handle that has a slot:
its program may be using it, closing it, still in its open, or be the killer
itself.  `at` keeps the slot pointer over the sleeps, as the code does, and
`KillClose` closes whatever file `filp` names there by then: `filp` is stored by
`SetPrivateData` and cleared by nobody, so it may be the victim's, that of the
slot's next owner, that of an earlier one, or NULL, on which the killer dies.

The kernel's file layer is external.  The release of a dropped file runs once, at
once or later.  Closing a file that was already freed does nothing, or drops a
younger file that was given its memory (`Struck`).  A program whose file was closed
under it makes no new call with it; what the kernel does with a file that has
lost one reference too many is not followed further.

### ClientHandle

The handle starts as `hpcap_open` leaves it, all 0, and the listener with any
offsets and kill mark, because `hpcap_add_listener` takes the offsets of the global
one and leaves the mark of the slot alone.  `_hpcap_do_listener_op` is `StartOp`
(the ioctl, which pops), the wait (`WaitEnds`, `WaitKilled`) and `Answer` or
`Abort`; `IoctlFails` is the ioctl that is refused.  `lstop` is the structure the
driver answers in; a killed wait leaves in it whatever was on the stack, any
values of a word (`Word`).  `Delete` and `List` are what a kill does to the
listener (`slot`).  `Read` is a read of bytes that are there, `ReadPast` one of
`hpcap_write_block` or `_hpcap_read_next` that goes past them.  History: `placed`,
that an answer was taken over; `flaws`, which of "held" (a wait with bytes read and
not acknowledged), "garbled" (a wait that nobody answered) and "past" (a read past
what was available) happened.

### PollThreads

State: `created` and `apc`, `setUp`, `stopIdx`, `stopReq` are the up and down
paths, which the kernel serialises; `tpc` is where each thread is, or why there is
none; `canFree`, `freedLast`, `writeOff`, `rd`, `wr` are the shared fields and
`limit` is what a call of `hpcap_rx` may still store.  `BeginLaunch` (902-935),
`LaunchThread` and `LaunchFails` (937-989) prepare and wake one thread at a time;
`BeginStop`, `RequestStop` and `Joined` (858-876) end one at a time.  A thread is
`PollLoop`, `ResetGlobal`, `ResetOffsets` (761-769), the call of `hpcap_rx`, of
which only what the other threads see is kept (`Reserve`, `PassRight`,
`TakeRight`, `EndRx`; its inside is in `RxRing` and `CaptureBuffer`).  Thread 0
then publishes in four steps, one for each access to an offset that the other
threads reset or move: `ReadOffset` (830), `Measure` (831), `Push` and `Store`
(`hpcap_push_listener`, up to its write of the offset).  History: `unpublished`
counts the bytes reserved and not pushed, `taken` those of them that were there
when thread 0 looked; `outdated` says that the running offset was reset over a
write offset other than 0, or between thread 0's look and its store;
`staleTaken` that a mark of an earlier launch was used.

### BufferMemory

Memory is a set of regions: the buffer of the registration, and the hugetlbfs
files, of which one has the name the library opens.  `buf` is `bufferCopia`,
`oldBuf`, `bufSize`, `huge` and `bufsz` are the fields of the same meaning, `pins`
the references `get_user_pages` took.  `HUGE_MAP` is `GetPages`, `Remap`,
`SetPages` with their failures, `HUGE_UNMAP` is `PutPages`, `Restore`, `Clear`,
one step per group of statements that no other program can see half-done;
`MapHuge`, `UnmapHuge`, `BufInfo`, `MapFile` are the library around them.
`hpcap_mmap` is `EnterMmap`, `SpinEnds`, `MapDevice` (or `InsertFails`,
`RemapRangeFails`), `LeaveMmap`.  The thread reads the address (`ReadBuffer`), the
size (`ReadSize`), and writes.  `flaws` remembers which of the code's flaws have
happened (section 5), and each property names the ones it needs absent.

### Registration

`Load` checks the parameters as `hpcap_precheck_options` does (`PagesAsked`,
`Assigned`, modulo the size of a `size_t`) and sorts the positions of the cards
present; `Probe` numbers a card and enters it in `adapters[]`, and may free it
again; `NextAdapter`, `RegisterQueue` (`QueueRegistered`, `QueueFails`),
`ChardevDone` and `RegisterDone` are the two loops of `hpcap_register_adapters`
and `hpcap_register_chardev`, queue by queue; `Unbind` and `ExitModule` are
`i40e_remove` and `i40e_exit_module`.  Where the code would go through a freed
adapter or a ring that is not there, the phase is "crashed" and nothing follows.

## 3. What is checked

Twelve runs.  A property with *Unless* or *Until* in its name is excused after a
history variable became true; the variable marks exactly the situation of a known
flaw, described in section 5, and the property shows that nothing else goes wrong.

### Runs that hold

* **RxRing_single40** (ring of 8, one thread, batch 3, tail in steps of 2, guard
  of 2; 2 000 states).  `FramesKept`: no unread descriptor is ever given back
  (`NoUnreadReleased`), and frames are met as they arrived (`InOrder`).  Deadlock
  is checked: there is always a step for the NIC or the thread, so the ring does
  not stop.
* **RxRing_two** (ring of 6, two threads, batch 2; 509 000 states).
  `OneRightToFree` holds outright: one thread at most may write the tail register,
  and the right to do so is never lost.  `FramesKeptUntilRepeat` and the liveness
  property `RingKeepsMovingUntilRepeat` hold until a release is repeated.
  Deadlock is not checked, because a repeated release may stop the ring.
* **CaptureBuffer_one** (6 bytes, records of 2 and 3, one thread, two listeners;
  54 000 states).  `PublishedIsCopied`, `NoOverwrite`, the
  liveness property `DataKeepsFlowing`, and the refinement `ImplementsBroadcast`.
* **RawFile_one** (files of 64 bytes, buffer of 32, headers of 4, records of 6, 8
  and 11; 117 000 states).  `RecordsTileUntilMisread`: what is published are
  whole records, none across two files.  Both causes of `strayed` and `misread`
  happen within these sizes.
* **Listeners_two** (4 bytes, records of 2, two clients, two slots; 2 million
  states up to symmetry).  `SlotsCounted` holds in every interleaving;
  `OffsetsAgreeUnlessRaced` (every listener ends where the global one does, which
  has not taken back what it did not read), `StartsAtFrameUnlessRaced` and the
  action property `NoOverwriteUnlessRaced`.
* **Sessions_four** (four programs, two slots, three handles; 2.0 million states
  up to symmetry).  `OpenedIsExact`, and `SlotsExact` in its three parts:
  `NoOrphanSlot` (a slot has an owner that will give it back), `CountIsExact` (the
  count is that of the slots) and `KillAims` (a kill whose slot is still its
  victim's closes its victim's file, once the victim's open has stored it).  All
  hold whichever file a kill closes.  Programs
  stop opening when the handles of the model are used up: no deadlock check.
* **Sessions_two** (two programs, two slots, three handles; 133 000 states).  The
  liveness property `KillWaitWakes`: a marked reader leaves its wait, unless the
  slot was deleted before it saw the mark.
* **ClientHandle_any** (4 bytes, words of 6 values; 3.5 million states).
  `HandleInSync` and `ReadOffsetNeverJumps`, unless one of the three `flaws`
  happened or the slot was lost (`Disturbed`).  The first answer takes `rdoff`
  from 0 to the listener's offset; the properties say what holds before it, at it
  and after it.  `TypeOK` is not excused: `rdoff` stays in the buffer whatever a
  killed wait left in the answer.
  A client that aborted does nothing more: no deadlock check.
* **PollThreads_two** (two threads, 3 bytes; 518 000 states).  `NoneRunsWhenDown`,
  `OneRightUnlessStale`, `PublishesReservedUnlessOutdated` (thread 0 publishes what
  it found when it looked, no more and no less, while the others reserve on), and
  the liveness
  property `StopReturns`, through any number of launches and stops.
* **BufferMemory_four** (two programs that replace the buffer, two that map it,
  two files; 483 000 states up to symmetry).  `MmapExclusive` holds outright;
  `WaiterCanEnter`, `HugepagesAccounted`, `WritesInside` and `MappedIsBuffer` hold
  in the absence of the flaws they name.  Programs spin for ever after some of
  them: no deadlock check.
* **Registration_three** (three cards, two of them with one identifier, two
  queues, four entries of `adapters[]`, five settings of `Pages`; 69 000 states).
  `NumbersFixed` (the numbers tell the cards apart and follow the bus),
  `PoolShared` (the buffers share the pool and fit in it), `QueuesExact` (a
  registration leaves all its queues or none), and the action property
  `NumberIsKept`.  The life of the module ends: no deadlock check.

### The run that shows a disagreement

* **RxRing_repeat**: with two threads `NoUnreadReleased` fails.  A call releases
  the last descriptor of its segment in the loop; the previous thread sets its
  mark; the call leaves and releases the same descriptor again behind the loop,
  and the tail goes back over frames nobody took.

### Bounds, and why they are enough

The rings and buffers are small but keep what the code distinguishes: two
segments with an interior descriptor, a first and a last one; a batch shorter
than a segment and one that does not divide it; a guard shorter than a segment; a
tail granularity that divides neither the batch nor a frame count.  A buffer
holds two or three records, so it fills up, wraps, and has records across its end;
the running offset wraps at twice the buffer.  Record sizes reach every position
of a file's end relative to a header: less than a header left, exactly one,
reservations that end just before, at and just behind the boundary.  `RawHlen` of
4 matters there: with 2, padding written behind a reservation never reaches
unread bytes.  Two clients are what the lock-free loops need to disagree (the
pop, the push and the slot table look at one slot at a time); two programs and a
third handle make a slot be reused after a kill, and a fourth program reaches the
refusal of `max_opened`.  Larger instances (ring of 8 with two threads; buffers
of 8 and 9; `RawFile` with the file smaller than, equal to and three times the
buffer; listeners with a buffer of 8 and one client) were run by hand and hold
too.  Bounds on counters: `MaxHandles` handles, `MaxPending` blocks of a slot.

`Sessions_four` needs two slots and a third handle for a slot to be emptied and
given to a younger program under the pointer a kill keeps.  `ClientHandle` needs a
buffer that bytes can be held, pushed and acknowledged in at once, which 4 is, and
a word with values at least as large as the buffer, for a garbage answer outside
it: `Word` is 6.
`PollThreads` needs two threads for the launch and the stop to be seen half-done,
and a buffer of 3 for two bytes in use; its counters are all
modulo the buffer, so nothing bounds the number of launches, and `Word` lets
`avail - 1` in `hpcap_push_listener` wrap around.  Its safety properties were run
by hand with buffers of 4 and 5 too (2.0 and 6.4 million states).  `BufferMemory` needs
two programs on each side, because no call looks at more than one other, and two
files, because the second is what a removed name leads to.  `MaxFiles` bounds the
files, `MaxPins` the references to one file, and `MaxFlaws` the kinds of flaw that
happen in one behaviour: with two, every property is checked under each pair of
flaws it does not name.  (Three flaws with one client were run by hand.)
`Registration` needs two cards for two numbers, a third one plugged in between or
colliding with another, and a fourth entry of `adapters[]` for a card probed
again; `MaxNic` bounds the probes.  A pool of three pages and `Word` = 16 reach
every case of the parameter check: fits, refused, 0, not given first, not given
second (where the sum wraps around).

### Fairness

* `RxRing`: the NIC keeps receiving while it owns a descriptor, and each poll
  thread, a kernel thread bound to a core which never sleeps in `hpcap_rx`, keeps
  running (weak fairness of the thread as a whole, so it may read for ever
  without leaving the loop only if frames keep coming).
* `CaptureBuffer`: the same for the threads.  Strong fairness of `Reserve` says
  that traffic does not stop: a thread that again and again has room for a frame
  and looks for one finds one in the end.  Weak fairness of `Ack` says that
  clients keep acknowledging; without it the buffer fills up, as it should.
* `PollThreads`: an up or down path that has begun goes on (the kernel holds a
  lock for it, and `kthread_stop` waits without a timeout); each thread is bound to
  a core and keeps running; and every call of `hpcap_rx` ends, because each frame
  adds its size to `cnt` and the loop ends at `limit`, also for frames that are
  dropped (`hpcap_rx.c:508`).  Nothing makes the interface go up or down, nor a
  client come.
* `Sessions`: a program inside a system call keeps running, and a dropped file is
  released.  Nothing makes a program open, close or kill.

Safety runs assume no fairness.

## 4. What is proved

`RxRing_proofs` proves for every ring size, number of consumers, batch, tail
granularity and guard that `RingAssumption` admits (at least one descriptor, one
to `RingSize` consumers):

* `TypeCorrect`: `Spec => []TypeOK`.  The lemmas before it keep the index
  arithmetic of `rxd_calc_next`, the tail and the segments inside the ring.
* `RightConserved`: `Spec => []OneRightToFree`, and from it
  `TailWriteExclusive`: `Spec => []ReleaseExclusive`.  `OneRightToFree` is not
  inductive alone: nothing in it says that a thread about to pass the right on
  has it.  `RightInv` adds that a thread between the test of `can_free` and the
  end of its release has its own `can_free` set (`MayRelease`).  Taking a mark
  turns the one mark into the one holder, `MarkFreed` and `UnsetCanFree` turn it
  back, and every other step leaves both alone (`RightFrame`).
* `SingleConsumerSafe`: with one consumer `Spec => []FramesKept`.  `SingleInv`
  says, in distances from the thread's position, that the descriptors with a frame
  are exactly those up to the NIC's head, that the head does not pass the tail,
  that the tail is a multiple of the granularity or still the initial one, and
  that `lastRead` is just behind the thread.  The multiple is needed because the
  tail is rounded down: it must not fall behind the head, which has stopped at or
  before the previous multiple.

* `SeveralConsumersSafe`: for any number of consumers `Spec =>
  []FramesKeptUntilRepeat`, assuming `EvenSegments`, that the consumers divide the
  ring: otherwise `rxd_calc_next` leaves its segment (section 5) and two threads
  read one descriptor.  No granularity of the tail is asked for.  `TurnInv` says
  everything from the consumer whose turn it is: it has the right, or the mark of
  the one before it waits to be taken.  Until it returns something it is
  `Arriving`: the tail is where the consumers before it left it, which need not be
  the end of their segments because of the rounding, and everything from there to
  its own segment is clean (read, and not the NIC's).  Afterwards it is `Inside`
  its segment, and clean is what lies between the tail and where it reads.
  `StoppedBefore` is what the NIC's window gives: consumers between the tail and
  there have nothing to read, so none of them has something to return when its
  turn comes (`ReadBehind`).

`TypeCorrect` and `RightConserved` are what makes the two-thread runs credible
beyond their small rings: the hand-over of the right is correct for any number of
threads, and `SeveralConsumersSafe` says that what breaks with several threads is
only the release of a descriptor that was already released.

`Sessions_proofs` proves for every finite set of programs, every number of slots,
handles and blocks that `SessionsAssumption` admits: `SessionsTypeCorrect`
(`TypeOK`, with `count` between 0 and the slots and `opened` between 0 and the
programs), `SlotsStayExact` (`SlotsExact`, which is `NoOrphanSlot`, `CountIsExact`
and `KillAims`) and `OpenedExact` (`OpenedIsExact`).  The invariant `SessionsInv`
has six parts:

* `Shape`, the types without the bounds of the two counts, which need the rest;
* `HandlesFit`: a handle is given once, and a program holds one exactly from
  `TakeHandle` to its release or failure.  Without the first a deletion could
  empty another program's slot, and without the second an id could outlive its
  owner's handle;
* `SlotsFit`: a handle has one slot at most, so that deleting it once leaves
  none (`DelSlots`), and every slot has an owner that still has the handle;
* `CountIsExact`, which a deletion preserves because it decrements the count
  only if it found the slot (`DelCount`): the second deletion of a killed
  listener finds none;
* `FilesFit`: the slot of a file that is open, or waits to be released, knows that
  file, so that the slot a kill looks up is without it only while the victim's open
  is before `SetPrivateData` (`KillAims`, with `SlotsFit`);
* `OpenedIsExact`, which is inductive: a kill drops open files only
  (`KillCloseEffect`), whosever they are, and each is released once.

`PollThreads_proofs` proves for every number of threads and size of the buffer
that `PollAssumption` admits:

* `PollTypeCorrect`: `Spec => []TypeOK`.
* `StopLeavesNone`: `Spec => []NoneRunsWhenDown`.  `LifeFits` says of each thread,
  by its place relative to `setUp` and `stopIdx`, which states it can be in: those
  behind `stopIdx` have ended, those not reached by the launch are not alive.
* `OneRightThroughLaunches`: `Spec => []OneRightUnlessStale`.  The invariant adds
  that no thread has both marks, and that only threads of this launch are in
  `hpcap_rx`, so that a right is passed and taken among them.
* `PublishesReserved`: `Spec => []PublishesReservedUnlessOutdated`.  `PushFits` says
  what thread 0 has in its hands at each step between its look and its store,
  while the others reserve: what it found is what was unpublished then (`taken`),
  measured from the write offset, which nobody else moves unless `Resetting`.
  `DistanceBack` is the modular arithmetic of `Measure`; `NoOverflow` says that the
  sum in `Push` stays in its word.

`CaptureBuffer_proofs` proves for every size of the buffer, of the running offset
(a multiple of it, `BufferAssumption`), of headers and records, and any finite set
of listeners:

* `BufferTypeCorrect`: `Spec => []TypeOK` for any number of threads.  It rests on
  `RunningOffset`: the wrap-around of `consumer_write_off` does not show in the
  buffer, which is what the comment at `hpcap_rx.c:584` asks the multiple for.
* `OnePublishesCopied` and `OneNeverOverwrites`: with one thread `Spec =>
  []PublishedIsCopied` and `Spec => NoOverwrite`.  The invariant `OneInv` measures
  everything as a distance from the global read offset: first what some client has
  not read, then what is reserved and not published, of which the last `size`
  bytes are the ones being copied, and together less than the buffer.  The budget
  has to be part of it: `cnt` counts at least what the call reserved
  (`BudgetHolds`), which is why it does no harm that the code counts the bytes of
  a frame twice (lines 509 and 599).  With several threads both are false (section
  5).

The same module proves the refinement: `OneImplementsBroadcast` is
`Spec => ImplementsBroadcast` with one poll thread and the same freedom in
everything else.  `StreamInv` adds to `OneInv` what the bytes are: from the global
write offset to the end of what was copied the bit changes exactly where a record
starts, and the byte before, which is the last one published even when everything
was read, is never reserved because the budget leaves a header's room.  A
publication that adds bytes is then `Publish` (`Publishes`), an acknowledgement is
`Consume` (`Consumes`), and every other step leaves what the mapping reads alone
(`Unseen`).

`Listeners_proofs` proves for any finite set of clients and any number of slots
`ListenersTypeCorrect` (`TypeOK`) and `SlotsStayCounted` (`SlotsCounted`).
`CountFits` follows the count through the critical sections: it is one behind the
named slots between `SetId` and the increment, and one ahead of them after
`ClearId`; `LockHeldOnce` says that only one client is there.  It also proves for
any sizes of the buffer and of the records:

* `OffsetsStayInStep` (`OffsetsAgreeUnlessRaced`) and `FramesSpareUnread`
  (`NoOverwriteUnlessRaced`).  Neither follows from what they say of the states
  between rounds: `OffsetsInv` says, as long as nothing overlapped, where every
  offset is in the middle of a round, measured from the global read offset
  (`Seen`): read <= write <= global write <= stored, each slot's write offset short
  by what the push has not reached yet (`Pending`), the room left (`budget`) short
  of a whole turn, and the minimum of the pop not past any slot it has visited
  (`RoundFits`, `ListenersFit`).  A pop then moves the origin without passing
  anybody, and a push fits in every slot.
* `ClientsStartAtFrames` (`StartsAtFrameUnlessRaced`), assuming that no client
  acknowledges with `read()`, which does not set `already_popped`.  `FramesFit`:
  the write offsets are always at frame starts, the read offsets as long as
  `already_popped` is not set.

`Client_proofs` proves for every buffer and every word `ClientTypeCorrect`
(`TypeOK`), `HandleStaysInSync` (`HandleInSync`) and `OffsetNeverJumps`
(`ReadOffsetNeverJumps`), from any offsets of the listener and an `rdoff` of 0.
`Sync` extends `HandleInSync` to the middle of a call,
where the acknowledged bytes are popped from the listener and the handle has not
been told (`Untold`), and says of a handle that was not `placed` that it
has nothing to read or acknowledge.  `SyncStep` needs to hold only while nothing
disturbed the client, because `Disturbed` never ends (`DisturbedStays`).

The same module proves two theorems about `RawFile`, for every file, buffer, header
and set of frames that `RawFileAssumption` admits: file and buffer are multiples
one of the other (the condition at `hpcap_rx.c:584`), a header fits in a file, and a
frame is longer than a header, fits in a file with one more, and has a length that
16 bits hold.

* `RawTypeCorrect`: `RawSpec => []RawTypeOK` for any number of threads.  Its last
  part, that less than the buffer is in use, needs to know that all threads
  together reserve no more than was free.  `InShares` says it without a recursive
  sum: there are partial sums, from 0 to all that is reserved, whose steps are what
  each thread reserved, and no step is more than the thread counted or its limit
  allows.  A reservation moves the sums behind its thread (`ReserveShares`), a
  publication starts them again (`NothingReserved`), and `ShareBound` and
  `ReservedFits` compare them with the limits (`LimitsFit`).  `LeftRange` bounds
  what `hpcap_read_packet` may leave; it is an induction over the headers read.
* `RecordsStayWhole`: with one thread `RawSpec => []RecordsTileUntilMisread`.
  `OneInv` counts places from the published end: what is unread is above 0, what is
  reserved below.  `Tiles` says that there is a set of record starts, from the
  read offset to the `Frontier`, each of which has a whole record that ends at
  another one, in the same file.  The frontier is what the thread has finished; it
  is ahead of the reservation when padding goes to the end of the file.  `AtStage`
  says that a reservation in progress is the last one and that its stage is the one
  its place asks for.  A set and not a sequence: writing a record adds one start
  (`TileGrows`), reading drops those passed (`LeftIsStart`), and every write
  elsewhere leaves the records alone (`RecordStays`, `TileStays`).  `StoredWhole` is
  the lemma about the 16 bits of a padding's length, `HeaderBehind` the one about
  padding written behind what was reserved.  That the set implies `Tiled`, which
  is recursive, is an induction on the bytes left (`TilesTiled`, with
  `NaturalInduction`, which takes a set and no operator); `TiledUnfolds` shows that
  `Tiled` is what its definition says.

  TLC checked `OneInv` on five instances first.  On one of them, with records of 5, 6
  and 21 bytes, it failed: frames are then shorter than a header, and padding
  behind a reservation may fall on a record that the same call wrote and did not
  publish yet.  `strayed` counts this too, so that the theorem needs no assumption
  on the length of a frame (section 5 says why no frame is that short in practice).

`BufferMemory_proofs` proves for any finite sets of programs and any bounds that
`MemoryAssumption` admits:

* `MemoryTypeCorrect` (`TypeOK`), `OneMapsAtATime` (`MmapExclusive`) and
  `TheGateOpens` (`WaiterCanEnter`).  Neither of the last two is inductive:
  `GateCounts` says that `mmapCount` is at least the number of programs between
  `EnterMmap` and `LeaveMmap`, and is exactly that number until a mapping failed.
  Then two inside would be two in the count, whereas `SpinEnds` saw one.
* `PagesAccounted` (`HugepagesAccounted`), `ThreadWritesInside` (`WritesInside`) and
  `ClientsMapTheBuffer` (`MappedIsBuffer`).  `Accounts` says what is true of the
  buffer and the references at each step of the one call that may be in progress
  (`OneCaller`); `SizeKnown` what the thread can have read of a size; `NamesFit`
  which file each caller's name leads to.

`Registration_proofs` proves for any finite set of cards, any identifiers and
parameters, and any number of queues, pages and entries that
`RegistrationAssumption` admits (arrays of `HPCAP_MAX_NIC` + 1 values whose type
is narrower than `size_t`, `hpcap_params.h:27`):

* `RegistrationTypeCorrect` (`TypeOK`), `NumbersStayFixed` (`NumbersFixed`) and
  `NumberNeverChanges` (`NumberIsKept`).  `Numbered` says that a card's number is
  the first entry with its identifier, that the entries of the cards found at the
  load come first and are sorted, and that there are no more entries than cards.
  `EntryNumber` is the lemma about `hpcap_get_iface_number_or_default`: whatever
  was appended meanwhile, the first entry stays the first.
* `QueuesStayExact` (`QueuesExact`).  `Claims` says whose each region is, `Whole`
  what a registration in progress has done so far, `InOrder` that it never goes
  past the end of `adapters[]`, which a late probe may move.  The uniqueness of
  the pairs is needed for the undoing: it finds the regions by number, and would
  take those of another card with the same number otherwise.
* `BuffersStayApart` (`BuffersApart`), from `Placed`: the buffers of the adapters
  gone past are below `offset`, the one at hand starts there and fits, the others
  have none.
* `PoolIsShared` (`PoolShared`).  It adds to the former that what
  `hpcap_precheck_options` admits fits when it is placed, although the one adds the
  pages in the order of the numbers and the other in the order of the probes.
  `PoolInv` says that `offset` is the sum of the pages of the numbers passed
  (`Taken`), in the form of partial sums by number (`IsSum`), which a number can be
  added to in any place (`SumWith`); `SumFits` then compares them with the running
  sum of the check, number by number.  `AssignedTurns` shows that this sum is what
  its recursive definition says.  It needs no induction rule with an operator as a
  parameter: `SetInduction` says it with a set, from the least element of its
  complement.

Every invariant and action property of a passing run is a theorem, some of them
under an assumption named above.  Only model-checked: the liveness properties
(fairness and `ENABLED` are beyond the proof system).  With several threads only the
types are proved of `RawFile`: its records then break (section 5).

## 5. Where code and documentation disagree

`RxRing_repeat` is a run (section 3).  The rest were met while modelling; the
models contain the behaviour, and the history variables or the conditions of the
properties leave it out where a property would otherwise fail.

* The repeated release (`hpcap_rx.c:694`) also hands on the right to free while
  the segment was not read again: the threads may then wait for ever
  (`RingKeepsMoving` with two threads).
* `hpcap_rx.c:928` rounds down: if the consumers do not divide the ring,
  `rxd_calc_next` leaves its segment.  The
  runs use rings that the consumers divide; `TypeCorrect` holds for all.
* `hpcap_rx.c:830`: with several threads, thread 0 publishes `consumer_write_off`,
  which counts what the others reserved and have not copied yet: a client may read
  bytes nobody wrote (`PublishedIsCopied` with two threads).
* `hpcap_rx.c:782`: with several threads the share of the free space does not
  count what others reserved and is not published: together they may reserve over
  unread bytes (`NoOverwrite` with two threads).
* `hpcap_rx.c:623`: padding is also written at the start of the next file when the
  reservation ended less than a header before it, that is, behind what was
  reserved, possibly on unread bytes (`strayed`).  The room asked for is the frame
  and one header, and the padding goes further.  It would even reach records of the
  same call that are not published yet, did line 509 not count each frame stored a
  second time: one frame at least as long as a header makes up for it.  Ethernet's
  are, and a buffer is far longer than two frames.
* `hpcap_rx.c:634`: a reservation that ends inside the first header of a file
  leaves the padding to the next one, which takes a position in the file for a
  length: the records leave a gap and the reader loses its place (`RecordsTile`
  fails with buffer and file sizes that reach it).
* `hpcap_rx.c:618`: with two threads the reservation behind a padded one may be
  another thread's, and the records do not tile the file.
* `srclib/libhpcap/libhpcap.c:417`: the second `memcpy` of
  `copy_from_circ_buffer` writes at `dst`, not behind what the first one copied;
  a header across the end of the buffer is misread (`misread`).
* `srclib/libhpcap/libhpcap.c:482`: `hpcap_read_packet` aborts when padding is the
  last record there; `include/hpcap.h:487` promises a NULL buffer.
* `hpcap_rx.c:766`: the offsets are reset without the lock, although
  `hpcap_listeners.c:300` requires that no listener exists; and
  `hpcap_listeners.c:81`, `:127`: a listener added during the push gets bytes
  twice, one added during the pop is overtaken by the global offset (`raced`).
* `hpcap_cdev.c:251`: `read()` pops without setting `already_popped`, so the next
  client may start inside a frame (`AckBy` with "read").
* `hpcap_listeners.c:154`: a first listener may find offsets not reset yet
  (`unreset`).
* `hpcap_listeners.c:175`: `hpcap_add_listener` returns `-EUSERS` whatever
  happened, and `hpcap_open` does not look at it (`hpcap_cdev.c:171`).  Since
  `max_opened` is `MAX_LISTENERS` + 1 (`driver_hpcap.c:63`), the last program let
  in has no slot, and `hpcap_cdev.c:135` dereferences NULL (`pc` is "dead").
* `hpcap_listeners.c:286`: `KILLWAIT` marks the free slots too, and the mark
  survives `hpcap_add_listener`: the next program is killed from the start.
* `hpcap_listeners.c:319`: the release that `KILL_LST` causes clears the mark, so
  the reader may miss it and wait for ever on a free slot.  Hence the condition on
  the slot in `KillWaitWakes`.
* `hpcap_listeners.c:319` closes `l->filp` after a sleep (317), and
  `hpcap_rst_listener` (12-18) does not clear `filp`.  If the slot was given to
  another program meanwhile, that program's file is closed; if it was emptied, a
  file already freed, or whatever has its memory now; if the victim was killed
  between `hpcap_add_listener` and `hpcap_cdev.c:135`, the file of the slot's
  earlier owner, or NULL, on which the killer dies.  These are the conditions of
  `KillAims`.
* `hpcap_cdev.c:235`: the -1 of a killed wait goes through an unsigned minimum,
  and `read` returns the count asked for.
* `hpcap_listeners.c:254`: the timeout is unsigned, so `hpcap_wait` without a
  timeout does not wait.
* `srclib/libhpcap/libhpcap.c:39`: `hpcap_open` sets `rdoff` to 0 wherever the
  listener starts, which is at the global offsets (`hpcap_listeners.c:152-162`).
  The handle and its listener are out of step until the first answer, which moves
  `rdoff` over bytes the client never saw; it has nothing to read before.
* `srclib/libhpcap/libhpcap.c:247`: a wait while bytes are held moves `rdoff` back
  over them ("held"); `hpcap_listeners.c:260`: a killed wait answers nothing and
  the ioctl succeeds, so that lines 245-247 take what was on the stack for any
  number of available bytes ("garbled").
* `srclib/libhpcap/libhpcap.c:521`: `hpcap_write_block` looks at `avail` and not at
  `acks`: two blocks without an acknowledgement between them may go past what is
  available, and so may `_hpcap_read_next` (664), which asks for a header only
  ("past").  The next acknowledgement may then abort (line 238).
* `hpcap_vma.c:108`: a failed `mmap` leaves `mmapCount` incremented ("counted"),
  and two programs that wait at the gate at once have both counted themselves, so
  neither ever reads 1 ("crowded"): from then on every `mmap` spins.
* `hpcap_vma.c:129`: a `vm_insert_page` that fails ends the loop, and `mmap`
  succeeds over a mapping with holes ("holes").
* `hpcap_hugepages.c:101` assumes "an existing lock over hpcap_buf"; the ioctl
  takes none, for the release or for the replacement ("overlapped", and "live"
  when the threads run).  Giving hugepages back does not restore `bufSize` (127,
  "kept"); fewer pages than asked for are taken with the full size (65, "short");
  a `vm_map_ram` that fails keeps the pages and returns 0 (79, "unmapped"); a
  second `HUGE_MAP` saves the first hugepages as the buffer to go back to (68,
  "twice").
* `srclib/libhpcap/libhpcap.c:639`: the error path of `hpcap_map_huge` removes the
  file of hugepages another call had put in use ("unnamed"), although
  `include/hpcap.h` says it "always exits in a coherent state".
* `hpcap_rx.c:935`: a launch resets the running offset and not the global
  listener's: under a client that stayed, what thread 0 publishes next is not what
  was reserved; and a thread other than 0 that finds no listener resets both
  under thread 0's last reservations (`outdated`).  If that reset (766-767) falls
  between thread 0's reads (830, 831) and its push (837), thread 0 pushes bytes
  that nobody has reserved any more: the write offset is then ahead of the running
  one (`outdated` too).  Bytes reserved by the other
  threads after thread 0 ended are not published by that launch at all.
* `hpcap_rx.c:942`: the marks are reset one thread at a time: thread 0 may take the
  mark the last thread of the previous launch left (`staleTaken`).
* `hpcap_rx.c:978`: a `kthread_create` that fails leaves `created` set and an error
  value as the thread, on which the down path then calls `kthread_stop`.
* `hpcap_pci.c:13`: the PCI domain is not in the identifier: two cards in the same
  place of two domains have one number, though the user guide calls the number
  fixed for each interface.
* `hpcap_rx.c:482`: `adapters[]` is in probe order and is indexed by the fixed
  number.  Any other order than the bus's takes the capture length and the
  counters of another card.
* `hpcap_i40e-2.4.6/driver/i40e_main.c:11872`: a probe that fails later, and
  `i40e_remove`, free the adapter and leave it in `adapters[]`, where the
  registration and the unloading find it.  The character devices of a removed card
  stay.
* `hpcap_cdev.c:51`: a later queue that succeeds overwrites the failure of an
  earlier one (`masked`), and the registration returns 0, which
  `driver_hpcap.h:49` calls "ok".
  `hpcap_cdev.c:72`: a ring that is not there goes to a clean-up that looks for
  the buffer through it.
* `driver_hpcap.c:123`: all queues of an adapter are given the adapter's own
  offset in the pool: with several queues they share their bytes.
* `hpcap_params.c:175`: `Pages` is compared as a `size_t`, so a value not given
  (-1) is the largest there is: the first adapter is refused, and after another one
  the sum wraps around and admits pages the pool does not have
  (`PagesFitUnlessUnset`).  `hpcap_params.c:370`: `Consumers` is read only if as
  many `Core` values were given.
* The `ixgbe` driver numbers every adapter 0 and does not call
  `hpcap_parse_opts`; `Registration` models `i40e`.

## 6. What is not modelled

* Compile-time variants `JUMBO`, `HPCAP_MLNX`, `HPCAP_CONSUMERS_VIA_RINGS`,
  `REMOVE_DUPS`, and the debug builds.
* Several poll threads together with several listeners that come and go:
  `CaptureBuffer` has the first, `Listeners` the second, and `PollThreads` threads
  with one client.
* The write of a frame while the buffer is replaced: `BufferMemory` says where a
  write can go, `CaptureBuffer` what is written.
* Two kills at once (`hpcap_listeners.c:321` supposes there are none), and what a
  program does with a file that a kill closed under it.
* Frame contents, filters, caplen, time stamps: a filtered frame is one not
  stored.  32-bit overflow of `int dist` (`hpcap_listeners.c:111`) for buffers of
  2 GB and more.
* `hpcap_dups.c` is compiled out by default, and its table belongs to one thread;
  sysfs sets one atomic value; the statistics, `hpcap_check_status` and
  `hpcap_check_naming` only read.  The parameters other than `Mode` and `Pages`
  are clamped one by one, and their results are constants of the models.
* `libmgmon`, the samples and the scripts use the library and keep no state of
  their own.
* The vendors' drivers are more than nine tenths of the repository.  They are
  Intel's and Mellanox's code; what HPCAP adds to them is modelled where it is
  called.  `ixgbe`'s own numbering and registration differ and are not modelled.

## 7. Plan

Done: `RxRing`, `CaptureBuffer` with `FrameBroadcast`, `RawFile`, `Listeners`,
`Sessions`, `ClientHandle`, `PollThreads`, `BufferMemory`, `Registration`, and the
proofs of section 4.  Left, in this order:

1. A composition of `CaptureBuffer` with `RawFile` for two threads, to say what a
   reader can still rely on when two threads pad the same file.
2. `Duplicates`: the hash window of `hpcap_dups.c`, for builds with `REMOVE_DUPS`.
