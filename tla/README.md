# BGT3xxx: a TLA+ verification project

The repository holds the Linux driver of the BGT3xxx PCIe DVB cards: the
SAA7231 bridge driver (`bgt-linux-pcie-drv/linux/drivers/media/saa7231`), the
kernel's dvb-core as shipped with it, demodulator and tuner drivers, and a copy
of the linuxtv dvb-apps. This project models the path a transport stream takes
from the capture engine to a file opened by an application, the machinery that
starts, stops and configures it, and the two other long-running parts of
dvb-core: the frontend thread and the CA interface.

Below, `saa7231/` and `dvb-core/` stand for the directories
`linux/drivers/media/saa7231` and `linux/drivers/media/dvb/dvb-core`.

## 1. Inventory

| part | state it keeps | operations | talks to |
|---|---|---|---|
| dmabuf ring, `saa7231_ring.c` | `head`, `tail`, `count` | read, write, init | event handlers, under `ring->lock` |
| TS2DTL engine driver, `saa7231_ts2dtl.c` | page tables (8 slots), `index_w`, `clock_run`, `stream_run` | init, acquire (clocks, setparams, page tables, preload), run, stop, get_buffer, set_buffer, exit | engine registers; called by the feed thread and by the event handlers |
| event handlers and DMA glue, `saa7231_dvb.c` | `feeds` (u8) per adapter | evhandler, dma_start, dma_stop, start_feed, stop_feed, dvb_init, dvb_exit | ring, stream ops, software demux |
| interrupt dispatch, `saa7231_drv.c`, `saa7231_msi.c` | `event_handler[128]`, MSI enable and status words | irq_handler, add/remove_irqevent, msi_init/exit | event handlers, run beside every thread |
| probe and remove, `saa7231_drv.c`, `saa7231_pci.c`, `saa7231_stream.c` | what is allocated and registered | probe with its failure exits, remove | all of the above |
| demux device, `dvb-core/dmxdev.c` | per open file: `state`, type, parameters, feed list, timer | open, release, SET_FILTER, SET_PES_FILTER, START, STOP, ADD_PID, REMOVE_PID, section callback, timeout | software demux, under `dmxdev->mutex` |
| feed and filter tables, `dvb-core/dvb_demux.c` | feeds, filters, decoder slots | allocate, set, start, stop, release | driver's start_feed/stop_feed, under `dvbdemux->mutex` |
| section reassembly, `dvb-core/dvb_demux.c` | `cc`, `pusi_seen`, `secbuf`, `secbufp`, `tsfeedp` per feed | swfilter_packet, section_packet, copy_dump, section_feed, start and stop | dmxdev callbacks, in the interrupt |
| ring buffer and read side, `dvb_ringbuffer.c`, `dmxdev.c` | `pread`, `pwrite`, `error`; `todo`, `secheader` per file | write (interrupt), read_user, flush, read_sec, buffer_read | application |
| frontend tuning loop, `dvb_frontend.c` | `state`, drift and inversion counters, property cache | swzigzag, autotune, ioctls, resume | demodulator drivers |
| frontend thread, `dvb_frontend.c` | `sem`, `thread`, `exit`, use counts, event queue | open, release, thread, ioctls, get_event, unregister | application, tuning loop |
| CA slots, `dvb_ca_en50221.c` | `slot_state`, `camchange_type`, `camchange_count` | camchange_irq, camready_irq, thread, CA_RESET, write_data | CAM, `slot_lock` |
| CA messages, `dvb_ca_en50221.c`, `dvb_ringbuffer.c` | `rx_buffer` of packets per slot, `next_read_slot` | read_data, io_read, io_poll, open, release, reset | application |
| I2C, CGU, GPIO, interface block, dmabuf | registers, page lists | transfers, register sequences | hardware |
| net, dvbdev, demodulators, tuners, dvb-apps, dvb-core-5.9, build files | | | see PROJECT.json for why they are left out |

What is hard in this code:

* The interrupt handler interleaves with the thread that restarts a stream, and
  the two share `index_w` and the page tables without a common lock. The stop
  path does not stop the engine, so a "stopped" stream interrupts.
* Interrupts are edges latched in a status word that is acknowledged as a whole,
  once for every bit found: edges are lost. The handler counts interrupts and
  ignores the engine's own buffer index.
* Section feeds are shared by files; each start or stop of one filter stops and
  restarts the feed of the others. Every start path can fail half way, on a
  full table or an interrupted lock, and has a clean-up of its own. A section
  timeout may already be running when its filter is re-configured.
* A vector is enabled before its entry is filled, the event table is published
  after and freed before the interrupt it serves.
* Sections share packets and span packets; packets are lost, damaged, empty, or
  marked discontinuous at any point of a section.
* The ring buffer has one writer in interrupt context and one reader in a
  process, without a common lock, and a writer that flushes on overflow.
* The tuning loop walks drift, sign and inversion with wrapping counters while
  ioctls change the state word and the cache it reads.
* The frontend thread quits by itself; opens, closes, ioctls that sleep for an
  event, signals and the unregistration of the frontend race with it.
* A CAM is inserted and pulled while the thread handles the last change, and
  interrupts store into the slot's state without its lock.
* Fragments of several connections and slots arrive mixed and their links break.

Correctness per part, as one would want it; section 3 says where the code falls
short and a property leaves a case out. The capture path never lets the engine write a buffer
that is being delivered, never arms one buffer twice, and delivers every fill
once and in order. Dispatch never follows a missing pointer, never drops an
event of the snapshot it works on and never repeats one. The demux device keeps
the feed counter equal to the feeds that filter, keeps every started filter fed
and every table entry owned, and never blocks on itself. A section that arrived
whole is given, once, in order, and never mixed with another. The ring buffer
is a bounded FIFO and a sleeping reader is woken. The tuning loop tries every
combination before it slows down and holds only the requested frequency for
tuned. There is one frontend thread, one holder of the semaphore, every gap in
the events is reported and a request is served. A CA slot runs only with a CAM
that was reset, and a read returns one whole message.

## 2. Modules

| module | models | built on |
|---|---|---|
| `Ts2dtl` | capture path of one adapter | |
| `Irq` | interrupt dispatch, event table, order of probe and remove | |
| `Dmxdev` | demux device, feed and filter tables, feed counter | |
| `Sections` | section packets of one PID to the section callback | |
| `Rbuf` | ring buffer between callback, timer and `read()` | implements `ByteFifo` |
| `ByteFifo` | abstract specification: a bounded queue of bytes with an error | |
| `Zigzag` | the software tuning loop and the ioctls that feed it | |
| `Frontend` | frontend thread, semaphore, open, release, unregister, events | |
| `Ca` | the state machine of one CA slot | |
| `CaRead` | fragments, packets and messages of the CA device | |
| `MC...` | the instances TLC checks | the module of that name |
| `ModLemmas` | facts about `%` and about least and greatest elements that the proofs need | |
| `Ts2dtl_proofs` | type invariant, ring and inductive invariant of the capture path | `Ts2dtl`, `ModLemmas` |
| `Irq_proofs` | dispatch | `Irq` |
| `Sections_proofs` | what is given to the section callback | `Sections`, `ModLemmas` |
| `Rbuf_proofs` | the ring buffer implements the queue; framing of sections | `Rbuf`, `ModLemmas` |
| `Frontend_proofs` | semaphore, threads and events | `Frontend`, `ModLemmas` |
| `Zigzag_proofs` | what is tried, what is held for tuned | `Zigzag`, `ModLemmas` |
| `Ca_proofs` | a slot runs only after a reset | `Ca` |

Definitions marked *mutant* are plausible mistakes in the definition they
precede; they are no part of the specification. Each property is checked to
fail with one of them.

### Ts2dtl

Three actors. The *engine* (external) has one action, `Fill`: the dmabuf of the
current slot is complete, the slot advances, the status bit is latched; a bit
that is already latched absorbs the edge. The *interrupt handler* is split
where the feed thread or the engine can get in: status read, acknowledge, and
then every access of the event handler to `index_w` and the page tables
(`EvWrite`, `EvWrap`, `EvSet`, `EvInc`, `EvRead`, `EvDone`). `IrqClearOther` is
the acknowledgement the handler's loop repeats for another stream's bit of the
same word: all four streams' vectors (45 to 48) are in word 1. The *feed
thread* runs acquire, run and stop, one action per part that another actor can
tell apart; `index_w += 8` is a read and a write.

`ring`, `index_w`, `pta`, `dtl` are the fields of the same names (the page
table registers for `pta`). Clock activation and preload succeed or fail by
choice. `Init` is the state after `saa7231_stream_init`, which has initialised
the page tables once or twice. `fills`, `handled`, `skew` and `stale` are
history; `data` says which fill a dmabuf holds. A session is *in phase*
(`InPhase`) when it starts with the ring at its origin and no interrupt of the
last one in flight. The first session is; a restart is only if a multiple of
RINGSIZ buffers went through the ring before, since set-up initialises the page
tables and `index_w` and not the ring.

Of the event handlers, `saa7231_dvbts2d0_evhandler` is modelled;
`saa7231_dvbts2d1_evhandler` is the same text for the second adapter.

### Irq

The probe/remove thread and the handler for any set of vectors. `status` and
`ena` are the MSI words as sets of vectors, `ev` the event table; a table entry
is filled in two writes, and the handler compares and calls in two steps.
`fault` records the first access to memory that is not there (no table, NULL
handler, freed stream) and ends the behaviour. `Handled` are the vectors with a
handler in `dvbstr_tbl`: on boards with external adapters, all of them. The
line is shared, so the handler may run with nothing enabled. What the event
handler does with the stream is module `Ts2dtl`.

### Dmxdev

`sys` is everything an ioctl may change: the dmxdev filters (`flt`), the demux
feeds (`feed`), the number of demux filters in use, the decoder's owner, the
driver's feed counter, whether the DMA runs and whether the frontend is
connected (`Connect`; before that a start of the DMA fails). An ioctl holds
`dmxdev->mutex` from end to end and is one action. The functions it is made of
are operators from a state to the set of outcomes `[x, ok]`, so that failures
half way (a full table, or with `Failures` an interrupted lock) take the
code's own clean-up path with the code's own order. `oops` is set where the
code dereferences a pointer it must not, `stuck` where it takes the mutex it
holds. Beside the ioctls run the section callback (`SectionArrives`) and the
timer in two steps, since `del_timer` does not wait (`TimerExpires`,
`TimerRuns`). Two things are history: `late`, a timeout ran for a filter that
was not started, and `sys.undone`, a start failed and its clean-up left
something behind. The properties are about the behaviours up to the first of
either (`Sound`); a failed start that is undone is part of them.

### Sections

The sender (environment) cuts sections into packets the way the standard asks:
a packet in which a section starts has the PUSI bit and a pointer field. A
payload byte is `<<s, k>>`, byte k of section s, so that what the callback is
given can be recognised. `SectionPacket` is `dvb_dmx_swfilter_section_packet`
with the discontinuity, PUSI and pointer-field branches, `CopyDump` the append
with its limit and the loop that dumps complete sections, `SectionFeed` the CRC
check. A packet may be received, missed (lost, or dropped for its error bit),
arrive without payload, be marked discontinuous, or have a damaged pointer.
Bytes that are no header decode to any length of `Guesses`. The feed may be
stopped and started at any time. Any number of packets may be missed in a row.
`given`, `due`, `suspect`, `repeats` and `missed` are history; `suspect` is set
by a start, by a bad pointer and when CCMOD packets in a row were missed.

### Rbuf and ByteFifo

The steps of `Rbuf` are the memory copies and the updates of `pread`, `pwrite`
and `error`, on both sides: the callback (`WEnter` to `WWake`, under
`dmxdev->lock`), the timer function, and the reader (`RTop` to `RReturn`, with
`read_sec` on top of `buffer_read`; `phase` says which read of a section it
is). Going to sleep and testing the condition are one step, as
`wait_event_interruptible` makes them. A read may block or not, meet a signal
(`RSignal`) or a fault of the user's memory (`RFault`).

`ByteFifo` is what a user of the buffer relies on: bytes come out in the order
they were put, each once, and are thrown away only together with an error. The
mapping takes the bytes between `pread` and `pwrite` for the queue, the bytes
copied out so far for `user`, and an error that is set or about to be set by
the callback that has just flushed for `err`. `FifoSpec` is `ByteFifo`'s
specification under that mapping.

### Zigzag

An iteration of `dvb_frontend_swzigzag` and an ioctl each hold `fepriv->sem`
from end to end, so each is an action. `Iterate` is the disjunction of the
function's returns (`Idles`, `TuneOnce`, `Locks`, `Search`, or nothing to do);
`NextAttempt` is the loop of autotune that moves `auto_step` and
`auto_sub_step`; `Autotune` sets the hardware around its change of the cache.
The state word is the set of its bits. The hardware (external) locks or not and
fails or not by choice. `Reports` says what the driver's `get_frontend` writes
over the property cache: `ReadBack` is that write, in the event of a lock
(`Locks`, `StillLocked`) and in FE_GET_FRONTEND and FE_GET_PROPERTY
(`GetFrontend`). Other calls are SET_FRONTEND, DTV_TUNE, properties, DISEQC and
its like, the tune mode, resume and start. `request`, `tried`, `setby`,
`overwritten` and `errors` are history.

### Frontend

Actors: kernel threads (a new one per start), the writer's open and release, a
reader's, ioctl callers, and the driver that unregisters the frontend. Each
step is between two accesses to what they share: the semaphore, `exit`,
`thread`, the use counts, the event queue. `dvb_frontend_start` loads `thread`
and then `exit` (`OpenStart`, `OpenCheck`). `dvb_frontend_stop` tests `thread`
and gives it to `kthread_stop` (`StopThread`, `StopKill`); the build may load it
once or twice, and a thread that has ended since is no longer there, so the
process dies or returns at once. Adding an event is two steps, since
get_event tests the queue without the lock. `CallInterrupted` is a signal in
`wait_event_interruptible` or in `down_interruptible`, of get_event's second
`down` too. An iteration serves a request; the rest of it is module `Zigzag`.
The model ends where `kfree(fepriv)` is reached.

### Ca and CaRead

`Ca` has the slot thread (one action per state of its machine, with the check
for a changed CAM in the steps shutdown, insertion, count down), the two
interrupts in two steps each (`type` and `count` are two writes; the camready
interrupt tests the state and then stores), CA_RESET and `write()`, which tests
the state before it takes `slot_lock`. `IrqModes` chooses interrupts or
polling, where reading the status clears the change bit (`latch`). Timeouts are
steps that may come any time (`TTimesOut`). `stale` and `missed` are history: a
state was stored over one that had changed since its test; a look between two
fragments of a polled slot has read a change that nobody handles.

`CaRead` has the packets of every slot's `rx_buffer` with the disposed mark and
the space that comes back only from the front (`Disposed`), and the read
condition that walks the slots from `next_read_slot` (`Scanned`). `io_read`
takes no lock and is one step per packet (`BeginRead`, `PassPacket`,
`TakePacket`, with a caller's buffer that is too short, `ReadFaults`,
`ReadBug`). The thread stores a packet in one part or, where it wraps, in two,
between which the packet is visible (`Receive`, `StoreFirst`, `StoreRest`); a
read that takes such a packet may leave `pread` where no packet starts
(`corrupt`, `ReadGarbage`). Open flushes without the lock. `io_poll` (`Poll`),
links that break and come back, release and reset complete it. One task reads:
two reads at the same time on one file are not modelled.

## 3. Runs

| run | bounds | result |
|---|---|---|
| `irq` | vectors 47, 48, one foreign bit of their word, 2 edges each; repeated probe and remove | `TypeOK SafeDispatch NoSpuriousCall EdgeDispatched` hold |
| `dmxdev` | 2 files, 3 feeds, 2 demux filters, 2 PIDs, up to 2 PIDs per PES filter, interrupted locks, timeouts | `TypeOK FeedsCounted TablesAccountedFor SectionsMatch NoLockup StartedIsFed` hold |
| `sections` | sections of 3 and 12 bytes, payloads of 5 and 8, buffer of 24, counter modulo 3, 3 sections | `TypeOK IntactIsGiven GarbageOnlyWhenSuspect InOrderOnce` hold |
| `rbuf` | 6 cells, 3 chunks of 4 bytes, reads of 2 and 6 | `TypeOK Framed FifoSpec WakesUp` hold |
| `zigzag` | 2 frequencies (one invalid), counter modulo 3, 1 hardware failure, a driver that reports frequency and inversion, 3 calls | `TypeOK SlowMeansAllTried TunedIsRequested FastEnds` hold |
| `frontend` | 1 ioctl caller, 2 kernel threads, 2 events, queue of 2 slots | `TypeOK SemIsMutex OneThread GapsReported Served` hold |
| `caread` | 2 slots, 2 connections, 3 packets per buffer, 2 messages of up to 2 fragments, packets that wrap | `TypeOK WholeMessages OnceInOrder` hold |
| `ca` | both modes, 3 CAMs, 2 resets, 2 writes | `RunningIsReset Settles` hold |
| `ts2dtl` | 6 dmabufs, 3 slots, 7 completions per session, 2 starts | `TypeOK InStep RingBalanced NoDmaRace SlotsDistinct DeliveredInOrder InterruptDelivers` hold |
| `ts2dtl_index` | 4 completions | `SetIndexValid` violated |
| `rbuf_unlocked` | 5 cells, 3 chunks of 3 bytes | `FifoSpec` violated |
| `caread_bug` | 2 slots, 2 connections, 3 messages, no packet wraps | `ReadConditionHolds` violated |

Why the bounds are enough. *Capture*: the real ring has 16 dmabufs and 8 slots;
6 and 3 keep the ratio, three slots tell "next" from "previous", and seven
completions pass one lap of the ring, after which the pattern repeats. Two
starts let one session's interrupts run into the next. *Dispatch*: two vectors
of one word and a foreign bit give every order of acknowledging. *Demux
device*: two files and two PIDs give sharing, its end, and conflict; a PES
filter needs a demux filter per PID, so two of them run full with two files,
and the third feed keeps apart a full feed table from a full filter table. PIDs
are symmetric: no operation compares them but for equality. The run's view
`LiveView` leaves out the two feed pointers of a filter that is not started:
nothing reads them before a start has set them, except after a late timeout,
where the constraint stops the run. *Sections*: the longest section is
the maximal one, needs several packets and ends in a packet that others start
in; the shortest fits twice into a packet; the buffer is one section and one
packet as in the code; a counter modulo 3 still tells one lost packet from none,
and three lost in a row look like none, as 16 do in the code. *Ring buffer*:
a chunk of 4 in 6 cells wraps at every offset, a second one overflows, and
reads of 2 split a header. *Tuning*: a drift range of one step, counters that
wrap, three calls: an order of retune, disturbance and retune.
*Frontend*: the second thread is enough for two generations, a queue of two
slots overflows at its second event. *CA*: two insertions race, the third meets
the outcome; two slots are what `next_read_slot` and the condition's shared
connection id need.

**Constraints.** Three runs stop at the first state of a known kind, because
the property speaks of behaviours without it: `StaysSound` (a section timeout
ran for a filter that was not started, or a failed start was not undone),
`Apart` (the callback flushed the buffer
under a read; run `rbuf_unlocked` has no constraint and shows what follows),
`Sane` (the semaphore was re-initialised under a user or released twice, or the
event queue was emptied while an event was added). The states of these kinds
are reached and listed below; what is past them is not explored. `Near` bounds
run `zigzag`: with a driver that reports the frequency each lock at a drift
moves the cache by it, and the run follows this for 2 units.

`CHECK_DEADLOCK FALSE` is set for `Ts2dtl`, `Irq` and `Frontend`: the bounds on
completions, starts, edges and threads end behaviours, a fault ends one of
`Irq`, and `kfree` one of `Frontend`. In the other modules somebody can always
go on (open, close, read, iterate), so deadlock is checked.

**Fairness.**

* `Ts2dtl`, `Irq`: the interrupt handler only. A status bit keeps the interrupt
  asserted, and the handler's loops are over 4 words of 32 bits and one buffer.
  The acknowledgement for another stream (`IrqClearOther`) is not fair and may
  be repeated. The engine and the threads are under no obligation.
* `Rbuf`: a callback that has begun ends, a timer function that runs ends (both
  are straight code in interrupt context), and a reader that is not asleep goes
  on. Chunks, timer expiry, signals and new calls of read are not fair.
* `Zigzag`: iterations, as the thread wakes up by its own timeout.
* `Frontend`: steps of a kernel thread, strong fairness for its `down` (waiters
  of a semaphore are queued), and the bodies of ioctls that hold the semaphore.
  Users owe nothing.
* `Ca`: steps of the thread, which sleeps with a timeout; strong fairness for
  taking `slot_lock` and for a timeout of a state that lasts; second halves of
  interrupts and of CA_RESET.

### What the violated properties show

* `SetIndexValid`: restart while an interrupt of the old session is being
  handled. The handler wraps `index_w`, the restart adds 8, `set_buffer`
  refuses the index with "Invalid Index".
* `FifoSpec` without `Apart`: note (2) of `dvb_ringbuffer.h` counts a flush as a
  read and asks for a lock between readers. The callbacks flush on overflow
  under a lock that `read()` does not take; `read()` then returns bytes twice
  or bytes that are no longer queued.
* `ReadConditionHolds`: slot 0 holds an unfinished fragment of connection 1 and
  slot 1 one of connection 2 followed by a last one of connection 1. The
  condition takes connection 1 from slot 0, finds its last fragment in slot 1
  and lets `read()` go; `read()` takes connection 2 from the first packet there,
  consumes it and ends in what the code prints as a BUG, with -EIO.

### What the models reach without a run

These follow from the actions named; they are why a property excludes a case,
or have no promise in the repository that they would break. Three of them do
contradict a comment of the code and have no run of their own here: the polled
change of a CAM (`dvb_ca_en50221.c:1149`), garbage after a restart
(`dvb_demux.c:229`), and FE_GET_FRONTEND before a new request is tuned.

* *Capture.* `saa7231_ts2dtl_stop` leaves the engine running (`DmaStop`). A
  restart does not re-initialise the ring: in a session that is not in phase
  two slots may name one dmabuf, and `InStep`, `SlotsDistinct`, `NoDmaRace` and
  `DeliveredInOrder` say nothing of it. Acquire reports success when clock
  activation or the preload failed (`AcquireClocks`, `RunPrepare`).
* *Dispatch.* Removing one event disables every vector of its word
  (`DisableVector`). A board with internal adapters registers a NULL handler.
* *Demux device.* A late timeout sets the state of whatever the filter has
  become (`TimerRuns`). On a full table a failed start leaves `feed->ts`
  pointing at a feed that is free or another file's. A PES filter whose second
  feed fails keeps the first one running in state SET. With interruptible locks
  the failed restart of a shared feed is ignored, its filters stay started
  without data, and the stop of the next one counts the feed counter below the
  feeds that run. These are the starts that are not undone (`sys.undone`).
* *Sections.* `pusi_seen` survives a restart, so the tail of a section may be
  fed as one. When as many packets are lost in a row as the continuity counter
  has values, the halves of two sections are joined. A packet without payload resets `secbufp` and not `tsfeedp`, so
  sections already given are found and given again.
* *read_sec.* An error or a fault in the middle of a section leaves `todo`
  counting bytes of a section that is gone.
* *Tuning.* A DISEQC command before the loop has seen a retune overwrites it. A
  failed `set_frontend` leaves the drift in the cache, and the next attempt
  drifts from there. A rejected SET_FRONTEND has changed the cache. A driver
  that reports the frequency brings the old one back into the cache when
  FE_GET_FRONTEND comes between SET_FRONTEND and the loop's next iteration, and
  the loop tunes to it; with every lock at a drift it moves the cache by that
  drift (`overwritten`).
* *Frontend.* get_event interrupted in its second `down_interruptible` returns
  without the semaphore, and the ioctl releases it again. After its wait it
  does not look at the queue again: when two calls wait for one event, the
  second takes an old entry and moves `eventr` past `eventw` (`torn`).
  `dvb_frontend_stop` initialises the semaphore under a reader's ioctl, and may
  give `kthread_stop` a thread that has ended, or NULL (`StopKill`). An open
  that finds a thread about to quit, or one that quits between its looks at
  `thread` and `exit`, has no thread (`orphan`). An open may come
  between the test of the use count in unregister and the `kfree`.
* *CA.* The polled RUNNING state reads and clears the change bit, so a swapped
  CAM runs on unreset (`missed`); camready and write store a state over a newer
  one (`stale`). A read may take a packet that is half written, or leave `pread`
  ahead of the writer (`corrupt`). A buffer full of fragments of cut messages
  receives nothing more until the file is opened again.

## 4. Proofs

TLAPS proves, for every value of the constants that satisfies the assumptions:

| theorem | statement |
|---|---|
| `Ts2dtl_proofs!TypeCorrect` | `Spec => []TypeOK` |
| `Ts2dtl_proofs!RingNeverAccumulates` | `Spec => []RingBalanced` |
| `Ts2dtl_proofs!StaysInStep` | `Spec => []InStep` |
| `Ts2dtl_proofs!SlotsNeverShared` | `Spec => []SlotsDistinct` |
| `Ts2dtl_proofs!DeliveredNotWritten` | `Spec => []NoDmaRace` |
| `Ts2dtl_proofs!DeliversInOrder` | `Spec => []DeliveredInOrder` |
| `Irq_proofs!TypeCorrect` | `Spec => []TypeOK` |
| `Irq_proofs!CallsAreAnswers` | `Spec => []NoSpuriousCall` |
| `Irq_proofs!DispatchIsSafe` | `Handled = Vectors` implies `Spec => []SafeDispatch` |
| `Rbuf_proofs!TypeCorrect` | `Spec => [](~raced => TypeOK)` |
| `Rbuf_proofs!RingIsFifo` | `Spec /\ []~raced => FifoSpec` |
| `Rbuf_proofs!FifoUntilRaced` | `Spec => Fifo!Init /\ [][raced' \/ Fifo!Next]_(Fifo!vars)` |
| `Rbuf_proofs!ReadSecFramed` | `Spec => [](~raced => Framed)` |
| `Sections_proofs!TypeCorrect` | `Spec => []TypeOK` |
| `Sections_proofs!IntactGiven` | `Spec => []IntactIsGiven` |
| `Sections_proofs!GarbageSuspect` | `Spec => GarbageOnlyWhenSuspect`, an action property |
| `Sections_proofs!SectionsInOrder` | `Spec => InOrderOnce`, an action property |
| `Frontend_proofs!TypeCorrect` | `Spec => []TypeOK` |
| `Frontend_proofs!SemExcludes` | `Spec => []SemIsMutex` |
| `Frontend_proofs!NeverTwoThreads` | `Spec => []OneThread` |
| `Frontend_proofs!NoSilentGap` | `Spec => GapsReported`, an action property |
| `Zigzag_proofs!TypeCorrect` | `Spec => []TypeOK` |
| `Zigzag_proofs!TunedRight` | `Spec => []TunedIsRequested` |
| `Zigzag_proofs!SlowAfterAll` | `Spec => []SlowMeansAllTried` |
| `Ca_proofs!RunsResetCams` | `Spec => []RunningIsReset` |

Assumptions on the constants:

* `SizesAssumption`: more than one slot and no more slots than dmabufs.
* `VectorsAssumption`: vectors are positive numbers, those of the adapters
  differ from foreign ones.
* `RbufAssumption`: the buffer has at least one byte, chunks and reads have at
  least one, sections at least the three of a header.
* `SectionsAssumption`: sections are at least a header and at most MAXSEC long,
  the payload of a packet is shorter than the packet, the continuity counter
  has at least two values. MAXSEC, PACKET and the modulus are otherwise free.
* `FrontendAssumption`: the event queue has at least two entries.
* `ZigzagAssumption`: frequencies are positive, steps and drifts natural, and
  the driver reports frequency, inversion, both or neither.
  `StepsAssumption`: the steps pass `max_drift` before `auto_step` wraps, which
  holds because `max_drift` is an int and `auto_step` an unsigned int.
* `CaAssumption`: only that its bounds are naturals, as all bounds are.

Each inductive invariant was an invariant of a TLC run before it was proved.

*Capture path.* `NoDmaRace` and `SlotsDistinct` are not inductive: they say
nothing of `index_w` or of where the engine is. The invariant is `IInv`,
`TypeOK`, `RingBalanced` and `InStep`. `InStep` says that handler run k of a
session uses dmabuf k mod RINGSIZ and slot k mod TS2D_BUFFERS, that the last
TS2D_BUFFERS runs are what the page table holds, that the engine is at the slot
of the next fill, and that every run and every latched bit stands for a fill,
so that the handler is never ahead of the engine. The claims about the ring
position hold for sessions that are `InPhase`: the ring at its origin, no old
interrupt in flight. `QuietSetup` is what keeps the unlocked `index_w += 8`
harmless for them: the engine is off during set-up (`SetupOff`), so a session
that begins quiet stays quiet until `index_w` is written. From `InStep`,
dmabufs armed within one lap differ because TS2D_BUFFERS <= RINGSIZ, and a
buffer being delivered is not under the engine while it is less than one lap
behind; the arithmetic is in `ModLemmas`.

`DeliveredInOrder` compares a dmabuf at its delivery with what the engine put
there up to a lap of the page table and more than a lap of the ring ago, so
`DataInStep` says what every dmabuf holds in between: that of run k holds the
fill run k will deliver, from its capture until the engine is back at that
dmabuf. A fill is lost to the handler for good when its edge meets a latched
bit; `Lost` counts these fills and never shrinks. `DataInStep` is inductive
only while `Lost <= TS2D_BUFFERS - 2`, and a delivery that is less than a lap
behind is always in that case.

*Dispatch.* `NoSpuriousCall` is strengthened to `Owed`: calls made, bits still
latched or in the snapshot, and the entry just matched, add up to no more than
the edges. `SafeDispatch` is strengthened to `DispatchInv`: while the device
is served every entry that matches its vector has a handler and a stream, and
during a registration the handler is written before the vector.

*Ring buffer.* The queue of `ByteFifo` is the cells from `pread` to `pwrite`.
That a step of the code is one step of the queue needs `Safe`: `Writes` (the
callback copies into free cells, and what it is about to publish is in them),
`ReadsUsed` (the reader copies cells in use and has copied what they hold,
although the callback publishes more meanwhile), `Counted` (what `read_sec` and
`buffer_read` have still to copy), `Known` and `Fresh` (every byte put comes
after all bytes there are). The callback's flush on overflow moves `pread`
under a read and ends all of this, so `IInv` is `~raced => Safe`, and the
refinement is proved for the behaviours in which `raced` never becomes true.
They are the ones note (2) of `dvb_ringbuffer.h` asks for; the run
`MCRbuf_unlocked` shows what the others do. `FifoUntilRaced` needs no such
hypothesis: all steps before that one are steps of the queue, in every
behaviour.

`Framed` compares what a read has returned with the chunks the callback put,
which says nothing about the bytes still in the buffer. `Framing` does, on top
of `Safe`: `Whole`, the queue is a chain of whole chunks, but for those the
reader and the callback have begun with; `Sized`, the callback has the rest of
its chunk to write; `Position`, the next byte of the queue is the one `read_sec`
expects, the first of a chunk when it starts a section and otherwise the one
behind those it has passed on, with `todo` and `secheader` counting them; and
`Steady`, what the reader's steps leave in its own variables. A flush by the
reader after an overflow drops the begun chunk together with the error, which
is why `Position` makes an exception between the two. As with the queue this
ends with the callback's flush under a read (`raced`).

*Sections.* The dump of `dvb_dmx_swfilter_section_copy_dump` is a recursive
function of the position. Where it ends and what it gives is proved by looking
at the largest position at which the claim fails (`GreatestElement` of
`ModLemmas`): a dump gives its pieces in the order of the buffer, none twice
(`DumpGives`), and of a buffer that is a layout of sections it gives exactly the
complete ones and stops at the start of the first incomplete one
(`DumpLayout`). The packets are shown to be of two shapes (`SendableIs`): the
next bytes of the current section, or its last ones and then a layout of others.
None of the properties is inductive: they speak of what was given, and what will
be given is in the buffer and in the broadcast. `IInv` says that

* the bytes in the buffer are in the order of the broadcast, each once,
  whatever was lost (`Ordered`); a section that was given has been sent to its
  end (`Ended`) and, unless a packet without payload has reset `secbufp`, no
  byte of it is in the buffer behind `secbufp` (`NotAgain`). From this follows
  `InOrderOnce`;
* a feed that is not suspect knows by the continuity counter how many packets it
  has missed (`InStep`), so a packet with the expected counter is the next one;
  when CCMOD are missed in a row the counter shows nothing, and the feed is
  suspect;
* the buffer of such a feed is a layout of sections and `secbufp` is the start
  of one (`StartsWithSection`). Then a dump gives no garbage, and the sections
  fit: behind at most a packet of complete sections there is room for one of
  MAXSEC bytes, which is what DMX_MAX_SECFEED_SIZE provides;
* a section of which the feed has seen every byte was given (`CleanIsSeen`).

*Frontend.* `OneThread` is not inductive: an open that found no thread waits
for the semaphore before it starts one. `ThreadKnown` says that
`fepriv->thread` points to every thread that is alive, until that thread clears
it on its way out with the semaphore held; `OpenKnows` that an open that stops a
thread knows the one that is alive, and that an open waiting for the semaphore
may share the frontend only with such a thread, and with none
when it has the semaphore. This rests on `Exclusive` (the count is 1 and nobody
is inside, or 0 and one is), so mutual exclusion and the single thread are one
invariant, `Safe`. It holds up to the first `sema_init` under users of the
semaphore or `up` without a `down` (`reinit`), as the properties themselves say.

`GapsReported` compares the number fetched with the one expected. `Events` says
what the queue holds: consecutive numbers up to the newest published one
(`Queued`), the first of them `next` unless an overflow was or will be reported
(`NextIs`), and during an addition the new event behind the queue with room for
it (`AddingIs`). That nobody fetches or adds in between is `Exclusive` again.
The proof for any number of callers showed the case the run with one caller
does not have: two calls that wait for one event. `torn` records it.

*Zigzag.* `Tuned` adds to `TunedIsRequested` the states in which a request is
still to be served: the cache holds it, but for what a get_frontend has
overwritten, and the next step sets the hardware.
For `SlowMeansAllTried`, `Swept` says that the loop has set every combination
or is on its first sweep: then all steps before `auto_step` and all sub steps
before `auto_sub_step` have been tried, and the point where the search stops is
behind. The search skips what lies beyond `max_drift` and wraps, and `Fits` is
what makes it reach that wrap.

*CA.* `RunningIsReset` must hold through all states between reset and RUNNING:
`UpIsReset` says there that the CAM in the slot is the one that was reset or
its change is pending. `ShutDown` and `ChangeCounted` say that a change being
handled is counted and has shut the slot, `PolledIsQuiet` that a slot without
interrupts has none pending. All of this is under `~stale` and, for the CAM in
the slot, `~missed`.

Only model-checked:

* liveness under fairness, which is out of the prover's reach
  (`InterruptDelivers`, `EdgeDispatched`, `WakesUp`, `FastEnds`, `Served`,
  `Settles`);
* `Dmxdev` and `CaRead`. The ioctls of `Dmxdev` walk the lists of feeds and
  filters of all files, with a clean-up at every point of failure, and
  `CaRead.WholeMessages` relates the packets of a ring to the fragments of
  several connections, some of them half written. An ioctl of `Dmxdev` is a
  composition of many steps that each may fail; what it does for every input
  would have to be proved first.

## 5. Not modelled

* *SAA7231*: register values and their order during engine set-up; dmabuf
  allocation; the DCSN access-violation bit and the unplugged test of the
  interrupt handler; the MSI and MSI-X modes of `saa7231_pci.c` (their handlers
  do nothing); board tables; the life cycle of a device with files open across
  probe and remove. I2C transfers are sequential under one lock and poll a
  status register; what a disturbed order of their steps does is defined by the
  chip.
* *Demux*: in the section callback of `Dmxdev`, the states in which the ring
  buffer holds an error (they are in `Rbuf`); the range check of a PID (one of
  the `Failures`); poll and the change of the buffer's size; the dvr device;
  PES payloads; the resynchronisation of `dvb_dmx_swfilter_204`; `dvb_filter.c`,
  which nothing in the driver calls.
* *Frontend*: shared frontends (`mfe_shared`), hardware algorithms of
  demodulators that tune by themselves, the translation between DVBv3 and
  property parameters, the estimate of delay and quality, DISEQC messages.
* *CA*: the tuples of the attribute memory, buffer size negotiation, poll's
  waiting, registration and release of the device; CA_GET_SLOT_INFO; two reads
  at the same time on one file.
* *Third-party and vendored*: demodulator, tuner and LNB drivers (I2C register
  sequences with the meaning in data sheets), the rest of the kernel's media
  tree, `dvb-core-5.9` (a newer copy for other kernels), dvb-apps, build files.
  They are most of the repository's lines, and none of them is what the SAA7231
  driver adds or runs its data through, so the share of all lines that is
  modelled stays small.

PROJECT.json lists every component with its reason, and the hazards no property
covers.

## 6. Plan

1. Proofs: `WholeMessages` of `CaRead`, with an invariant on the fragments of
   each connection in the ring; then `FeedsCounted` of `Dmxdev`.
2. `Lifecycle`: probe, remove and open files (demux node registered before the
   stream, stream freed before the demux is released), composing `Irq`'s thread
   with a small abstraction of `Dmxdev`.
3. `Feeds`: the abstract specification "a started filter gets its PIDs, the DMA
   runs while somebody is started", with `Dmxdev` shown to implement it.
