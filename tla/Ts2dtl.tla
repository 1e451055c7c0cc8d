------------------------------- MODULE Ts2dtl -------------------------------
(***************************************************************************)
(* The transport-stream capture path of one SAA7231 adapter: the dmabuf    *)
(* ring (saa7231_ring.c), the TS2DTL engine driver (saa7231_ts2dtl.c), the *)
(* DMA start/stop glue and the interrupt event handler (saa7231_dvb.c).    *)
(*                                                                         *)
(* Three actors run concurrently.                                          *)
(*  - The capture engine (hardware, external) fills the dmabuf that its    *)
(*    current page-table slot names, moves to the next slot and latches    *)
(*    the stream's bit in the MSI status word.                             *)
(*  - The interrupt handler reads and clears the latched bit and runs      *)
(*    saa7231_dvbts2dN_evhandler.                                          *)
(*  - The feed thread starts and stops the stream.  It holds feedlock and  *)
(*    dev_lock but not ring->lock, so it interleaves with the handler.     *)
(*                                                                         *)
(* fills, handled, skew and stale are history: completions and handler     *)
(* runs since the page tables were last initialised, the ring position at  *)
(* that moment, and whether an older interrupt was still in flight then.   *)
(***************************************************************************)
EXTENDS Integers

CONSTANTS RINGSIZ,       \* dmabufs in the ring (16)
          TS2D_BUFFERS,  \* page-table slots of the engine (8)
          MaxFills,      \* bound: completions per session
          MaxStarts      \* bound: times the stream is started

ASSUME SizesAssumption == /\ RINGSIZ \in Nat
                          /\ TS2D_BUFFERS \in Nat
                          /\ 1 < TS2D_BUFFERS
                          /\ TS2D_BUFFERS <= RINGSIZ
ASSUME BoundsAssumption == MaxFills \in Nat /\ MaxStarts \in Nat

VARIABLES ring,     \* [head, tail, count] of struct saa7231_ring
          index_w,  \* stream->index_w
          pta,      \* page-table slot -> dmabuf
          dtl,      \* [clock_run, stream_run, preload]
          eng,      \* [on, slot]: S2D_CTRL bit 0 and the slot being filled
          data,     \* dmabuf -> number of the fill it holds
          msi,      \* the stream's bit in MSI_INT_STATUS
          isr,      \* [pc, buf] of the interrupt handler
          thr,      \* [pc, tmp] of the feed thread
          starts, fills, handled, skew, stale

drvVars  == <<ring, index_w, pta, dtl>>
histVars == <<fills, handled, skew, stale>>
vars == <<drvVars, eng, data, msi, isr, thr, starts, histVars>>

Bufs  == 0 .. RINGSIZ - 1
Slots == 0 .. TS2D_BUFFERS - 1

NoData == -1   \* a dmabuf not filled since the page tables were initialised

-----------------------------------------------------------------------------
(* saa7231_ring.c *)

ring_empty(r) == r.count = 0
ring_full(r)  == r.count >= RINGSIZ

\* Mutant: the reader forgets ring->count--.
ring_read_keeps_count(r) == [head |-> (r.head + 1) % RINGSIZ, tail |-> r.tail, count |-> r.count]

\* saa7231_ring_read returns dmabuf[head] and moves the head.
ring_read(r) == [head |-> (r.head + 1) % RINGSIZ, tail |-> r.tail, count |-> r.count - 1]

\* Mutant: the tail is not reduced modulo ring->size.
ring_write_no_wrap(r) == [head  |-> r.head,
                          tail  |-> r.tail + 1,
                          count |-> IF r.count < RINGSIZ THEN r.count + 1 ELSE r.count]

\* saa7231_ring_write returns dmabuf[tail] and moves the tail.
ring_write(r) == [head  |-> r.head,
                  tail  |-> (r.tail + 1) % RINGSIZ,
                  count |-> IF r.count < RINGSIZ THEN r.count + 1 ELSE r.count]

ring_init == [head |-> 0, tail |-> 0, count |-> 0]

-----------------------------------------------------------------------------
(* saa7231_stream_init has run: saa7231_ts2dtl_init and the first acquire   *)
(* have each initialised the page tables, so index_w has grown twice.      *)
(* Acquire swallows its errors, so any of them may have failed.             *)
Init ==
  /\ ring = ring_init
  /\ index_w \in {TS2D_BUFFERS, 2 * TS2D_BUFFERS}
  /\ pta = [s \in Slots |-> s]
  /\ \E c, p \in BOOLEAN :
        /\ index_w = TS2D_BUFFERS <=> ~c
        /\ p => c
        /\ dtl = [clock_run |-> c, stream_run |-> FALSE, preload |-> p]
  /\ eng = [on |-> FALSE, slot |-> 0]
  /\ data = [b \in Bufs |-> NoData]
  /\ msi = FALSE
  /\ isr = [pc |-> "idle", buf |-> 0]
  /\ thr = [pc |-> "stopped", tmp |-> 0]
  /\ starts = 0 /\ fills = 0 /\ handled = 0 /\ skew = 0 /\ stale = FALSE

-----------------------------------------------------------------------------
(* The capture engine (external). *)

\* One buffer is complete: its slot's dmabuf holds fill number `fills`, the
\* engine moves on and the rising edge is latched.  A bit that is already
\* latched absorbs the edge: that interrupt is lost.
Fill ==
  /\ eng.on /\ fills < MaxFills
  /\ data' = [data EXCEPT ![pta[eng.slot]] = fills]
  /\ eng' = [eng EXCEPT !.slot = (@ + 1) % TS2D_BUFFERS]
  /\ fills' = fills + 1
  /\ msi' = TRUE
  /\ UNCHANGED <<drvVars, isr, thr, starts, handled, skew, stale>>

-----------------------------------------------------------------------------
(* The interrupt handler. *)

\* saa7231_irq_handler reads the status words ...
IrqStatus ==
  /\ isr.pc = "idle" /\ msi
  /\ isr' = [isr EXCEPT !.pc = "clear"]
  /\ UNCHANGED <<drvVars, eng, data, msi, thr, starts, histVars>>

\* Mutant: the bit is acknowledged but no event handler is found for it.
IrqClearOnly ==
  /\ isr.pc = "clear"
  /\ msi' = FALSE
  /\ isr' = [isr EXCEPT !.pc = "idle"]
  /\ UNCHANGED <<drvVars, eng, data, thr, starts, histVars>>

\* ... and acknowledges what it read; an edge in between is lost.
IrqClear ==
  /\ isr.pc = "clear"
  /\ msi' = FALSE
  /\ isr' = [isr EXCEPT !.pc = "write"]
  /\ UNCHANGED <<drvVars, eng, data, thr, starts, histVars>>

\* The loop over the status word acknowledges all it read once for every bit
\* it finds set.  With another stream's bit set, that happens before or after
\* this stream's turn as well, and loses what was latched since.
IrqClearOther ==
  /\ isr.pc \in {"clear", "rest"}
  /\ msi' = FALSE
  /\ UNCHANGED <<drvVars, eng, data, isr, thr, starts, histVars>>

\* The event handler takes ring->lock, get_buffer acknowledges the engine
\* (the index it reports is not used), and a ring that is not full yields
\* the next dmabuf to hand to the engine.
EvWrite ==
  /\ isr.pc = "write"
  /\ IF ring_full(ring)
       THEN /\ isr' = [isr EXCEPT !.pc = "read"]
            /\ UNCHANGED ring
       ELSE /\ isr' = [pc |-> "wrap", buf |-> ring.tail]
            /\ ring' = ring_write(ring)
  /\ UNCHANGED <<index_w, pta, dtl, eng, data, msi, thr, starts, histVars>>

\* Mutants: the test compares with one slot too few, or is dropped.
EvWrapEarly ==
  /\ isr.pc = "wrap"
  /\ index_w' = IF index_w > TS2D_BUFFERS - 2 THEN 0 ELSE index_w
  /\ isr' = [isr EXCEPT !.pc = "set"]
  /\ UNCHANGED <<ring, pta, dtl, eng, data, msi, thr, starts, histVars>>

EvWrapDropped ==
  /\ isr.pc = "wrap"
  /\ isr' = [isr EXCEPT !.pc = "set"]
  /\ UNCHANGED <<ring, index_w, pta, dtl, eng, data, msi, thr, starts, histVars>>

\* An index past the last slot starts over.
EvWrap ==
  /\ isr.pc = "wrap"
  /\ index_w' = IF index_w > TS2D_BUFFERS - 1 THEN 0 ELSE index_w
  /\ isr' = [isr EXCEPT !.pc = "set"]
  /\ UNCHANGED <<ring, pta, dtl, eng, data, msi, thr, starts, histVars>>

\* saa7231_ts2dtl_set_buffer: an index outside the table changes nothing.
set_buffer(i, b) ==
  pta' = IF i \in Slots THEN [pta EXCEPT ![i] = b] ELSE pta

EvSet ==
  /\ isr.pc = "set"
  /\ set_buffer(index_w, isr.buf)
  /\ isr' = [isr EXCEPT !.pc = "inc"]
  /\ UNCHANGED <<ring, index_w, dtl, eng, data, msi, thr, starts, histVars>>

\* Mutant: index_w++ is missing.
EvIncMissing ==
  /\ isr.pc = "inc"
  /\ isr' = [isr EXCEPT !.pc = "read"]
  /\ UNCHANGED <<ring, index_w, pta, dtl, eng, data, msi, thr, starts, histVars>>

EvInc ==
  /\ isr.pc = "inc"
  /\ index_w' = index_w + 1
  /\ isr' = [isr EXCEPT !.pc = "read"]
  /\ UNCHANGED <<ring, pta, dtl, eng, data, msi, thr, starts, histVars>>

\* A ring that is not empty yields the dmabuf passed to the software demux.
EvRead ==
  /\ isr.pc = "read"
  /\ IF ring_empty(ring)
       THEN /\ isr' = [isr EXCEPT !.pc = "unlock"]
            /\ UNCHANGED ring
       ELSE /\ isr' = [pc |-> "deliver", buf |-> ring.head]
            /\ ring' = ring_read(ring)
  /\ UNCHANGED <<index_w, pta, dtl, eng, data, msi, thr, starts, histVars>>

\* dvb_dmx_swfilter_packets is done with the buffer; the event handler
\* returns to the loop over the status words ...
EvDone ==
  /\ isr.pc \in {"deliver", "unlock"}
  /\ isr' = [isr EXCEPT !.pc = "rest"]
  /\ handled' = handled + 1
  /\ UNCHANGED <<drvVars, eng, data, msi, thr, starts, fills, skew, stale>>

\* ... which ends.
IrqReturn ==
  /\ isr.pc = "rest"
  /\ isr' = [isr EXCEPT !.pc = "idle"]
  /\ UNCHANGED <<drvVars, eng, data, msi, thr, starts, histVars>>

-----------------------------------------------------------------------------
(* The feed thread: saa7231_dma_start and saa7231_dma_stop. *)

Goto(pc) == thr' = [thr EXCEPT !.pc = pc]

\* acquire with dev_lock: clocks that are off are activated first.  If that
\* fails nothing else is set up, and acquire still reports success.
AcquireClocks ==
  /\ thr.pc = "stopped" /\ starts < MaxStarts
  /\ starts' = starts + 1
  /\ \/ /\ Goto("reset")
        /\ dtl' = [dtl EXCEPT !.clock_run = TRUE]
     \/ /\ ~dtl.clock_run
        /\ Goto("run")
        /\ UNCHANGED dtl
  /\ UNCHANGED <<ring, index_w, pta, eng, data, msi, isr, histVars>>

\* setparams: the software reset halts the engine and rewinds it.
SetparamsReset ==
  /\ thr.pc = "reset"
  /\ eng' = [on |-> FALSE, slot |-> 0]
  /\ Goto("ptables")
  /\ UNCHANGED <<drvVars, data, msi, isr, starts, histVars>>

\* saa7231_init_ptables: slot s points at dmabuf s again.  The ring is not
\* re-initialised.  A new session begins for the history variables.
InitPtables ==
  /\ thr.pc = "ptables"
  /\ pta' = [s \in Slots |-> s]
  /\ Goto("idxread")
  /\ data' = [b \in Bufs |-> NoData]
  /\ fills' = 0 /\ handled' = 0
  /\ skew' = ring.tail
  /\ stale' = (msi \/ isr.pc # "idle")
  /\ UNCHANGED <<ring, index_w, dtl, eng, msi, isr, starts>>

\* stream->index_w += 8, a read ...
InitIndexRead ==
  /\ thr.pc = "idxread"
  /\ thr' = [pc |-> "idxwrite", tmp |-> index_w]
  /\ UNCHANGED <<drvVars, eng, data, msi, isr, starts, histVars>>

\* ... and a write that no lock protects against the handler's.
InitIndexWrite ==
  /\ thr.pc = "idxwrite"
  /\ index_w' = thr.tmp + TS2D_BUFFERS
  /\ Goto("prepare")
  /\ UNCHANGED <<ring, pta, dtl, eng, data, msi, isr, starts, histVars>>

\* The rest of setparams (S2D_CTRL := 0) and run_prepare: preloading the
\* page tables succeeds or times out.  Acquire returns 0 either way.
RunPrepare ==
  /\ thr.pc = "prepare"
  /\ eng' = [eng EXCEPT !.on = FALSE]
  /\ \E ok \in BOOLEAN : dtl' = [dtl EXCEPT !.preload = ok]
  /\ Goto("run")
  /\ UNCHANGED <<ring, index_w, pta, data, msi, isr, starts, histVars>>

\* saa7231_ts2dtl_run
Run ==
  /\ thr.pc = "run"
  /\ eng' = [eng EXCEPT !.on = TRUE]
  /\ dtl' = [dtl EXCEPT !.stream_run = TRUE]
  /\ Goto("started")
  /\ UNCHANGED <<ring, index_w, pta, data, msi, isr, starts, histVars>>

\* saa7231_ts2dtl_stop clears clock_run and touches nothing else: the
\* engine keeps capturing.
DmaStop ==
  /\ thr.pc = "started"
  /\ dtl' = [dtl EXCEPT !.clock_run = FALSE]
  /\ Goto("stopped")
  /\ UNCHANGED <<ring, index_w, pta, eng, data, msi, isr, starts, histVars>>

-----------------------------------------------------------------------------
HandlerStep == \/ IrqStatus \/ IrqClear \/ EvWrite \/ EvWrap \/ EvSet \/ EvInc
               \/ EvRead \/ EvDone \/ IrqReturn

Isr == HandlerStep \/ IrqClearOther

Thread == \/ AcquireClocks \/ SetparamsReset \/ InitPtables \/ InitIndexRead
          \/ InitIndexWrite \/ RunPrepare \/ Run \/ DmaStop

Next == Fill \/ Isr \/ Thread

Spec == Init /\ [][Next]_vars

\* An interrupt that is pending is taken, for the line stays asserted while
\* the bit is latched, and a handler that runs finishes: its loops are finite.
FairSpec == Spec /\ WF_vars(HandlerStep)

-----------------------------------------------------------------------------
(* Properties. *)

TypeOK ==
  /\ ring \in [head : Bufs, tail : Bufs, count : 0 .. RINGSIZ]
  /\ index_w \in Nat
  /\ pta \in [Slots -> Bufs]
  /\ dtl \in [clock_run : BOOLEAN, stream_run : BOOLEAN, preload : BOOLEAN]
  /\ eng \in [on : BOOLEAN, slot : Slots]
  /\ data \in [Bufs -> Nat \cup {NoData}]
  /\ msi \in BOOLEAN
  /\ isr \in [pc : {"idle", "clear", "write", "wrap", "set", "inc", "read",
                    "deliver", "unlock", "rest"}, buf : Bufs]
  /\ thr \in [pc : {"stopped", "reset", "ptables", "idxread", "idxwrite",
                    "prepare", "run", "started"}, tmp : Nat]
  /\ starts \in Nat /\ fills \in Nat /\ handled \in Nat
  /\ skew \in Bufs /\ stale \in BOOLEAN

\* The ring (saa7231_ring.c, used by the event handlers) never accumulates:
\* between the write and the read of one handler run it holds exactly the
\* buffer just handed to the engine, and otherwise it is empty with head and
\* tail together.  So ring_full is never seen, ring->count (u32) never goes
\* below zero, and every handler run both re-arms a slot and delivers.
RingBalanced ==
  IF isr.pc \in {"wrap", "set", "inc", "read"}
    THEN /\ ring.count = 1
         /\ isr.buf = ring.head
         /\ ring.tail = (ring.head + 1) % RINGSIZ
    ELSE ring.count = 0 /\ ring.head = ring.tail

\* The session started with the ring at its origin and no old interrupt in
\* flight, so handler run k uses dmabuf k % RINGSIZ and slot k % TS2D_BUFFERS.
\* The first session does.  A restart need not: saa7231_ts2dtl_setparams sets
\* up the page tables and index_w and leaves the ring where the last session
\* left it, and there the code may arm one dmabuf in two slots.
InPhase == skew = 0 /\ ~stale

\* Completions the handler has not finished with.
Behind == fills - handled

\* The dmabuf passed to the software demux is not the one the engine is
\* writing, as long as the handler is fewer than TS2D_BUFFERS completions
\* behind.  The handler counts interrupts instead of using the index that
\* get_buffer reads, so every lost interrupt uses up one of these for good.
NoDmaRace ==
  InPhase /\ Behind < TS2D_BUFFERS /\ isr.pc = "deliver" /\ eng.on
    => pta[eng.slot] # isr.buf

\* In a session that started in phase (InPhase), no two slots of the engine's
\* page table name the same dmabuf: two captures in flight never share memory,
\* however many interrupts are lost and wherever a stop or the set-up of the
\* next session falls into a handler run.
SlotsDistinct ==
  InPhase => \A s, t \in Slots : pta[s] = pta[t] => s = t

\* What handler run k of a session passes to the demux: the first
\* TS2D_BUFFERS fills at once, then one lap of buffers that were never
\* filled, and from there every fill once, in order, RINGSIZ - TS2D_BUFFERS
\* runs late.
ExpectedFill(k) ==
  CASE k < TS2D_BUFFERS -> k
    [] k >= TS2D_BUFFERS /\ k < RINGSIZ -> NoData
    [] k >= RINGSIZ -> k - RINGSIZ + TS2D_BUFFERS

\* Every fill reaches the demux exactly once and in order (the event handler
\* with saa7231_init_ptables and the ring), while the handler keeps up.
DeliveredInOrder ==
  InPhase /\ Behind < TS2D_BUFFERS /\ isr.pc = "deliver"
    => data[isr.buf] = ExpectedFill(handled)

\* Handler runs of the session that have taken a buffer from the ring, and
\* that have re-armed a slot, the current one included.
Taken == IF isr.pc \in {"idle", "clear", "write", "rest"} THEN handled ELSE handled + 1
Armed == IF isr.pc \in {"inc", "read", "deliver", "unlock"} THEN handled + 1 ELSE handled

\* Slot j % TS2D_BUFFERS holds dmabuf j % RINGSIZ for the last TS2D_BUFFERS
\* runs j; the initial page tables count as the first ones.
SlotsInStep ==
  LET w == IF Armed < TS2D_BUFFERS THEN TS2D_BUFFERS ELSE Armed
  IN \A j \in w - TS2D_BUFFERS .. w - 1 : pta[j % TS2D_BUFFERS] = j % RINGSIZ

\* index_w is the slot of the current run; before the wrap it may instead be
\* any value past the table, when the run's slot is 0.
IndexInStep ==
  LET s == handled % TS2D_BUFFERS IN
  CASE isr.pc \in {"idle", "clear", "write", "wrap", "rest"} ->
         thr.pc \in {"idxread", "idxwrite"} \/ index_w = s \/ (s = 0 /\ index_w >= TS2D_BUFFERS)
    [] isr.pc \in {"set", "inc"} -> index_w = s
    [] isr.pc \in {"read", "deliver", "unlock"} -> index_w = s + 1

\* Every handler run, and every latched bit, stands for a completion of the
\* session; the engine is at the slot of the next one.
EngineInStep ==
  /\ fills >= handled + (IF isr.pc \in {"idle", "rest"} THEN 0 ELSE 1)
                      + (IF msi /\ isr.pc # "clear" THEN 1 ELSE 0)
  /\ thr.pc # "ptables" => eng.slot = fills % TS2D_BUFFERS

\* The engine is off while it is set up, and rewound before the page tables.
SetupOff ==
  /\ thr.pc \in {"ptables", "idxread", "idxwrite", "prepare"} => ~eng.on
  /\ thr.pc = "ptables" => eng.slot = 0

\* The handler is quiet while index_w is set up.
QuietSetup ==
  thr.pc \in {"idxread", "idxwrite"} => ~msi /\ isr.pc = "idle" /\ handled = 0

\* The engine is off during set-up.  If no interrupt of the last session was
\* in flight when this one began, no handler runs while index_w is set up, and
\* every handler run stands for a completion of this session.  If in addition
\* the ring was at its origin (InPhase), the ring, index_w and the page tables
\* (saa7231_dvb.c, saa7231_ring.c, saa7231_ts2dtl.c) stay in step: handler run
\* k re-arms slot k % TS2D_BUFFERS with dmabuf k % RINGSIZ.  Of a restart that
\* finds the ring elsewhere, which the code does not re-initialise, only the
\* first two are said.
InStep ==
  /\ SetupOff
  /\ ~stale => EngineInStep /\ QuietSetup
  /\ InPhase => /\ ring.tail = Taken % RINGSIZ
                /\ Taken # handled => isr.buf = handled % RINGSIZ
                /\ SlotsInStep
                /\ IndexInStep

\* An interrupt latched while no handler runs leads to a delivery
\* (saa7231_irq_handler and the event handler), whatever the feed thread and
\* the other streams' interrupts do meanwhile.  One latched during a handler
\* run may be lost.
InterruptDelivers == (msi /\ isr.pc = "idle") ~> isr.pc = "deliver"

\* saa7231_ts2dtl_set_buffer reports "Invalid Index" as an error: the event
\* handler wraps index_w first, so that it never passes one.
SetIndexValid == isr.pc = "set" => index_w \in Slots

=============================================================================
