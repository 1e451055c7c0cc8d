--------------------------- MODULE Ts2dtl_proofs ---------------------------
(***************************************************************************)
(* Proofs about the capture path, for every ring size and every number of  *)
(* page-table slots.  The handler, the ring, the page tables and the       *)
(* engine stay in step; from that, no two slots name one dmabuf, no        *)
(* delivered dmabuf is being written, and the fills reach the demux once   *)
(* and in order.                                                           *)
(***************************************************************************)
EXTENDS Ts2dtl, ModLemmas, TLAPS

\* The engine and the ring have a first slot and a first buffer.
LEMMA Sizes == /\ RINGSIZ \in Nat /\ RINGSIZ > 0
               /\ TS2D_BUFFERS \in Nat /\ TS2D_BUFFERS > 0
               /\ 0 \in Bufs /\ 0 \in Slots /\ Slots \subseteq Bufs
  BY SizesAssumption DEF Bufs, Slots

\* struct saa7231_ring.
RingType == [head : Bufs, tail : Bufs, count : 0 .. RINGSIZ]

\* saa7231_ring_write keeps the ring well formed, and adds one buffer unless
\* the ring is full.
LEMMA RingWrite ==
  ASSUME NEW r \in RingType
  PROVE  /\ ring_write(r) \in RingType
         /\ ring_write(r).head = r.head
         /\ ring_write(r).tail = (r.tail + 1) % RINGSIZ
         /\ r.count < RINGSIZ => ring_write(r).count = r.count + 1
<1> DEFINE t == (r.tail + 1) % RINGSIZ
           c == IF r.count < RINGSIZ THEN r.count + 1 ELSE r.count
<1>1. t \in Bufs
  BY ModInRange, Sizes DEF RingType, Bufs
<1>2. c \in 0 .. RINGSIZ
  BY Sizes DEF RingType
<1>3. ring_write(r) = [head |-> r.head, tail |-> t, count |-> c]
  BY DEF ring_write
<1> HIDE DEF t, c
<1>4. ring_write(r) \in RingType
  BY <1>1, <1>2, <1>3 DEF RingType
<1>5. QED
  BY <1>3, <1>4 DEF t, c

\* saa7231_ring_read keeps a ring that is not empty well formed, and takes
\* one buffer out.
LEMMA RingRead ==
  ASSUME NEW r \in RingType, r.count # 0
  PROVE  /\ ring_read(r) \in RingType
         /\ ring_read(r).head = (r.head + 1) % RINGSIZ
         /\ ring_read(r).tail = r.tail
         /\ ring_read(r).count = r.count - 1
<1> DEFINE h == (r.head + 1) % RINGSIZ
           c == r.count - 1
<1>1. h \in Bufs
  BY ModInRange, Sizes DEF RingType, Bufs
<1>2. c \in 0 .. RINGSIZ
  BY Sizes DEF RingType
<1>3. ring_read(r) = [head |-> h, tail |-> r.tail, count |-> c]
  BY DEF ring_read
<1> HIDE DEF h, c
<1>4. ring_read(r) \in RingType
  BY <1>1, <1>2, <1>3 DEF RingType
<1>5. QED
  BY <1>3, <1>4 DEF h, c

-----------------------------------------------------------------------------

\* The types hold after saa7231_stream_init.
LEMMA InitTypeOK == Init => TypeOK
<1> SUFFICES ASSUME Init PROVE TypeOK
  OBVIOUS
<1>1. ring \in [head : Bufs, tail : Bufs, count : 0 .. RINGSIZ]
  BY Sizes DEF Init, ring_init
<1>2. pta \in [Slots -> Bufs]
  BY Sizes DEF Init
<1>3. PICK c, p \in BOOLEAN :
        dtl = [clock_run |-> c, stream_run |-> FALSE, preload |-> p]
  BY DEF Init
<1>4. dtl \in [clock_run : BOOLEAN, stream_run : BOOLEAN, preload : BOOLEAN]
  BY <1>3
<1>5. data \in [Bufs -> Nat \cup {NoData}]
  BY DEF Init
<1>6. index_w \in Nat /\ eng \in [on : BOOLEAN, slot : Slots]
  BY Sizes DEF Init
<1>7. QED
  BY <1>1, <1>2, <1>4, <1>5, <1>6, Sizes DEF Init, TypeOK

\* Every step keeps the types.
LEMMA NextTypeOK == TypeOK /\ [Next]_vars => TypeOK'
<1> SUFFICES ASSUME TypeOK, [Next]_vars PROVE TypeOK'
  OBVIOUS
<1> USE Sizes
<1>1. CASE Fill
  <2>1. pta[eng.slot] \in Bufs
    BY DEF TypeOK
  <2>2. (eng.slot + 1) % TS2D_BUFFERS \in Slots
    BY ModInRange DEF TypeOK, Slots
  <2>3. data' \in [Bufs -> Nat \cup {NoData}]
    BY <1>1, <2>1 DEF Fill, TypeOK
  <2>4. eng' \in [on : BOOLEAN, slot : Slots]
    BY <1>1, <2>2 DEF Fill, TypeOK
  <2>5. QED
    BY <1>1, <2>3, <2>4 DEF Fill, TypeOK, drvVars
<1>2. CASE IrqStatus
  BY <1>2 DEF IrqStatus, TypeOK, drvVars, histVars
<1>3. CASE IrqClear
  BY <1>3 DEF IrqClear, TypeOK, drvVars, histVars
<1>4. CASE EvWrite
  <2>1. ring' \in RingType
    BY <1>4, RingWrite DEF EvWrite, TypeOK, RingType
  <2>2. isr' \in [pc : {"wrap", "read"}, buf : Bufs]
    BY <1>4 DEF EvWrite, TypeOK
  <2>3. QED
    BY <1>4, <2>1, <2>2 DEF EvWrite, TypeOK, histVars, RingType
<1>5. CASE EvWrap
  BY <1>5 DEF EvWrap, TypeOK, histVars
<1>6. CASE EvSet
  BY <1>6 DEF EvSet, set_buffer, TypeOK, histVars
<1>7. CASE EvInc
  BY <1>7 DEF EvInc, TypeOK, histVars
<1>8. CASE EvRead
  <2>1. ring' \in RingType
    BY <1>8, RingRead DEF EvRead, TypeOK, RingType, ring_empty
  <2>2. isr' \in [pc : {"unlock", "deliver"}, buf : Bufs]
    BY <1>8 DEF EvRead, TypeOK
  <2>3. QED
    BY <1>8, <2>1, <2>2 DEF EvRead, TypeOK, histVars, RingType
<1>9. CASE EvDone
  BY <1>9 DEF EvDone, TypeOK, drvVars
<1>10. CASE AcquireClocks
  <2>1. dtl' \in [clock_run : BOOLEAN, stream_run : BOOLEAN, preload : BOOLEAN]
    BY <1>10 DEF AcquireClocks, TypeOK
  <2>2. thr' \in [pc : {"reset", "run"}, tmp : Nat]
    BY <1>10 DEF AcquireClocks, Goto, TypeOK
  <2>3. QED
    BY <1>10, <2>1, <2>2 DEF AcquireClocks, TypeOK, histVars
<1>11. CASE SetparamsReset
  BY <1>11 DEF SetparamsReset, Goto, TypeOK, drvVars, histVars
<1>12. CASE InitPtables
  <2>1. pta' \in [Slots -> Bufs]
    BY <1>12 DEF InitPtables
  <2>2. data' \in [Bufs -> Nat \cup {NoData}]
    BY <1>12 DEF InitPtables
  <2>3. stale' \in BOOLEAN /\ skew' \in Bufs
    BY <1>12 DEF InitPtables, TypeOK
  <2>4. QED
    BY <1>12, <2>1, <2>2, <2>3 DEF InitPtables, Goto, TypeOK
<1>13. CASE InitIndexRead
  BY <1>13 DEF InitIndexRead, TypeOK, drvVars, histVars
<1>14. CASE InitIndexWrite
  BY <1>14 DEF InitIndexWrite, Goto, TypeOK, histVars
<1>15. CASE RunPrepare
  BY <1>15 DEF RunPrepare, Goto, TypeOK, histVars
<1>16. CASE Run
  BY <1>16 DEF Run, Goto, TypeOK, histVars
<1>17. CASE DmaStop
  BY <1>17 DEF DmaStop, Goto, TypeOK, histVars
<1>18. CASE UNCHANGED vars
  BY <1>18 DEF vars, drvVars, histVars, TypeOK
<1>19. CASE IrqClearOther \/ IrqReturn
  BY <1>19, ZenonT(60) DEF IrqClearOther, IrqReturn, TypeOK, drvVars, histVars
<1>20. QED
  BY <1>1, <1>2, <1>3, <1>4, <1>5, <1>6, <1>7, <1>8, <1>9, <1>10, <1>11,
     <1>12, <1>13, <1>14, <1>15, <1>16, <1>17, <1>18, <1>19
  DEF Next, Isr, HandlerStep, Thread

\* The type invariant of the capture path.
THEOREM TypeCorrect == Spec => []TypeOK
  BY InitTypeOK, NextTypeOK, PTL DEF Spec

-----------------------------------------------------------------------------

\* Every step keeps the ring balanced.
LEMMA NextRingBalanced ==
  TypeOK /\ RingBalanced /\ [Next]_vars => RingBalanced'
<1> SUFFICES ASSUME TypeOK, RingBalanced, [Next]_vars PROVE RingBalanced'
  OBVIOUS
<1> USE Sizes
<1>1. CASE EvWrite
  <2>1. ring \in RingType /\ ring.count = 0 /\ ring.head = ring.tail
    BY <1>1 DEF EvWrite, RingBalanced, TypeOK, RingType
  <2>2. ~ring_full(ring)
    BY <2>1 DEF ring_full
  <2>3. ring' = ring_write(ring) /\ isr' = [pc |-> "wrap", buf |-> ring.tail]
    BY <1>1, <2>2 DEF EvWrite
  <2>4. ring'.head = ring.head /\ ring'.count = 1
        /\ ring'.tail = (ring.tail + 1) % RINGSIZ
    BY <2>1, <2>3, RingWrite
  <2>5. QED
    BY <2>1, <2>3, <2>4 DEF RingBalanced
<1>2. CASE EvRead
  <2>1. /\ ring \in RingType /\ ring.count = 1
        /\ ring.tail = (ring.head + 1) % RINGSIZ
    BY <1>2 DEF EvRead, RingBalanced, TypeOK, RingType
  <2>2. ~ring_empty(ring)
    BY <2>1 DEF ring_empty
  <2>3. ring' = ring_read(ring) /\ isr' = [pc |-> "deliver", buf |-> ring.head]
    BY <1>2, <2>2 DEF EvRead
  <2>4. ring'.head = ring'.tail /\ ring'.count = 0
    BY <2>1, <2>3, RingRead
  <2>5. QED
    BY <2>3, <2>4 DEF RingBalanced
<1>3. CASE Fill \/ Thread \/ UNCHANGED vars
  BY <1>3 DEF Fill, Thread, AcquireClocks, SetparamsReset, InitPtables,
     InitIndexRead, InitIndexWrite, RunPrepare, Run, DmaStop, vars, drvVars,
     RingBalanced
<1>4. CASE IrqStatus \/ IrqClear \/ EvWrap \/ EvSet \/ EvInc \/ EvDone \/ IrqReturn
  BY <1>4 DEF IrqStatus, IrqClear, EvWrap, EvSet, EvInc, EvDone, IrqReturn, drvVars,
     RingBalanced, TypeOK
<1>5. CASE IrqClearOther
  BY <1>5 DEF IrqClearOther, drvVars, RingBalanced
<1>6. QED
  BY <1>1, <1>2, <1>3, <1>4, <1>5 DEF Next, Isr, HandlerStep

\* The ring never accumulates, never overflows and never underflows, for every
\* ring size and every interleaving of the handler with a restart.
THEOREM RingNeverAccumulates == Spec => []RingBalanced
<1>1. Init => RingBalanced
  BY DEF Init, ring_init, RingBalanced
<1>2. QED
  BY <1>1, InitTypeOK, NextTypeOK, NextRingBalanced, PTL DEF Spec

-----------------------------------------------------------------------------
(* The parts of InStep are preserved one by one, each from InStep, TypeOK   *)
(* and RingBalanced.                                                         *)

\* The inductive invariant: InStep rests on the types and the balanced ring.
IInv == TypeOK /\ RingBalanced /\ InStep

\* Run k uses dmabuf k % RINGSIZ.
RingInStep == /\ ring.tail = Taken % RINGSIZ
              /\ Taken # handled => isr.buf = handled % RINGSIZ

\* InStep is the conjunction of these five.
LEMMA InStepParts ==
  InStep <=> /\ SetupOff
             /\ ~stale => EngineInStep /\ QuietSetup
             /\ InPhase => RingInStep
             /\ InPhase => SlotsInStep
             /\ InPhase => IndexInStep
  BY DEF InStep, RingInStep

\* More than one slot, at least as many dmabufs.
LEMMA ManySlots == RINGSIZ > 1 /\ TS2D_BUFFERS > 1 /\ TS2D_BUFFERS <= RINGSIZ
  BY SizesAssumption

\* The ring is empty when a handler run begins and holds the run's buffer
\* when it reads: no run leaves early.
LEMMA NoEarlyExit ==
  ASSUME TypeOK, RingBalanced
  PROVE  /\ EvWrite => /\ isr' = [pc |-> "wrap", buf |-> ring.tail]
                       /\ ring' = ring_write(ring)
         /\ EvRead => /\ isr' = [pc |-> "deliver", buf |-> isr.buf]
                      /\ ring' = ring_read(ring)
<1> USE Sizes
<1>1. ASSUME EvWrite
      PROVE  isr' = [pc |-> "wrap", buf |-> ring.tail] /\ ring' = ring_write(ring)
  <2>1. isr.pc = "write" /\ ring.count = 0
    BY <1>1 DEF EvWrite, RingBalanced
  <2>2. ~ring_full(ring)
    BY <2>1 DEF ring_full
  <2>3. QED
    BY <1>1, <2>2 DEF EvWrite
<1>2. ASSUME EvRead
      PROVE  isr' = [pc |-> "deliver", buf |-> isr.buf] /\ ring' = ring_read(ring)
  <2>1. isr.pc = "read" /\ ring.count = 1 /\ isr.buf = ring.head
    BY <1>2 DEF EvRead, RingBalanced
  <2>2. ~ring_empty(ring)
    BY <2>1 DEF ring_empty
  <2>3. QED
    BY <1>2, <2>1, <2>2 DEF EvRead
<1>3. QED
  BY <1>1, <1>2

\* What a step of the handler does to its program counter.
LEMMA HandlerMoves ==
  ASSUME TypeOK, RingBalanced
  PROVE  /\ IrqStatus => isr.pc = "idle" /\ isr'.pc = "clear" /\ isr'.buf = isr.buf
         /\ IrqClear => isr.pc = "clear" /\ isr'.pc = "write" /\ isr'.buf = isr.buf
         /\ EvWrite => isr.pc = "write" /\ isr'.pc = "wrap" /\ isr'.buf = ring.tail
         /\ EvWrap => isr.pc = "wrap" /\ isr'.pc = "set" /\ isr'.buf = isr.buf
         /\ EvSet => isr.pc = "set" /\ isr'.pc = "inc" /\ isr'.buf = isr.buf
         /\ EvInc => isr.pc = "inc" /\ isr'.pc = "read" /\ isr'.buf = isr.buf
         /\ EvRead => isr.pc = "read" /\ isr'.pc = "deliver" /\ isr'.buf = isr.buf
         /\ EvDone => isr.pc \in {"deliver", "unlock"} /\ isr'.pc = "rest" /\ isr'.buf = isr.buf
         /\ IrqReturn => isr.pc = "rest" /\ isr'.pc = "idle" /\ isr'.buf = isr.buf
         /\ IrqClearOther => isr.pc \in {"clear", "rest"} /\ isr' = isr
<1>1. EvWrite => isr.pc = "write" /\ isr'.pc = "wrap" /\ isr'.buf = ring.tail
  BY NoEarlyExit DEF EvWrite
<1>2. EvRead => isr.pc = "read" /\ isr'.pc = "deliver" /\ isr'.buf = isr.buf
  BY NoEarlyExit DEF EvRead
<1>3. QED
  BY <1>1, <1>2 DEF TypeOK, IrqStatus, IrqClear, EvWrap, EvSet, EvInc, EvDone,
     IrqReturn, IrqClearOther

-----------------------------------------------------------------------------

\* InStep, part by part: the engine is off while it is set up,
LEMMA SetupOffStep == IInv /\ [Next]_vars => SetupOff'
<1> SUFFICES ASSUME IInv, [Next]_vars PROVE SetupOff'
  OBVIOUS
<1>1. SetupOff /\ TypeOK
  BY InStepParts DEF IInv
<1>2. CASE Fill \/ Isr \/ UNCHANGED vars
  BY <1>1, <1>2 DEF Fill, Isr, HandlerStep, IrqStatus, IrqClear,
     IrqClearOther, IrqReturn, EvWrite, EvWrap, EvSet, EvInc,
     EvRead, EvDone, vars, SetupOff, TypeOK
<1>3. CASE Thread
  BY <1>1, <1>3 DEF Thread, AcquireClocks, SetparamsReset, InitPtables, InitIndexRead,
     InitIndexWrite, RunPrepare, Run, DmaStop, Goto, SetupOff, TypeOK
<1>4. QED
  BY <1>2, <1>3 DEF Next

\* the handler is quiet meanwhile,
LEMMA QuietSetupStep == IInv /\ [Next]_vars => (~stale => QuietSetup)'
<1> SUFFICES ASSUME IInv, [Next]_vars, ~stale' PROVE QuietSetup'
  OBVIOUS
<1>1. SetupOff /\ TypeOK /\ (~stale => QuietSetup)
  BY InStepParts DEF IInv
<1>2. CASE Fill
  BY <1>1, <1>2 DEF Fill, SetupOff, QuietSetup
<1>3. CASE Isr
  BY <1>1, <1>3 DEF Isr, HandlerStep, IrqStatus, IrqClear,
     IrqClearOther, IrqReturn, EvWrite, EvWrap, EvSet, EvInc,
     EvRead, EvDone, QuietSetup, histVars
<1>4. CASE InitPtables
  BY <1>1, <1>4 DEF InitPtables, QuietSetup, TypeOK
<1>5. CASE Thread /\ ~InitPtables
  BY <1>1, <1>5 DEF Thread, AcquireClocks, SetparamsReset, InitIndexRead,
     InitIndexWrite, RunPrepare, Run, DmaStop, Goto, QuietSetup, TypeOK, histVars
<1>6. CASE UNCHANGED vars
  BY <1>1, <1>6 DEF vars, QuietSetup, histVars
<1>7. QED
  BY <1>2, <1>3, <1>4, <1>5, <1>6 DEF Next

\* every run and every latched bit stands for a completion,
LEMMA EngineInStepStep == IInv /\ [Next]_vars => (~stale => EngineInStep)'
<1> SUFFICES ASSUME IInv, [Next]_vars, ~stale' PROVE EngineInStep'
  OBVIOUS
<1> USE Sizes
<1>1. SetupOff /\ TypeOK /\ RingBalanced /\ (~stale => EngineInStep)
  BY InStepParts DEF IInv
<1>2. CASE Fill
  <2>1. fills \in Nat /\ EngineInStep /\ thr.pc # "ptables"
    BY <1>1, <1>2 DEF Fill, SetupOff, TypeOK
  <2>2. eng'.slot = (fills + 1) % TS2D_BUFFERS
    <3>1. eng'.slot = (eng.slot + 1) % TS2D_BUFFERS
      BY <1>1, <1>2 DEF Fill, TypeOK
    <3>2. eng.slot = fills % TS2D_BUFFERS
      BY <2>1 DEF EngineInStep
    <3>3. QED
      BY <2>1, <3>1, <3>2, ModStep, ManySlots
  <2>3. fills' = fills + 1 /\ UNCHANGED <<isr, thr, handled>> /\ msi'
    BY <1>2 DEF Fill
  <2>4. handled \in Nat
    BY <1>1 DEF TypeOK
  <2>5. fills' >= handled' + (IF isr'.pc \in {"idle", "rest"} THEN 0 ELSE 1)
                           + (IF msi' /\ isr'.pc # "clear" THEN 1 ELSE 0)
    <3>1. fills >= handled + (IF isr.pc \in {"idle", "rest"} THEN 0 ELSE 1)
      BY <2>1, <2>4 DEF EngineInStep
    <3>2. QED
      BY <2>1, <2>3, <2>4, <3>1
  <2>6. eng'.slot = fills' % TS2D_BUFFERS
    BY <2>2, <2>3
  <2>7. QED
    BY <2>5, <2>6 DEF EngineInStep
<1>3. CASE Isr
  <2>1. EngineInStep /\ UNCHANGED <<thr, eng, fills>>
    BY <1>1, <1>3 DEF Isr, HandlerStep, IrqStatus, IrqClear,
     IrqClearOther, IrqReturn, EvWrite, EvWrap, EvSet, EvInc,
       EvRead, EvDone, histVars
  <2>2. handled \in Nat /\ fills \in Nat /\ msi \in BOOLEAN
    BY <1>1 DEF TypeOK
  <2>3. fills >= handled + (IF isr.pc \in {"idle", "rest"} THEN 0 ELSE 1)
                         + (IF msi /\ isr.pc # "clear" THEN 1 ELSE 0)
    BY <2>1 DEF EngineInStep
  <2>4. fills >= handled' + (IF isr'.pc \in {"idle", "rest"} THEN 0 ELSE 1)
                          + (IF msi' /\ isr'.pc # "clear" THEN 1 ELSE 0)
    <3>1. CASE IrqStatus
      <4>1. msi /\ isr.pc = "idle" /\ isr'.pc = "clear" /\ handled' = handled
        BY <1>1, <3>1, HandlerMoves DEF IrqStatus, histVars
      <4>2. QED
        BY <2>2, <2>3, <4>1
    <3>2. CASE IrqClear
      <4>1. ~msi' /\ isr.pc = "clear" /\ isr'.pc = "write" /\ handled' = handled
        BY <1>1, <3>2, HandlerMoves DEF IrqClear, histVars
      <4>2. QED
        BY <2>2, <2>3, <4>1
    <3>3. CASE EvDone
      <4>1. /\ isr.pc \in {"deliver", "unlock"} /\ isr'.pc = "rest"
            /\ handled' = handled + 1 /\ msi' = msi
        BY <1>1, <3>3, HandlerMoves DEF EvDone
      <4>2. QED
        BY <2>2, <2>3, <4>1
    <3>4. CASE EvWrite \/ EvWrap \/ EvSet \/ EvInc \/ EvRead
      <4>1. /\ isr.pc \notin {"idle", "clear", "rest"} /\ isr'.pc \notin {"idle", "clear", "rest"}
            /\ handled' = handled /\ msi' = msi
        BY <1>1, <3>4, HandlerMoves DEF EvWrite, EvWrap, EvSet, EvInc, EvRead, histVars
      <4>2. QED
        BY <2>2, <2>3, <4>1
    <3>5. CASE IrqReturn
      <4>1. /\ isr.pc = "rest" /\ isr'.pc = "idle" /\ handled' = handled /\ msi' = msi
        BY <1>1, <3>5, HandlerMoves DEF IrqReturn, histVars
      <4>2. QED
        BY <2>2, <2>3, <4>1
    <3>6. CASE IrqClearOther
      <4>1. isr' = isr /\ handled' = handled /\ ~msi'
        BY <3>6 DEF IrqClearOther, histVars
      <4>2. QED
        BY <2>2, <2>3, <4>1
    <3>7. QED
      BY <1>3, <3>1, <3>2, <3>3, <3>4, <3>5, <3>6 DEF Isr, HandlerStep
  <2>5. QED
    BY <2>1, <2>4 DEF EngineInStep
<1>4. CASE InitPtables
  <2>1. ~msi' /\ isr'.pc = "idle" /\ handled' = 0 /\ fills' = 0 /\ eng' = eng
    BY <1>1, <1>4 DEF InitPtables, TypeOK
  <2>2. eng.slot = 0
    BY <1>1, <1>4 DEF InitPtables, SetupOff
  <2>3. 0 % TS2D_BUFFERS = 0
    BY ManySlots
  <2>4. QED
    BY <2>1, <2>2, <2>3 DEF EngineInStep
<1>5. CASE SetparamsReset
  BY <1>1, <1>5 DEF SetparamsReset, Goto, EngineInStep, TypeOK, histVars
<1>6. CASE AcquireClocks \/ InitIndexRead \/ InitIndexWrite \/ RunPrepare \/ Run \/ DmaStop
  BY <1>1, <1>6 DEF AcquireClocks, InitIndexRead, InitIndexWrite, RunPrepare, Run,
     DmaStop, Goto, EngineInStep, TypeOK, histVars
<1>7. CASE UNCHANGED vars
  BY <1>1, <1>7 DEF vars, EngineInStep, histVars
<1>8. QED
  BY <1>2, <1>3, <1>4, <1>5, <1>6, <1>7 DEF Next, Thread

\* Outside InitPtables the phase of a session does not change.
LEMMA SamePhase ==
  ASSUME TypeOK, [Next]_vars, ~InitPtables
  PROVE  InPhase' <=> InPhase
<1>1. UNCHANGED <<skew, stale>>
  BY DEF Next, Fill, Isr, HandlerStep, IrqStatus, IrqClear,
     IrqClearOther, IrqReturn, EvWrite, EvWrap, EvSet, EvInc, EvRead,
     EvDone, Thread, AcquireClocks, SetparamsReset, InitIndexRead, InitIndexWrite,
     RunPrepare, Run, DmaStop, histVars, vars
<1>2. QED
  BY <1>1 DEF InPhase

\* Only EvWrite and EvDone move a run past the ring and only EvSet past its
\* slot; the other steps leave the counters alone.
LEMMA Counters ==
  ASSUME TypeOK, RingBalanced, [Next]_vars, ~InitPtables
  PROVE  /\ handled' = IF EvDone THEN handled + 1 ELSE handled
         /\ EvWrite => Taken = handled /\ Taken' = handled + 1
         /\ ~EvWrite => Taken' = Taken
         /\ EvSet => Armed = handled /\ Armed' = handled + 1
         /\ ~EvSet => Armed' = Armed
         /\ Taken \in Nat /\ Armed \in Nat /\ handled \in Nat
<1>1. handled \in Nat /\ Taken \in Nat /\ Armed \in Nat
  BY DEF TypeOK, Taken, Armed
<1>2. CASE EvDone
  <2>1. isr.pc \in {"deliver", "unlock"} /\ isr'.pc = "rest" /\ handled' = handled + 1
    BY <1>2, HandlerMoves DEF EvDone
  <2>2. ~EvWrite /\ ~EvSet
    BY <2>1 DEF EvWrite, EvSet
  <2>3. QED
    BY <1>1, <1>2, <2>1, <2>2 DEF Taken, Armed
<1>3. CASE Isr /\ ~EvDone
  <2>1. handled' = handled
    BY <1>3 DEF Isr, HandlerStep, IrqStatus, IrqClear,
     IrqClearOther, IrqReturn, EvWrite, EvWrap, EvSet, EvInc, EvRead, histVars
  <2>2. QED
    BY <1>1, <1>3, <2>1, HandlerMoves DEF Isr, HandlerStep, Taken, Armed
<1>4. CASE Fill \/ Thread \/ UNCHANGED vars
  <2>1. handled' = handled /\ isr' = isr
    BY <1>4 DEF Fill, Thread, AcquireClocks, SetparamsReset, InitIndexRead,
       InitIndexWrite, RunPrepare, Run, DmaStop, histVars, vars
  <2>2. isr.pc # isr'.pc \/ (~EvWrite /\ ~EvSet /\ ~EvDone)
    BY HandlerMoves
  <2>3. QED
    BY <1>1, <2>1, <2>2 DEF Taken, Armed
<1>5. QED
  BY <1>2, <1>3, <1>4 DEF Next

\* the ring is at the current run,
LEMMA RingInStepStep == IInv /\ [Next]_vars => (InPhase => RingInStep)'
<1> SUFFICES ASSUME IInv, [Next]_vars, InPhase' PROVE RingInStep'
  OBVIOUS
<1> USE Sizes, ManySlots
<1>1. TypeOK /\ RingBalanced /\ (InPhase => RingInStep)
  BY InStepParts DEF IInv
<1>2. CASE InitPtables
  <2>1. isr'.pc = "idle" /\ handled' = 0 /\ ring'.tail = 0
    BY <1>1, <1>2 DEF InitPtables, InPhase, TypeOK
  <2>2. 0 % RINGSIZ = 0
    OBVIOUS
  <2>3. QED
    BY <2>1, <2>2 DEF RingInStep, Taken
<1>3. CASE ~InitPtables
  <2>1. RingInStep
    BY <1>1, <1>3, SamePhase
  <2>2. CASE EvWrite
    <3>1. ring'.tail = (ring.tail + 1) % RINGSIZ
      BY <1>1, <2>2, NoEarlyExit, RingWrite DEF TypeOK, RingType
    <3>2. /\ Taken = handled /\ Taken' = handled + 1 /\ handled \in Nat
          /\ handled' = handled
      BY <1>1, <1>3, <2>2, Counters DEF EvWrite, histVars
    <3>3. ring.tail = handled % RINGSIZ
      BY <2>1, <3>2 DEF RingInStep
    <3>4. ring'.tail = (handled + 1) % RINGSIZ
      BY <3>1, <3>2, <3>3, ModStep
    <3>5. isr'.buf = handled % RINGSIZ
      BY <1>1, <2>2, <3>3, HandlerMoves
    <3>6. QED
      BY <3>2, <3>4, <3>5 DEF RingInStep
  <2>3. CASE EvRead
    <3>1. ring'.tail = ring.tail /\ isr'.buf = isr.buf
      <4>1. ring.count # 0 /\ ring \in RingType
        BY <1>1, <2>3 DEF EvRead, RingBalanced, TypeOK, RingType
      <4>2. QED
        BY <1>1, <2>3, <4>1, NoEarlyExit, RingRead
    <3>2. ~EvWrite /\ ~EvDone
      BY <2>3 DEF EvWrite, EvRead, EvDone
    <3>3. Taken' = Taken /\ handled' = handled
      BY <1>1, <1>3, <3>2, Counters
    <3>4. QED
      BY <2>1, <3>1, <3>3 DEF RingInStep
  <2>4. CASE EvDone
    <3>1. ring' = ring /\ isr'.pc = "rest" /\ Taken' = handled'
      BY <1>1, <2>4, HandlerMoves DEF EvDone, drvVars, Taken
    <3>2. ~EvWrite
      BY <2>4 DEF EvWrite, EvDone
    <3>3. Taken' = Taken
      BY <1>1, <1>3, <3>2, Counters
    <3>4. QED
      BY <2>1, <3>1, <3>3 DEF RingInStep
  <2>5. CASE ~EvWrite /\ ~EvRead /\ ~EvDone
    <3>1. ring' = ring
      BY <1>3, <2>5 DEF Next, Fill, Isr, HandlerStep, IrqStatus, IrqClear,
     IrqClearOther, IrqReturn, EvWrap, EvSet, EvInc,
         Thread, AcquireClocks, SetparamsReset, InitIndexRead, InitIndexWrite,
         RunPrepare, Run, DmaStop, drvVars, vars
    <3>2. isr'.buf = isr.buf
      <4>1. CASE Isr
        BY <1>1, <2>5, <4>1, HandlerMoves DEF Isr, HandlerStep
      <4>2. CASE ~Isr
        BY <1>3, <4>2 DEF Next, Fill, Thread, AcquireClocks, SetparamsReset,
           InitIndexRead, InitIndexWrite, RunPrepare, Run, DmaStop, vars
      <4>3. QED
        BY <4>1, <4>2
    <3>3. Taken' = Taken /\ handled' = handled
      BY <1>1, <1>3, <2>5, Counters
    <3>4. QED
      BY <2>1, <3>1, <3>2, <3>3 DEF RingInStep
  <2>6. QED
    BY <2>2, <2>3, <2>4, <2>5
<1>4. QED
  BY <1>2, <1>3

\* the slots hold the dmabufs of the last runs,
LEMMA SlotsInStepStep == IInv /\ [Next]_vars => (InPhase => SlotsInStep)'
<1> SUFFICES ASSUME IInv, [Next]_vars, InPhase' PROVE SlotsInStep'
  OBVIOUS
<1> USE Sizes, ManySlots
<1>1. /\ TypeOK /\ RingBalanced
      /\ InPhase => RingInStep
      /\ InPhase => SlotsInStep /\ IndexInStep
  BY InStepParts DEF IInv
<1>2. CASE InitPtables
  <2>1. isr'.pc = "idle" /\ handled' = 0 /\ pta' = [s \in Slots |-> s]
    BY <1>1, <1>2 DEF InitPtables, InPhase, TypeOK
  <2>2. Armed' = 0
    BY <2>1 DEF Armed
  <2>3. \A j \in 0 .. TS2D_BUFFERS - 1 : j % TS2D_BUFFERS = j /\ j % RINGSIZ = j
    OBVIOUS
  <2>4. \A j \in 0 .. TS2D_BUFFERS - 1 : pta'[j % TS2D_BUFFERS] = j % RINGSIZ
    BY <2>1, <2>3 DEF Slots
  <2>5. QED
    BY <2>2, <2>4 DEF SlotsInStep
<1>3. CASE EvSet
  <2>1. ~InitPtables
    BY <1>1, <1>3, HandlerMoves DEF InitPtables
  <2> DEFINE k == handled
             lo(n) == (IF n < TS2D_BUFFERS THEN TS2D_BUFFERS ELSE n) - TS2D_BUFFERS
             hi(n) == (IF n < TS2D_BUFFERS THEN TS2D_BUFFERS ELSE n) - 1
  <2>2. k \in Nat /\ Armed = k /\ Armed' = k + 1
    BY <1>1, <1>3, <2>1, Counters
  <2>3. InPhase
    BY <1>1, <2>1, SamePhase
  <2>4. index_w = k % TS2D_BUFFERS
    BY <1>1, <1>3, <2>3 DEF IndexInStep, EvSet
  <2>5. isr.buf = k % RINGSIZ
    <3>1. Taken # handled
      BY <1>3, <2>2 DEF Taken, EvSet
    <3>2. QED
      BY <1>1, <2>3, <3>1 DEF RingInStep
  <2>6. k % TS2D_BUFFERS \in Slots
    BY <2>2, ModInRange DEF Slots
  <2>7. pta' = [pta EXCEPT ![k % TS2D_BUFFERS] = k % RINGSIZ]
    BY <1>3, <2>4, <2>5, <2>6 DEF EvSet, set_buffer
  <2>8. \A j \in lo(k) .. hi(k) : pta[j % TS2D_BUFFERS] = j % RINGSIZ
    BY <1>1, <2>2, <2>3 DEF SlotsInStep
  <2>9. ASSUME NEW j \in lo(k + 1) .. hi(k + 1)
        PROVE  pta'[j % TS2D_BUFFERS] = j % RINGSIZ
    <3>1. j \in Int /\ j % TS2D_BUFFERS \in Slots
      BY <2>2, ModInRange DEF Slots
    <3>2. CASE j = k
      BY <1>1, <2>6, <2>7, <3>2 DEF TypeOK
    <3>3. CASE j # k
      <4>1. j \in lo(k) .. hi(k) /\ ((j < k /\ k < j + TS2D_BUFFERS) \/ (k < j /\ j < k + TS2D_BUFFERS))
        BY <2>2, <3>1, <3>3
      <4>2. j % TS2D_BUFFERS # k % TS2D_BUFFERS
        BY <2>2, <3>1, <4>1, ModDistinct
      <4>3. pta'[j % TS2D_BUFFERS] = pta[j % TS2D_BUFFERS]
        BY <1>1, <2>7, <3>1, <4>2 DEF TypeOK
      <4>4. QED
        BY <2>8, <4>1, <4>3
    <3>4. QED
      BY <3>2, <3>3
  <2>10. QED
    BY <2>2, <2>9 DEF SlotsInStep
<1>4. CASE ~InitPtables /\ ~EvSet
  <2>1. pta' = pta
    BY <1>4 DEF Next, Fill, Isr, HandlerStep, IrqStatus, IrqClear,
     IrqClearOther, IrqReturn, EvWrite, EvWrap, EvInc, EvRead,
       EvDone, Thread, AcquireClocks, SetparamsReset, InitIndexRead, InitIndexWrite,
       RunPrepare, Run, DmaStop, drvVars, vars
  <2>2. Armed' = Armed /\ SlotsInStep
    BY <1>1, <1>4, Counters, SamePhase
  <2>3. QED
    BY <2>1, <2>2 DEF SlotsInStep
<1>5. QED
  BY <1>2, <1>3, <1>4

\* and index_w is the slot of the current run.
LEMMA IndexInStepStep == IInv /\ [Next]_vars => (InPhase => IndexInStep)'
<1> SUFFICES ASSUME IInv, [Next]_vars, InPhase' PROVE IndexInStep'
  OBVIOUS
<1> USE Sizes, ManySlots
<1> DEFINE k == handled
           s == k % TS2D_BUFFERS
<1>1. /\ TypeOK /\ RingBalanced
      /\ ~stale => QuietSetup
      /\ InPhase => IndexInStep
  BY InStepParts DEF IInv
<1>2. k \in Nat /\ s \in 0 .. TS2D_BUFFERS - 1 /\ index_w \in Nat
  BY <1>1, ModInRange DEF TypeOK
<1>3. CASE InitPtables
  <2>1. isr'.pc = "idle" /\ thr'.pc = "idxread"
    BY <1>1, <1>3 DEF InitPtables, InPhase, Goto, TypeOK
  <2>2. QED
    BY <2>1 DEF IndexInStep
<1>4. CASE ~InitPtables
  <2>1. InPhase /\ ~stale /\ IndexInStep /\ QuietSetup
    BY <1>1, <1>4, SamePhase DEF InPhase
  <2>2. CASE InitIndexWrite
    <3>1. /\ isr'.pc = "idle" /\ handled' = 0
          /\ index_w' = thr.tmp + TS2D_BUFFERS /\ thr.tmp \in Nat
      BY <1>1, <2>1, <2>2 DEF InitIndexWrite, QuietSetup, TypeOK, histVars
    <3>2. 0 % TS2D_BUFFERS = 0 /\ index_w' >= TS2D_BUFFERS
      BY <3>1
    <3>3. QED
      BY <3>1, <3>2 DEF IndexInStep
  <2>3. CASE EvWrap
    <3>1. isr.pc = "wrap" /\ isr'.pc = "set" /\ handled' = handled
      BY <1>1, <2>3, HandlerMoves DEF EvWrap, histVars
    <3>2. thr.pc \notin {"idxread", "idxwrite"}
      BY <2>1, <3>1 DEF QuietSetup
    <3>3. index_w = s \/ (s = 0 /\ index_w >= TS2D_BUFFERS)
      BY <2>1, <3>1, <3>2 DEF IndexInStep
    <3>4. index_w' = IF index_w > TS2D_BUFFERS - 1 THEN 0 ELSE index_w
      BY <2>3 DEF EvWrap
    <3> HIDE DEF s
    <3>5. index_w' = s
      BY <1>2, <3>3, <3>4
    <3>6. QED
      BY <3>1, <3>5 DEF IndexInStep, s
  <2>4. CASE EvInc
    <3>1. isr.pc = "inc" /\ isr'.pc = "read" /\ handled' = handled /\ index_w' = index_w + 1
      BY <1>1, <2>4, HandlerMoves DEF EvInc, histVars
    <3>2. index_w = s
      BY <2>1, <3>1 DEF IndexInStep
    <3>3. QED
      BY <3>1, <3>2 DEF IndexInStep
  <2>5. CASE EvDone
    <3>1. /\ isr.pc \in {"deliver", "unlock"} /\ isr'.pc = "rest"
          /\ handled' = handled + 1 /\ index_w' = index_w
      BY <1>1, <2>5, HandlerMoves DEF EvDone, drvVars
    <3>2. index_w = s + 1
      BY <2>1, <3>1 DEF IndexInStep
    <3>3. /\ s = TS2D_BUFFERS - 1 => (k + 1) % TS2D_BUFFERS = 0
          /\ s # TS2D_BUFFERS - 1 => (k + 1) % TS2D_BUFFERS = s + 1
      BY <1>2, ModSucc
    <3>4. \/ index_w = (k + 1) % TS2D_BUFFERS
          \/ (k + 1) % TS2D_BUFFERS = 0 /\ index_w >= TS2D_BUFFERS
      <4> DEFINE t == (k + 1) % TS2D_BUFFERS
      <4> HIDE DEF s, t
      <4>1. QED
        BY <1>2, <3>2, <3>3 DEF t
    <3>5. QED
      BY <3>1, <3>4 DEF IndexInStep
  <2>6. CASE IrqStatus \/ IrqClear \/ EvWrite \/ EvSet \/ EvRead \/ IrqReturn \/ IrqClearOther
    <3>1. index_w' = index_w /\ handled' = handled /\ thr' = thr
      BY <2>6 DEF IrqStatus, IrqClear, EvWrite, EvSet, EvRead, IrqReturn, IrqClearOther,
         drvVars, histVars
    <3>2. QED
      BY <1>1, <2>1, <2>6, <3>1, HandlerMoves DEF IndexInStep
  <2>7. CASE Fill \/ (Thread /\ ~InitIndexWrite) \/ UNCHANGED vars
    <3>1. UNCHANGED <<index_w, handled, isr>>
      BY <1>4, <2>7 DEF Fill, Thread, AcquireClocks, SetparamsReset, InitIndexRead,
         RunPrepare, Run, DmaStop, drvVars, histVars, vars
    <3>2. thr.pc \in {"idxread", "idxwrite"} => thr'.pc \in {"idxread", "idxwrite"}
      BY <1>1, <1>4, <2>7 DEF Fill, Thread, AcquireClocks, SetparamsReset, InitIndexRead,
         RunPrepare, Run, DmaStop, vars, TypeOK
    <3>3. isr.pc \in {"idle", "clear", "write", "wrap", "set", "inc", "read", "deliver",
                      "unlock", "rest"}
      BY <1>1 DEF TypeOK
    <3>4. QED
      BY <2>1, <3>1, <3>2, <3>3 DEF IndexInStep
  <2>8. QED
    BY <1>4, <2>2, <2>3, <2>4, <2>5, <2>6, <2>7 DEF Next, Isr, HandlerStep
<1>5. QED
  BY <1>3, <1>4

-----------------------------------------------------------------------------

\* The invariant holds after saa7231_stream_init.
LEMMA InitIInv == Init => IInv
<1> SUFFICES ASSUME Init PROVE IInv
  OBVIOUS
<1> USE Sizes, ManySlots
<1>1. TypeOK /\ RingBalanced
  BY InitTypeOK DEF Init, ring_init, RingBalanced
<1>2. /\ isr.pc = "idle" /\ thr.pc = "stopped" /\ ~msi /\ ring.tail = 0 /\ eng.slot = 0
      /\ handled = 0 /\ fills = 0 /\ pta = [s \in Slots |-> s]
      /\ index_w >= TS2D_BUFFERS
  BY DEF Init, ring_init
<1>3. 0 % TS2D_BUFFERS = 0 /\ 0 % RINGSIZ = 0
  OBVIOUS
<1>4. Taken = 0 /\ Armed = 0
  BY <1>2 DEF Taken, Armed
<1>5. SetupOff /\ EngineInStep /\ QuietSetup
  BY <1>2, <1>3 DEF SetupOff, EngineInStep, QuietSetup
<1>6. RingInStep
  BY <1>2, <1>3, <1>4 DEF RingInStep
<1>7. IndexInStep
  BY <1>2, <1>3 DEF IndexInStep
<1>8. SlotsInStep
  <2>1. \A j \in 0 .. TS2D_BUFFERS - 1 : j % TS2D_BUFFERS = j /\ j % RINGSIZ = j
    OBVIOUS
  <2>2. \A j \in 0 .. TS2D_BUFFERS - 1 : pta[j % TS2D_BUFFERS] = j % RINGSIZ
    BY <1>2, <2>1 DEF Slots
  <2>3. QED
    BY <1>4, <2>2 DEF SlotsInStep
<1>9. QED
  BY <1>1, <1>5, <1>6, <1>7, <1>8, InStepParts DEF IInv

\* Every step keeps it.
LEMMA NextIInv == IInv /\ [Next]_vars => IInv'
<1> SUFFICES ASSUME IInv, [Next]_vars PROVE IInv'
  OBVIOUS
<1>1. TypeOK' /\ RingBalanced'
  BY NextTypeOK, NextRingBalanced DEF IInv
<1>2. InStep'
  <2>1. /\ SetupOff'
        /\ (~stale => EngineInStep /\ QuietSetup)'
        /\ (InPhase => RingInStep)'
        /\ (InPhase => SlotsInStep)'
        /\ (InPhase => IndexInStep)'
    BY SetupOffStep, EngineInStepStep, QuietSetupStep, RingInStepStep,
       SlotsInStepStep, IndexInStepStep
  <2>2. QED
    BY <2>1 DEF InStep, RingInStep
<1>3. QED
  BY <1>1, <1>2 DEF IInv

\* For any sizes and any interleaving of captures and interrupts with the feed
\* thread: the engine is off during set-up; in a session that began with no
\* interrupt in flight the handler keeps in step with the engine; and in one
\* that also began with the ring at its origin (InPhase) handler run k re-arms
\* slot k % TS2D_BUFFERS with dmabuf k % RINGSIZ.  A restart that finds the
\* ring elsewhere is not covered by the last part.
THEOREM StaysInStep == Spec => []InStep
<1>1. Spec => []IInv
  BY InitIInv, NextIInv, PTL DEF Spec
<1>2. IInv => InStep
  BY DEF IInv
<1>3. QED
  BY <1>1, <1>2, PTL

\* The last TS2D_BUFFERS runs used distinct dmabufs, and there is a slot for
\* each: two slots with one dmabuf are one slot.
LEMMA InStepDistinct == TypeOK /\ InStep => SlotsDistinct
<1> SUFFICES ASSUME TypeOK, InStep, InPhase, NEW s \in Slots, NEW t \in Slots,
                    pta[s] = pta[t]
             PROVE  s = t
  BY DEF SlotsDistinct
<1> USE Sizes, ManySlots
<1> DEFINE w == IF Armed < TS2D_BUFFERS THEN TS2D_BUFFERS ELSE Armed
           lo == w - TS2D_BUFFERS
<1>1. Armed \in Nat
  BY DEF TypeOK, Armed
<1>2. lo \in Nat /\ w - 1 = lo + TS2D_BUFFERS - 1
  BY <1>1
<1>3. \A j \in lo .. w - 1 : pta[j % TS2D_BUFFERS] = j % RINGSIZ
  BY InStepParts DEF SlotsInStep
<1> HIDE DEF w, lo
<1>4. PICK i \in lo .. lo + TS2D_BUFFERS - 1 : i % TS2D_BUFFERS = s
  BY <1>2, ModWindow DEF Slots
<1>5. PICK j \in lo .. lo + TS2D_BUFFERS - 1 : j % TS2D_BUFFERS = t
  BY <1>2, ModWindow DEF Slots
<1>6. i % RINGSIZ = j % RINGSIZ
  BY <1>2, <1>3, <1>4, <1>5
<1>7. i = j
  <2>1. i \in Int /\ j \in Int /\ i < j + RINGSIZ /\ j < i + RINGSIZ
    BY <1>2
  <2>2. ~(i < j) /\ ~(j < i)
    BY <1>6, <2>1, ModDistinct
  <2>3. QED
    BY <2>1, <2>2
<1>8. QED
  BY <1>4, <1>5, <1>7

\* The delivered dmabuf is in the slot of the current run, and the engine is
\* at another slot as long as the handler is less than a lap behind.
LEMMA InStepNoRace == TypeOK /\ InStep => NoDmaRace
<1> SUFFICES ASSUME TypeOK, InStep, InPhase, Behind < TS2D_BUFFERS,
                    isr.pc = "deliver", eng.on
             PROVE  pta[eng.slot] # isr.buf
  BY DEF NoDmaRace
<1> USE Sizes, ManySlots
<1>1. handled \in Nat /\ fills \in Nat
  BY DEF TypeOK
<1>2. ~stale /\ EngineInStep /\ RingInStep /\ SlotsInStep /\ SetupOff
  BY InStepParts DEF InPhase
<1>3. eng.slot = fills % TS2D_BUFFERS /\ eng.slot \in Slots
  BY <1>2 DEF SetupOff, EngineInStep, TypeOK
<1>4. handled < fills /\ fills < handled + TS2D_BUFFERS
  <2>1. fills >= handled + 1
    BY <1>1, <1>2 DEF EngineInStep
  <2>2. QED
    BY <1>1, <2>1 DEF Behind
<1>5. handled % TS2D_BUFFERS # eng.slot
  BY <1>1, <1>3, <1>4, ModDistinct
<1>6. isr.buf = handled % RINGSIZ
  BY <1>1, <1>2 DEF RingInStep, Taken
<1>7. pta[handled % TS2D_BUFFERS] = handled % RINGSIZ
  <2>1. Armed = handled + 1
    BY DEF Armed
  <2>2. QED
    BY <1>1, <1>2, <2>1 DEF SlotsInStep
<1>8. handled % TS2D_BUFFERS \in Slots
  BY <1>1, ModInRange DEF Slots
<1>9. SlotsDistinct
  BY InStepDistinct
<1>10. QED
  BY <1>3, <1>5, <1>6, <1>7, <1>8, <1>9 DEF SlotsDistinct

\* Two captures in flight never share a dmabuf, in a session that began with
\* the ring at its origin and no interrupt in flight.
THEOREM SlotsNeverShared == Spec => []SlotsDistinct
  BY TypeCorrect, StaysInStep, InStepDistinct, PTL

\* The demux is never handed the dmabuf that the engine is writing, in a
\* session that began in phase and while the handler is less than a lap of the
\* page table behind.
THEOREM DeliveredNotWritten == Spec => []NoDmaRace
  BY TypeCorrect, StaysInStep, InStepNoRace, PTL

-----------------------------------------------------------------------------
(* What the dmabufs hold. *)

\* The run in progress and the latched bit that will start the next one, and
\* the completions that neither a run nor a bit stands for any more: their
\* interrupts are lost, and there are never fewer of them.
InRun   == IF isr.pc \in {"idle", "rest"} THEN 0 ELSE 1
Latched == IF msi /\ isr.pc # "clear" THEN 1 ELSE 0
Lost    == fills - (handled + InRun + Latched)

\* While fewer than TS2D_BUFFERS - 1 interrupts have been lost, the dmabuf of
\* run k holds what that run will deliver, from the time it is captured until
\* the engine comes to the dmabuf again.
DataInStep ==
  InPhase /\ Lost <= TS2D_BUFFERS - 2 =>
    \A k \in Nat : fills <= k + TS2D_BUFFERS /\ ExpectedFill(k) < fills
                     => data[k % RINGSIZ] = ExpectedFill(k)

\* The dmabuf that fill f goes to.
Dest(f) == IF f < TS2D_BUFFERS THEN f ELSE (f - TS2D_BUFFERS) % RINGSIZ

\* What the cases of ExpectedFill are.
LEMMA ExpectedIs ==
  ASSUME NEW k \in Nat
  PROVE  /\ k < TS2D_BUFFERS => ExpectedFill(k) = k
         /\ k >= TS2D_BUFFERS /\ k < RINGSIZ => ExpectedFill(k) = -1
         /\ k >= RINGSIZ => ExpectedFill(k) = k - RINGSIZ + TS2D_BUFFERS
         /\ ExpectedFill(k) \in Int
  BY Sizes, ManySlots DEF ExpectedFill, NoData

\* The dmabuf of a run that is not yet due for fill f is left alone by it,
\* unless f is what that run delivers.
LEMMA FillPlaces ==
  ASSUME NEW f \in Nat, NEW k \in Nat, f + 1 <= k + TS2D_BUFFERS, ExpectedFill(k) < f + 1
  PROVE  IF ExpectedFill(k) = f THEN k % RINGSIZ = Dest(f)
         ELSE ExpectedFill(k) < f /\ k % RINGSIZ # Dest(f)
<1> USE Sizes, ManySlots
<1>0. ExpectedFill(k) \in Int
  BY ExpectedIs
<1>1. CASE f < TS2D_BUFFERS
  <2>1. Dest(f) = f /\ f \in 0 .. RINGSIZ - 1
    BY <1>1 DEF Dest
  <2>2. f % RINGSIZ = f
    BY <2>1, ModSmall
  <2>3. CASE k < TS2D_BUFFERS
    <3>1. ExpectedFill(k) = k /\ k \in 0 .. RINGSIZ - 1
      BY <2>3, ExpectedIs
    <3>2. k % RINGSIZ = k
      BY <3>1, ModSmall
    <3>3. QED
      BY <2>1, <3>1, <3>2
  <2>4. CASE k >= TS2D_BUFFERS /\ k < RINGSIZ
    <3>1. ExpectedFill(k) = -1 /\ k \in 0 .. RINGSIZ - 1
      BY <2>4, ExpectedIs
    <3>2. k % RINGSIZ = k
      BY <3>1, ModSmall
    <3>3. k # f
      BY <1>1, <2>4
    <3>4. QED
      BY <2>1, <3>1, <3>2, <3>3
  <2>5. CASE k >= RINGSIZ
    <3>1. ExpectedFill(k) = k - RINGSIZ + TS2D_BUFFERS
      BY <2>5, ExpectedIs
    <3>2. ExpectedFill(k) >= TS2D_BUFFERS
      BY <2>5, <3>1
    <3>3. QED
      BY <1>0, <1>1, <3>2
  <2>6. QED
    BY <2>3, <2>4, <2>5
<1>2. CASE f >= TS2D_BUFFERS
  <2>1. Dest(f) = (f - TS2D_BUFFERS) % RINGSIZ
    BY <1>2 DEF Dest
  <2>2. PICK a \in Nat : a = f - TS2D_BUFFERS
    BY <1>2
  <2>3. a < k
    BY <2>2
  <2>4. ASSUME k % RINGSIZ = Dest(f) PROVE ExpectedFill(k) = f
    <3>1. a + RINGSIZ <= k
      BY <2>1, <2>2, <2>3, <2>4, ModApart
    <3>2. ExpectedFill(k) = k - RINGSIZ + TS2D_BUFFERS
      BY <2>2, <3>1, ExpectedIs
    <3>3. QED
      BY <2>2, <3>1, <3>2
  <2>5. ASSUME ExpectedFill(k) = f PROVE k % RINGSIZ = Dest(f)
    <3>1. k >= RINGSIZ
      <4>1. ~(k < TS2D_BUFFERS)
        BY <1>2, <2>5, ExpectedIs
      <4>2. ~(k >= TS2D_BUFFERS /\ k < RINGSIZ)
        BY <1>2, <2>5, ExpectedIs
      <4>3. QED
        BY <4>1, <4>2
    <3>2. ExpectedFill(k) = k - RINGSIZ + TS2D_BUFFERS
      BY <3>1, ExpectedIs
    <3>3. k = a + RINGSIZ
      BY <2>2, <2>5, <3>2
    <3>4. k % RINGSIZ = a % RINGSIZ
      <4>1. a \in Int /\ k \in Int
        OBVIOUS
      <4>2. QED
        BY <3>3, <4>1, ModPeriod, Zenon
    <3>5. QED
      BY <2>1, <2>2, <3>3, <3>4
  <2>6. QED
    BY <1>0, <2>4, <2>5
<1>3. QED
  BY <1>1, <1>2

\* The engine captures to the dmabuf of run fills - TS2D_BUFFERS, which that
\* run has put in the slot, unless the handler is too far behind.
LEMMA FillGoes ==
  ASSUME TypeOK, InStep, InPhase, Fill, Lost' <= TS2D_BUFFERS - 2
  PROVE  pta[eng.slot] = Dest(fills)
<1> USE Sizes, ManySlots
<1>1. handled \in Nat /\ fills \in Nat /\ Armed \in Nat /\ handled <= Armed
  BY DEF TypeOK, Armed
<1>2. EngineInStep /\ SlotsInStep /\ thr.pc # "ptables"
  BY InStepParts DEF InPhase, Fill, SetupOff
<1>3. eng.slot = fills % TS2D_BUFFERS
  BY <1>2 DEF EngineInStep
<1>4. Armed <= fills
  BY <1>1, <1>2 DEF EngineInStep, Armed
<1>5. fills <= Armed + TS2D_BUFFERS - 1
  <2>1. fills' = fills + 1 /\ handled' = handled /\ isr' = isr
    BY DEF Fill
  <2>2. InRun' \in {0, 1} /\ Latched' \in {0, 1} /\ InRun' = InRun
    BY <2>1 DEF InRun, Latched
  <2>3. Lost' = (fills + 1) - (handled + InRun' + Latched')
    BY <2>1 DEF Lost
  <2>4. PICK r \in Nat : r = InRun' /\ r <= 1
    BY <2>2
  <2>5. PICK l \in Nat : l = Latched' /\ l <= 1
    BY <2>2
  <2>6. (fills + 1) - (handled + r + l) <= TS2D_BUFFERS - 2
    BY <2>3, <2>4, <2>5
  <2>7. r <= 1 /\ l <= 1
    BY <2>4, <2>5
  <2>8. fills <= (handled + TS2D_BUFFERS) - 1
    BY <1>1, <2>6, <2>7
  <2>9. QED
    BY <1>1, <2>8
<1> DEFINE w == IF Armed < TS2D_BUFFERS THEN TS2D_BUFFERS ELSE Armed
<1>6. \A j \in w - TS2D_BUFFERS .. w - 1 : pta[j % TS2D_BUFFERS] = j % RINGSIZ
  BY <1>2 DEF SlotsInStep
<1>7. w \in Nat /\ w >= TS2D_BUFFERS /\ w >= Armed /\ (w = TS2D_BUFFERS \/ w = Armed)
  BY <1>1
<1> HIDE DEF w
<1>8. CASE fills < TS2D_BUFFERS
  <2>1. fills \in w - TS2D_BUFFERS .. w - 1
    BY <1>1, <1>4, <1>7, <1>8
  <2>2. fills % RINGSIZ = fills
    BY <1>1, <1>8, ModSmall
  <2>3. QED
    BY <1>3, <1>6, <1>8, <2>1, <2>2 DEF Dest
<1>9. CASE fills >= TS2D_BUFFERS
  <2>1. PICK a \in Nat : a = fills - TS2D_BUFFERS
    BY <1>1, <1>9
  <2>2. a \in w - TS2D_BUFFERS .. w - 1
    BY <1>1, <1>4, <1>5, <1>7, <1>9, <2>1
  <2>3. fills = a + TS2D_BUFFERS
    BY <1>1, <2>1
  <2>4. a % TS2D_BUFFERS = eng.slot
    <3>1. a \in Int /\ fills \in Int
      BY <1>1
    <3>2. fills % TS2D_BUFFERS = a % TS2D_BUFFERS
      BY <2>3, <3>1, ModPeriod, Zenon
    <3>3. QED
      BY <1>3, <3>2
  <2>5. Dest(fills) = a % RINGSIZ
    BY <1>1, <1>9, <2>1 DEF Dest
  <2>6. QED
    BY <1>6, <2>2, <2>4, <2>5
<1>10. QED
  BY <1>1, <1>8, <1>9

\* An interrupt that is lost stays lost.
LEMMA LostGrows ==
  ASSUME TypeOK, RingBalanced, [Next]_vars, ~InitPtables
  PROVE  Lost \in Int /\ Lost <= Lost'
<1>0. fills \in Nat /\ handled \in Nat /\ msi \in BOOLEAN /\ InRun \in {0, 1} /\ Latched \in {0, 1}
  BY DEF TypeOK, InRun, Latched
<1>1. CASE Fill
  <2>1. fills' = fills + 1 /\ handled' = handled /\ isr' = isr
    BY <1>1 DEF Fill
  <2>2. InRun' = InRun /\ Latched' \in {0, 1}
    BY <2>1 DEF InRun, Latched
  <2>3. PICK l \in Nat : l = Latched' /\ l <= 1
    BY <2>2
  <2>4. Lost' = (fills + 1) - (handled + InRun + l)
    BY <2>1, <2>2, <2>3 DEF Lost
  <2>5. QED
    BY <1>0, <2>3, <2>4 DEF Lost
<1>2. CASE IrqStatus
  <2>1. UNCHANGED <<fills, handled>> /\ msi
    BY <1>2 DEF IrqStatus, histVars
  <2>2. InRun = 0 /\ Latched = 1 /\ InRun' = 1 /\ Latched' = 0
    BY <1>2, <2>1, HandlerMoves DEF InRun, Latched
  <2>3. QED
    BY <1>0, <2>1, <2>2 DEF Lost
<1>3. CASE IrqClear
  <2>1. UNCHANGED <<fills, handled>> /\ ~msi'
    BY <1>3 DEF IrqClear, histVars
  <2>2. InRun = 1 /\ Latched = 0 /\ InRun' = 1 /\ Latched' = 0
    BY <1>3, <2>1, HandlerMoves DEF InRun, Latched
  <2>3. QED
    BY <1>0, <2>1, <2>2 DEF Lost
<1>4. CASE IrqClearOther
  <2>1. UNCHANGED <<fills, handled, isr>> /\ ~msi'
    BY <1>4 DEF IrqClearOther, histVars
  <2>2. InRun' = InRun /\ Latched' = 0
    BY <2>1 DEF InRun, Latched
  <2>3. QED
    BY <1>0, <2>1, <2>2 DEF Lost
<1>5. CASE EvDone
  <2>1. fills' = fills /\ handled' = handled + 1 /\ msi' = msi
    BY <1>5 DEF EvDone
  <2>2. InRun = 1 /\ InRun' = 0 /\ Latched' = Latched
    BY <1>5, <2>1, HandlerMoves DEF InRun, Latched
  <2>3. QED
    BY <1>0, <2>1, <2>2 DEF Lost
<1>6. CASE EvWrite \/ EvWrap \/ EvSet \/ EvInc \/ EvRead \/ IrqReturn
  <2>1. UNCHANGED <<fills, handled, msi>>
    BY <1>6 DEF EvWrite, EvWrap, EvSet, EvInc, EvRead, IrqReturn, histVars
  <2>2. InRun' = InRun /\ Latched' = Latched
    BY <1>6, <2>1, HandlerMoves DEF InRun, Latched
  <2>3. QED
    BY <1>0, <2>1, <2>2 DEF Lost
<1>7. CASE Thread \/ UNCHANGED vars
  <2>1. UNCHANGED <<fills, handled, msi, isr>>
    BY <1>7 DEF Thread, AcquireClocks, SetparamsReset, InitIndexRead, InitIndexWrite,
       RunPrepare, Run, DmaStop, histVars, vars
  <2>2. InRun' = InRun /\ Latched' = Latched
    BY <2>1 DEF InRun, Latched
  <2>3. QED
    BY <1>0, <2>1, <2>2 DEF Lost
<1>8. QED
  BY <1>1, <1>2, <1>3, <1>4, <1>5, <1>6, <1>7 DEF Next, Isr, HandlerStep

\* Every step keeps the dmabufs in step: a capture replaces only what was
\* delivered, and the other steps lose interrupts or nothing.
LEMMA DataInStepStep == IInv /\ DataInStep /\ [Next]_vars => DataInStep'
<1> SUFFICES ASSUME IInv, DataInStep, [Next]_vars PROVE DataInStep'
  OBVIOUS
<1> USE Sizes, ManySlots
<1>0. TypeOK /\ RingBalanced /\ InStep /\ fills \in Nat
  BY DEF IInv, TypeOK
<1>1. CASE InitPtables
  <2>1. data' = [b \in Bufs |-> NoData] /\ fills' = 0
    BY <1>1 DEF InitPtables
  <2>2. ASSUME NEW k \in Nat, ExpectedFill(k) < 0 PROVE data'[k % RINGSIZ] = ExpectedFill(k)
    <3>1. ExpectedFill(k) = -1
      BY <2>2, ExpectedIs
    <3>2. k % RINGSIZ \in Bufs
      BY ModInRange DEF Bufs
    <3>3. QED
      BY <2>1, <3>1, <3>2 DEF NoData
  <2>3. QED
    BY <2>1, <2>2 DEF DataInStep
<1>2. CASE ~InitPtables
  <2>1. Lost \in Int /\ Lost <= Lost' /\ (InPhase' <=> InPhase)
    BY <1>0, <1>2, LostGrows, SamePhase
  <2>2. SUFFICES ASSUME InPhase, Lost' <= TS2D_BUFFERS - 2,
                        NEW k \in Nat, fills' <= k + TS2D_BUFFERS, ExpectedFill(k) < fills'
                 PROVE  data'[k % RINGSIZ] = ExpectedFill(k)
    BY <2>1 DEF DataInStep
  <2>3. CASE Fill
    <3>1. /\ fills' = fills + 1 /\ data' = [data EXCEPT ![pta[eng.slot]] = fills]
          /\ data \in [Bufs -> Nat \cup {NoData}]
      BY <1>0, <2>3 DEF Fill, TypeOK
    <3>2. pta[eng.slot] = Dest(fills)
      BY <1>0, <2>2, <2>3, FillGoes
    <3>3. k % RINGSIZ \in Bufs
      BY ModInRange DEF Bufs
    <3>4. IF ExpectedFill(k) = fills THEN k % RINGSIZ = Dest(fills)
          ELSE ExpectedFill(k) < fills /\ k % RINGSIZ # Dest(fills)
      BY <1>0, <2>2, <3>1, FillPlaces
    <3>5. CASE ExpectedFill(k) = fills
      BY <3>1, <3>2, <3>3, <3>4, <3>5
    <3>6. CASE ExpectedFill(k) # fills
      <4>1. data'[k % RINGSIZ] = data[k % RINGSIZ]
        BY <3>1, <3>2, <3>3, <3>4, <3>6
      <4>2. Lost <= TS2D_BUFFERS - 2
        <5>1. Lost' \in Int
          BY <1>0, <3>1, <2>3 DEF Lost, InRun, Latched, Fill, TypeOK
        <5>2. QED
          BY <2>1, <2>2, <5>1
      <4>3. fills <= k + TS2D_BUFFERS /\ ExpectedFill(k) < fills
        BY <1>0, <2>2, <3>1, <3>4, <3>6
      <4>4. QED
        BY <2>2, <4>1, <4>2, <4>3 DEF DataInStep
    <3>7. QED
      BY <3>5, <3>6
  <2>4. CASE ~Fill
    <3>1. data' = data /\ fills' = fills
      BY <1>2, <2>4 DEF Next, Isr, HandlerStep, IrqStatus, IrqClear, IrqClearOther, IrqReturn,
         EvWrite, EvWrap, EvSet, EvInc, EvRead, EvDone, Thread, AcquireClocks, SetparamsReset,
         InitIndexRead, InitIndexWrite, RunPrepare, Run, DmaStop, histVars, vars
    <3>2. Lost' \in Int
      <4>1. TypeOK'
        BY <1>0, NextTypeOK
      <4>2. QED
        BY <4>1 DEF TypeOK, Lost, InRun, Latched
    <3>3. Lost <= TS2D_BUFFERS - 2
      BY <2>1, <2>2, <3>2
    <3>4. QED
      BY <2>2, <3>1, <3>3 DEF DataInStep
  <2>5. QED
    BY <2>3, <2>4
<1>3. QED
  BY <1>1, <1>2

\* A delivery while the handler is less than a lap behind: no interrupt too
\* many has been lost.
LEMMA InStepDelivers == TypeOK /\ InStep /\ DataInStep => DeliveredInOrder
<1> SUFFICES ASSUME TypeOK, InStep, DataInStep, InPhase, Behind < TS2D_BUFFERS, isr.pc = "deliver"
             PROVE  data[isr.buf] = ExpectedFill(handled)
  BY DEF DeliveredInOrder
<1> USE Sizes, ManySlots
<1>1. handled \in Nat /\ fills \in Nat /\ Latched \in {0, 1} /\ InRun = 1
  BY DEF TypeOK, Latched, InRun
<1>2. fills < handled + TS2D_BUFFERS
  BY <1>1 DEF Behind
<1>3. Lost <= TS2D_BUFFERS - 2
  BY <1>1, <1>2 DEF Lost
<1>4. EngineInStep /\ RingInStep
  BY InStepParts DEF InPhase
<1>5. handled < fills
  BY <1>1, <1>4 DEF EngineInStep
<1>6. isr.buf = handled % RINGSIZ
  BY <1>1, <1>4 DEF RingInStep, Taken
<1>7. ExpectedFill(handled) < fills
  <2>1. CASE handled < TS2D_BUFFERS
    BY <1>1, <1>5, <2>1, ExpectedIs
  <2>2. CASE handled >= TS2D_BUFFERS /\ handled < RINGSIZ
    BY <1>1, <2>2, ExpectedIs
  <2>3. CASE handled >= RINGSIZ
    BY <1>1, <1>5, <2>3, ExpectedIs
  <2>4. QED
    BY <1>1, <2>1, <2>2, <2>3
<1>8. QED
  BY <1>1, <1>2, <1>3, <1>6, <1>7 DEF DataInStep

\* Every capture reaches the software demux once and in order, in a session
\* that began in phase and while the handler is less than a lap of the page
\* table behind.
THEOREM DeliversInOrder == Spec => []DeliveredInOrder
<1>1. Init => DataInStep
  <2> SUFFICES ASSUME Init, NEW k \in Nat, ExpectedFill(k) < 0
               PROVE  data[k % RINGSIZ] = ExpectedFill(k)
    BY DEF DataInStep, Init
  <2> USE Sizes, ManySlots
  <2>1. ExpectedFill(k) = -1
    BY ExpectedIs
  <2>2. k % RINGSIZ \in Bufs
    BY ModInRange DEF Bufs
  <2>3. data = [b \in Bufs |-> NoData]
    BY DEF Init
  <2>4. QED
    BY <2>1, <2>2, <2>3 DEF NoData
<1>2. Init => IInv /\ DataInStep
  BY <1>1, InitIInv
<1>3. IInv /\ DataInStep /\ [Next]_vars => (IInv /\ DataInStep)'
  BY NextIInv, DataInStepStep
<1>4. IInv /\ DataInStep => DeliveredInOrder
  BY InStepDelivers DEF IInv
<1>5. QED
  BY <1>2, <1>3, <1>4, PTL DEF Spec
=============================================================================
