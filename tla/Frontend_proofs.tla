--------------------------- MODULE Frontend_proofs ---------------------------
(***************************************************************************)
(* Proofs about the frontend thread and its users, for any number of       *)
(* callers, of threads started one after the other and of events.          *)
(***************************************************************************)
EXTENDS Frontend, ModLemmas, FiniteSetTheorems

\* The records of the state: a kernel thread, a process, a caller.
KThread == [pc : KernelStates, stop : BOOLEAN, wp : Slots]
Proc == [pc : {"idle", "start", "check", "stop", "stopping", "killing", "joining", "oops",
               "down", "run", "created", "events", "users", "waiting", "free", "freed",
               "wake"},
         k : 0..MaxThreads]
Procs == {"open", "release", "unreg"}
Caller == [pc : {"idle", "want", "in", "waiting"},
           op : {"read", "set", "get", "take", "signal"}]

(* The types, with a name for each record. *)
TypesByName ==
  /\ sem \in Nat /\ exit \in {"NO", "NORMAL", "REMOVED"}
  /\ thread \in 0..MaxThreads /\ state \in {"IDLE", "RETUNE", "TUNED"}
  /\ kt \in [Threads -> KThread]
  /\ rw \in {"closed", "opening", "open"} /\ ro \in BOOLEAN
  /\ proc \in [Procs -> Proc]
  /\ call \in [Callers -> Caller]
  /\ eventr \in Slots /\ eventw \in Slots /\ overflow \in BOOLEAN
  /\ slot \in [Slots -> 0..MaxEvents]
  /\ last \in 0..MaxEvents /\ next \in 1..(MaxEvents + 1) /\ reported \in BOOLEAN
  /\ orphan \in BOOLEAN /\ reinit \in BOOLEAN /\ torn \in BOOLEAN

\* TypeOK, with the records spelt out by field.
LEMMA TypeOKByName == TypeOK <=> TypesByName
  BY DEF TypeOK, TypesByName, KThread, Proc, Procs, Caller

(* An index of the queue stays one. *)
LEMMA IncInSlots == \A i \in Slots : Inc(i) \in Slots
  BY FrontendAssumption, ModInRange DEF Slots, Inc

(* The number of the newest event is a number. *)
LEMMA AddedType ==
  ASSUME slot \in [Slots -> 0..MaxEvents]
  PROVE  /\ Added \in 0..MaxEvents
         /\ \A i \in Slots : slot[i] <= Added
<1> DEFINE T == {slot[i] : i \in Slots}
<1>1. T \subseteq 0..MaxEvents /\ MaxEvents \in Nat
  BY FrontendAssumption
<1>2. CASE \E i \in Slots : slot[i] > 0
  <2>1. T # {}
    BY <1>2
  <2>2. \E x \in T : \A y \in T : y <= x
    BY <1>1, <2>1, GreatestElement
  <2>3. \E x \in T : \A i \in Slots : slot[i] <= x
    BY <2>2
  <2>4. Added \in T /\ \A i \in Slots : slot[i] <= Added
    BY <1>2, <2>3 DEF Added
  <2>5. QED
    BY <1>1, <2>4
<1>3. CASE ~ \E i \in Slots : slot[i] > 0
  <2>1. Added = 0
    BY <1>3 DEF Added
  <2>2. QED
    BY <1>1, <1>3, <2>1
<1>4. QED
  BY <1>2, <1>3

\* There is a slot to start at.
LEMMA ZeroSlot == 0 \in Slots
  BY FrontendAssumption DEF Slots

\* The types hold when the frontend is registered.
LEMMA InitTypes == Init => TypesByName
<1> SUFFICES ASSUME Init PROVE TypesByName
  OBVIOUS
<1>1. 0 \in Slots
  BY FrontendAssumption DEF Slots
<1>2. kt \in [Threads -> KThread]
  BY <1>1 DEF Init, KThread, KernelStates
<1>3. proc \in [Procs -> Proc]
  BY FrontendAssumption DEF Init, Proc, Procs
<1>4. call \in [Callers -> Caller]
  BY DEF Init, Caller
<1>5. slot \in [Slots -> 0..MaxEvents] /\ next \in 1..(MaxEvents + 1) /\ last \in 0..MaxEvents
      /\ thread \in 0..MaxThreads
  BY FrontendAssumption DEF Init
<1>6. QED
  BY <1>1, <1>2, <1>3, <1>4, <1>5 DEF Init, TypesByName

(* How the records change. *)
LEMMA KtTyped ==
  ASSUME NEW f \in [Threads -> KThread], NEW t \in Threads
  PROVE  /\ \A q \in KernelStates : [f EXCEPT ![t].pc = q] \in [Threads -> KThread]
         /\ \A q \in KernelStates, s \in Slots :
              [f EXCEPT ![t].pc = q, ![t].wp = s] \in [Threads -> KThread]
         /\ [f EXCEPT ![t].stop = TRUE] \in [Threads -> KThread]
         /\ \A q \in KernelStates :
              [f EXCEPT ![t].pc = q, ![t].stop = FALSE] \in [Threads -> KThread]
  BY DEF KThread

\* A process moved on is a process.
LEMMA ProcTyped ==
  ASSUME NEW f \in [Procs -> Proc], NEW p \in Procs,
         NEW q \in {"idle", "start", "check", "stop", "stopping", "killing", "joining", "oops",
                    "down", "run", "created", "events", "users", "waiting", "free", "freed",
                    "wake"},
         NEW k \in 0..MaxThreads
  PROVE  /\ [f EXCEPT ![p].pc = q] \in [Procs -> Proc]
         /\ [f EXCEPT ![p] = [pc |-> q, k |-> k]] \in [Procs -> Proc]
  BY DEF Proc

\* A caller moved on is a caller.
LEMMA CallTyped ==
  ASSUME NEW f \in [Callers -> Caller], NEW c \in Callers,
         NEW q \in {"idle", "want", "in", "waiting"}
  PROVE  /\ [f EXCEPT ![c].pc = q] \in [Callers -> Caller]
         /\ \A o \in {"read", "set", "get", "take", "signal"} :
              [f EXCEPT ![c] = [pc |-> q, op |-> o]] \in [Callers -> Caller]
  BY DEF Caller

\* Every step keeps the types.
LEMMA TypesStep == TypesByName /\ [Next]_vars => TypesByName'
<1> SUFFICES ASSUME TypesByName, [Next]_vars PROVE TypesByName'
  OBVIOUS
<1>0. MaxThreads \in Nat /\ MaxEvents \in Nat
  BY FrontendAssumption
<1>1. ASSUME NEW t \in Threads, TStart(t) PROVE TypesByName'
  <2>1. kt' \in [Threads -> KThread]
    BY <1>1, KtTyped DEF TStart, TPc, KernelStates, TypesByName
  <2>2. QED
    BY <1>1, <2>1 DEF TStart, Up, TypesByName, ev, hist
<1>2. ASSUME NEW t \in Threads, TWake(t) PROVE TypesByName'
  <2>1. kt' \in [Threads -> KThread]
    BY <1>2, KtTyped, ZenonT(60) DEF TWake, TPc, KernelStates, TypesByName
  <2>2. QED
    BY <1>2, <2>1 DEF TWake, TypesByName, ev, hist
<1>3. ASSUME NEW t \in Threads, TDown(t) PROVE TypesByName'
  <2>1. kt' \in [Threads -> KThread]
    BY <1>3, KtTyped DEF TDown, TPc, KernelStates, TypesByName
  <2>2. QED
    BY <1>3, <2>1 DEF TDown, Down, TypesByName, ev, hist
<1>4. ASSUME NEW t \in Threads, TIterate(t) PROVE TypesByName'
  <2>1. kt' \in [Threads -> KThread]
    BY <1>4, KtTyped DEF TIterate, TPc, KernelStates, TypesByName
  <2>2. QED
    BY <1>4, <2>1 DEF TIterate, Up, TypesByName, ev, hist
<1>5. ASSUME NEW t \in Threads, TAddEvent(t) PROVE TypesByName'
  <2>1. Added + 1 \in 0..MaxEvents
    BY <1>5, <1>0, AddedType DEF TAddEvent, TypesByName
  <2>2. Inc(eventw) \in Slots /\ Inc(eventr) \in Slots
    BY <1>5, IncInSlots DEF TAddEvent, TypesByName
  <2>3. kt' \in [Threads -> KThread]
    BY <1>5, <2>2, KtTyped, ZenonT(60) DEF TAddEvent, KernelStates, TypesByName
  <2>4. QED
    BY <1>5, <2>1, <2>2, <2>3 DEF TAddEvent, Put, TypesByName, ev, hist
<1>6. ASSUME NEW t \in Threads, TAdded(t) PROVE TypesByName'
  <2>1. kt' \in [Threads -> KThread]
    BY <1>6, ZeroSlot, KtTyped DEF TAdded, KernelStates, TypesByName
  <2>2. eventw' \in Slots
    BY <1>6 DEF TAdded, KThread, TypesByName
  <2>3. QED
    BY <1>6, <2>1, <2>2 DEF TAdded, Up, TypesByName, ev, hist
<1>7. ASSUME NEW t \in Threads, TQuit(t) PROVE TypesByName'
  <2>1. kt' \in [Threads -> KThread]
    BY <1>7, KtTyped DEF TQuit, TPc, KernelStates, TypesByName
  <2>2. QED
    BY <1>7, <2>1 DEF TQuit, Down, TypesByName, ev, hist
<1>8. ASSUME NEW t \in Threads, TNull(t) PROVE TypesByName'
  <2>1. kt' \in [Threads -> KThread]
    BY <1>8, KtTyped DEF TNull, TPc, KernelStates, TypesByName
  <2>2. thread' \in 0..MaxThreads
    BY <1>8, <1>0 DEF TNull, TypesByName
  <2>3. QED
    BY <1>8, <2>1, <2>2 DEF TNull, TypesByName, ev, hist
<1>9. ASSUME NEW t \in Threads, TEnd(t) PROVE TypesByName'
  <2>1. kt' \in [Threads -> KThread]
    BY <1>9, KtTyped DEF TEnd, KernelStates, TypesByName
  <2>2. QED
    BY <1>9, <2>1 DEF TEnd, Up, TypesByName, ev, hist
<1>10. ASSUME NEW p \in Procs, StopExit(p) PROVE TypesByName'
  <2>1. proc' \in [Procs -> Proc]
    BY <1>10, <1>0, ProcTyped DEF StopExit, PPc, Proc, TypesByName
  <2>2. QED
    BY <1>10, <2>1 DEF StopExit, TypesByName, ev, hist
<1>11. ASSUME NEW p \in Procs, NEW then \in {"down", "users"}, StopThread(p, then) PROVE TypesByName'
  <2>1. \/ proc' = [proc EXCEPT ![p] = [pc |-> then, k |-> 0]]
        \/ proc' = [proc EXCEPT ![p] = [pc |-> "killing", k |-> thread]]
    BY <1>11 DEF StopThread
  <2>2. [pc |-> then, k |-> 0] \in Proc /\ [pc |-> "killing", k |-> thread] \in Proc
    BY <1>0 DEF Proc, TypesByName
  <2>3. proc' \in [Procs -> Proc]
    BY <2>1, <2>2 DEF TypesByName
  <2>4. QED
    BY <1>11, <2>3 DEF StopThread, TypesByName, ev, hist
<1>12. ASSUME NEW p \in Procs, StopKill(p) PROVE TypesByName'
  <2>1. PICK t \in {proc[p].k, thread} :
          \/ /\ t # 0
             /\ kt' = IF kt[t].pc = "done" THEN kt ELSE [kt EXCEPT ![t].stop = TRUE]
             /\ proc' = [proc EXCEPT ![p] = [pc |-> "joining", k |-> t]]
          \/ proc' = [proc EXCEPT ![p].pc = "oops"] /\ UNCHANGED kt
    BY <1>12 DEF StopKill, PPc
  <2>2. t \in 0..MaxThreads /\ (t # 0 => t \in Threads)
    BY <1>0 DEF Proc, Threads, TypesByName
  <2>3. [pc |-> "joining", k |-> t] \in Proc
    BY <2>2 DEF Proc
  <2>4. [proc EXCEPT ![p].pc = "oops"] \in [Procs -> Proc]
    BY <1>0, ProcTyped DEF TypesByName
  <2>5. proc' \in [Procs -> Proc]
    BY <2>1, <2>3, <2>4 DEF TypesByName
  <2>6. kt' \in [Threads -> KThread]
    BY <2>1, <2>2, KtTyped DEF TypesByName
  <2>7. QED
    BY <1>12, <2>5, <2>6 DEF StopKill, TypesByName, ev, hist
<1>13. ASSUME NEW p \in Procs, NEW then \in {"down", "users"}, StopJoined(p, then) PROVE TypesByName'
  <2>1. proc' = [proc EXCEPT ![p] = [pc |-> then, k |-> 0]]
    BY <1>13 DEF StopJoined
  <2>2. [pc |-> then, k |-> 0] \in Proc
    BY <1>0 DEF Proc
  <2>3. proc' \in [Procs -> Proc]
    BY <2>1, <2>2 DEF TypesByName
  <2>4. reinit' \in BOOLEAN
    BY <1>13 DEF StopJoined, TypesByName
  <2>5. QED
    BY <1>13, <2>3, <2>4 DEF StopJoined, TypesByName, ev, hist
<1>14. CASE Open
  <2>1. proc' \in [Procs -> Proc]
    BY <1>14, <1>0, ProcTyped DEF Open, PPc, Procs, TypesByName
  <2>2. QED
    BY <1>14, <2>1 DEF Open, TypesByName, ev, hist
<1>15. CASE OpenStart
  <2>1. \/ proc' = [proc EXCEPT !["open"] = [pc |-> "down", k |-> 0]]
        \/ proc' = [proc EXCEPT !["open"] = [pc |-> "check", k |-> thread]]
    BY <1>15 DEF OpenStart
  <2>2. [pc |-> "down", k |-> 0] \in Proc /\ [pc |-> "check", k |-> thread] \in Proc
    BY <1>0 DEF Proc, TypesByName
  <2>3. proc' \in [Procs -> Proc]
    BY <2>1, <2>2 DEF TypesByName
  <2>4. QED
    BY <1>15, <2>3 DEF OpenStart, TypesByName, ev, hist
<1>16. CASE OpenCheck
  <2>1. \/ proc' = [proc EXCEPT !["open"] = [pc |-> "events", k |-> 0]]
        \/ proc' = [proc EXCEPT !["open"] = [pc |-> "stop", k |-> 0]]
    BY <1>16 DEF OpenCheck
  <2>2. [pc |-> "events", k |-> 0] \in Proc /\ [pc |-> "stop", k |-> 0] \in Proc
    BY <1>0 DEF Proc
  <2>3. proc' \in [Procs -> Proc]
    BY <2>1, <2>2 DEF TypesByName
  <2>4. orphan' \in BOOLEAN
    BY <1>16 DEF OpenCheck, Orphaned, TypesByName
  <2>5. QED
    BY <1>16, <2>3, <2>4 DEF OpenCheck, TypesByName, ev, hist
<1>17. CASE OpenDown
  <2>1. proc' \in [Procs -> Proc]
    BY <1>17, <1>0, ProcTyped DEF OpenDown, PPc, Procs, TypesByName
  <2>2. thread' \in 0..MaxThreads
    BY <1>17, <1>0 DEF OpenDown, TypesByName
  <2>3. QED
    BY <1>17, <2>1, <2>2 DEF OpenDown, Down, TypesByName, ev, hist
<1>18. ASSUME NEW t \in Threads, OpenRun(t) PROVE TypesByName'
  <2>1. kt' \in [Threads -> KThread]
    BY <1>18, KtTyped DEF OpenRun, TPc, KernelStates, TypesByName
  <2>2. proc' = [proc EXCEPT !["open"] = [pc |-> "created", k |-> t]]
    BY <1>18 DEF OpenRun
  <2>3. [pc |-> "created", k |-> t] \in Proc
    BY <1>0 DEF Proc, Threads
  <2>4. proc' \in [Procs -> Proc]
    BY <2>2, <2>3 DEF TypesByName
  <2>5. QED
    BY <1>18, <2>1, <2>4 DEF OpenRun, TypesByName, ev, hist
<1>19. CASE OpenCreated
  <2>1. proc' = [proc EXCEPT !["open"] = [pc |-> "events", k |-> 0]]
    BY <1>19 DEF OpenCreated
  <2>2. [pc |-> "events", k |-> 0] \in Proc
    BY <1>0 DEF Proc
  <2>3. proc' \in [Procs -> Proc]
    BY <2>1, <2>2 DEF TypesByName
  <2>4. thread' \in 0..MaxThreads
    BY <1>19 DEF OpenCreated, Proc, Procs, TypesByName
  <2>5. QED
    BY <1>19, <2>3, <2>4 DEF OpenCreated, TypesByName, ev, hist
<1>20. CASE OpenEvents
  <2>1. proc' \in [Procs -> Proc]
    BY <1>20, <1>0, ProcTyped DEF OpenEvents, PPc, Procs, TypesByName
  <2>2. next' \in 1..(MaxEvents + 1)
    BY <1>20, <1>0, AddedType DEF OpenEvents, TypesByName
  <2>3. torn' \in BOOLEAN
    BY <1>20 DEF OpenEvents, TypesByName
  <2>4. QED
    BY <1>20, <2>1, <2>2, <2>3, ZeroSlot DEF OpenEvents, TypesByName, ev, hist
<1>21. CASE OpenFails
  <2>1. proc' \in [Procs -> Proc]
    BY <1>21, <1>0, ProcTyped DEF OpenFails, PPc, Procs, TypesByName
  <2>2. QED
    BY <1>21, <2>1 DEF OpenFails, Up, TypesByName, ev, hist
<1>22. CASE ReleaseWriter
  <2>1. proc' \in [Procs -> Proc]
    BY <1>22, <1>0, ProcTyped DEF ReleaseWriter, PPc, Procs, TypesByName
  <2>2. QED
    BY <1>22, <2>1 DEF ReleaseWriter, TypesByName, ev, hist
<1>23. CASE ReleasedWriter
  <2> DEFINE ps == [proc EXCEPT !["release"].pc = "idle"]
  <2>1. ps \in [Procs -> Proc]
    BY <1>0, ProcTyped DEF Procs, TypesByName
  <2>2. [ps EXCEPT !["unreg"].pc = "free"] \in [Procs -> Proc]
    <3>1. \A f \in [Procs -> Proc] : [f EXCEPT !["unreg"].pc = "free"] \in [Procs -> Proc]
      BY DEF Procs, Proc
    <3>2. QED
      BY <2>1, <3>1
  <2>3. proc' = ps \/ proc' = [ps EXCEPT !["unreg"].pc = "free"]
    BY <1>23 DEF ReleasedWriter, WakeUnregister
  <2>4. proc' \in [Procs -> Proc]
    BY <2>1, <2>2, <2>3
  <2>5. QED
    BY <1>23, <2>4, ZenonT(60) DEF ReleasedWriter, TypesByName, ev, hist
<1>24. CASE OpenReader
  BY <1>24 DEF OpenReader, TypesByName, ev, hist
<1>25. CASE ReleaseReader
  <2>1. WakeUnregister(proc) \in [Procs -> Proc]
    BY <1>0, ProcTyped DEF Procs, WakeUnregister, TypesByName
  <2>2. QED
    BY <1>25, <2>1, ZenonT(60) DEF ReleaseReader, TypesByName, ev, hist
<1>26. ASSUME NEW c \in Callers, NEW op \in {"read", "set", "get"}, Call(c, op) PROVE TypesByName'
  <2>1. call' \in [Callers -> Caller]
    BY <1>26, CallTyped DEF Call, TypesByName
  <2>2. QED
    BY <1>26, <2>1 DEF Call, TypesByName, ev, hist
<1>27. ASSUME NEW c \in Callers, CallDown(c) PROVE TypesByName'
  <2>1. call' \in [Callers -> Caller]
    BY <1>27, CallTyped DEF CallDown, CPc, TypesByName
  <2>2. QED
    BY <1>27, <2>1 DEF CallDown, Down, TypesByName, ev, hist
<1>28. ASSUME NEW c \in Callers, CallReturns(c) PROVE TypesByName'
  <2>1. call' \in [Callers -> Caller]
    BY <1>28, CallTyped DEF CallReturns, Leave, TypesByName
  <2>2. QED
    BY <1>28, <2>1 DEF CallReturns, Up, TypesByName, ev, hist
<1>29. ASSUME NEW c \in Callers, CallSets(c) PROVE TypesByName'
  <2>1. call' \in [Callers -> Caller]
    BY <1>29, CallTyped DEF CallSets, Leave, TypesByName
  <2>2. Added + 1 \in 0..MaxEvents /\ Added + 1 \in 1..(MaxEvents + 1)
    BY <1>29, <1>0, AddedType DEF CallSets, TypesByName
  <2>3. Inc(eventw) \in Slots
    BY <1>29, IncInSlots DEF CallSets, TypesByName
  <2>4. eventr' \in Slots /\ eventw' \in Slots /\ next' \in 1..(MaxEvents + 1)
    BY <1>29, <2>2, <2>3 DEF CallSets, TypesByName
  <2>5. slot' = [slot EXCEPT ![eventw] = Added + 1]
    BY <1>29 DEF CallSets
  <2>6. slot' \in [Slots -> 0..MaxEvents]
    BY <2>2, <2>5 DEF TypesByName
  <2>7. sem' \in Nat
    BY <1>29 DEF CallSets, Up, TypesByName
  <2>8. QED
    BY <1>29, <2>1, <2>4, <2>6, <2>7 DEF CallSets, TypesByName
<1>30. ASSUME NEW c \in Callers, CallGets(c) PROVE TypesByName'
  <2>1. call' = [call EXCEPT ![c] = [pc |-> "idle", op |-> "read"]]
        \/ call' = [call EXCEPT ![c].pc = "waiting"]
    BY <1>30 DEF CallGets, Leave, CPc
  <2>2. call' \in [Callers -> Caller]
    BY <2>1 DEF Caller, TypesByName
  <2>3. slot[eventr] \in 0..MaxEvents /\ slot[eventr] + 1 \in 1..(MaxEvents + 1)
    BY <1>0 DEF TypesByName
  <2>4. Inc(eventr) \in Slots
    BY IncInSlots DEF TypesByName
  <2>5. sem' \in Nat
    BY <1>30 DEF CallGets, Up, TypesByName
  <2>6. /\ eventr' = eventr \/ eventr' = Inc(eventr)
        /\ eventw' = eventw /\ slot' = slot
        /\ overflow' = overflow \/ overflow' = FALSE
        /\ last' = last \/ last' = slot[eventr]
        /\ next' = next \/ next' = slot[eventr] + 1
        /\ reported' = reported \/ reported' = TRUE \/ reported' = FALSE
    BY <1>30, Zenon DEF CallGets, Take, ev
  <2>7. eventr' \in Slots /\ last' \in 0..MaxEvents /\ next' \in 1..(MaxEvents + 1)
        /\ overflow' \in BOOLEAN /\ reported' \in BOOLEAN
    <3>1. eventr' \in Slots /\ last' \in 0..MaxEvents /\ next' \in 1..(MaxEvents + 1)
      BY <2>3, <2>4, <2>6 DEF TypesByName
    <3>2. overflow' \in BOOLEAN /\ reported' \in BOOLEAN
      BY <2>6, Zenon DEF TypesByName
    <3>3. QED
      BY <3>1, <3>2
  <2>8. QED
    BY <1>30, <2>2, <2>5, <2>6, <2>7 DEF CallGets, TypesByName
<1>31. ASSUME NEW c \in Callers, CallWakes(c) PROVE TypesByName'
  <2>1. call' \in [Callers -> Caller]
    BY <1>31, CallTyped DEF CallWakes, TypesByName
  <2>2. QED
    BY <1>31, <2>1 DEF CallWakes, TypesByName, ev, hist
<1>32. ASSUME NEW c \in Callers, CallTakes(c) PROVE TypesByName'
  <2>1. call' \in [Callers -> Caller]
    BY <1>32, CallTyped DEF CallTakes, Leave, TypesByName
  <2>2. slot[eventr] \in 0..MaxEvents /\ slot[eventr] + 1 \in 1..(MaxEvents + 1)
    BY <1>32, <1>0 DEF CallTakes, TypesByName
  <2>3. Inc(eventr) \in Slots
    BY <1>32, IncInSlots DEF CallTakes, TypesByName
  <2>4. eventr' \in Slots /\ last' \in 0..MaxEvents /\ next' \in 1..(MaxEvents + 1)
    BY <1>32, <2>2, <2>3 DEF CallTakes, Take
  <2>5. sem' \in Nat
    BY <1>32 DEF CallTakes, Up, TypesByName
  <2>6. QED
    BY <1>32, <2>1, <2>4, <2>5 DEF CallTakes, Take, TypesByName
<1>33. ASSUME NEW c \in Callers, CallInterrupted(c) PROVE TypesByName'
  <2>1. call' = [call EXCEPT ![c] = [pc |-> "idle", op |-> "read"]]
        \/ call' = [call EXCEPT ![c] = [pc |-> "want", op |-> "signal"]]
    BY <1>33, Zenon DEF CallInterrupted, Leave
  <2>2. call' \in [Callers -> Caller]
    BY <2>1 DEF Caller, TypesByName
  <2>3. (sem' = sem \/ sem' = sem + 1) /\ (reinit' = reinit \/ reinit' = TRUE)
    BY <1>33, Zenon DEF CallInterrupted, Up
  <2>4. sem' \in Nat
    BY <2>3 DEF TypesByName
  <2>5. reinit' \in BOOLEAN
    BY <2>3, Zenon DEF TypesByName
  <2>6. QED
    BY <1>33, <2>2, <2>4, <2>5 DEF CallInterrupted, TypesByName, ev
<1>34. CASE Unregister
  <2>1. proc' \in [Procs -> Proc]
    BY <1>34, <1>0, ProcTyped DEF Unregister, PPc, Procs, TypesByName
  <2>2. QED
    BY <1>34, <2>1 DEF Unregister, TypesByName, ev, hist
<1>35. CASE UnregisterUsers
  <2>1. proc' \in [Procs -> Proc]
    BY <1>35, <1>0, ProcTyped DEF UnregisterUsers, PPc, Procs, TypesByName
  <2>2. QED
    BY <1>35, <2>1 DEF UnregisterUsers, TypesByName, ev, hist
<1>36. CASE UnregisterFree
  <2>1. proc' \in [Procs -> Proc]
    BY <1>36, <1>0, ProcTyped DEF UnregisterFree, PPc, Procs, TypesByName
  <2>2. QED
    BY <1>36, <2>1 DEF UnregisterFree, TypesByName, ev, hist
<1>37. CASE UNCHANGED vars
  BY <1>37 DEF vars, TypesByName
<1>38. QED
  BY <1>1, <1>2, <1>3, <1>4, <1>5, <1>6, <1>7, <1>8, <1>9, <1>10, <1>11, <1>13,
     <1>14, <1>15, <1>17, <1>18, <1>19, <1>20, <1>21, <1>22, <1>23, <1>24, <1>25,
     <1>26, <1>27, <1>28, <1>29, <1>30, <1>31, <1>32, <1>33, <1>34, <1>35, <1>36,
     <1>37, <1>12, <1>16
     DEF Next, Thread, User, Ioctl, CallBody, Driver, Stop, Procs

(* Every variable keeps its type: the indices stay in the queue, and there *)
(* is no more than MaxEvents events and no thread but those.               *)
THEOREM TypeCorrect == Spec => []TypeOK
<1>1. Init => TypesByName
  BY InitTypes
<1>2. TypesByName /\ [Next]_vars => TypesByName'
  BY TypesStep
<1>3. TypesByName => TypeOK
  BY TypeOKByName
<1>4. QED
  BY <1>1, <1>2, <1>3, PTL DEF Spec

-----------------------------------------------------------------------------
(* Mutual exclusion and the one thread.                                    *)

\* Who holds fepriv->sem, and which threads exist.
HoldPcs == {"start", "iter", "add", "sleep", "null"}
THolds(t) == kt[t].pc \in HoldPcs
CHolds(c) == call[c].pc = "in"
OHolds == proc["open"].pc = "run"
Alive(t) == kt[t].pc \notin {"none", "done"}

(* The semaphore is 1 and nobody holds it, or it is 0 and one does. *)
Exclusive ==
  /\ sem \in {0, 1}
  /\ \A t \in Threads : THolds(t) =>
        sem = 0 /\ ~OHolds /\ \A u \in Threads : THolds(u) => u = t
  /\ \A c \in Callers : CHolds(c) =>
        sem = 0 /\ ~OHolds /\ (\A t \in Threads : ~THolds(t))
        /\ \A d \in Callers : CHolds(d) => d = c
  /\ OHolds => sem = 0
  /\ sem = 0 => OHolds \/ (\E t \in Threads : THolds(t)) \/ (\E c \in Callers : CHolds(c))

\* There is never a second thread.
AtMostOne == \A t, u \in Threads : Alive(t) /\ Alive(u) => t = u

(* Until a thread clears fepriv->thread on its way out, fepriv->thread     *)
(* points to it, or the open that has started it is about to store that.   *)
ThreadKnown ==
  \A t \in Threads : Alive(t) /\ kt[t].pc # "null" =>
    thread = t \/ (proc["open"].pc = "created" /\ proc["open"].k = t)

(* What an open that is going to start a thread knows about the old one:   *)
(* at most a thread that holds the semaphore for the last time is left     *)
(* when it asks for the semaphore, and none when it has it.                *)
OpenKnows ==
  \A t \in Threads : Alive(t) =>
    /\ proc["open"].pc \in {"killing", "joining"} => t = proc["open"].k \/ kt[t].pc = "null"
    /\ proc["open"].pc = "down" => kt[t].pc = "null"
    /\ proc["open"].pc # "run"
    /\ proc["open"].pc = "created" => t = proc["open"].k

\* Mutual exclusion needs that an open knows of every thread there is: it runs
\* a new one only when the old one is gone.
Safe == Exclusive /\ AtMostOne /\ ThreadKnown /\ OpenKnows

(* The inductive invariant. *)
IInv == TypesByName /\ (~reinit => Safe)

\* No thread and no holder of the semaphore to begin with.
LEMMA InitSafe == Init => Safe
  BY DEF Init, Safe, Exclusive, AtMostOne, ThreadKnown, OpenKnows, THolds, CHolds, OHolds,
         Alive, HoldPcs

(* Nothing that the invariant is about changes. *)
LEMMA SameSafe ==
  ASSUME Safe, sem' = sem, thread' = thread, proc'["open"] = proc["open"],
         \A t \in Threads : kt'[t].pc = kt[t].pc,
         \A c \in Callers : CHolds(c)' <=> CHolds(c)
  PROVE  Safe'
<1>1. /\ \A t \in Threads : (THolds(t)' <=> THolds(t)) /\ (Alive(t)' <=> Alive(t))
      /\ OHolds' <=> OHolds
  BY DEF THolds, Alive, OHolds
<1>2. Exclusive'
  BY <1>1 DEF Safe, Exclusive
<1>3. AtMostOne'
  BY <1>1 DEF Safe, AtMostOne
<1>4. ThreadKnown'
  BY <1>1 DEF Safe, ThreadKnown
<1>5. OpenKnows'
  BY <1>1 DEF Safe, OpenKnows
<1>6. QED
  BY <1>2, <1>3, <1>4, <1>5 DEF Safe

(* A step of a living thread: it moves to q, takes or returns the semaphore  *)
(* as q asks for it, and may clear fepriv->thread when it has its last turn. *)
LEMMA ThreadMoves ==
  ASSUME Safe, NEW t \in Threads, NEW q \in KernelStates \ {"none"}, Alive(t),
         \A u \in Threads : kt'[u].pc = IF u = t THEN q ELSE kt[u].pc,
         kt[t].pc = "null" => q = "done",
         q = "null" \/ q = "done" \/ thread' = thread,
         proc' = proc, call' = call,
         \/ THolds(t) /\ q \in HoldPcs /\ sem' = sem
         \/ THolds(t) /\ q \notin HoldPcs /\ sem' = sem + 1
         \/ ~THolds(t) /\ q \in HoldPcs /\ sem > 0 /\ sem' = sem - 1
         \/ ~THolds(t) /\ q \notin HoldPcs /\ sem' = sem
  PROVE  Safe'
<1>1. /\ \A u \in Threads : u # t => (THolds(u)' <=> THolds(u)) /\ (Alive(u)' <=> Alive(u))
      /\ THolds(t)' <=> q \in HoldPcs
      /\ Alive(t)' => q # "done"
      /\ OHolds' <=> OHolds
      /\ \A c \in Callers : CHolds(c)' <=> CHolds(c)
  BY DEF THolds, Alive, OHolds, CHolds
<1>2. Exclusive'
  <2>1. CASE THolds(t) /\ q \in HoldPcs /\ sem' = sem
    BY <1>1, <2>1 DEF Safe, Exclusive
  <2>2. CASE THolds(t) /\ q \notin HoldPcs /\ sem' = sem + 1
    BY <1>1, <2>2 DEF Safe, Exclusive
  <2>3. CASE ~THolds(t) /\ q \in HoldPcs /\ sem > 0 /\ sem' = sem - 1
    BY <1>1, <2>3 DEF Safe, Exclusive
  <2>4. CASE ~THolds(t) /\ q \notin HoldPcs /\ sem' = sem
    BY <1>1, <2>4 DEF Safe, Exclusive
  <2>5. QED
    BY <2>1, <2>2, <2>3, <2>4
<1>3. AtMostOne'
  BY <1>1 DEF Safe, AtMostOne
<1>4. ThreadKnown'
  BY <1>1 DEF Safe, AtMostOne, ThreadKnown, Alive
<1>5. OpenKnows'
  BY <1>1 DEF Safe, OpenKnows, Alive
<1>6. QED
  BY <1>2, <1>3, <1>4, <1>5 DEF Safe

(* A step of a caller that takes or returns the semaphore. *)
LEMMA CallerMoves ==
  ASSUME Safe, NEW c \in Callers, kt' = kt, thread' = thread, proc' = proc,
         \A d \in Callers : d # c => (CHolds(d)' <=> CHolds(d)),
         \/ CHolds(c) /\ ~CHolds(c)' /\ sem' = sem + 1
         \/ ~CHolds(c) /\ CHolds(c)' /\ sem > 0 /\ sem' = sem - 1
  PROVE  Safe'
<1>1. /\ \A u \in Threads : (THolds(u)' <=> THolds(u)) /\ (Alive(u)' <=> Alive(u))
      /\ OHolds' <=> OHolds
  BY DEF THolds, Alive, OHolds
<1>2. Exclusive'
  <2>1. CASE CHolds(c) /\ ~CHolds(c)' /\ sem' = sem + 1
    BY <1>1, <2>1 DEF Safe, Exclusive
  <2>2. CASE ~CHolds(c) /\ CHolds(c)' /\ sem > 0 /\ sem' = sem - 1
    BY <1>1, <2>2 DEF Safe, Exclusive
  <2>3. QED
    BY <2>1, <2>2
<1>3. AtMostOne' /\ ThreadKnown' /\ OpenKnows'
  BY <1>1 DEF Safe, AtMostOne, ThreadKnown, OpenKnows
<1>4. QED
  BY <1>2, <1>3 DEF Safe

(* A step of the open that leaves the semaphore and fepriv->thread alone. *)
LEMMA OpenMoves ==
  ASSUME Safe, sem' = sem, thread' = thread, call' = call,
         \A t \in Threads : kt'[t].pc = kt[t].pc,
         proc["open"].pc \notin {"run", "created"},
         proc'["open"].pc \notin {"run", "created"},
         proc'["open"].pc \in {"killing", "joining"} =>
           \A t \in Threads : Alive(t) => t = proc'["open"].k \/ kt[t].pc = "null",
         proc'["open"].pc = "down" => \A t \in Threads : Alive(t) => kt[t].pc = "null"
  PROVE  Safe'
<1>1. /\ \A t \in Threads : (THolds(t)' <=> THolds(t)) /\ (Alive(t)' <=> Alive(t))
      /\ \A c \in Callers : CHolds(c)' <=> CHolds(c)
      /\ OHolds' <=> OHolds
  BY DEF THolds, Alive, OHolds, CHolds
<1>2. Exclusive'
  BY <1>1 DEF Safe, Exclusive
<1>3. AtMostOne'
  BY <1>1 DEF Safe, AtMostOne
<1>4. ThreadKnown'
  BY <1>1 DEF Safe, ThreadKnown
<1>5. OpenKnows'
  BY <1>1 DEF OpenKnows
<1>6. QED
  BY <1>2, <1>3, <1>4, <1>5 DEF Safe

\* An open that takes the semaphore to start the thread.
LEMMA OpenDownSafe == TypesByName /\ Safe /\ OpenDown => Safe'
<1> SUFFICES ASSUME TypesByName, Safe, OpenDown PROVE Safe'
  OBVIOUS
<1>1. sem = 1 /\ sem' = 0
  BY DEF OpenDown, Down, Safe, Exclusive
<1>2. \A t \in Threads : ~Alive(t)
  BY <1>1 DEF OpenDown, Safe, OpenKnows, Exclusive, THolds, HoldPcs
<1>3. proc'["open"].pc = "run"
  BY DEF OpenDown, PPc, TypesByName, Procs, Proc
<1>4. /\ \A t \in Threads : (THolds(t)' <=> THolds(t)) /\ (Alive(t)' <=> Alive(t))
      /\ \A c \in Callers : CHolds(c)' <=> CHolds(c)
      /\ OHolds'
  BY <1>3 DEF OpenDown, THolds, Alive, OHolds, CHolds
<1>5. Exclusive'
  BY <1>1, <1>4 DEF Safe, Exclusive
<1>6. AtMostOne' /\ ThreadKnown' /\ OpenKnows'
  BY <1>2, <1>4 DEF AtMostOne, ThreadKnown, OpenKnows
<1>7. QED
  BY <1>5, <1>6 DEF Safe

\* An open that creates the thread.
LEMMA OpenRunSafe ==
  ASSUME TypesByName, Safe, NEW t \in Threads, OpenRun(t) PROVE Safe'
<1>1. \A u \in Threads : ~Alive(u) /\ ~THolds(u)
  BY DEF OpenRun, Safe, OpenKnows, Alive, THolds, HoldPcs
<1>2. \A u \in Threads : kt'[u].pc = IF u = t THEN "start" ELSE kt[u].pc
  BY DEF OpenRun, TPc, TypesByName, KThread
<1>3. proc'["open"].pc = "created" /\ proc'["open"].k = t
  BY DEF OpenRun, TypesByName, Procs
<1>4. /\ \A u \in Threads : (THolds(u)' <=> u = t) /\ (Alive(u)' <=> u = t)
      /\ \A c \in Callers : CHolds(c)' <=> CHolds(c)
      /\ OHolds /\ ~OHolds'
  BY <1>1, <1>2, <1>3 DEF OpenRun, THolds, Alive, OHolds, CHolds, HoldPcs
<1>5. Exclusive'
  BY <1>1, <1>4 DEF Safe, Exclusive, OpenRun
<1>6. AtMostOne'
  BY <1>4 DEF AtMostOne
<1>7. ThreadKnown'
  BY <1>3, <1>4 DEF ThreadKnown
<1>8. OpenKnows'
  BY <1>3, <1>4 DEF OpenKnows
<1>9. QED
  BY <1>5, <1>6, <1>7, <1>8 DEF Safe

\* An open that notes the thread it has created.
LEMMA OpenCreatedSafe == TypesByName /\ Safe /\ OpenCreated => Safe'
<1> SUFFICES ASSUME TypesByName, Safe, OpenCreated PROVE Safe'
  OBVIOUS
<1>1. proc'["open"].pc = "events"
  BY DEF OpenCreated, TypesByName, Procs
<1>2. /\ \A t \in Threads : (THolds(t)' <=> THolds(t)) /\ (Alive(t)' <=> Alive(t))
      /\ \A c \in Callers : CHolds(c)' <=> CHolds(c)
      /\ ~OHolds /\ ~OHolds'
  BY <1>1 DEF OpenCreated, THolds, Alive, OHolds, CHolds
<1>3. Exclusive'
  BY <1>2 DEF OpenCreated, Safe, Exclusive
<1>4. AtMostOne' /\ OpenKnows'
  BY <1>1, <1>2 DEF Safe, AtMostOne, OpenKnows
<1>5. ThreadKnown'
  BY <1>2 DEF OpenCreated, Safe, ThreadKnown, OpenKnows
<1>6. QED
  BY <1>3, <1>4, <1>5 DEF Safe

\* An open whose kthread_run fails.
LEMMA OpenFailsSafe == TypesByName /\ Safe /\ OpenFails => Safe'
<1> SUFFICES ASSUME TypesByName, Safe, OpenFails PROVE Safe'
  OBVIOUS
<1>1. proc'["open"].pc = "idle" /\ kt' = kt /\ call' = call /\ thread' = thread
  BY DEF OpenFails, PPc, TypesByName, Procs, Proc
<1>2. CASE proc["open"].pc = "down" /\ sem' = sem
  BY <1>1, <1>2, OpenMoves
<1>3. CASE proc["open"].pc = "run" /\ sem' = sem + 1
  <2>1. /\ \A t \in Threads : (THolds(t)' <=> THolds(t)) /\ (Alive(t)' <=> Alive(t))
        /\ \A c \in Callers : CHolds(c)' <=> CHolds(c)
        /\ OHolds /\ ~OHolds'
    BY <1>1, <1>3 DEF THolds, Alive, OHolds, CHolds
  <2>2. Exclusive'
    BY <1>3, <2>1 DEF Safe, Exclusive
  <2>3. AtMostOne' /\ ThreadKnown' /\ OpenKnows'
    BY <1>1, <1>3, <2>1 DEF Safe, AtMostOne, ThreadKnown, OpenKnows
  <2>4. QED
    BY <2>2, <2>3 DEF Safe
<1>4. QED
  BY <1>2, <1>3 DEF OpenFails, Up

(* The semaphore once spoilt stays so. *)
LEMMA ReinitStays == reinit \in BOOLEAN /\ reinit' \in BOOLEAN /\ [Next]_vars /\ reinit => reinit'
<1> SUFFICES ASSUME reinit, reinit \in BOOLEAN, reinit' \in BOOLEAN, [Next]_vars PROVE reinit'
  OBVIOUS
<1>1. ASSUME NEW t \in Threads, Thread(t) PROVE reinit'
  BY <1>1 DEF Thread, TStart, TWake, TDown, TIterate, TAddEvent, TAdded, TQuit, TNull, TEnd, hist
<1>2. ASSUME NEW p, NEW then, Stop(p, then) PROVE reinit'
  BY <1>2 DEF Stop, StopExit, StopThread, StopKill, StopJoined, hist
<1>3. ASSUME NEW c \in Callers, Ioctl(c) PROVE reinit'
  BY <1>3 DEF Ioctl, CallBody, Call, CallDown, CallReturns, CallSets, CallGets, CallWakes,
              CallTakes, CallInterrupted, hist
<1>4. CASE User
  BY <1>2, <1>4 DEF User, Open, OpenStart, OpenCheck, OpenDown, OpenRun, OpenCreated, OpenEvents,
                    OpenFails, ReleaseWriter, ReleasedWriter, OpenReader, ReleaseReader, hist
<1>5. CASE Driver
  BY <1>2, <1>5 DEF Driver, Unregister, UnregisterUsers, UnregisterFree, hist
<1>6. QED
  BY <1>1, <1>3, <1>4, <1>5 DEF Next, vars

\* The steps of the thread.
LEMMA ThreadSafe ==
  ASSUME TypesByName, Safe, NEW t \in Threads, Thread(t) PROVE Safe'
<1>0. \A q : TPc(t, q) => \A u \in Threads : kt'[u].pc = IF u = t THEN q ELSE kt[u].pc
  BY DEF TPc, TypesByName, KThread
<1>1. CASE TStart(t)
  BY <1>0, <1>1, ThreadMoves DEF TStart, Up, KernelStates, HoldPcs, Alive, THolds
<1>2. CASE TWake(t)
  BY <1>0, <1>2, ThreadMoves DEF TWake, KernelStates, HoldPcs, Alive, THolds
<1>3. CASE TDown(t)
  BY <1>0, <1>3, ThreadMoves DEF TDown, Down, KernelStates, HoldPcs, Alive, THolds
<1>4. CASE TIterate(t)
  BY <1>0, <1>4, ThreadMoves DEF TIterate, Up, KernelStates, HoldPcs, Alive, THolds
<1>5. CASE TAddEvent(t)
  <2>1. \A u \in Threads : kt'[u].pc = IF u = t THEN "add" ELSE kt[u].pc
    BY <1>5 DEF TAddEvent, TypesByName, KThread
  <2>2. QED
    BY <1>5, <2>1, ThreadMoves, ZenonT(60) DEF TAddEvent, KernelStates, HoldPcs, Alive, THolds
<1>6. CASE TAdded(t)
  <2>1. \A u \in Threads : kt'[u].pc = IF u = t THEN "wait" ELSE kt[u].pc
    BY <1>6 DEF TAdded, TypesByName, KThread
  <2>2. QED
    BY <1>6, <2>1, ThreadMoves, ZenonT(60) DEF TAdded, Up, KernelStates, HoldPcs, Alive, THolds
<1>7. CASE TQuit(t)
  BY <1>0, <1>7, ThreadMoves DEF TQuit, Down, KernelStates, HoldPcs, Alive, THolds
<1>8. CASE TNull(t)
  BY <1>0, <1>8, ThreadMoves DEF TNull, KernelStates, HoldPcs, Alive, THolds
<1>9. CASE TEnd(t)
  <2>1. \A u \in Threads : kt'[u].pc = IF u = t THEN "done" ELSE kt[u].pc
    BY <1>9 DEF TEnd, TypesByName, KThread
  <2>2. QED
    BY <1>9, <2>1, ThreadMoves, ZenonT(60) DEF TEnd, Up, KernelStates, HoldPcs, Alive, THolds
<1>10. QED
  BY <1>1, <1>2, <1>3, <1>4, <1>5, <1>6, <1>7, <1>8, <1>9 DEF Thread

\* The ioctls.
LEMMA IoctlSafe ==
  ASSUME TypesByName, Safe, ~reinit', NEW c \in Callers, Ioctl(c) PROVE Safe'
<1>0. /\ \A q : CPc(c, q) => \A d \in Callers : call'[d].pc = IF d = c THEN q ELSE call[d].pc
      /\ Leave(c) => \A d \in Callers : call'[d].pc = IF d = c THEN "idle" ELSE call[d].pc
      /\ \A r : call' = [call EXCEPT ![c] = r] =>
              \A d \in Callers : call'[d].pc = IF d = c THEN r.pc ELSE call[d].pc
  BY DEF CPc, Leave, TypesByName, Caller
<1>1. ASSUME NEW op \in {"read", "set", "get"}, Call(c, op) PROVE Safe'
  <2>1. \A d \in Callers : CHolds(d)' <=> CHolds(d)
    BY <1>0, <1>1 DEF Call, CHolds
  <2>2. QED
    BY <1>1, <2>1, SameSafe DEF Call
<1>2. CASE CallDown(c)
  BY <1>0, <1>2, CallerMoves DEF CallDown, Down, CHolds
<1>3. CASE CallReturns(c)
  BY <1>0, <1>3, CallerMoves DEF CallReturns, Up, CHolds
<1>4. CASE CallSets(c)
  BY <1>0, <1>4, CallerMoves DEF CallSets, Up, CHolds
<1>5. CASE CallGets(c)
  <2>1. \A d \in Callers : CHolds(d)' <=> CHolds(d) /\ d # c
    BY <1>0, <1>5 DEF CallGets, CHolds
  <2>2. CHolds(c) /\ sem' = sem + 1 /\ kt' = kt /\ thread' = thread /\ proc' = proc
    BY <1>5 DEF CallGets, Up, CHolds
  <2>3. QED
    BY <2>1, <2>2, CallerMoves
<1>6. CASE CallTakes(c)
  BY <1>0, <1>6, CallerMoves DEF CallTakes, Up, CHolds
<1>7. CASE CallWakes(c)
  <2>1. \A d \in Callers : CHolds(d)' <=> CHolds(d)
    BY <1>0, <1>7 DEF CallWakes, CHolds
  <2>2. QED
    BY <1>7, <2>1, SameSafe DEF CallWakes
<1>8. CASE CallInterrupted(c)
  <2>1. \A d \in Callers : CHolds(d)' <=> CHolds(d)
    BY <1>0, <1>8 DEF CallInterrupted, CHolds
  <2>2. sem' = sem /\ kt' = kt /\ thread' = thread /\ proc' = proc
    BY <1>8 DEF CallInterrupted
  <2>3. QED
    BY <2>1, <2>2, SameSafe
<1>9. QED
  BY <1>1, <1>2, <1>3, <1>4, <1>5, <1>6, <1>7, <1>8 DEF Ioctl, CallBody

(* dvb_frontend_stop, of an open or of the driver. *)
LEMMA StopSafe ==
  ASSUME TypesByName, Safe, reinit' = FALSE, NEW p \in {"open", "unreg"}, NEW then \in {"down", "users"},
         p = "open" <=> then = "down", Stop(p, then)
  PROVE  Safe'
<1>0. /\ \A q : PPc(p, q) => proc'[p].pc = q /\ proc'[p].k = proc[p].k
      /\ \A q : PPc(p, q) /\ p # "open" => proc'["open"] = proc["open"]
      /\ \A r : proc' = [proc EXCEPT ![p] = r] =>
            proc'[p] = r /\ (p # "open" => proc'["open"] = proc["open"])
  BY DEF PPc, TypesByName, Procs, Proc
<1>1. CASE StopExit(p)
  <2>1. sem' = sem /\ thread' = thread /\ kt' = kt /\ call' = call
    BY <1>1 DEF StopExit
  <2>2. proc[p].pc = "stop" /\ proc'[p].pc = "stopping"
        /\ (p # "open" => proc'["open"] = proc["open"])
    BY <1>0, <1>1 DEF StopExit
  <2>3. CASE p = "open"
    BY <2>1, <2>2, <2>3, OpenMoves
  <2>4. CASE p # "open"
    BY <2>1, <2>2, <2>4, SameSafe DEF CHolds
  <2>5. QED
    BY <2>3, <2>4
<1>2. CASE StopThread(p, then)
  <2>1. /\ sem' = sem /\ thread' = thread /\ call' = call /\ kt' = kt
        /\ proc[p].pc = "stopping"
    BY <1>2 DEF StopThread
  <2>2. /\ thread = 0 => proc'[p].pc = then
        /\ thread # 0 => proc'[p].pc = "killing" /\ proc'[p].k = thread
        /\ p # "open" => proc'["open"] = proc["open"]
    BY <1>0, <1>2 DEF StopThread
  <2>3. CASE p = "open"
    <3>1. \A t \in Threads : Alive(t) /\ kt[t].pc # "null" => thread = t /\ thread # 0
      BY <2>1, <2>3 DEF Safe, ThreadKnown, Threads
    <3>2. QED
      BY <2>1, <2>2, <2>3, <3>1, OpenMoves
  <2>4. CASE p # "open"
    BY <2>1, <2>2, <2>4, SameSafe DEF CHolds
  <2>5. QED
    BY <2>3, <2>4
<1>3. CASE StopKill(p)
  <2>1. sem' = sem /\ thread' = thread /\ call' = call /\ proc[p].pc = "killing"
    BY <1>3 DEF StopKill
  <2>2. PICK x \in {proc[p].k, thread} :
          \/ /\ x # 0
             /\ kt' = IF kt[x].pc = "done" THEN kt ELSE [kt EXCEPT ![x].stop = TRUE]
             /\ proc' = [proc EXCEPT ![p] = [pc |-> "joining", k |-> x]]
          \/ PPc(p, "oops") /\ UNCHANGED kt
    BY <1>3 DEF StopKill
  <2>3. \A t \in Threads : kt'[t].pc = kt[t].pc
    BY <2>2 DEF TypesByName, KThread
  <2>4. /\ (proc'[p].pc = "joining" /\ proc'[p].k = x) \/ proc'[p].pc = "oops"
        /\ p # "open" => proc'["open"] = proc["open"]
    BY <1>0, <2>2
  <2>5. CASE p = "open"
    <3>1. \A t \in Threads : Alive(t) /\ kt[t].pc # "null" => t = x
      BY <2>1, <2>2, <2>5 DEF Safe, ThreadKnown, OpenKnows
    <3>2. QED
      BY <2>1, <2>3, <2>4, <2>5, <3>1, OpenMoves
  <2>6. CASE p # "open"
    BY <2>1, <2>3, <2>4, <2>6, SameSafe DEF CHolds
  <2>7. QED
    BY <2>5, <2>6
<1>4. CASE StopJoined(p, then)
  <2>1. /\ thread' = thread /\ kt' = kt /\ call' = call /\ sem' = 1
        /\ proc[p].pc = "joining" /\ kt[proc[p].k].pc = "done"
    BY <1>4 DEF StopJoined
  <2>2. sem = 1
    BY <1>4 DEF StopJoined
  <2>3. proc'[p].pc = then /\ (p # "open" => proc'["open"] = proc["open"])
    BY <1>0, <1>4, ZenonT(60) DEF StopJoined
  <2>4. CASE p = "open"
    <3>1. \A t \in Threads : Alive(t) => kt[t].pc = "null"
      BY <2>1, <2>4 DEF Safe, OpenKnows, Alive
    <3>2. QED
      BY <2>1, <2>2, <2>3, <2>4, <3>1, OpenMoves
  <2>5. CASE p # "open"
    BY <2>1, <2>2, <2>3, <2>5, SameSafe DEF CHolds
  <2>6. QED
    BY <2>4, <2>5
<1>5. QED
  BY <1>1, <1>2, <1>4, <1>3 DEF Stop

\* Opens and releases.
LEMMA UserSafe ==
  ASSUME TypesByName, Safe, reinit' = FALSE, User PROVE Safe'
<1>0. /\ \A q : PPc("open", q) => proc'["open"].pc = q
      /\ \A p \in Procs : \A q : PPc(p, q) /\ p # "open" => proc'["open"] = proc["open"]
  BY DEF PPc, TypesByName, Procs, Proc
<1>1. CASE Open
  BY <1>0, <1>1, OpenMoves DEF Open
<1>2. CASE OpenStart
  <2>1. \A t \in Threads : Alive(t) /\ kt[t].pc # "null" => thread # 0
    BY <1>2 DEF OpenStart, Safe, ThreadKnown, Threads
  <2>2. /\ proc'["open"].pc \in {"down", "check"}
        /\ proc'["open"].pc = "down" => thread = 0
    BY <1>2 DEF OpenStart, TypesByName, Procs, Proc
  <2>3. QED
    BY <1>2, <2>1, <2>2, OpenMoves DEF OpenStart
<1>3. CASE OpenCheck
  <2>1. proc'["open"].pc \in {"events", "stop"}
    BY <1>3 DEF OpenCheck, TypesByName, Procs, Proc
  <2>2. QED
    BY <1>3, <2>1, OpenMoves DEF OpenCheck
<1>4. CASE Stop("open", "down")
  BY <1>4, StopSafe
<1>5. CASE OpenDown
  BY <1>5, OpenDownSafe
<1>6. ASSUME NEW t \in Threads, OpenRun(t) PROVE Safe'
  BY <1>6, OpenRunSafe
<1>7. CASE OpenCreated
  BY <1>7, OpenCreatedSafe
<1>8. CASE OpenEvents
  BY <1>0, <1>8, OpenMoves DEF OpenEvents
<1>9. CASE OpenFails
  BY <1>9, OpenFailsSafe
<1>10. CASE ReleaseWriter
  BY <1>0, <1>10, SameSafe DEF ReleaseWriter, CHolds, Procs
<1>11. CASE ReleasedWriter
  <2>1. proc'["open"] = proc["open"]
    BY <1>11 DEF ReleasedWriter, WakeUnregister, TypesByName, Procs
  <2>2. QED
    BY <1>11, <2>1, SameSafe DEF ReleasedWriter, CHolds
<1>12. CASE OpenReader
  BY <1>12, SameSafe DEF OpenReader, CHolds
<1>13. CASE ReleaseReader
  <2>1. proc'["open"] = proc["open"]
    BY <1>13 DEF ReleaseReader, WakeUnregister, TypesByName, Procs
  <2>2. QED
    BY <1>13, <2>1, SameSafe DEF ReleaseReader, CHolds
<1>14. QED
  BY <1>1, <1>2, <1>4, <1>5, <1>6, <1>7, <1>8, <1>9, <1>10, <1>11, <1>12, <1>13, <1>3 DEF User

\* dvb_unregister_frontend.
LEMMA DriverSafe ==
  ASSUME TypesByName, Safe, reinit' = FALSE, Driver PROVE Safe'
<1>0. \A q : PPc("unreg", q) => proc'["open"] = proc["open"]
  BY DEF PPc, TypesByName, Procs, Proc
<1>1. CASE Unregister
  BY <1>0, <1>1, SameSafe DEF Unregister, CHolds
<1>2. CASE Stop("unreg", "users")
  BY <1>2, StopSafe
<1>3. CASE UnregisterUsers
  BY <1>0, <1>3, SameSafe DEF UnregisterUsers, CHolds
<1>4. CASE UnregisterFree
  BY <1>0, <1>4, SameSafe DEF UnregisterFree, CHolds
<1>5. QED
  BY <1>1, <1>2, <1>3, <1>4 DEF Driver

\* Every step keeps the invariant.
LEMMA IInvStep == IInv /\ [Next]_vars => IInv'
<1> SUFFICES ASSUME IInv, [Next]_vars PROVE IInv'
  OBVIOUS
<1>1. TypesByName'
  BY TypesStep DEF IInv
<1>2. ASSUME ~reinit' PROVE Safe'
  <2>1. reinit' = FALSE /\ ~reinit
    BY <1>1, <1>2, ReinitStays DEF IInv, TypesByName
  <2>2. TypesByName /\ Safe
    BY <2>1 DEF IInv
  <2>3. CASE UNCHANGED vars
    BY <2>2, <2>3, SameSafe DEF vars, CHolds
  <2>4. CASE Next
    BY <2>1, <2>2, <2>4, ThreadSafe, IoctlSafe, UserSafe, DriverSafe DEF Next
  <2>5. QED
    BY <2>3, <2>4
<1>3. QED
  BY <1>1, <1>2 DEF IInv

(* Whoever holds the semaphore is alone, and it counts him. *)
LEMMA ExclusiveCounts == Exclusive => sem + Cardinality(Holders) = 1
<1> SUFFICES ASSUME Exclusive PROVE sem + Cardinality(Holders) = 1
  OBVIOUS
<1>1. Holders = {c \in Callers : CHolds(c)} \cup {t \in Threads : THolds(t)}
                  \cup {p \in {"open"} : OHolds}
  BY DEF Holders, CHolds, THolds, OHolds, HoldPcs
<1>2. CASE sem = 1
  <2>1. Holders = {}
    BY <1>1, <1>2 DEF Exclusive
  <2>2. QED
    BY <1>2, <2>1, FS_EmptySet
<1>3. CASE sem = 0
  <2>1. \E h : Holders = {h}
    <3>1. CASE OHolds
      <4>1. Holders = {"open"}
        BY <1>1, <3>1 DEF Exclusive
      <4>2. QED
        BY <4>1
    <3>2. ASSUME NEW t \in Threads, THolds(t) PROVE \E h : Holders = {h}
      <4>1. Holders = {t}
        BY <1>1, <3>2 DEF Exclusive
      <4>2. QED
        BY <4>1
    <3>3. ASSUME NEW c \in Callers, CHolds(c) PROVE \E h : Holders = {h}
      <4>1. Holders = {c}
        BY <1>1, <3>3 DEF Exclusive
      <4>2. QED
        BY <4>1
    <3>4. QED
      BY <1>3, <3>1, <3>2, <3>3 DEF Exclusive
  <2>2. Cardinality(Holders) = 1
    BY <2>1, FS_Singleton
  <2>3. QED
    BY <1>3, <2>2
<1>4. QED
  BY <1>2, <1>3 DEF Exclusive

(* The inductive invariant holds in every reachable state. *)
THEOREM Invariant == Spec => []IInv
<1>1. Init => IInv
  BY InitTypes, InitSafe DEF IInv
<1>2. IInv /\ [Next]_vars => IInv'
  BY IInvStep
<1>3. QED
  BY <1>1, <1>2, PTL DEF Spec

(* fepriv->sem excludes: however opens, closes, ioctls, the driver's       *)
(* removal and threads that quit by themselves interleave, nobody is in a  *)
(* critical section together with somebody else, as long as no sema_init   *)
(* hits the semaphore while it is in use and no up comes without a down.   *)
THEOREM SemExcludes == Spec => []SemIsMutex
<1>1. IInv => SemIsMutex
  BY ExclusiveCounts DEF IInv, Safe, SemIsMutex
<1>2. QED
  BY <1>1, Invariant, PTL

(* Under the same condition an open never starts a thread beside one that  *)
(* is still alive: neither one that gave up by itself and still has to     *)
(* clear fepriv->exit, nor one that dvb_frontend_stop has met too late.    *)
THEOREM NeverTwoThreads == Spec => []OneThread
<1>1. IInv => OneThread
  BY DEF IInv, Safe, OneThread, AtMostOne, Alive
<1>2. QED
  BY <1>1, Invariant, PTL

-----------------------------------------------------------------------------
(* The events. *)

\* How many entries i lies behind r in the queue.
Dist(r, i) == IF r <= i THEN i - r ELSE i - r + MAX_EVENT

\* What Inc does to distances.
LEMMA IncIs ==
  ASSUME NEW i \in Slots
  PROVE  Inc(i) = IF i = MAX_EVENT - 1 THEN 0 ELSE i + 1
<1>1. MAX_EVENT \in Nat /\ MAX_EVENT > 1 /\ i \in Nat /\ i <= MAX_EVENT - 1
  BY FrontendAssumption DEF Slots
<1>2. i % MAX_EVENT = i
  BY <1>1, ModSmall
<1>3. QED
  BY <1>1, <1>2, ModSucc DEF Inc

LEMMA Distances ==
  ASSUME NEW r \in Slots, NEW i \in Slots
  PROVE  /\ Dist(r, i) \in 0..(MAX_EVENT - 1)
         /\ Dist(r, i) = 0 <=> i = r
         /\ i # r => Dist(Inc(r), i) = Dist(r, i) - 1
         /\ Dist(Inc(r), r) = MAX_EVENT - 1
         /\ Inc(i) = r <=> Dist(r, i) = MAX_EVENT - 1
         /\ Inc(i) # r => Dist(r, Inc(i)) = Dist(r, i) + 1
         /\ \A j \in Slots : Dist(r, j) = Dist(r, i) => j = i
  BY FrontendAssumption, IncIs DEF Slots, Dist

\* Added, of any queue s.
Newest(s) == IF \E i \in Slots : s[i] > 0
             THEN CHOOSE n \in {s[i] : i \in Slots} : \A i \in Slots : s[i] <= n
             ELSE 0

\* It is the number of the entry that no other exceeds.
LEMMA NewestIs ==
  ASSUME NEW s \in [Slots -> 0..MaxEvents], NEW k \in Slots,
         \A i \in Slots : s[i] <= s[k]
  PROVE  Newest(s) = s[k]
<1> DEFINE T == {s[i] : i \in Slots}
           OK(n) == \A i \in Slots : s[i] <= n
<1>1. MaxEvents \in Nat /\ s[k] \in T /\ OK(s[k])
  BY FrontendAssumption
<1>2. CASE \E i \in Slots : s[i] > 0
  <2>1. Newest(s) \in T /\ OK(Newest(s))
    BY <1>1, <1>2 DEF Newest
  <2>2. PICK j \in Slots : Newest(s) = s[j]
    BY <2>1
  <2>3. s[j] <= s[k] /\ s[k] <= s[j]
    BY <2>1, <2>2
  <2>4. s[j] \in 0..MaxEvents /\ s[k] \in 0..MaxEvents
    OBVIOUS
  <2>5. QED
    BY <1>1, <2>2, <2>3, <2>4
<1>3. CASE ~ \E i \in Slots : s[i] > 0
  <2>1. Newest(s) = 0
    BY <1>3 DEF Newest
  <2>2. s[k] \in 0..MaxEvents /\ ~(s[k] > 0)
    BY <1>3
  <2>3. QED
    BY <1>1, <2>1, <2>2
<1>4. QED
  BY <1>2, <1>3

\* An event that is put in gets the next number.
LEMMA AddedNext ==
  ASSUME TypesByName, TypesByName', slot' = [slot EXCEPT ![eventw] = Added + 1]
  PROVE  Added' = Added + 1
<1>1. Added \in Nat /\ \A i \in Slots : slot[i] <= Added
  BY AddedType, FrontendAssumption DEF TypesByName
<1>2. slot \in [Slots -> 0..MaxEvents] /\ slot' \in [Slots -> 0..MaxEvents] /\ eventw \in Slots
  BY DEF TypesByName
<1>3. slot'[eventw] = Added + 1
  BY <1>2
<1>4. \A i \in Slots : slot'[i] <= slot'[eventw]
  <2> TAKE i \in Slots
  <2>1. slot[i] <= Added /\ slot[i] \in Nat
    BY <1>1, <1>2
  <2>2. CASE i = eventw
    BY <1>1, <1>3, <2>2
  <2>3. CASE i # eventw
    BY <1>1, <1>2, <1>3, <2>1, <2>3
  <2>4. QED
    BY <2>2, <2>3
<1>5. Newest(slot') = slot'[eventw]
  BY <1>2, <1>4, NewestIs
<1>6. Added' = Newest(slot')
  BY DEF Added, Newest
<1>7. QED
  BY <1>3, <1>5, <1>6

\* A thread is between the two steps of dvb_frontend_add_event; the newest
\* event a reader can see; how many there are, and the number of the oldest.
Adding    == \E t \in Threads : kt[t].pc = "add"
Published == IF Adding THEN Added - 1 ELSE Added
Avail     == Dist(eventr, eventw)
Oldest    == Published - Avail + 1

\* Numbers are handed out in order.
Numbered == last < next /\ next <= Added + 1

\* The next event to be fetched is the expected one, or there was an overflow.
NextIs == next <= Oldest /\ (next = Oldest \/ reported \/ overflow)

\* The queue holds the events from the oldest on, without a gap.
Queued == \A i \in Slots : Dist(eventr, i) < Avail => slot[i] = Oldest + Dist(eventr, i)

\* The event being added is in the entry behind the queue, and there is room.
AddingIs ==
  \A t \in Threads : kt[t].pc = "add" =>
    kt[t].wp = Inc(eventw) /\ slot[eventw] = Added /\ Avail <= MAX_EVENT - 2

\* The inductive invariant of the events: while the semaphore excludes, and since
\* the last open or SET_FRONTEND found the queue in order, it holds a run of
\* consecutive numbers, and the first of them is next unless an overflow is
\* known.
InOrder == NextIs /\ Queued /\ AddingIs
Events  == Numbered /\ (~reinit /\ ~torn => InOrder)

\* The types the arithmetic needs.
LEMMA EventTypes ==
  ASSUME TypesByName
  PROVE  /\ eventr \in Slots /\ eventw \in Slots /\ MAX_EVENT \in Nat /\ MAX_EVENT > 1
         /\ Added \in Nat /\ Published \in Int /\ Avail \in 0..(MAX_EVENT - 1)
         /\ next \in Nat /\ last \in Nat
         /\ \A i \in Slots : slot[i] \in Nat /\ slot[i] <= Added
<1>1. /\ eventr \in Slots /\ eventw \in Slots /\ next \in Nat /\ last \in Nat
      /\ slot \in [Slots -> 0..MaxEvents]
      /\ MAX_EVENT \in Nat /\ MAX_EVENT > 1 /\ MaxEvents \in Nat
  BY FrontendAssumption DEF TypesByName
<1>2. Added \in Nat /\ \A i \in Slots : slot[i] <= Added
  BY <1>1, AddedType
<1>3. Published \in Int
  BY <1>2 DEF Published
<1>4. Avail \in 0..(MAX_EVENT - 1)
  BY <1>1, Distances DEF Avail
<1>5. QED
  BY <1>1, <1>2, <1>3, <1>4

\* Steps that leave the queue, its history and the adding thread alone.
LEMMA SameEvents ==
  ASSUME TypesByName, Events, UNCHANGED <<ev, last, next, reported, torn>>,
         ~reinit' => ~reinit,
         \A t \in Threads : /\ kt'[t].pc = "add" <=> kt[t].pc = "add"
                            /\ kt[t].pc = "add" => kt'[t].wp = kt[t].wp
  PROVE  Events'
<1>1. /\ Adding' = Adding /\ Added' = Added /\ Avail' = Avail
      /\ eventr' = eventr /\ eventw' = eventw /\ slot' = slot
  BY DEF Adding, Added, Avail, ev
<1>2. Published' = Published /\ Oldest' = Oldest
  BY <1>1 DEF Published, Oldest
<1>3. Numbered'
  BY <1>1 DEF Events, Numbered
<1>4. ASSUME ~reinit', ~torn' PROVE InOrder'
  <2>1. InOrder
    BY <1>4 DEF Events
  <2>2. NextIs'
    BY <1>2, <2>1 DEF InOrder, NextIs, ev
  <2>3. Queued'
    BY <1>1, <1>2, <2>1 DEF InOrder, Queued
  <2>4. AddingIs'
    BY <1>1, <2>1 DEF InOrder, AddingIs
  <2>5. QED
    BY <2>2, <2>3, <2>4 DEF InOrder
<1>5. QED
  BY <1>3, <1>4 DEF Events

\* Who holds the semaphore is the only one to add, and nobody adds under a call.
LEMMA OnlyAdder ==
  ASSUME Safe
  PROVE  /\ \A t, u \in Threads : THolds(t) /\ kt[u].pc = "add" => u = t
         /\ \A c \in Callers : call[c].pc = "in" => ~Adding
  BY DEF Safe, Exclusive, THolds, CHolds, HoldPcs, Adding

\* dvb_frontend_add_event, up to the store of eventw.
LEMMA AddEventKeeps ==
  ASSUME TypesByName, TypesByName', ~reinit => Safe, Events,
         NEW t \in Threads, TAddEvent(t)
  PROVE  Events'
<1>1. /\ slot' = [slot EXCEPT ![eventw] = Added + 1] /\ eventw' = eventw
      /\ overflow' = (overflow \/ Inc(eventw) = eventr)
      /\ eventr' = IF Inc(eventw) = eventr THEN Inc(eventr) ELSE eventr
      /\ kt' = [kt EXCEPT ![t].pc = "add", ![t].wp = Inc(eventw)]
      /\ UNCHANGED <<last, next, reported, reinit, torn>>
      /\ kt[t].pc = "iter"
  BY DEF TAddEvent, Put, hist
<1>2. Added' = Added + 1
  BY <1>1, AddedNext
<1>3. Numbered'
  BY <1>1, <1>2, EventTypes DEF Events, Numbered
<1>4. ASSUME ~reinit', ~torn' PROVE InOrder'
  <2>1. InOrder /\ Safe
    BY <1>1, <1>4 DEF Events
  <2>2. kt \in [Threads -> KThread] /\ slot \in [Slots -> 0..MaxEvents]
    BY DEF TypesByName
  <2>3. THolds(t) /\ \A u \in Threads : kt[u].pc = "add" => u = t
    BY <1>1, <2>1, OnlyAdder DEF THolds, HoldPcs
  <2>4. ~Adding
    BY <1>1, <2>3 DEF Adding
  <2>5. /\ kt'[t].pc = "add" /\ kt'[t].wp = Inc(eventw)
        /\ \A u \in Threads : kt'[u].pc = "add" => u = t
    BY <1>1, <2>2, <2>3 DEF KThread
  <2>6. Adding'
    BY <2>5 DEF Adding
  <2>7. Published' = Published /\ Published = Added
    BY <1>2, <2>4, <2>6, EventTypes DEF Published
  <2>8. /\ slot'[eventw] = Added + 1
        /\ \A i \in Slots : i # eventw => slot'[i] = slot[i]
    BY <1>1, <2>2, EventTypes
  <2>9. Dist(eventr, eventw) = Avail /\ Avail' = Dist(eventr', eventw)
    BY <1>1 DEF Avail
  <2>10. CASE Inc(eventw) = eventr
    <3>1. eventr' = Inc(eventr) /\ overflow'
      BY <1>1, <2>10
    <3>2. Avail = MAX_EVENT - 1 /\ eventw # eventr
      BY <2>9, <2>10, EventTypes, Distances
    <3>3. Avail' = Avail - 1
      BY <2>9, <3>1, <3>2, EventTypes, Distances
    <3>4. Oldest' = Oldest + 1
      BY <2>7, <3>3, EventTypes DEF Oldest
    <3>5. NextIs'
      BY <1>1, <2>1, <2>7, <3>1, <3>4, EventTypes DEF InOrder, NextIs, Oldest
    <3>6. ASSUME NEW i \in Slots, Dist(eventr', i) < Avail'
          PROVE  slot'[i] = Oldest' + Dist(eventr', i)
      <4>1. i # eventr
        BY <3>1, <3>2, <3>3, <3>6, EventTypes, Distances
      <4>2. Dist(eventr', i) = Dist(eventr, i) - 1
        BY <3>1, <4>1, EventTypes, Distances
      <4>3. Dist(eventr, i) < Avail /\ Dist(eventr, i) \in Int
        BY <3>3, <3>6, <4>2, EventTypes, Distances
      <4>4. i # eventw
        BY <2>9, <4>3, EventTypes
      <4>5. slot'[i] = Oldest + Dist(eventr, i)
        BY <2>1, <2>8, <4>3, <4>4 DEF InOrder, Queued
      <4>6. QED
        BY <2>7, <3>4, <4>2, <4>3, <4>5, EventTypes DEF Oldest
    <3>7. Queued'
      BY <3>6 DEF Queued
    <3>8. AddingIs'
      <4>1. Avail' <= MAX_EVENT - 2
        BY <3>2, <3>3, EventTypes
      <4>2. QED
        BY <1>1, <1>2, <2>5, <2>8, <4>1 DEF AddingIs
    <3>9. QED
      BY <3>5, <3>7, <3>8 DEF InOrder
  <2>11. CASE Inc(eventw) # eventr
    <3>1. eventr' = eventr /\ overflow' = overflow
      BY <1>1, <2>11 DEF TypesByName
    <3>2. Avail' = Avail /\ Avail <= MAX_EVENT - 2
      BY <2>9, <2>11, <3>1, EventTypes, Distances
    <3>3. Oldest' = Oldest
      BY <2>7, <3>2 DEF Oldest
    <3>4. NextIs'
      BY <1>1, <2>1, <3>1, <3>3 DEF InOrder, NextIs
    <3>5. ASSUME NEW i \in Slots, Dist(eventr', i) < Avail'
          PROVE  slot'[i] = Oldest' + Dist(eventr', i)
      <4>1. i # eventw
        BY <2>9, <3>1, <3>2, <3>5, EventTypes
      <4>2. QED
        BY <2>1, <2>8, <3>1, <3>2, <3>3, <3>5, <4>1 DEF InOrder, Queued
    <3>6. Queued'
      BY <3>5 DEF Queued
    <3>7. AddingIs'
      BY <1>1, <1>2, <2>5, <2>8, <3>2 DEF AddingIs
    <3>8. QED
      BY <3>4, <3>6, <3>7 DEF InOrder
  <2>12. QED
    BY <2>10, <2>11
<1>5. QED
  BY <1>3, <1>4 DEF Events

\* The store of eventw.
LEMMA AddedKeeps ==
  ASSUME TypesByName, TypesByName', ~reinit => Safe, Events,
         NEW t \in Threads, TAdded(t)
  PROVE  Events'
<1>1. /\ eventw' = kt[t].wp /\ kt[t].pc = "add"
      /\ kt' = [kt EXCEPT ![t].pc = "wait", ![t].wp = 0]
      /\ UNCHANGED <<eventr, overflow, slot, last, next, reported, reinit, torn>>
  BY DEF TAdded, hist
<1>2. Added' = Added
  BY <1>1 DEF Added
<1>3. Numbered'
  BY <1>1, <1>2 DEF Events, Numbered
<1>4. ASSUME ~reinit', ~torn' PROVE InOrder'
  <2>1. InOrder /\ Safe
    BY <1>1, <1>4 DEF Events
  <2>2. kt \in [Threads -> KThread]
    BY DEF TypesByName
  <2>3. THolds(t) /\ \A u \in Threads : kt[u].pc = "add" => u = t
    BY <1>1, <2>1, OnlyAdder DEF THolds, HoldPcs
  <2>4. \A u \in Threads : kt'[u].pc # "add"
    BY <1>1, <2>2, <2>3 DEF KThread
  <2>5. Adding /\ ~Adding'
    BY <1>1, <2>4 DEF Adding
  <2>6. Published = Added - 1 /\ Published' = Added
    BY <1>2, <2>5 DEF Published
  <2>7. eventw' = Inc(eventw) /\ slot[eventw] = Added /\ Avail <= MAX_EVENT - 2
    BY <1>1, <2>1 DEF InOrder, AddingIs
  <2>8. Dist(eventr, eventw) = Avail /\ Avail' = Dist(eventr, Inc(eventw))
    BY <1>1, <2>7 DEF Avail
  <2>9. Avail' = Avail + 1
    BY <2>7, <2>8, EventTypes, Distances
  <2>10. Oldest' = Oldest /\ Oldest + Avail = Added
    BY <2>6, <2>9, EventTypes DEF Oldest
  <2>11. NextIs'
    BY <1>1, <2>1, <2>10 DEF InOrder, NextIs
  <2>12. ASSUME NEW i \in Slots, Dist(eventr', i) < Avail'
         PROVE  slot'[i] = Oldest' + Dist(eventr', i)
    <3>1. Dist(eventr', i) = Dist(eventr, i) /\ Dist(eventr, i) \in Int
      BY <1>1, EventTypes, Distances
    <3>2. CASE Dist(eventr, i) < Avail
      BY <1>1, <2>1, <2>10, <3>1, <3>2 DEF InOrder, Queued
    <3>3. CASE Dist(eventr, i) = Avail
      <4>1. i = eventw
        BY <2>8, <3>3, EventTypes, Distances
      <4>2. QED
        BY <1>1, <2>7, <2>10, <3>1, <3>3, <4>1
    <3>4. QED
      BY <2>9, <2>12, <3>1, <3>2, <3>3, EventTypes
  <2>13. Queued'
    BY <2>12 DEF Queued
  <2>14. AddingIs'
    BY <2>4 DEF AddingIs
  <2>15. QED
    BY <2>11, <2>13, <2>14 DEF InOrder
<1>5. QED
  BY <1>3, <1>4 DEF Events

\* dvb_frontend_open empties the queue: whatever was in it, it is in order then,
\* unless an event was being added.
LEMMA OpenEventsKeeps ==
  ASSUME TypesByName, TypesByName', Events, OpenEvents
  PROVE  Events'
<1>1. /\ eventr' = 0 /\ eventw' = 0 /\ next' = Added + 1
      /\ torn' = (\E t \in Threads : kt[t].pc = "add")
      /\ UNCHANGED <<kt, overflow, slot, last, reinit>>
  BY DEF OpenEvents
<1>2. Added' = Added
  BY <1>1 DEF Added
<1>3. Numbered'
  BY <1>1, <1>2, EventTypes DEF Events, Numbered
<1>4. ASSUME ~reinit', ~torn' PROVE InOrder'
  <2>1. ~Adding' /\ \A t \in Threads : kt'[t].pc # "add"
    BY <1>1, <1>4 DEF Adding
  <2>2. 0 \in Slots
    BY ZeroSlot
  <2>3. Avail' = 0
    BY <1>1, <2>2, Distances DEF Avail
  <2>4. Oldest' = Added + 1
    BY <1>2, <2>1, <2>3, EventTypes DEF Oldest, Published
  <2>5. NextIs'
    BY <1>1, <2>4, EventTypes DEF NextIs
  <2>6. Queued'
    <3>1. ASSUME NEW i \in Slots PROVE ~(Dist(eventr', i) < Avail')
      BY <1>1, <2>2, <2>3, EventTypes, Distances
    <3>2. QED
      BY <3>1 DEF Queued
  <2>7. AddingIs'
    BY <2>1 DEF AddingIs
  <2>8. QED
    BY <2>5, <2>6, <2>7 DEF InOrder
<1>5. QED
  BY <1>3, <1>4 DEF Events

\* SET_FRONTEND clears the events and adds one.
LEMMA SetsKeeps ==
  ASSUME TypesByName, TypesByName', ~reinit => Safe, Events,
         NEW c \in Callers, CallSets(c)
  PROVE  Events'
<1>1. /\ slot' = [slot EXCEPT ![eventw] = Added + 1]
      /\ eventr' = eventw /\ eventw' = Inc(eventw) /\ next' = Added + 1
      /\ call[c].pc = "in"
      /\ UNCHANGED <<kt, overflow, last, reinit, torn>>
  BY DEF CallSets
<1>2. Added' = Added + 1
  BY <1>1, AddedNext
<1>3. Numbered'
  BY <1>1, <1>2, EventTypes DEF Events, Numbered
<1>4. ASSUME ~reinit', ~torn' PROVE InOrder'
  <2>1. ~Adding
    BY <1>1, <1>4, OnlyAdder
  <2>2. ~Adding' /\ \A t \in Threads : kt'[t].pc # "add"
    BY <1>1, <2>1 DEF Adding
  <2>3. Inc(eventw) # eventw /\ Dist(eventw, eventw) = 0
    BY EventTypes, Distances
  <2>4. Avail' = 1
    BY <1>1, <2>3, EventTypes, Distances DEF Avail
  <2>5. Oldest' = Added + 1
    BY <1>2, <2>2, <2>4, EventTypes DEF Oldest, Published
  <2>6. NextIs'
    BY <1>1, <2>5, EventTypes DEF NextIs
  <2>7. ASSUME NEW i \in Slots, Dist(eventr', i) < Avail'
        PROVE  slot'[i] = Oldest' + Dist(eventr', i)
    <3>1. Dist(eventr', i) = 0 /\ i = eventw
      BY <1>1, <2>4, <2>7, EventTypes, Distances
    <3>2. slot'[eventw] = Added + 1
      BY <1>1, EventTypes DEF TypesByName
    <3>3. QED
      BY <2>5, <3>1, <3>2, EventTypes
  <2>8. Queued'
    BY <2>7 DEF Queued
  <2>9. AddingIs'
    BY <2>2 DEF AddingIs
  <2>10. QED
    BY <2>6, <2>8, <2>9 DEF InOrder
<1>5. QED
  BY <1>3, <1>4 DEF Events

\* What a call that fetches an event returns, and that the queue stays in order:
\* of a queue that is not empty it is the oldest event.
LEMMA TakeKeeps ==
  ASSUME TypesByName, TypesByName', ~reinit => Safe, Events,
         NEW c \in Callers, call[c].pc = "in", Take, UNCHANGED <<kt, reinit>>,
         ~torn' => ~torn /\ eventw # eventr
  PROVE  /\ Events'
         /\ ~reinit /\ ~torn' => last' = Oldest /\ NextIs
<1>1. /\ last' = slot[eventr] /\ next' = slot[eventr] + 1
      /\ eventr' = Inc(eventr) /\ UNCHANGED <<eventw, overflow, slot>>
  BY DEF Take
<1>2. Added' = Added
  BY <1>1 DEF Added
<1>3. Numbered'
  BY <1>1, <1>2, EventTypes DEF Numbered
<1>4. ASSUME ~reinit, ~torn' PROVE InOrder' /\ last' = Oldest /\ NextIs
  <2>1. InOrder /\ Safe /\ eventw # eventr
    BY <1>4 DEF Events
  <2>2. ~Adding
    BY <2>1, OnlyAdder
  <2>3. ~Adding' /\ \A t \in Threads : kt'[t].pc # "add"
    BY <2>2 DEF Adding
  <2>4. Published' = Published
    BY <1>2, <2>2, <2>3 DEF Published
  <2>5. Dist(eventr, eventw) = Avail /\ Avail' = Dist(Inc(eventr), eventw)
    BY <1>1 DEF Avail
  <2>6. Avail' = Avail - 1 /\ Avail > 0
    BY <2>1, <2>5, EventTypes, Distances
  <2>7. Oldest' = Oldest + 1 /\ Oldest \in Int
    BY <2>4, <2>6, EventTypes DEF Oldest
  <2>8. slot[eventr] = Oldest
    <3>1. Dist(eventr, eventr) = 0
      BY EventTypes, Distances
    <3>2. slot[eventr] = Oldest + 0
      BY <2>1, <2>6, <3>1, EventTypes DEF InOrder, Queued
    <3>3. QED
      BY <2>7, <3>2
  <2>9. NextIs'
    BY <1>1, <2>7, <2>8 DEF NextIs
  <2>10. ASSUME NEW i \in Slots, Dist(eventr', i) < Avail'
         PROVE  slot'[i] = Oldest' + Dist(eventr', i)
    <3>1. i # eventr
      BY <1>1, <2>6, <2>10, EventTypes, Distances
    <3>2. Dist(eventr', i) = Dist(eventr, i) - 1 /\ Dist(eventr, i) \in Int
      BY <1>1, <3>1, EventTypes, Distances
    <3>3. slot[i] = Oldest + Dist(eventr, i)
      BY <2>1, <2>6, <2>10, <3>2, EventTypes DEF InOrder, Queued
    <3>4. QED
      BY <1>1, <2>7, <3>2, <3>3
  <2>11. Queued'
    BY <2>10 DEF Queued
  <2>12. AddingIs'
    BY <2>3 DEF AddingIs
  <2>13. QED
    BY <1>1, <2>1, <2>8, <2>9, <2>11, <2>12 DEF InOrder
<1>5. QED
  BY <1>3, <1>4 DEF Events

\* FE_GET_EVENT.
LEMMA GetsKeeps ==
  ASSUME TypesByName, TypesByName', ~reinit => Safe, Events,
         NEW c \in Callers, CallGets(c)
  PROVE  /\ Events'
         /\ last' # last /\ ~reinit /\ ~torn' => last' = Oldest /\ NextIs
<1>1. call[c].pc = "in" /\ UNCHANGED <<kt, reinit, torn>>
  BY DEF CallGets
<1>2. CASE overflow /\ reported' = TRUE /\ UNCHANGED <<eventr, eventw, slot, last, next>>
  <2>1. /\ Adding' = Adding /\ Added' = Added /\ Avail' = Avail
    BY <1>1, <1>2 DEF Adding, Added, Avail
  <2>2. Published' = Published /\ Oldest' = Oldest
    BY <2>1 DEF Published, Oldest
  <2>3. Numbered'
    BY <1>2, <2>1 DEF Events, Numbered
  <2>4. ASSUME ~reinit', ~torn' PROVE InOrder'
    <3>1. InOrder
      BY <1>1, <2>4 DEF Events
    <3>2. NextIs'
      BY <1>2, <2>2, <3>1 DEF InOrder, NextIs
    <3>3. Queued'
      BY <1>2, <2>1, <2>2, <3>1 DEF InOrder, Queued
    <3>4. AddingIs'
      BY <1>1, <1>2, <2>1, <3>1 DEF InOrder, AddingIs
    <3>5. QED
      BY <3>2, <3>3, <3>4 DEF InOrder
  <2>5. QED
    BY <1>2, <2>3, <2>4 DEF Events
<1>3. CASE UNCHANGED <<ev, last, next, reported>>
  BY <1>1, <1>3, SameEvents
<1>4. CASE eventw # eventr /\ Take
  BY <1>1, <1>4, TakeKeeps
<1>5. QED
  BY <1>2, <1>3, <1>4 DEF CallGets

\* The end of a wait for an event.
LEMMA TakesKeeps ==
  ASSUME TypesByName, TypesByName', ~reinit => Safe, Events,
         NEW c \in Callers, CallTakes(c)
  PROVE  /\ Events'
         /\ ~reinit /\ ~torn' => last' = Oldest /\ NextIs
<1>1. /\ call[c].pc = "in" /\ Take /\ UNCHANGED <<kt, reinit>>
      /\ torn' = (torn \/ eventw = eventr)
  BY DEF CallTakes
<1>2. QED
  BY <1>1, TakeKeeps

\* Every step keeps the events in order, and one that fetches an event fetches
\* the oldest.
LEMMA EventsStep ==
  ASSUME IInv, Events, [Next]_vars
  PROVE  /\ Events'
         /\ last' # last /\ ~reinit /\ ~torn' => last' = Oldest /\ NextIs
<1> DEFINE Goal == /\ Events'
                   /\ last' # last /\ ~reinit /\ ~torn' => last' = Oldest /\ NextIs
           Same == UNCHANGED <<ev, last, next, reported, torn>>
           SameAdder == \A t \in Threads : /\ kt'[t].pc = "add" <=> kt[t].pc = "add"
                                           /\ kt[t].pc = "add" => kt'[t].wp = kt[t].wp
<1>1. TypesByName /\ TypesByName' /\ (~reinit => Safe)
  BY TypesStep DEF IInv
<1>2. ~reinit' => ~reinit
  BY <1>1, ReinitStays DEF TypesByName
<1>3. ASSUME Same, SameAdder PROVE Goal
  BY <1>1, <1>2, <1>3, SameEvents
<1>4. kt \in [Threads -> KThread]
  BY <1>1 DEF TypesByName
<1>5. ASSUME NEW t \in Threads, NEW q, TPc(t, q), q # "add", kt[t].pc # "add" PROVE SameAdder
  BY <1>4, <1>5 DEF TPc, KThread
<1>6. ASSUME NEW t \in Threads, Thread(t) PROVE Goal
  <2>1. CASE TAddEvent(t)
    BY <1>1, <2>1, AddEventKeeps DEF TAddEvent, hist
  <2>2. CASE TAdded(t)
    BY <1>1, <2>2, AddedKeeps DEF TAdded, hist
  <2>3. CASE TStart(t) \/ TWake(t) \/ TDown(t) \/ TIterate(t) \/ TQuit(t) \/ TNull(t)
    <3>1. Same
      BY <2>3 DEF TStart, TWake, TDown, TIterate, TQuit, TNull, hist
    <3>2. kt[t].pc # "add" /\ \E q : q # "add" /\ TPc(t, q)
      BY <2>3 DEF TStart, TWake, TDown, TIterate, TQuit, TNull
    <3>3. QED
      BY <1>3, <1>5, <3>1, <3>2
  <2>4. CASE TEnd(t)
    <3>1. Same
      BY <2>4 DEF TEnd, hist
    <3>2. SameAdder
      BY <1>4, <2>4 DEF TEnd, KThread
    <3>3. QED
      BY <1>3, <3>1, <3>2
  <2>5. QED
    BY <1>6, <2>1, <2>2, <2>3, <2>4 DEF Thread
<1>7. ASSUME NEW p, NEW then, Stop(p, then) PROVE Goal
  <2>1. Same
    BY <1>7 DEF Stop, StopExit, StopThread, StopKill, StopJoined, hist
  <2>2. SameAdder
    <3>1. CASE UNCHANGED kt
      BY <3>1
    <3>2. ASSUME NEW x, kt' = [kt EXCEPT ![x].stop = TRUE] PROVE SameAdder
      BY <1>4, <3>2 DEF KThread
    <3>3. UNCHANGED kt \/ \E x : kt' = [kt EXCEPT ![x].stop = TRUE]
      BY <1>7 DEF Stop, StopExit, StopThread, StopKill, StopJoined
    <3>4. QED
      BY <3>1, <3>2, <3>3
  <2>3. QED
    BY <1>3, <2>1, <2>2
<1>8. ASSUME NEW c \in Callers, Ioctl(c) PROVE Goal
  <2>1. CASE CallSets(c)
    BY <1>1, <2>1, SetsKeeps DEF CallSets
  <2>2. CASE CallGets(c)
    BY <1>1, <2>2, GetsKeeps
  <2>3. CASE CallTakes(c)
    BY <1>1, <2>3, TakesKeeps
  <2>4. CASE \/ \E op \in {"read", "set", "get"} : Call(c, op)
             \/ CallDown(c) \/ CallReturns(c) \/ CallWakes(c) \/ CallInterrupted(c)
    <3>1. Same /\ UNCHANGED kt
      BY <2>4 DEF Call, CallDown, CallReturns, CallWakes, CallInterrupted, hist
    <3>2. QED
      BY <1>3, <3>1
  <2>5. QED
    BY <1>8, <2>1, <2>2, <2>3, <2>4 DEF Ioctl, CallBody
<1>9. CASE User
  <2>1. CASE OpenEvents
    BY <1>1, <2>1, OpenEventsKeeps DEF OpenEvents
  <2>2. ASSUME NEW t \in Threads, OpenRun(t) PROVE Goal
    <3>1. Same
      BY <2>2 DEF OpenRun, hist
    <3>2. SameAdder
      BY <1>5, <2>2 DEF OpenRun
    <3>3. QED
      BY <1>3, <3>1, <3>2
  <2>3. CASE \/ Open \/ OpenStart \/ OpenCheck \/ OpenDown \/ OpenCreated \/ OpenFails
             \/ ReleaseWriter \/ ReleasedWriter \/ OpenReader \/ ReleaseReader
    <3>1. Same /\ UNCHANGED kt
      BY <2>3 DEF Open, OpenStart, OpenCheck, OpenDown, OpenCreated, OpenFails, ReleaseWriter,
                  ReleasedWriter, OpenReader, ReleaseReader, hist
    <3>2. QED
      BY <1>3, <3>1
  <2>4. QED
    BY <1>7, <1>9, <2>1, <2>2, <2>3 DEF User
<1>10. CASE Driver
  <2>1. CASE Unregister \/ UnregisterUsers \/ UnregisterFree
    <3>1. Same /\ UNCHANGED kt
      BY <2>1 DEF Unregister, UnregisterUsers, UnregisterFree, hist
    <3>2. QED
      BY <1>3, <3>1
  <2>2. QED
    BY <1>7, <1>10, <2>1 DEF Driver
<1>11. CASE UNCHANGED vars
  <2>1. Same /\ UNCHANGED kt
    BY <1>11 DEF vars, ev
  <2>2. QED
    BY <1>3, <2>1
<1>12. QED
  BY <1>6, <1>8, <1>9, <1>10, <1>11 DEF Next

\* The events are fetched in order, each once, and for every gap -EOVERFLOW has
\* been returned or will be by the next call, for any length of the queue and
\* any number of callers, until a call that waited takes from a queue that
\* another one has emptied, or an open empties it under a thread that adds.
THEOREM NoSilentGap == Spec => GapsReported
<1> DEFINE Step == last' # last /\ ~torn' /\ ~reinit =>
                     /\ last' > last /\ last' >= next
                     /\ last' = next \/ reported \/ overflow
<1>1. Init => Events
  <2> SUFFICES ASSUME Init PROVE Events
    OBVIOUS
  <2>1. TypesByName
    BY InitTypes
  <2>2. Added = 0 /\ ~Adding
    BY DEF Init, Added, Adding
  <2>3. Avail = 0 /\ Oldest = 1
    BY <2>2, ZeroSlot, Distances DEF Init, Avail, Oldest, Published
  <2>4. \A i \in Slots : ~(Dist(eventr, i) < Avail)
    BY <2>1, <2>3, EventTypes, Distances
  <2>5. NextIs /\ Queued /\ AddingIs
    BY <2>2, <2>3, <2>4 DEF Init, NextIs, Queued, AddingIs, Adding
  <2>6. QED
    BY <2>2, <2>5 DEF Init, Events, Numbered, InOrder
<1>2. IInv /\ Events /\ [Next]_vars => Events'
  BY EventsStep
<1>3. IInv /\ Events /\ [Next]_vars => [Step]_vars
  <2> SUFFICES ASSUME IInv, Events, [Next]_vars, last' # last, ~torn', ~reinit
               PROVE  /\ last' > last /\ last' >= next
                      /\ last' = next \/ reported \/ overflow
    OBVIOUS
  <2>1. last' = Oldest /\ NextIs
    BY EventsStep
  <2>2. Oldest \in Int /\ next \in Nat /\ last \in Nat
    BY EventTypes DEF IInv, Oldest
  <2>3. QED
    BY <2>1, <2>2 DEF NextIs, Events, Numbered
<1>4. QED
  BY <1>1, <1>2, <1>3, Invariant, PTL DEF Spec, GapsReported

=============================================================================
