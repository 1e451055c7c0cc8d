------------------------------ MODULE Ca_proofs ------------------------------
(***************************************************************************)
(* Proofs about a slot of the CA interface, for any number of insertions,  *)
(* resets and writes.                                                      *)
(***************************************************************************)
EXTENDS Ca, TLAPS

(* What the proof needs of the types. *)
Types ==
  /\ irq \in BOOLEAN
  /\ st \in States
  /\ count \in Nat
  /\ told \in {"none", "INSERTED", "REMOVED"}
  /\ latch \in BOOLEAN
  /\ stale \in BOOLEAN /\ missed \in BOOLEAN
  /\ pc \in [Procs -> {"idle", "inc", "store", "check", "shut", "insert", "dec", "machine",
                       "wipe", "polled", "type", "write"}]

(* A polled slot gets no interrupts, and CA_RESET raises none for it. *)
PolledIsQuiet == ~irq => told = "none" /\ pc["change"] = "idle" /\ pc["reset"] = "idle"

(* The change the thread is handling is counted: the count never wraps. *)
ChangeCounted == pc["thread"] \in {"shut", "insert", "dec"} => count > 0

(* While a change is handled the slot has been shut. *)
ShutDown ==
  ~stale => /\ pc["thread"] = "insert" => st = "NONE"
            /\ pc["thread"] = "dec" => st \in {"NONE", "UNINITIALISED"}

(* From the reset on, in every state that leads to RUNNING, the CAM in the *)
(* slot is the one that was reset, or its change is on the way.            *)
UpIsReset ==
  ~stale /\ ~missed /\ st \in {"WAITREADY", "VALIDATE", "WAITFR", "LINKINIT", "RUNNING"} =>
    wiped = cam \/ Pending \/ pc["thread"] = "wipe"

(* slot_reset has returned before the slot runs. *)
WipeIsEarly == pc["thread"] = "wipe" => st # "RUNNING"

\* The inductive invariant: RunningIsReset is UpIsReset with what a step needs
\* to keep it, through polls, changes, shutdowns and resets of a slot.
IInv == Types /\ PolledIsQuiet /\ ChangeCounted /\ ShutDown /\ UpIsReset /\ WipeIsEarly

\* The invariant holds when the interface is registered.
LEMMA InitInv == Init => IInv
<1> SUFFICES ASSUME Init PROVE IInv
  OBVIOUS
<1>1. irq \in BOOLEAN
  BY CaAssumption DEF Init
<1>2. pc \in [Procs -> {"idle"}] /\ \A p \in Procs : pc[p] = "idle"
  BY DEF Init
<1>3. Types
  BY <1>1, <1>2 DEF Init, Types, States
<1>4. QED
  BY <1>2, <1>3 DEF Init, IInv, PolledIsQuiet, ChangeCounted, ShutDown, UpIsReset, WipeIsEarly,
     Procs

\* Every step of the thread, of the callers and of the CAMs keeps it.
LEMMA StepInv == IInv /\ [Next]_vars => IInv'
<1> SUFFICES ASSUME IInv, [Next]_vars PROVE IInv'
  OBVIOUS
<1> USE DEF IInv, Types, PolledIsQuiet, ChangeCounted, ShutDown, UpIsReset, WipeIsEarly,
            Pending, States, Procs, Goes, Finish, hw
<1>1. CASE Insert
  BY <1>1 DEF Insert
<1>2. CASE Remove
  BY <1>2 DEF Remove
<1>3. CASE ChangeType
  BY <1>3 DEF ChangeType
<1>4. CASE ChangeInc
  BY <1>4 DEF ChangeInc
<1>5. CASE ReadyTest
  BY <1>5 DEF ReadyTest
<1>6. CASE ReadyStore
  BY <1>6 DEF ReadyStore
<1>7. CASE TLock
  BY <1>7 DEF TLock
<1>8. CASE TCheck
  <2>1. CASE irq
    BY <1>8, <2>1 DEF TCheck, CheckStores, Changed
  <2>2. CASE ~irq /\ Changed
    <3>1. count' = 1 /\ st' = st /\ latch' = FALSE /\ pc' = [pc EXCEPT !["thread"] = "shut"]
      BY <1>8, <2>2 DEF TCheck, CheckStores
    <3>2. /\ irq' = irq /\ told' = told /\ cam' = cam /\ wiped' = wiped
          /\ stale' = stale /\ missed' = missed
      BY <1>8 DEF TCheck
    <3>3. Types'
      BY <3>1, <3>2
    <3>4. /\ pc'["thread"] = "shut" /\ pc'["change"] = pc["change"]
          /\ pc'["reset"] = pc["reset"]
      BY <3>1
    <3>5. QED
      BY <3>1, <3>2, <3>3, <3>4
  <2>3. CASE ~irq /\ ~Changed
    BY <1>8, <2>3 DEF TCheck, CheckStores, Changed
  <2>4. QED
    BY <2>1, <2>2, <2>3
<1>9. CASE TShut
  BY <1>9 DEF TShut
<1>10. CASE TInsert
  BY <1>10 DEF TInsert
<1>11. CASE TDec
  BY <1>11 DEF TDec
<1>12. CASE TRests
  BY <1>12 DEF TRests, Machine, Quits, Ends
<1>13. CASE TTimesOut
  BY <1>13 DEF TTimesOut, Machine, GivesUp, Quits, Ends
<1>14. CASE TUninitialised
  BY <1>14 DEF TUninitialised, Machine
<1>15. CASE TReset
  BY <1>15 DEF TReset
<1>16. CASE TValidate
  <2>1. CASE Fails
    BY <1>16, <2>1 DEF TValidate, Machine, Fails, Ends
  <2>2. CASE st' = "WAITFR" /\ Quits
    BY <1>16, <2>2 DEF TValidate, Machine, Quits, Ends
  <2>3. CASE GivesUp
    BY <1>16, <2>3 DEF TValidate, Machine, GivesUp, Quits, Ends
  <2>4. QED
    BY <1>16, <2>1, <2>2, <2>3 DEF TValidate
<1>17. CASE TFree
  BY <1>17 DEF TFree, Machine, Quits, Ends
<1>18. CASE TLinkInit
  <2>1. CASE Fails
    BY <1>18, <2>1 DEF TLinkInit, Machine, Fails, Ends
  <2>2. CASE st' = "RUNNING" /\ Quits
    BY <1>18, <2>2 DEF TLinkInit, Machine, Quits, Ends
  <2>3. CASE GivesUp
    BY <1>18, <2>3 DEF TLinkInit, Machine, GivesUp, Quits, Ends
  <2>4. QED
    BY <1>18, <2>1, <2>2, <2>3 DEF TLinkInit
<1>19. CASE TRunning
  BY <1>19 DEF TRunning, Machine, Quits, Ends
<1>20. CASE TPolled
  <2>1. CASE UNCHANGED st /\ Quits
    BY <1>20, <2>1 DEF TPolled, Quits, Ends
  <2>2. CASE /\ CheckStores
             /\ missed' = (missed \/ (~irq /\ latch /\ cam # 0))
             /\ \/ Finish("thread")
                \/ ~Changed /\ Goes("thread", "machine") /\ UNCHANGED lock
             /\ UNCHANGED <<irq, open, wiped, stale, hw>>
    <3>1. /\ stale' = stale /\ missed' \in BOOLEAN
          /\ ~missed' => ~missed /\ (irq \/ ~latch \/ cam = 0)
      BY <2>2
    <3>2. /\ pc' \in [Procs -> {"idle", "inc", "store", "check", "shut", "insert", "dec",
                               "machine", "wipe", "polled", "type", "write"}]
          /\ pc'["thread"] \in {"idle", "machine"}
          /\ \A p \in Procs \ {"thread"} : pc'[p] = pc[p]
      BY <2>2
    <3>3. irq' = irq /\ cam' = cam /\ told' = told /\ wiped' = wiped /\ pc["thread"] = "polled"
      BY <1>20, <2>2 DEF TPolled
    <3>4. CASE irq
      <4>1. st' = st /\ count' = count /\ latch' = latch
        BY <2>2, <3>4 DEF CheckStores
      <4>2. QED
        BY <3>1, <3>2, <3>3, <3>4, <4>1
    <3>5. CASE ~irq
      <4>1. st' \in {st, "VALIDATE"} /\ (st' # st => st = "WAITREADY")
        BY <2>2, <3>5 DEF CheckStores
      <4>2. count' \in Nat /\ latch' = FALSE
        BY <2>2, <3>5 DEF CheckStores
      <4>3. QED
        BY <3>1, <3>2, <3>3, <3>5, <4>1, <4>2
    <3>6. QED
      BY <3>4, <3>5
  <2>3. QED
    BY <1>20, <2>1, <2>2 DEF TPolled
<1>21. CASE Open
  BY <1>21 DEF Open
<1>22. CASE Release
  BY <1>22 DEF Release
<1>23. CASE Reset
  BY <1>23 DEF Reset
<1>24. CASE ResetType
  BY <1>24 DEF ResetType
<1>25. CASE ResetInc
  BY <1>25 DEF ResetInc
<1>26. CASE WriteTest
  BY <1>26 DEF WriteTest
<1>27. CASE WriteData
  BY <1>27, ZenonT(60) DEF WriteData
<1>28. CASE UNCHANGED vars
  BY <1>28 DEF vars
<1>29. QED
  BY <1>1, <1>2, <1>3, <1>4, <1>5, <1>6, <1>7, <1>8, <1>9, <1>10, <1>11, <1>12,
     <1>13, <1>14, <1>15, <1>16, <1>17, <1>18, <1>19, <1>20, <1>21, <1>22, <1>23, <1>24, <1>25,
     <1>26, <1>27, <1>28 DEF Next, Thread

\* The inductive invariant of a CA slot holds in every behaviour of the thread, the
\* CAM and the callers.
THEOREM Invariant == Spec => []IInv
  BY InitInv, StepInv, PTL DEF Spec

(* Whatever the order of insertions, removals, interrupts, resets and      *)
(* writes: a slot runs only with a CAM that slot_reset was called for, or  *)
(* the thread is about to handle its change, or the CAM's state has been   *)
(* stored late (stale), or, in a polled slot, the change was read between  *)
(* two fragments and dropped since the slot was last shut (missed).        *)
THEOREM RunsResetCams == Spec => []RunningIsReset
<1>1. IInv => RunningIsReset
  BY DEF IInv, UpIsReset, WipeIsEarly, RunningIsReset
<1>2. QED
  BY <1>1, Invariant, PTL

=============================================================================
