--------------------------------- MODULE Ca ---------------------------------
(***************************************************************************)
(* One slot of a CA interface (dvb-core/dvb_ca_en50221.c): the thread that *)
(* brings an inserted CAM up, the interrupts that report changes, and the  *)
(* callers of CA_RESET and write().  The thread sleeps with a timeout, so  *)
(* wake-ups and delays are left out.  slot_lock serialises the thread, the *)
(* writer and CA_RESET; the interrupts and the writer's test do not take   *)
(* it.  Reading is module CaRead.                                          *)
(***************************************************************************)
EXTENDS Integers

CONSTANTS
  IrqModes,  \* values of FLAG_IRQ_CAMCHANGE (else the slot is polled)
  MaxCams,   \* bound: insertions of a CAM
  MaxResets, \* bound: CA_RESETs
  MaxWrites  \* bound: fragments written

ASSUME CaAssumption ==
  /\ IrqModes \subseteq BOOLEAN
  /\ MaxCams \in Nat /\ MaxResets \in Nat /\ MaxWrites \in Nat

VARIABLES
  irq,        \* flags & FLAG_IRQ_CAMCHANGE
  st,         \* slot_state
  type,       \* camchange_type
  count,      \* camchange_count
  lock,       \* holder of slot_lock
  open,       \* ca->open
  pc,         \* thread, reset, writer, change (interrupt), ready (interrupt)
  cam,        \* the CAM in the slot, 0: none
  told,       \* the change the interrupt will report, or "none"
  latch,      \* POLL_CAM_CHANGED, cleared when it is read
  wiped,      \* history: the CAM slot_reset was last called for
  stale,      \* history: a state was stored when the one that was tested
              \* before had changed
  missed,     \* history: since the slot was last shut, a look at the polled
              \* slot between two fragments read the change of a CAM
  calls       \* insertions, resets and writes so far

vars == <<irq, st, type, count, lock, open, pc, cam, told, latch, wiped, stale, missed,
          calls>>

hw == <<cam, told, calls>>

States == {"NONE", "UNINITIALISED", "WAITREADY", "VALIDATE", "WAITFR", "LINKINIT",
           "RUNNING", "INVALID"}
Procs == {"thread", "reset", "writer", "change", "ready"}

Goes(p, to) == pc' = [pc EXCEPT ![p] = to]
Finish(p) == Goes(p, "idle") /\ lock' = "none"

-----------------------------------------------------------------------------
(* The slot. *)

Insert ==
  /\ cam = 0 /\ calls.cams < MaxCams /\ told = "none"
  /\ cam' = calls.cams + 1 /\ calls' = [calls EXCEPT !.cams = @ + 1]
  /\ IF irq THEN told' = "INSERTED" /\ UNCHANGED latch
            ELSE latch' = TRUE /\ UNCHANGED told
  /\ UNCHANGED <<irq, st, type, count, lock, open, pc, wiped, stale, missed>>

Remove ==
  /\ cam # 0 /\ told = "none" /\ cam' = 0
  /\ IF irq THEN told' = "REMOVED" /\ UNCHANGED latch
            ELSE latch' = TRUE /\ UNCHANGED told
  /\ UNCHANGED <<irq, st, type, count, lock, open, pc, wiped, stale, missed, calls>>

(* dvb_ca_en50221_camchange_irq, called by the adapter's interrupt handler *)
(* and by CA_RESET                                                         *)
ChangeType ==
  /\ pc["change"] = "idle" /\ told # "none"
  /\ type' = told /\ told' = "none" /\ Goes("change", "inc")
  /\ UNCHANGED <<irq, st, count, lock, open, cam, latch, wiped, stale, missed, calls>>

ChangeInc ==
  /\ pc["change"] = "inc" /\ count' = count + 1 /\ Goes("change", "idle")
  /\ UNCHANGED <<irq, st, type, lock, open, latch, wiped, stale, missed, hw>>

(* dvb_ca_en50221_camready_irq: the test and the store *)
ReadyTest ==
  /\ irq /\ cam # 0 /\ pc["ready"] = "idle" /\ st = "WAITREADY"
  /\ Goes("ready", "store")
  /\ UNCHANGED <<irq, st, type, count, lock, open, latch, wiped, stale, missed, hw>>

ReadyStore ==
  /\ pc["ready"] = "store" /\ Goes("ready", "idle")
  /\ st' = "VALIDATE" /\ stale' = (stale \/ st # "WAITREADY")
  /\ UNCHANGED <<irq, type, count, lock, open, latch, wiped, missed, hw>>

-----------------------------------------------------------------------------
(* dvb_ca_en50221_thread: a pass over the slot. *)

TLock ==
  /\ pc["thread"] = "idle" /\ lock = "none"
  /\ lock' = "thread" /\ Goes("thread", "check")
  /\ UNCHANGED <<irq, st, type, count, open, latch, wiped, stale, missed, hw>>

(* mutant: a polled change is believed only when the presence changed *)
ChangedByPresence == IF irq THEN count # 0
                     ELSE (cam # 0) # (st # "NONE")

(* dvb_ca_en50221_check_camstatus *)
Changed == IF irq THEN count # 0
           ELSE latch \/ (cam # 0) # (st # "NONE")

CheckStores ==
  IF irq THEN UNCHANGED <<st, type, count, latch>>
  ELSE /\ latch' = FALSE
       /\ IF Changed
          THEN /\ type' = IF cam = 0 THEN "REMOVED" ELSE "INSERTED"
               /\ count' = 1 /\ UNCHANGED st
          ELSE /\ \/ UNCHANGED st
                  \/ st = "WAITREADY" /\ st' = "VALIDATE"
               /\ UNCHANGED <<type, count>>

TCheck ==
  /\ pc["thread"] = "check" /\ CheckStores
  /\ Goes("thread", IF Changed THEN "shut" ELSE "machine")
  /\ UNCHANGED <<irq, lock, open, wiped, stale, missed, hw>>

TShut ==
  /\ pc["thread"] = "shut" /\ Goes("thread", "insert")
  /\ st' = "NONE" /\ missed' = FALSE
  /\ UNCHANGED <<irq, type, count, lock, open, latch, wiped, stale, hw>>

TInsert ==
  /\ pc["thread"] = "insert" /\ Goes("thread", "dec")
  /\ st' = IF type = "INSERTED" THEN "UNINITIALISED" ELSE st
  /\ UNCHANGED <<irq, type, count, lock, open, latch, wiped, stale, missed, hw>>

(* mutant: all changes that were counted are taken as handled *)
TDecAll ==
  /\ pc["thread"] = "dec" /\ count' = 0 /\ Goes("thread", "check")
  /\ UNCHANGED <<irq, st, type, lock, open, latch, wiped, stale, missed, hw>>

TDec ==
  /\ pc["thread"] = "dec" /\ count' = count - 1 /\ Goes("thread", "check")
  /\ UNCHANGED <<irq, st, type, lock, open, latch, wiped, stale, missed, hw>>

(* the state machine; each state's case ends the pass *)
Machine(from) == pc["thread"] = "machine" /\ st = from

Ends == UNCHANGED <<irq, type, count, open, wiped, stale, missed, hw>> /\ Finish("thread")
Quits == Ends /\ UNCHANGED latch
GivesUp == st' = "INVALID" /\ Quits

(* parse_attributes or link_init fails: a polled slot is polled once more,  *)
(* which clears the change bit, and may be found empty                      *)
Fails ==
  /\ st' = IF ~irq /\ cam = 0 THEN "NONE" ELSE "INVALID"
  /\ latch' = FALSE /\ Ends

TRests ==
  /\ \E s \in {"NONE", "INVALID", "WAITREADY", "WAITFR"} : Machine(s)
  /\ UNCHANGED st /\ Quits

TTimesOut ==
  /\ Machine("WAITREADY") \/ Machine("WAITFR")
  /\ GivesUp

TUninitialised ==
  /\ Machine("UNINITIALISED") /\ st' = "WAITREADY" /\ Goes("thread", "wipe")
  /\ UNCHANGED <<irq, type, count, lock, open, latch, wiped, stale, missed, hw>>

TReset ==
  /\ pc["thread"] = "wipe" /\ wiped' = cam /\ Finish("thread")
  /\ UNCHANGED <<irq, st, type, count, open, latch, stale, missed, hw>>

TValidate ==
  /\ Machine("VALIDATE")
  /\ \/ Fails \/ GivesUp
     \/ cam # 0 /\ st' = "WAITFR" /\ Quits

TFree == Machine("WAITFR") /\ st' = "LINKINIT" /\ Quits

TLinkInit ==
  /\ Machine("LINKINIT")
  /\ \/ Fails \/ GivesUp
     \/ cam # 0 /\ st' = "RUNNING" /\ Quits

(* RUNNING: nothing to read, a read that breaks the link, or a fragment and *)
(* a look at the slot before the next one                                   *)
TRunning ==
  /\ Machine("RUNNING")
  /\ \/ UNCHANGED st /\ Quits
     \/ open /\ st' = "LINKINIT" /\ Quits
     \/ /\ open /\ cam # 0 /\ Goes("thread", "polled")
        /\ UNCHANGED <<irq, st, type, count, lock, open, latch, wiped, stale, missed, hw>>

TPolled ==
  /\ pc["thread"] = "polled"
  /\ \/ ~open /\ UNCHANGED st /\ Quits
     \/ /\ open /\ CheckStores
        /\ missed' = (missed \/ (~irq /\ latch /\ cam # 0))
        /\ \/ Finish("thread")
           \/ ~Changed /\ Goes("thread", "machine") /\ UNCHANGED lock
        /\ UNCHANGED <<irq, open, wiped, stale, hw>>

Thread ==
  \/ TCheck \/ TShut \/ TInsert \/ TDec \/ TRests \/ TTimesOut \/ TUninitialised
  \/ TReset \/ TValidate \/ TFree \/ TLinkInit \/ TRunning \/ TPolled

-----------------------------------------------------------------------------
(* The file. *)

Open ==
  /\ ~open /\ open' = TRUE
  /\ UNCHANGED <<irq, st, type, count, lock, pc, latch, wiped, stale, missed, hw>>

Release ==
  /\ open /\ pc["reset"] = "idle" /\ pc["writer"] = "idle" /\ open' = FALSE
  /\ UNCHANGED <<irq, st, type, count, lock, pc, latch, wiped, stale, missed, hw>>

(* CA_RESET *)
Reset ==
  /\ open /\ pc["reset"] = "idle" /\ calls.resets < MaxResets /\ lock = "none"
  /\ calls' = [calls EXCEPT !.resets = @ + 1] /\ st' = "NONE" /\ missed' = FALSE
  /\ IF st # "NONE" /\ irq THEN lock' = "reset" /\ Goes("reset", "type")
                           ELSE UNCHANGED <<lock, pc>>
  /\ UNCHANGED <<irq, type, count, open, cam, told, latch, wiped, stale>>

ResetType ==
  /\ pc["reset"] = "type" /\ type' = "INSERTED" /\ Goes("reset", "inc")
  /\ UNCHANGED <<irq, st, count, lock, open, latch, wiped, stale, missed, hw>>

ResetInc ==
  /\ pc["reset"] = "inc" /\ count' = count + 1 /\ Finish("reset")
  /\ UNCHANGED <<irq, st, type, open, latch, wiped, stale, missed, hw>>

(* dvb_ca_en50221_io_write, one try for a fragment: the test, then         *)
(* write_data under the lock                                               *)
WriteTest ==
  /\ open /\ pc["writer"] = "idle" /\ calls.writes < MaxWrites /\ st = "RUNNING"
  /\ calls' = [calls EXCEPT !.writes = @ + 1] /\ Goes("writer", "write")
  /\ UNCHANGED <<irq, st, type, count, lock, open, cam, told, latch, wiped, stale, missed>>

WriteData ==
  /\ pc["writer"] = "write" /\ lock = "none" /\ Goes("writer", "idle")
  /\ \/ UNCHANGED <<st, stale>>
     \/ st' = "LINKINIT" /\ stale' = (stale \/ st # "RUNNING")
  /\ UNCHANGED <<irq, type, count, lock, open, latch, wiped, missed, hw>>

Init ==
  /\ irq \in IrqModes
  /\ st = "NONE" /\ type = "REMOVED" /\ count = 0 /\ lock = "none" /\ open = FALSE
  /\ pc = [p \in Procs |-> "idle"]
  /\ cam = 0 /\ told = "none" /\ latch = FALSE
  /\ wiped = 0 /\ stale = FALSE /\ missed = FALSE
  /\ calls = [cams |-> 0, resets |-> 0, writes |-> 0]

Next ==
  \/ Insert \/ Remove \/ ChangeType \/ ChangeInc \/ ReadyTest \/ ReadyStore
  \/ TLock \/ Thread
  \/ Open \/ Release \/ Reset \/ ResetType \/ ResetInc \/ WriteTest \/ WriteData

(* The thread and the interrupts run on; a mutex is given to those that    *)
(* wait; a deadline passes.                                                *)
Fairness ==
  /\ WF_vars(Thread) /\ SF_vars(TLock) /\ SF_vars(TTimesOut)
  /\ WF_vars(ChangeType) /\ WF_vars(ChangeInc) /\ WF_vars(ReadyStore)
  /\ WF_vars(ResetType) /\ WF_vars(ResetInc)

Spec == Init /\ [][Next]_vars /\ Fairness

-----------------------------------------------------------------------------
(* A change is on its way to the thread, or the thread is handling it *)
Pending ==
  \/ told # "none" \/ pc["change"] # "idle"
  \/ pc["thread"] \in {"shut", "insert", "dec"}
  \/ IF irq THEN count # 0 ELSE latch \/ cam = 0

(* dvb_ca_en50221_thread: a slot runs only with a CAM that was reset since *)
(* it was inserted, or a change is about to be handled.  Two histories are *)
(* left out.  After an interrupt or write() has stored a state over one    *)
(* that changed since its test (stale), nothing is said.  And nothing is   *)
(* said of a polled slot from a look between two fragments that reads the  *)
(* change of a CAM, which the thread then does not handle (missed), until  *)
(* the slot is next shut: there the code does run a CAM without a reset.   *)
RunningIsReset ==
  st = "RUNNING" /\ ~stale /\ ~missed => wiped = cam \/ Pending

(* dvb_ca_en50221_thread: when the CAM is gone for good, the slot becomes  *)
(* and stays empty or invalid; when one stays, the slot is running or      *)
(* given up again and again, and never hangs half way.                     *)
Settles ==
  /\ <>[](cam = 0) => <>[](st \in {"NONE", "INVALID"})
  /\ <>[](cam # 0) => []<>(st \in {"RUNNING", "INVALID"})

=============================================================================
