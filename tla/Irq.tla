-------------------------------- MODULE Irq --------------------------------
(***************************************************************************)
(* Interrupt dispatch: the event table and the MSI block (saa7231_msi.c),  *)
(* the INTx handler and the order of probe and remove (saa7231_drv.c), and *)
(* the adapters that register their event (saa7231_dvb.c).                 *)
(*                                                                         *)
(* The handler runs beside the probe/remove thread; only free_irq waits    *)
(* for it.  A step that touches memory that is not there is a fault, and   *)
(* ends the behaviour.                                                     *)
(***************************************************************************)
EXTENDS Integers

CONSTANTS Vectors,   \* the adapters' vectors, registered in this order
          Handled,   \* those with a handler in dvbstr_tbl
          Others,    \* vectors that are latched but belong to nobody
          MaxEdges   \* bound: edges per vector

ASSUME VectorsAssumption == /\ Vectors \subseteq Nat \ {0} /\ Others \subseteq Nat \ {0}
                            /\ Vectors # {} /\ Handled \subseteq Vectors
                            /\ Vectors \cap Others = {}
ASSUME EdgesAssumption == MaxEdges \in Nat

All == Vectors \cup Others

VARIABLES requested,  \* request_irq has been called
          table,      \* event_handler: "none", "live" or "freed"
          ev,         \* its entries: vector -> [vector, handler]
          ena,        \* MSI_INT_ENA, as a set of vectors
          status,     \* MSI_INT_STATUS, as a set of vectors
          streams,    \* vectors whose saa7231_stream exists
          on,         \* vectors whose engine captures
          thr,        \* [pc, v, todo] of the probe/remove thread
          isr,        \* [pc, v, st, todo] of the interrupt handler
          fault,      \* what the kernel stopped for
          edges, calls   \* history: edges latched and handler calls per vector

tableVars == <<table, ev>>
hwVars    == <<ena, status, on>>
histVars  == <<edges, calls>>
vars == <<requested, tableVars, hwVars, streams, thr, isr, fault, histVars>>

Empty == [vector |-> 0, handler |-> FALSE]

\* The vectors of S in the 32-bit register of v.
InWord(S, v) == {u \in S : u \div 32 = v \div 32}

\* The loops over bits and adapters take the lowest first.
First(v, S) == v \in S /\ \A u \in S : v <= u

Init ==
  /\ requested = FALSE /\ table = "none"
  /\ ev = [v \in All |-> Empty]
  /\ ena = {} /\ status = {} /\ streams = {} /\ on = {}
  /\ thr = [pc |-> "unbound", v |-> 0, todo |-> {}]
  /\ isr = [pc |-> "idle", v |-> 0, st |-> {}, todo |-> {}]
  /\ fault = "none"
  /\ edges = [v \in All |-> 0] /\ calls = [v \in All |-> 0]

-----------------------------------------------------------------------------
(* The hardware (external). *)

\* A file is opened and its first feed starts the engine.
EngineOn(v) ==
  /\ v \in streams /\ v \notin on
  /\ on' = on \cup {v}
  /\ UNCHANGED <<requested, tableVars, ena, status, streams, thr, isr, fault, histVars>>

\* A rising edge is latched, whether or not its vector is enabled.
Edge(v) ==
  /\ v \in on \cup Others /\ edges[v] < MaxEdges
  /\ status' = status \cup {v}
  /\ edges' = [edges EXCEPT ![v] = @ + 1]
  /\ UNCHANGED <<requested, tableVars, ena, on, streams, thr, isr, fault, calls>>

-----------------------------------------------------------------------------
(* saa7231_irq_handler *)

\* The status words are read.  The line is shared, so the handler may be
\* called when none of the bits is enabled.
IrqEnter ==
  /\ requested /\ isr.pc = "idle" /\ status # {}
  /\ isr' = [pc |-> "scan", v |-> 0, st |-> status, todo |-> status]
  /\ UNCHANGED <<requested, tableVars, hwVars, streams, thr, fault, histVars>>

\* Mutant: the status is not acknowledged.
IrqScanNoClear ==
  /\ isr.pc = "scan"
  /\ \E v \in isr.todo :
       /\ First(v, isr.todo)
       /\ isr' = [isr EXCEPT !.v = v, !.todo = @ \ {v},
                             !.pc = IF ev[v].vector = v THEN "call" ELSE "scan"]
       /\ fault' = IF table = "live" THEN fault ELSE "table"
  /\ UNCHANGED <<requested, tableVars, hwVars, streams, thr, histVars>>

\* The next bit set: all that was read of its word is acknowledged and the
\* vector is compared with that of its entry.
IrqScan ==
  /\ isr.pc = "scan"
  /\ \E v \in isr.todo :
       /\ First(v, isr.todo)
       /\ status' = status \ InWord(isr.st, v)
       /\ isr' = [isr EXCEPT !.v = v, !.todo = @ \ {v},
                             !.pc = IF ev[v].vector = v THEN "call" ELSE "scan"]
       /\ fault' = IF table = "live" THEN fault ELSE "table"
  /\ UNCHANGED <<requested, tableVars, ena, on, streams, thr, histVars>>

\* event->handler is read again, and called.
IrqCall ==
  /\ isr.pc = "call"
  /\ isr' = [isr EXCEPT !.pc = "run"]
  /\ fault' = CASE table # "live" -> "table"
                [] table = "live" /\ ~ev[isr.v].handler -> "null"
                [] OTHER -> fault
  /\ calls' = [calls EXCEPT ![isr.v] = @ + 1]
  /\ UNCHANGED <<requested, tableVars, hwVars, streams, thr, edges>>

\* Mutant: the loop is left after the first event.
EvHandlerLast ==
  /\ isr.pc = "run"
  /\ isr' = [isr EXCEPT !.pc = "scan", !.todo = {}]
  /\ fault' = IF isr.v \in streams THEN fault ELSE "stream"
  /\ UNCHANGED <<requested, tableVars, hwVars, streams, thr, histVars>>

\* The event handler works on the stream (module Ts2dtl) and returns.
EvHandler ==
  /\ isr.pc = "run"
  /\ isr' = [isr EXCEPT !.pc = "scan"]
  /\ fault' = IF isr.v \in streams THEN fault ELSE "stream"
  /\ UNCHANGED <<requested, tableVars, hwVars, streams, thr, histVars>>

IrqLeave ==
  /\ isr.pc = "scan" /\ isr.todo = {}
  /\ isr' = [pc |-> "idle", v |-> 0, st |-> {}, todo |-> {}]
  /\ UNCHANGED <<requested, tableVars, hwVars, streams, thr, fault, histVars>>

-----------------------------------------------------------------------------
(* saa7231_pci_probe *)

At(pc) == thr.pc = pc
Goto(pc) == thr' = [thr EXCEPT !.pc = pc]

\* saa7231_pci_init: the handler is registered.
PciInit ==
  /\ At("unbound")
  /\ requested' = TRUE
  /\ table' = "none" /\ ev' = [v \in All |-> Empty]
  /\ Goto("msi_init")
  /\ UNCHANGED <<hwVars, streams, isr, fault, histVars>>

\* saa7231_msi_init: the table is allocated, the MSI block reset and cleared.
MsiInit ==
  /\ At("msi_init")
  /\ table' = "live"
  /\ ena' = {} /\ status' = {}
  /\ thr' = [pc |-> "add", v |-> 0, todo |-> Vectors]
  /\ UNCHANGED <<requested, ev, streams, on, isr, fault, histVars>>

\* An allocation fails, or the module id is unknown or the reset does not
\* take, with some bits cleared or none: probe goes to fail3.
MsiInitFails ==
  /\ At("msi_init")
  /\ \/ table' = "none" /\ UNCHANGED <<ena, status>>
     \/ table' = "live" /\ ena' \in SUBSET ena /\ status' \in SUBSET status
  /\ Goto("pci_exit")
  /\ UNCHANGED <<requested, ev, on, streams, isr, fault, histVars>>

\* saa7231_dvb_init, the next adapter: saa7231_stream_init resets the engine.
StreamInit ==
  /\ At("add")
  /\ \E v \in thr.todo :
       /\ First(v, thr.todo)
       /\ streams' = streams \cup {v}
       /\ on' = on \ {v}
       /\ thr' = [pc |-> "enable", v |-> v, todo |-> thr.todo \ {v}]
  /\ UNCHANGED <<requested, tableVars, ena, status, isr, fault, histVars>>

\* An initialisation between saa7231_msi_init and the next event fails; what
\* the earlier adapters registered stays.
DvbInitFails ==
  /\ At("add")
  /\ Goto("msi_exit")
  /\ UNCHANGED <<requested, tableVars, hwVars, streams, isr, fault, histVars>>

\* saa7231_add_irqevent enables the vector (saa7231_setup_vector) ...
SetupVector ==
  /\ At("enable")
  /\ ena' = ena \cup {thr.v}
  /\ Goto("handler")
  /\ UNCHANGED <<requested, tableVars, status, on, streams, isr, fault, histVars>>

\* Mutant: event->vector is set here already.
AddHandlerWithVector ==
  /\ At("handler")
  /\ ev' = [ev EXCEPT ![thr.v].vector = thr.v]
  /\ Goto("vector")
  /\ UNCHANGED <<requested, table, hwVars, streams, isr, fault, histVars>>

\* ... fills in the handler ...
AddHandler ==
  /\ At("handler")
  /\ ev' = [ev EXCEPT ![thr.v].handler = thr.v \in Handled]
  /\ Goto("vector")
  /\ UNCHANGED <<requested, table, hwVars, streams, isr, fault, histVars>>

\* Mutant: the entry is given the number of its neighbour.
AddVectorOffByOne ==
  /\ At("vector")
  /\ ev' = [ev EXCEPT ![thr.v].vector = thr.v + 1]
  /\ Goto(IF thr.todo = {} THEN "bound" ELSE "add")
  /\ UNCHANGED <<requested, table, hwVars, streams, isr, fault, histVars>>

\* ... and last the vector that makes the entry match.
AddVector ==
  /\ At("vector")
  /\ ev' = [ev EXCEPT ![thr.v].vector = thr.v]
  /\ Goto(IF thr.todo = {} THEN "bound" ELSE "add")
  /\ UNCHANGED <<requested, table, hwVars, streams, isr, fault, histVars>>

-----------------------------------------------------------------------------
(* saa7231_pci_remove *)

\* saa7231_dvb_exit takes the next adapter after v.
NextAdapter(todo) ==
  \/ todo = {} /\ thr' = [thr EXCEPT !.pc = "msi_exit"]
  \/ \E v \in todo : /\ First(v, todo)
                     /\ thr' = [pc |-> "remove", v |-> v, todo |-> todo \ {v}]

DvbExit ==
  /\ At("bound")
  /\ NextAdapter(Vectors)
  /\ UNCHANGED <<requested, tableVars, hwVars, streams, isr, fault, histVars>>

\* saa7231_remove_irqevent leaves an entry without a handler alone; of the
\* others it clears the vector ...
RemoveVector ==
  /\ At("remove")
  /\ IF ev[thr.v].handler
       THEN ev' = [ev EXCEPT ![thr.v].vector = 0] /\ Goto("unhandle")
       ELSE UNCHANGED ev /\ Goto("stream_exit")
  /\ UNCHANGED <<requested, table, hwVars, streams, isr, fault, histVars>>

\* ... and the handler ...
RemoveHandler ==
  /\ At("unhandle")
  /\ ev' = [ev EXCEPT ![thr.v].handler = FALSE]
  /\ Goto("disable")
  /\ UNCHANGED <<requested, table, hwVars, streams, isr, fault, histVars>>

\* ... and saa7231_vector_ctl writes every enabled bit of the word, not only
\* the vector's own, to MSI_INT_ENA_CLR.
DisableVector ==
  /\ At("disable")
  /\ ena' = ena \ (InWord(ena, thr.v) \cup {thr.v})
  /\ Goto("stream_exit")
  /\ UNCHANGED <<requested, tableVars, status, on, streams, isr, fault, histVars>>

\* saa7231_stream_exit frees the stream and waits for nobody.
StreamExit ==
  /\ At("stream_exit")
  /\ streams' = streams \ {thr.v}
  /\ NextAdapter(thr.todo)
  /\ UNCHANGED <<requested, tableVars, hwVars, isr, fault, histVars>>

\* saa7231_msi_exit frees the table while the interrupt is still requested.
MsiExit ==
  /\ At("msi_exit")
  /\ table' = "freed"
  /\ Goto("pci_exit")
  /\ UNCHANGED <<requested, ev, hwVars, streams, isr, fault, histVars>>

\* saa7231_pci_exit: free_irq waits for a running handler.
PciExit ==
  /\ At("pci_exit") /\ isr.pc = "idle"
  /\ requested' = FALSE
  /\ Goto("unbound")
  /\ UNCHANGED <<tableVars, hwVars, streams, isr, fault, histVars>>

-----------------------------------------------------------------------------
Isr == fault = "none" /\ (IrqEnter \/ IrqScan \/ IrqCall \/ EvHandler \/ IrqLeave)

Probe == PciInit \/ MsiInit \/ MsiInitFails \/ StreamInit \/ DvbInitFails
         \/ SetupVector \/ AddHandler \/ AddVector

Remove == DvbExit \/ RemoveVector \/ RemoveHandler \/ DisableVector \/ StreamExit
          \/ MsiExit \/ PciExit

Next == \/ Isr
        \/ fault = "none" /\ (Probe \/ Remove \/ \E v \in All : EngineOn(v) \/ Edge(v))

Spec == Init /\ [][Next]_vars

\* The line stays asserted while an enabled bit is latched; the loops of the
\* handler are finite.
FairSpec == Spec /\ WF_vars(Isr)

-----------------------------------------------------------------------------
(* Properties. *)

\* From the end of saa7231_msi_init until remove begins or probe gives up.
Serving == thr.pc \in {"add", "enable", "handler", "vector", "bound"}

TypeOK ==
  /\ requested \in BOOLEAN /\ table \in {"none", "live", "freed"}
  /\ ev \in [All -> [vector : All \cup {0}, handler : BOOLEAN]]
  /\ ena \subseteq All /\ status \subseteq All /\ on \subseteq All
  /\ streams \subseteq Vectors
  /\ thr \in [pc : {"unbound", "msi_init", "add", "enable", "handler", "vector", "bound",
                    "remove", "unhandle", "disable", "stream_exit", "msi_exit", "pci_exit"},
              v : Vectors \cup {0}, todo : SUBSET Vectors]
  /\ thr.pc \in {"enable", "handler", "vector", "remove", "unhandle", "disable", "stream_exit"}
       => thr.v \in Vectors
  /\ isr \in [pc : {"idle", "scan", "call", "run"}, v : All \cup {0},
              st : SUBSET All, todo : SUBSET All]
  /\ isr.todo \subseteq isr.st
  /\ fault \in {"none", "table", "null", "stream"}
  /\ edges \in [All -> Nat] /\ calls \in [All -> Nat]

\* While the device is served, no interrupt reaches a missing table, handler
\* or stream, however it interleaves with the registration of the adapters'
\* events (saa7231_add_irqevent enables a vector before its entry is filled).
SafeDispatch == Serving => fault = "none"

\* An event handler is called for an edge of its own vector, at most once for
\* each: acknowledging a whole word may lose edges, never repeats one.
NoSpuriousCall == \A v \in Vectors : calls[v] <= edges[v]

\* An edge of a registered vector that is latched while no handler runs is
\* dispatched, whichever other bits are latched with it, unless remove begins
\* or the kernel stops before that.
EdgeDispatched ==
  \A v \in Vectors :
    (v \in status /\ isr.pc = "idle" /\ thr.pc = "bound")
      ~> ((isr.pc = "run" /\ isr.v = v) \/ thr.pc # "bound")

=============================================================================
