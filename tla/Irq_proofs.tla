----------------------------- MODULE Irq_proofs -----------------------------
(***************************************************************************)
(* Proofs about interrupt dispatch, for any vectors in any registers.      *)
(***************************************************************************)
EXTENDS Irq, TLAPS

\* 0 is the vector of an empty entry and of nobody else.
LEMMA NotZero == 0 \notin All /\ Vectors \subseteq All
  BY VectorsAssumption DEF All

\* The types hold when the device is probed.
LEMMA InitTypeOK == Init => TypeOK
<1> SUFFICES ASSUME Init PROVE TypeOK
  OBVIOUS
<1>1. ev \in [All -> [vector : All \cup {0}, handler : BOOLEAN]]
  BY DEF Init, Empty
<1>2. edges \in [All -> Nat] /\ calls \in [All -> Nat]
  BY DEF Init
<1>3. QED
  BY <1>1, <1>2 DEF Init, TypeOK

\* Storing a truth value as an entry's handler keeps the table's type.
LEMMA HandlerTyped ==
  ASSUME NEW e \in [All -> [vector : All \cup {0}, handler : BOOLEAN]],
         NEW v \in All, NEW b \in BOOLEAN
  PROVE  [e EXCEPT ![v].handler = b] \in [All -> [vector : All \cup {0}, handler : BOOLEAN]]
  OBVIOUS

\* Every step keeps the types.
LEMMA NextTypeOK == TypeOK /\ [Next]_vars => TypeOK'
<1> SUFFICES ASSUME TypeOK, [Next]_vars PROVE TypeOK'
  OBVIOUS
<1> USE NotZero
<1>1. ASSUME NEW v \in All, EngineOn(v) PROVE TypeOK'
  BY <1>1 DEF EngineOn, TypeOK, tableVars, histVars
<1>2. ASSUME NEW v \in All, Edge(v) PROVE TypeOK'
  BY <1>2 DEF Edge, TypeOK, tableVars
<1>3. CASE IrqEnter
  BY <1>3 DEF IrqEnter, TypeOK, tableVars, hwVars, histVars
<1>4. CASE IrqScan
  <2>1. PICK v \in isr.todo :
          /\ status' = status \ InWord(isr.st, v)
          /\ isr' = [isr EXCEPT !.v = v, !.todo = @ \ {v},
                                !.pc = IF ev[v].vector = v THEN "call" ELSE "scan"]
          /\ fault' = IF table = "live" THEN fault ELSE "table"
    BY <1>4 DEF IrqScan
  <2>2. v \in All /\ isr.todo \ {v} \in SUBSET All
    BY DEF TypeOK
  <2>3. isr' \in [pc : {"scan", "call"}, v : All, st : SUBSET All, todo : SUBSET All]
    BY <2>1, <2>2 DEF TypeOK
  <2>4. isr'.todo \subseteq isr'.st
    BY <2>1 DEF TypeOK
  <2>5. QED
    BY <1>4, <2>1, <2>3, <2>4 DEF IrqScan, TypeOK, tableVars, histVars
<1>5. CASE IrqCall
  <2>1. fault' \in {"none", "table", "null", "stream"}
    <3>1. fault \in {"none", "table", "null", "stream"}
      BY DEF TypeOK
    <3>2. CASE table # "live"
      BY <1>5, <3>2 DEF IrqCall
    <3>3. CASE table = "live" /\ ~ev[isr.v].handler
      BY <1>5, <3>3 DEF IrqCall
    <3>4. CASE table = "live" /\ ev[isr.v].handler
      BY <1>5, <3>1, <3>4 DEF IrqCall
    <3>5. QED
      BY <3>2, <3>3, <3>4
  <2>2. calls' \in [All -> Nat]
    <3>1. calls \in [All -> Nat] /\ calls' = [calls EXCEPT ![isr.v] = calls[isr.v] + 1]
      BY <1>5 DEF IrqCall, TypeOK
    <3>2. CASE isr.v \in All
      BY <3>1, <3>2
    <3>3. CASE isr.v \notin All
      BY <3>1, <3>3
    <3>4. QED
      BY <3>2, <3>3
  <2>3. QED
    BY <1>5, <2>1, <2>2 DEF IrqCall, TypeOK, tableVars, hwVars
<1>6. CASE EvHandler
  BY <1>6 DEF EvHandler, TypeOK, tableVars, hwVars, histVars
<1>7. CASE IrqLeave
  BY <1>7 DEF IrqLeave, TypeOK, tableVars, hwVars, histVars
<1>8. CASE PciInit \/ MsiInit \/ MsiInitFails
  <2>1. ev' \in [All -> [vector : All \cup {0}, handler : BOOLEAN]]
    <3>1. CASE PciInit
      BY <3>1 DEF PciInit, Empty
    <3>2. CASE MsiInit \/ MsiInitFails
      BY <3>2 DEF MsiInit, MsiInitFails, TypeOK
    <3>3. QED
      BY <1>8, <3>1, <3>2
  <2>2. thr' \in [pc : {"msi_init", "add", "pci_exit"}, v : Vectors \cup {0}, todo : SUBSET Vectors]
    BY <1>8 DEF PciInit, MsiInit, MsiInitFails, Goto, TypeOK
  <2>3. QED
    BY <1>8, <2>1, <2>2 DEF PciInit, MsiInit, MsiInitFails, TypeOK, hwVars, histVars
<1>9. CASE StreamInit
  <2>1. PICK v \in thr.todo : /\ streams' = streams \cup {v} /\ on' = on \ {v}
                              /\ thr' = [pc |-> "enable", v |-> v, todo |-> thr.todo \ {v}]
    BY <1>9 DEF StreamInit
  <2>2. v \in Vectors /\ thr.todo \ {v} \in SUBSET Vectors
    BY DEF TypeOK
  <2>3. thr' \in [pc : {"enable"}, v : Vectors \cup {0}, todo : SUBSET Vectors]
    BY <2>1, <2>2
  <2>4. QED
    BY <1>9, <2>1, <2>2, <2>3 DEF StreamInit, TypeOK, tableVars, histVars
<1>10. CASE DvbInitFails \/ SetupVector
  BY <1>10 DEF DvbInitFails, SetupVector, At, Goto, TypeOK, tableVars, hwVars, histVars
<1>11. CASE AddHandler \/ AddVector
  <2>1. ev' \in [All -> [vector : All \cup {0}, handler : BOOLEAN]]
    <3>1. CASE AddHandler
      <4>1. (thr.v \in Handled) \in BOOLEAN
        OBVIOUS
      <4>2. ev' = [ev EXCEPT ![thr.v].handler = thr.v \in Handled]
        BY <3>1 DEF AddHandler
      <4>3. thr.v \in All /\ ev \in [All -> [vector : All \cup {0}, handler : BOOLEAN]]
        BY <3>1 DEF AddHandler, At, TypeOK, All
      <4>4. QED
        BY <4>1, <4>2, <4>3, HandlerTyped, Zenon
    <3>2. CASE AddVector
      BY <3>2 DEF AddVector, At, TypeOK
    <3>3. QED
      BY <1>11, <3>1, <3>2
  <2>2. QED
    BY <1>11, <2>1 DEF AddHandler, AddVector, At, Goto, TypeOK, hwVars, histVars
<1>12. CASE DvbExit \/ StreamExit
  <2>1. ASSUME NEW S \in SUBSET Vectors, NextAdapter(S)
        PROVE  /\ thr' \in [pc : {"msi_exit", "remove"}, v : Vectors \cup {0},
                            todo : SUBSET Vectors]
               /\ thr'.pc = "remove" => thr'.v \in Vectors
    BY <2>1 DEF NextAdapter, TypeOK
  <2>2. /\ thr' \in [pc : {"msi_exit", "remove"}, v : Vectors \cup {0}, todo : SUBSET Vectors]
        /\ thr'.pc = "remove" => thr'.v \in Vectors
    BY <1>12, <2>1 DEF DvbExit, StreamExit, TypeOK
  <2>3. QED
    BY <1>12, <2>2 DEF DvbExit, StreamExit, TypeOK, tableVars, hwVars, histVars
<1>13. CASE RemoveVector \/ RemoveHandler \/ DisableVector
  <2>1. ev' \in [All -> [vector : All \cup {0}, handler : BOOLEAN]]
    <3>1. CASE RemoveVector
      BY <3>1 DEF RemoveVector, At, TypeOK
    <3>2. CASE RemoveHandler
      BY <3>2, ZenonT(60) DEF RemoveHandler, At, TypeOK
    <3>3. CASE DisableVector
      BY <3>3 DEF DisableVector, TypeOK, tableVars
    <3>4. QED
      BY <1>13, <3>1, <3>2, <3>3
  <2>2. thr' \in [pc : {"unhandle", "disable", "stream_exit"}, v : Vectors,
                  todo : SUBSET Vectors]
    BY <1>13 DEF RemoveVector, RemoveHandler, DisableVector, At, Goto, TypeOK
  <2>3. QED
    BY <1>13, <2>1, <2>2 DEF RemoveVector, RemoveHandler, DisableVector, TypeOK, tableVars,
       hwVars, histVars
<1>14. CASE MsiExit \/ PciExit
  BY <1>14, ZenonT(60) DEF MsiExit, PciExit, At, Goto, TypeOK, tableVars, hwVars, histVars
<1>15. CASE UNCHANGED vars
  BY <1>15 DEF vars, tableVars, hwVars, histVars, TypeOK
<1>16. QED
  BY <1>1, <1>2, <1>3, <1>4, <1>5, <1>6, <1>7, <1>8, <1>9, <1>10, <1>11, <1>12, <1>13,
     <1>14, <1>15 DEF Next, Isr, Probe, Remove

\* The type invariant of interrupt dispatch.
THEOREM TypeCorrect == Spec => []TypeOK
  BY InitTypeOK, NextTypeOK, PTL DEF Spec

-----------------------------------------------------------------------------
(* One call for each edge. *)

\* The calls the handler still owes vector v: one for a bit it will find or
\* has found, one for the entry that has just matched.
Found(v) == IF v \in status \cup isr.todo THEN 1 ELSE 0

\* The handler has found the event of vector v and is about to call it.
Matched(v) == IF isr.pc = "call" /\ isr.v = v THEN 1 ELSE 0

\* Each of them stands for an edge that has not been answered.
Owed == \A v \in All : calls[v] + Found(v) + Matched(v) <= edges[v]

\* Every step keeps the account of calls.
LEMMA NextOwed == TypeOK /\ Owed /\ [Next]_vars => Owed'
<1> SUFFICES ASSUME TypeOK, Owed, [Next]_vars, NEW v \in All
             PROVE  (calls[v] + Found(v) + Matched(v) <= edges[v])'
  BY DEF Owed
<1>1. calls[v] \in Nat /\ edges[v] \in Nat /\ calls[v] + Found(v) + Matched(v) <= edges[v]
  BY DEF TypeOK, Owed
<1>2. ASSUME NEW u \in All, Edge(u) PROVE (calls[v] + Found(v) + Matched(v) <= edges[v])'
  <2>1. /\ calls' = calls /\ isr' = isr /\ status' = status \cup {u}
        /\ edges'[v] = IF u = v THEN edges[v] + 1 ELSE edges[v]
    BY <1>2 DEF Edge, TypeOK
  <2>2. QED
    BY <1>1, <2>1 DEF Found, Matched
<1>3. CASE IrqScan
  <2>1. PICK u \in isr.todo :
          /\ status' = status \ InWord(isr.st, u)
          /\ isr' = [isr EXCEPT !.v = u, !.todo = @ \ {u},
                                !.pc = IF ev[u].vector = u THEN "call" ELSE "scan"]
    BY <1>3 DEF IrqScan
  <2>2. /\ isr'.v = u /\ isr'.todo = isr.todo \ {u} /\ isr.pc = "scan"
        /\ calls' = calls /\ edges' = edges
    BY <1>3, <2>1 DEF IrqScan, TypeOK, histVars
  <2>3. u \notin status'
    BY <2>1 DEF InWord, TypeOK
  <2>4. CASE u = v
    <3>1. Found(v) = 1 /\ Matched(v) = 0
      BY <2>2, <2>4 DEF Found, Matched
    <3>2. v \notin status'
      BY <2>3, <2>4
    <3>3. Found(v)' = 0 /\ Matched(v)' <= 1 /\ Matched(v)' \in Nat
      BY <2>2, <2>4, <3>2 DEF Found, Matched
    <3>4. QED
      BY <1>1, <2>2, <3>1, <3>3
  <2>5. CASE u # v
    <3>1. Matched(v)' = 0 /\ Matched(v) = 0
      BY <2>2, <2>5 DEF Matched
    <3>2. Found(v)' <= Found(v) /\ Found(v)' \in Nat /\ Found(v) \in Nat
      BY <2>1, <2>2 DEF Found
    <3>3. QED
      BY <1>1, <2>2, <3>1, <3>2
  <2>6. QED
    BY <2>4, <2>5
<1>4. CASE IrqCall
  <2>1. /\ isr.pc = "call" /\ isr'.pc = "run" /\ status' = status /\ isr'.todo = isr.todo
        /\ calls'[v] = (IF isr.v = v THEN calls[v] + 1 ELSE calls[v]) /\ edges' = edges
    BY <1>4 DEF IrqCall, TypeOK, hwVars
  <2>2. QED
    BY <1>1, <2>1 DEF Found, Matched
<1>5. CASE IrqEnter \/ EvHandler \/ IrqLeave
  <2>1. /\ isr.pc # "call" /\ isr'.pc # "call" /\ status' = status
        /\ isr'.todo \subseteq status \cup isr.todo
        /\ calls' = calls /\ edges' = edges
    BY <1>5 DEF IrqEnter, EvHandler, IrqLeave, TypeOK, hwVars, histVars
  <2>2. QED
    BY <1>1, <2>1 DEF Found, Matched
<1>6. CASE Probe \/ Remove \/ (\E u \in All : EngineOn(u)) \/ UNCHANGED vars
  <2>1. isr' = isr /\ status' \subseteq status /\ calls' = calls /\ edges' = edges
    BY <1>6 DEF Probe, PciInit, MsiInit, MsiInitFails, StreamInit, DvbInitFails, SetupVector,
       AddHandler, AddVector, Remove, DvbExit, RemoveVector, RemoveHandler, DisableVector,
       StreamExit, MsiExit, PciExit, EngineOn, hwVars, histVars, vars
  <2>2. QED
    BY <1>1, <2>1 DEF Found, Matched
<1>7. QED
  BY <1>2, <1>3, <1>4, <1>5, <1>6 DEF Next, Isr

\* A handler is called for edges of its own vector, at most once for each, for
\* any vectors and however they share registers.
THEOREM CallsAreAnswers == Spec => []NoSpuriousCall
<1>1. Init => Owed
  <2> SUFFICES ASSUME Init, NEW v \in All PROVE calls[v] + Found(v) + Matched(v) <= edges[v]
    BY DEF Owed
  <2>1. calls[v] = 0 /\ edges[v] = 0 /\ status = {} /\ isr.todo = {} /\ isr.pc = "idle"
    BY DEF Init
  <2>2. QED
    BY <2>1 DEF Found, Matched
<1>2. TypeOK /\ Owed => NoSpuriousCall
  <2> SUFFICES ASSUME TypeOK, Owed, NEW v \in Vectors PROVE calls[v] <= edges[v]
    BY DEF NoSpuriousCall
  <2>1. calls[v] \in Nat /\ edges[v] \in Nat /\ calls[v] + Found(v) + Matched(v) <= edges[v]
    BY NotZero DEF TypeOK, Owed
  <2>2. QED
    BY <2>1 DEF Found, Matched
<1>3. QED
  BY <1>1, <1>2, InitTypeOK, NextTypeOK, NextOwed, PTL DEF Spec

-----------------------------------------------------------------------------
(* Dispatch is safe while the device is served. *)

\* A registered entry has its handler and its stream; the one being added
\* has its stream first and its handler before its vector.
Wired ==
  /\ table = "live"
  /\ \A v \in All : ev[v].vector = v => ev[v].handler /\ v \in streams
  /\ thr.pc \in {"enable", "handler", "vector"} => thr.v \in streams
  /\ thr.pc = "vector" => ev[thr.v].handler
  /\ isr.pc \in {"call", "run"} => isr.v \in All /\ ev[isr.v].vector = isr.v

\* What SafeDispatch needs to be kept.
DispatchInv ==
  /\ thr.pc = "unbound" => ~requested /\ isr.pc = "idle"
  /\ thr.pc = "msi_init" => /\ \A v \in All : ev[v].vector = 0
                            /\ isr.pc \in {"idle", "scan"}
  /\ Serving => Wired /\ fault = "none"

\* Every step keeps a dispatch safe.
LEMMA NextDispatch ==
  ASSUME Handled = Vectors
  PROVE  TypeOK /\ DispatchInv /\ [Next]_vars => DispatchInv'
<1> SUFFICES ASSUME TypeOK, DispatchInv, [Next]_vars PROVE DispatchInv'
  OBVIOUS
<1> USE NotZero
<1>1. CASE Isr
  <2>1. thr' = thr /\ requested' = requested /\ ev' = ev /\ table' = table /\ streams' = streams
    BY <1>1 DEF Isr, IrqEnter, IrqScan, IrqCall, EvHandler, IrqLeave, tableVars
  <2>2. ASSUME thr.pc = "unbound" PROVE ~requested' /\ isr'.pc = "idle"
    BY <1>1, <2>1, <2>2 DEF Isr, IrqEnter, IrqScan, IrqCall, EvHandler, IrqLeave, DispatchInv
  <2>3. ASSUME thr.pc = "msi_init"
        PROVE  (\A v \in All : ev'[v].vector = 0) /\ isr'.pc \in {"idle", "scan"}
    <3>1. (\A v \in All : ev[v].vector = 0) /\ isr.pc \in {"idle", "scan"}
      BY <2>3 DEF DispatchInv
    <3>2. CASE IrqScan
      <4>1. PICK v \in isr.todo :
              isr' = [isr EXCEPT !.v = v, !.todo = @ \ {v},
                                 !.pc = IF ev[v].vector = v THEN "call" ELSE "scan"]
        BY <3>2 DEF IrqScan
      <4>2. ev[v].vector # v
        BY <3>1 DEF TypeOK
      <4>3. QED
        BY <2>1, <3>1, <4>1, <4>2 DEF TypeOK
    <3>3. CASE IrqEnter \/ IrqCall \/ EvHandler \/ IrqLeave
      BY <2>1, <3>1, <3>3 DEF IrqEnter, IrqCall, EvHandler, IrqLeave, TypeOK
    <3>4. QED
      BY <1>1, <3>2, <3>3 DEF Isr
  <2>4. ASSUME Serving PROVE Wired' /\ fault' = "none"
    <3>1. Wired /\ fault = "none"
      BY <2>4 DEF DispatchInv
    <3>2. isr'.pc \in {"call", "run"} => isr'.v \in All /\ ev[isr'.v].vector = isr'.v
      <4>1. CASE IrqScan
        <5>1. PICK v \in isr.todo :
                isr' = [isr EXCEPT !.v = v, !.todo = @ \ {v},
                                   !.pc = IF ev[v].vector = v THEN "call" ELSE "scan"]
          BY <4>1 DEF IrqScan
        <5>2. v \in All /\ isr'.v = v /\ isr'.pc = IF ev[v].vector = v THEN "call" ELSE "scan"
          BY <5>1 DEF TypeOK
        <5>3. QED
          BY <5>2
      <4>2. CASE IrqCall
        BY <3>1, <4>2 DEF IrqCall, Wired, TypeOK
      <4>3. CASE IrqEnter \/ EvHandler \/ IrqLeave
        BY <4>3 DEF IrqEnter, EvHandler, IrqLeave, TypeOK
      <4>4. QED
        BY <1>1, <4>1, <4>2, <4>3 DEF Isr
    <3>3. fault' = "none"
      <4>1. isr.pc \in {"call", "run"} => ev[isr.v].handler /\ isr.v \in streams
        BY <3>1 DEF Wired
      <4>2. CASE IrqCall
        BY <3>1, <4>1, <4>2 DEF IrqCall, Wired
      <4>3. CASE EvHandler
        BY <3>1, <4>1, <4>3 DEF EvHandler
      <4>4. CASE IrqEnter \/ IrqScan \/ IrqLeave
        BY <3>1, <4>4 DEF IrqEnter, IrqScan, IrqLeave, Wired
      <4>5. QED
        BY <1>1, <4>2, <4>3, <4>4 DEF Isr
    <3>4. QED
      BY <2>1, <3>1, <3>2, <3>3 DEF Wired
  <2>5. QED
    BY <2>1, <2>2, <2>3, <2>4 DEF DispatchInv, Serving
<1>2. CASE fault = "none" /\ (\E v \in All : EngineOn(v) \/ Edge(v))
  BY <1>2 DEF EngineOn, Edge, DispatchInv, Wired, Serving, tableVars
<1>3. CASE fault = "none" /\ Remove
  <2>1. thr'.pc \in {"remove", "unhandle", "disable", "stream_exit", "msi_exit", "pci_exit"}
        \/ (thr'.pc = "unbound" /\ ~requested' /\ isr'.pc = "idle")
    BY <1>3 DEF Remove, DvbExit, RemoveVector, RemoveHandler, DisableVector, StreamExit,
       MsiExit, PciExit, NextAdapter, Goto, TypeOK
  <2>2. QED
    BY <2>1 DEF DispatchInv, Serving
<1>4. CASE fault = "none" /\ PciInit
  <2>1. isr' = isr /\ isr.pc = "idle" /\ thr'.pc = "msi_init"
    BY <1>4 DEF PciInit, At, Goto, DispatchInv, TypeOK
  <2>2. \A v \in All : ev'[v].vector = 0
    BY <1>4 DEF PciInit, Empty
  <2>3. QED
    BY <2>1, <2>2 DEF DispatchInv, Serving
<1>5. CASE fault = "none" /\ MsiInit
  <2>1. /\ thr'.pc = "add" /\ table' = "live" /\ fault' = "none"
        /\ isr' = isr /\ ev' = ev /\ isr.pc \in {"idle", "scan"}
        /\ \A v \in All : ev[v].vector # v
    BY <1>5 DEF MsiInit, At, DispatchInv
  <2>2. QED
    BY <2>1 DEF DispatchInv, Serving, Wired
<1>6. CASE MsiInitFails \/ DvbInitFails
  BY <1>6 DEF MsiInitFails, DvbInitFails, Goto, DispatchInv, Serving, TypeOK
<1>7. CASE fault = "none" /\ StreamInit
  <2>1. Wired /\ At("add")
    BY <1>7 DEF StreamInit, At, DispatchInv, Serving
  <2>2. /\ thr'.pc = "enable" /\ thr'.v \in streams' /\ streams \subseteq streams'
        /\ fault' = "none" /\ isr' = isr /\ ev' = ev /\ table' = table
    BY <1>7 DEF StreamInit, tableVars
  <2>3. QED
    BY <2>1, <2>2 DEF DispatchInv, Serving, Wired
<1>8. CASE fault = "none" /\ SetupVector
  <2>1. Wired /\ thr.pc = "enable"
    BY <1>8 DEF SetupVector, At, DispatchInv, Serving
  <2>2. /\ thr'.pc = "handler" /\ thr'.v = thr.v /\ streams' = streams
        /\ fault' = "none" /\ isr' = isr /\ ev' = ev /\ table' = table
    BY <1>8 DEF SetupVector, Goto, tableVars, TypeOK
  <2>3. QED
    BY <2>1, <2>2 DEF DispatchInv, Serving, Wired
<1>9. CASE fault = "none" /\ AddHandler
  <2>1. Wired /\ thr.pc = "handler" /\ thr.v \in Vectors
    BY <1>9 DEF AddHandler, At, DispatchInv, Serving, TypeOK
  <2>2. /\ thr'.pc = "vector" /\ thr'.v = thr.v /\ streams' = streams
        /\ fault' = "none" /\ isr' = isr /\ table' = table
    BY <1>9 DEF AddHandler, Goto, TypeOK
  <2>3. \A v \in All : /\ ev'[v].vector = ev[v].vector
                       /\ ev[v].handler => ev'[v].handler
    BY <1>9, <2>1 DEF AddHandler, TypeOK
  <2>4. ev'[thr.v].handler
    <3>1. (thr.v \in Handled) = TRUE
      BY <2>1
    <3>2. ev' = [ev EXCEPT ![thr.v].handler = TRUE]
      BY <1>9, <3>1, Zenon DEF AddHandler
    <3>3. thr.v \in All
      BY <2>1, VectorsAssumption
    <3>4. QED
      BY <3>2, <3>3 DEF TypeOK
  <2>5. QED
    BY <2>1, <2>2, <2>3, <2>4 DEF DispatchInv, Serving, Wired
<1>10. CASE fault = "none" /\ AddVector
  <2>1. Wired /\ thr.pc = "vector" /\ thr.v \in Vectors
    BY <1>10 DEF AddVector, At, DispatchInv, Serving, TypeOK
  <2>2. /\ thr'.pc \in {"bound", "add"} /\ streams' = streams
        /\ fault' = "none" /\ isr' = isr /\ table' = table
    BY <1>10 DEF AddVector, Goto, TypeOK
  <2>3. \A v \in All : /\ v # thr.v => ev'[v].vector = ev[v].vector
                       /\ v = thr.v => ev'[v].vector = v
                       /\ ev'[v].handler = ev[v].handler
    BY <1>10, <2>1 DEF AddVector, TypeOK
  <2>4. QED
    BY <2>1, <2>2, <2>3 DEF DispatchInv, Serving, Wired
<1>11. CASE UNCHANGED vars
  BY <1>11 DEF vars, tableVars, DispatchInv, Serving, Wired
<1>12. QED
  BY <1>1, <1>2, <1>3, <1>4, <1>5, <1>6, <1>7, <1>8, <1>9, <1>10, <1>11 DEF Next, Probe

\* If every adapter's vector has a handler in dvbstr_tbl, no interrupt reaches
\* a missing table, handler or stream from the end of saa7231_msi_init until
\* remove begins, for any vectors and any interleaving.
THEOREM DispatchIsSafe ==
  ASSUME Handled = Vectors
  PROVE  Spec => []SafeDispatch
<1>1. Init => DispatchInv
  BY DEF Init, DispatchInv, Serving
<1>2. DispatchInv => SafeDispatch
  BY DEF DispatchInv, SafeDispatch
<1>3. TypeOK /\ DispatchInv /\ [Next]_vars => DispatchInv'
  BY NextDispatch
<1>4. QED
  BY <1>1, <1>2, <1>3, InitTypeOK, NextTypeOK, PTL DEF Spec
=============================================================================
