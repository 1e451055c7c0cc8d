------------------------------ MODULE ByteFifo ------------------------------
(***************************************************************************)
(* What the ring buffer between the demux callback and read() promises: a  *)
(* bounded queue of bytes.  The reader gets the bytes in the order they    *)
(* were put, each once; bytes are thrown away only together with an error  *)
(* that stays raised until the reader has taken it.                        *)
(***************************************************************************)
EXTENDS Naturals, Sequences

CONSTANT Cap      \* the most bytes the queue holds

VARIABLES q,      \* the bytes put and not taken
          user,   \* the bytes the reader got, in order
          err     \* an error is raised

vars == <<q, user, err>>

Init == q = <<>> /\ user = <<>> /\ err = FALSE

(* Bytes are numbered <<chunk, offset>> in the order they are produced. *)
Before(a, b) == a[1] < b[1] \/ (a[1] = b[1] /\ a[2] < b[2])

(* Bytes are put that are later than all that were put before. *)
Put == /\ Len(q') \in (Len(q) + 1)..Cap
       /\ SubSeq(q', 1, Len(q)) = q
       /\ \A i \in (Len(q) + 1)..Len(q') :
            /\ \A j \in 1..(i - 1) : Before(q'[j], q'[i])
            /\ user # <<>> => Before(user[Len(user)], q'[i])
       /\ UNCHANGED <<user, err>>

Get == /\ \E n \in 1..Len(q) :
            /\ user' = user \o SubSeq(q, 1, n)
            /\ q' = SubSeq(q, n + 1, Len(q))
       /\ UNCHANGED err

(* The queue is full: it is emptied and the reader is told. *)
Overflow == q' = <<>> /\ err' = TRUE /\ UNCHANGED user

(* The error of a section filter that waited too long. *)
Timeout == err' = TRUE /\ UNCHANGED <<q, user>>

(* The reader takes an error: it first empties the queue. *)
Discard == err /\ q' = <<>> /\ UNCHANGED <<user, err>>
Report == err' = FALSE /\ UNCHANGED <<q, user>>

Next == Put \/ Get \/ Overflow \/ Timeout \/ Discard \/ Report

Spec == Init /\ [][Next]_vars
=============================================================================
