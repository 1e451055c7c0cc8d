------------------------------- MODULE CaRead -------------------------------
(***************************************************************************)
(* Reading from a CA device (dvb-core/dvb_ca_en50221.c): the thread stores *)
(* the fragments a CAM sends in the slot's rx_buffer, a buffer of packets  *)
(* (dvb_ringbuffer_pkt_write), and read() puts the fragments of a message  *)
(* together, packet by packet.  The thread holds the slot's lock and       *)
(* read() holds none, and a packet that wraps at the end of the buffer can *)
(* be met half written.  Which packets wrap depends on their sizes, so any *)
(* may.  A fragment is <<connection, message, number, last>>: its second   *)
(* byte says whether more of the message follows.  One task reads.         *)
(***************************************************************************)
EXTENDS Integers, Sequences, FiniteSets, SequencesExt

CONSTANTS
  slot_count,  \* slots of the interface
  Connections, \* ids of transport connections
  RXSIZE,      \* packets that fit in an rx_buffer
  Wraps,       \* whether the packets have come to the end of an rx_buffer
  MaxFrags,    \* bound: fragments of a message
  MaxMsgs      \* bound: messages the CAMs begin

ASSUME CaReadAssumption ==
  /\ slot_count \in Nat \ {0} /\ RXSIZE \in Nat \ {0}
  /\ Connections \subseteq Nat /\ Wraps \in BOOLEAN
  /\ MaxFrags \in Nat \ {0} /\ MaxMsgs \in Nat

VARIABLES
  rx,             \* per slot, the packets: a fragment f, whether disposed
                  \* and whether wholly written
  corrupt,        \* slots where pread is not at the start of a packet
  storing,        \* the packet in dvb_ringbuffer_pkt_write
  running,        \* per slot, slot_state = RUNNING
  open,           \* ca->open
  next_read_slot,
  reader,         \* the locals of dvb_ca_en50221_io_read
  cam,            \* per slot and connection: <<message, fragments sent>>
  begun,          \* history: messages begun
  cut,            \* history: messages a part of which no read returns
  got             \* history: the last read: slot, frags, status

vars == <<rx, corrupt, storing, running, open, next_read_slot, reader, cam,
          begun, cut, got>>

Slots == 0..(slot_count - 1)
NoSlot == -1
NoConn == -1
Idle == <<0, 0>>

Conn(f) == f[1]
Msg(f) == f[2]
IsLast(f) == f[4]

(* how far a packet is: its header is in (not seen yet), its first part is *)
(* (pwrite = 0: read() sees it), or read() has disposed of it meanwhile    *)
NotStoring == [slot |-> NoSlot, f |-> <<>>, part |-> "none"]
NotReading ==
  [slot |-> NoSlot, conn |-> NoConn, at |-> 0, frags |-> <<>>,
   short |-> FALSE, torn |-> FALSE]

(* dvb_ringbuffer_pkt_next, from the start: the packets that are ready *)
Ready(s) == SelectSeq(rx[s], LAMBDA p : ~p.disposed)

(* mutant: the packets are marked and their space never comes back *)
DisposedMarked(q, i) == [q EXCEPT ![i].disposed = TRUE]

(* mutant: a packet in the middle takes those before it with it *)
DisposedToo(q, i) == SubSeq(q, i + 1, Len(q))

(* dvb_ringbuffer_pkt_dispose: space comes back once all before it is gone *)
Disposed(q, i) ==
  LET marked == [q EXCEPT ![i].disposed = TRUE]
      live == {j \in 1..Len(q) : ~marked[j].disposed}
  IN IF live = {} THEN <<>>
     ELSE SubSeq(marked, CHOOSE j \in live : \A k \in live : j <= k, Len(q))

-----------------------------------------------------------------------------
(* dvb_ca_en50221_io_read_condition: a slot whose next message is complete.*)
(* The connection is that of the first packet met, in whatever slot.       *)
Scanned ==
  LET scan[i \in 0..slot_count] ==
        IF i = 0 THEN [conn |-> NoConn, found |-> NoSlot]
        ELSE LET before == scan[i - 1]
                 s == (next_read_slot + i - 1) % slot_count
                 ps == Ready(s)
                 c == IF before.conn = NoConn /\ ps # <<>> THEN Conn(ps[1].f)
                      ELSE before.conn
             IN IF before.found # NoSlot \/ ~running[s] THEN before
                ELSE [conn |-> c,
                      found |-> IF \E k \in DOMAIN ps : Conn(ps[k].f) = c /\ IsLast(ps[k].f)
                                THEN s ELSE NoSlot]
  IN scan[slot_count].found

(* dvb_ringbuffer_pkt_next: the first ready packet after index i, or 0 *)
NextReady(q, i) ==
  LET live == {j \in (i + 1)..Len(q) : ~q[j].disposed}
  IN IF live = {} THEN 0 ELSE CHOOSE j \in live : \A k \in live : j <= k

(* read() ends: the messages it took a part of and does not return are cut *)
EndRead(status) ==
  /\ reader' = NotReading
  /\ got' = [slot |-> reader.slot, frags |-> reader.frags, status |-> status]
  /\ cut' = cut \cup {Msg(reader.frags[k]) : k \in DOMAIN reader.frags}

(* dvb_ca_en50221_io_read: the condition holds, and moves next_read_slot on*)
BeginRead ==
  /\ open /\ reader = NotReading /\ Scanned # NoSlot
  /\ reader' = [NotReading EXCEPT !.slot = Scanned,
                                  !.at = NextReady(rx[Scanned], 0)]
  /\ next_read_slot' = (Scanned + 1) % slot_count
  /\ UNCHANGED <<rx, corrupt, storing, running, open, cam, begun, cut, got>>

(* a packet of another connection stays *)
PassPacket ==
  /\ reader.slot # NoSlot /\ reader.at # 0 /\ reader.conn # NoConn
  /\ LET q == rx[reader.slot]
     IN /\ Conn(q[reader.at].f) # reader.conn
        /\ reader' = [reader EXCEPT !.at = NextReady(q, @)]
  /\ UNCHANGED <<rx, corrupt, storing, running, open, next_read_slot, cam,
                 begun, cut, got>>

(* mutant: the packets of all connections are taken *)
AnyConn(f) == TRUE

(* hdr[0] == connection_id, which the first packet sets *)
Mine(f) == reader.conn \in {NoConn, Conn(f)}

(* the status a read with these locals returns after the last fragment *)
Status(r) == IF r.torn THEN "torn" ELSE IF r.short THEN "short" ELSE "ok"

(* A packet of the connection: its payload is copied as far as the         *)
(* caller's count goes (short: it ended in this packet or before), the     *)
(* next one is looked up, and it is disposed of.  Disposing of a packet    *)
(* half written may leave pread where it will end or, when the bytes left  *)
(* there from before read as a disposed packet, somewhere behind.          *)
TakePacket(short) ==
  LET s == reader.slot
      q == rx[s]
      p == q[reader.at]
      left == Disposed(q, reader.at)
      ahead == ~q[Len(q)].whole /\ left = <<>>
      next == NextReady(q, reader.at)
      r == [reader EXCEPT !.conn = Conn(p.f),
                          !.at = IF next = 0 THEN 0 ELSE next - (Len(q) - Len(left)),
                          !.frags = Append(@, p.f),
                          !.short = short,
                          !.torn = @ \/ ~p.whole]
  IN /\ s # NoSlot /\ reader.at # 0 /\ Mine(p.f)
     /\ reader.short => short
     /\ rx' = [rx EXCEPT ![s] = left]
     /\ IF ahead THEN storing' = [storing EXCEPT !.part = "taken"]
                 ELSE UNCHANGED storing
     /\ \/ UNCHANGED corrupt
        \/ ahead /\ corrupt' = corrupt \cup {s}
     /\ IF ~IsLast(p.f)
        THEN reader' = r /\ UNCHANGED <<got, cut>>
        ELSE \E status \in {Status(r), "fault"} :
               /\ reader' = NotReading
               /\ got' = [slot |-> s, frags |-> r.frags, status |-> status]
               /\ cut' = IF status \in {"ok", "short"} THEN cut
                         ELSE cut \cup {Msg(r.frags[k]) : k \in DOMAIN r.frags}
     /\ UNCHANGED <<running, open, next_read_slot, cam, begun>>

(* "BUG: read packet ended before last_fragment encountered" *)
ReadBug ==
  /\ reader.slot # NoSlot /\ reader.at = 0
  /\ EndRead("eio")
  /\ UNCHANGED <<rx, corrupt, storing, running, open, next_read_slot, cam, begun>>

(* the caller's memory faults: the fragments copied before are gone *)
ReadFaults ==
  /\ reader.slot # NoSlot /\ reader.at # 0 /\ Mine(rx[reader.slot][reader.at].f)
  /\ EndRead("fault")
  /\ UNCHANGED <<rx, corrupt, storing, running, open, next_read_slot, cam, begun>>

(* a read of a slot where pread is not at the start of a packet, or is     *)
(* ahead of pwrite: whatever the bytes there read as                       *)
ReadGarbage(s) ==
  /\ open /\ reader = NotReading /\ running[s]
  /\ s \in corrupt \/ (storing.slot = s /\ storing.part = "taken")
  /\ got' = [slot |-> s, frags |-> <<>>, status |-> "torn"]
  /\ next_read_slot' = (s + 1) % slot_count
  /\ corrupt' = corrupt \cup {s}
  /\ UNCHANGED <<rx, storing, running, open, reader, cam, begun, cut>>

(* dvb_ca_en50221_io_poll evaluates the condition, which moves on to the   *)
(* next slot, and reads nothing                                            *)
Poll ==
  /\ open /\ Scanned # NoSlot
  /\ next_read_slot' = (Scanned + 1) % slot_count
  /\ UNCHANGED <<rx, corrupt, storing, running, open, reader, cam, begun, cut, got>>

-----------------------------------------------------------------------------
(* dvb_ca_en50221_read_data: the CAM sends a fragment, there is room, and  *)
(* dvb_ringbuffer_pkt_write begins                                         *)
Receive(s, c, last) ==
  /\ running[s] /\ open /\ storing = NotStoring /\ Len(rx[s]) < RXSIZE
  /\ cam[s][c] = Idle => begun < MaxMsgs
  /\ cam[s][c][2] + 1 = MaxFrags => last
  /\ LET m == IF cam[s][c] = Idle THEN begun + 1 ELSE cam[s][c][1]
         k == cam[s][c][2] + 1
     IN /\ storing' = [slot |-> s, f |-> <<c, m, k, last>>, part |-> "begun"]
        /\ cam' = [cam EXCEPT ![s][c] = IF last THEN Idle ELSE <<m, k>>]
        /\ begun' = IF cam[s][c] = Idle THEN begun + 1 ELSE begun
  /\ UNCHANGED <<rx, corrupt, running, open, next_read_slot, reader, cut, got>>

(* dvb_ringbuffer_write: the packet wraps, and pwrite = 0 after its first  *)
(* part, in which the second byte need not be                              *)
StoreFirst(last) ==
  /\ Wraps /\ storing.part = "begun" /\ storing.slot \notin corrupt
  /\ rx' = [rx EXCEPT ![storing.slot] =
               Append(@, [f |-> [storing.f EXCEPT ![4] = last],
                          disposed |-> FALSE, whole |-> FALSE])]
  /\ storing' = [storing EXCEPT !.part = "first"]
  /\ UNCHANGED <<corrupt, running, open, next_read_slot, reader, cam, begun,
                 cut, got>>

(* the packet with all its bytes in place; it stays disposed if it was *)
Finished(q) ==
  IF storing.part = "begun"
  THEN Append(q, [f |-> storing.f, disposed |-> FALSE, whole |-> TRUE])
  ELSE [q EXCEPT ![Len(q)].f = storing.f, ![Len(q)].whole = TRUE]

(* the last store of pwrite.  What is stored behind a pread that is not at *)
(* the start of a packet is not found                                      *)
StoreRest ==
  LET s == storing.slot
  IN /\ storing # NotStoring /\ storing' = NotStoring
     /\ IF s \in corrupt \/ storing.part = "taken"
        THEN rx' = rx /\ cut' = cut \cup {Msg(storing.f)}
        ELSE rx' = [rx EXCEPT ![s] = Finished(@)] /\ cut' = cut
     /\ UNCHANGED <<corrupt, running, open, next_read_slot, reader, cam, begun, got>>

(* the link fails or the CAM is removed: it forgets what it was sending;   *)
(* the rx_buffer stays as it is, also when the slot runs again             *)
Breaks(s) ==
  /\ running[s] /\ running' = [running EXCEPT ![s] = FALSE]
  /\ storing.slot # s
  /\ cut' = cut \cup ({cam[s][c][1] : c \in Connections} \ {0})
  /\ cam' = [cam EXCEPT ![s] = [c \in Connections |-> Idle]]
  /\ UNCHANGED <<rx, corrupt, storing, open, next_read_slot, reader, begun, got>>

Runs(s) ==
  /\ ~running[s] /\ running' = [running EXCEPT ![s] = TRUE]
  /\ storing = NotStoring
  /\ UNCHANGED <<rx, corrupt, storing, open, next_read_slot, reader, cam, begun,
                 cut, got>>

(* dvb_ca_en50221_io_open empties the buffers of the slots that run, with  *)
(* no lock: a message may be cut in two, and a packet being stored since   *)
(* before the release leaves pread in the middle of it                     *)
Open ==
  LET flushed == {s \in Slots : running[s]}
  IN /\ ~open /\ open' = TRUE
     /\ rx' = [s \in Slots |-> IF s \in flushed THEN <<>> ELSE rx[s]]
     /\ cut' = cut \cup UNION {{Msg(rx[s][i].f) : i \in DOMAIN rx[s]} : s \in flushed}
     /\ corrupt' = (corrupt \ flushed) \cup ({storing.slot} \ {NoSlot})
     /\ UNCHANGED <<storing, running, next_read_slot, reader, cam, begun, got>>

Release ==
  /\ open /\ reader = NotReading /\ open' = FALSE
  /\ UNCHANGED <<rx, corrupt, storing, running, next_read_slot, reader, cam,
                 begun, cut, got>>

(* CA_RESET, under each slot's lock, also starts the reader at the first   *)
(* slot                                                                    *)
Reset ==
  /\ open /\ storing = NotStoring /\ next_read_slot' = 0
  /\ running' = [s \in Slots |-> FALSE]
  /\ cut' = cut \cup ({cam[s][c][1] : s \in Slots, c \in Connections} \ {0})
  /\ cam' = [s \in Slots |-> [c \in Connections |-> Idle]]
  /\ UNCHANGED <<rx, corrupt, storing, open, reader, begun, got>>

Init ==
  /\ rx = [s \in Slots |-> <<>>] /\ corrupt = {} /\ storing = NotStoring
  /\ running = [s \in Slots |-> FALSE]
  /\ open = FALSE /\ next_read_slot = 0 /\ reader = NotReading
  /\ cam = [s \in Slots |-> [c \in Connections |-> Idle]]
  /\ begun = 0 /\ cut = {}
  /\ got = [slot |-> 0, frags |-> <<>>, status |-> "none"]

Next ==
  \/ \E s \in Slots :
       \/ Breaks(s) \/ Runs(s) \/ ReadGarbage(s)
       \/ \E c \in Connections, last \in BOOLEAN : Receive(s, c, last)
  \/ (\E last \in BOOLEAN : StoreFirst(last)) \/ StoreRest
  \/ BeginRead \/ PassPacket \/ (\E short \in BOOLEAN : TakePacket(short))
  \/ ReadBug \/ ReadFaults \/ Poll \/ Open \/ Release \/ Reset

Spec == Init /\ [][Next]_vars

-----------------------------------------------------------------------------
Fragments == Connections \X (1..MaxMsgs) \X (1..MaxFrags) \X BOOLEAN

(* The state has its shape; the first packet of a buffer is never disposed,*)
(* the reader is at a packet of its slot that is ready, and only the last  *)
(* packet of the slot being stored to can be half written.                 *)
TypeOK ==
  /\ DOMAIN rx = Slots
  /\ \A s \in Slots :
       /\ Len(rx[s]) <= RXSIZE
       /\ \A i \in DOMAIN rx[s] :
            /\ rx[s][i] \in [f : Fragments, disposed : BOOLEAN, whole : BOOLEAN]
            /\ ~rx[s][i].whole => /\ i = Len(rx[s])
                                  /\ storing.slot = s /\ storing.part = "first"
       /\ rx[s] # <<>> => ~rx[s][1].disposed
  /\ corrupt \subseteq Slots
  /\ storing = NotStoring \/ (/\ storing.slot \in Slots /\ running[storing.slot]
                             /\ storing.f \in Fragments
                             /\ storing.part \in {"begun", "first", "taken"})
  /\ running \in [Slots -> BOOLEAN] /\ open \in BOOLEAN
  /\ next_read_slot \in Slots
  /\ reader.slot \in Slots \cup {NoSlot} /\ reader.conn \in Connections \cup {NoConn}
  /\ reader.at # 0 => /\ reader.at \in DOMAIN rx[reader.slot]
                      /\ ~rx[reader.slot][reader.at].disposed
  /\ cam \in [Slots -> [Connections -> (0..MaxMsgs) \X (0..MaxFrags)]]
  /\ begun \in 0..MaxMsgs /\ cut \subseteq 1..MaxMsgs

(* dvb_ca_en50221_io_read: a read that returns a message to a caller with  *)
(* room for it returns all its fragments in order and nothing else, unless *)
(* it met a packet half written (status "torn"), or a part of the message  *)
(* was cut off before: its link failed, its buffer was flushed, or an      *)
(* earlier read ended in the middle of it with -EFAULT or -EIO.            *)
WholeMessages ==
  got.status = "ok" =>
    \/ \E k \in DOMAIN got.frags : Msg(got.frags[k]) \in cut
    \/ /\ \A k \in DOMAIN got.frags :
            Msg(got.frags[k]) = Msg(got.frags[1]) /\ got.frags[k][3] = k
       /\ IsLast(Last(got.frags))

(* dvb_ca_en50221_io_read (line 1470) calls it a BUG when the packets run  *)
(* out before a last fragment: the condition it waits for is that the slot *)
(* holds a complete message of the connection it reads.                    *)
ReadConditionHolds == got.status # "eio"

(* A packet leaves a buffer only when a read takes it (or open flushes):   *)
(* it is added to what that read has taken, no packet of its connection    *)
(* before it stays, and no other packet goes with it - so the messages of  *)
(* a connection are read in the order they were sent, and none twice.      *)
OnceInOrder ==
  [][open => \A s \in Slots : \A i \in DOMAIN rx[s] :
       LET f == rx[s][i].f
           kept == \E j \in DOMAIN rx'[s] :
                     ~rx'[s][j].disposed /\ SubSeq(rx'[s][j].f, 1, 3) = SubSeq(f, 1, 3)
           taken == IF reader' # NotReading THEN reader'.frags ELSE got'.frags
       IN ~rx[s][i].disposed /\ ~kept =>
            /\ reader.slot = s /\ taken = Append(reader.frags, f)
            /\ \A j \in 1..(i - 1) : Conn(rx[s][j].f) = Conn(f) => rx[s][j].disposed]_vars

=============================================================================
