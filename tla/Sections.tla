------------------------------ MODULE Sections ------------------------------
(***************************************************************************)
(* Section reassembly in the software demux: dvb-core/dvb_demux.c.  One    *)
(* section feed takes the transport stream packets of its PID, collects    *)
(* payload from one payload_unit_start (PUSI) to the next and hands every  *)
(* section it finds there to the callback.                                 *)
(*                                                                         *)
(* A payload byte is <<s, k>>: byte k of section s of the broadcast;       *)
(* <<0, 0>> is stuffing (0xff).  The sender, which follows ISO 13818-1, is *)
(* the environment; packets may be lost, dropped for their error bit,      *)
(* marked discontinuous, or damaged in their pointer field.                *)
(***************************************************************************)
EXTENDS Naturals, Sequences, FiniteSets

CONSTANTS
  Lens,         \* lengths a section may have, header included
  MAXSEC,       \* DMX_MAX_SECTION_SIZE (4096)
  PACKET,       \* 188: secbuf_base has MAXSEC + PACKET bytes
  Counts,       \* payload sizes of a packet (184, less an adaptation field)
  CCMOD,        \* the continuity counter counts modulo CCMOD (16)
  CheckCrc,     \* the feed's check_crc
  Guesses,      \* lengths that bytes which are no header may decode to
  MaxSections   \* bound: sections the sender begins

HDR == 3   \* bytes of a section up to and including its length

ASSUME SectionsAssumption ==
  /\ MAXSEC \in Nat /\ PACKET \in Nat
  /\ Lens \subseteq HDR..MAXSEC
  /\ Counts \subseteq 1..(PACKET - 4)
  /\ CCMOD \in Nat \ {0, 1}
  /\ CheckCrc \in BOOLEAN
  /\ Guesses \subseteq HDR..(MAXSEC + 1) /\ Guesses # {}
  /\ MaxSections \in Nat

VARIABLES
  snd,       \* the sender: sec (last section begun), off (bytes of it sent),
             \* cc (counter of the next packet)
  len,       \* lengths of the sections begun, a sequence
  feed,      \* cc, pusi_seen, buf (secbuf_base[0 .. tsfeedp)), secbufp, filtering
  got,       \* history: what the callback was given in the last step, 0 for a
             \* piece that is not one whole section
  given,     \* history: the sections it has been given so far
  suspect,   \* history: (re)started, or a pointer field was bad, or CCMOD
             \* packets in a row were lost, and neither a discontinuity nor a
             \* section start was seen since
  repeats,   \* history: a packet without payload came since the last start
  missed,    \* packets lost in a row, modulo CCMOD
  clean,     \* history: the feed has seen every byte sent of section snd.sec
  due        \* history: sections of which the feed has seen every byte

vars == <<snd, len, feed, got, given, suspect, repeats, missed, clean, due>>

STUFF == <<0, 0>>
(* mutants: the limit is one too large; the buffer is only one section long *)
SecfeedSizeOffByOne == MAXSEC + PACKET + 1
SecfeedSizeOneSection == MAXSEC
DMX_MAX_SECFEED_SIZE == MAXSEC + PACKET

Bytes(s, from, to) == [i \in 1..(to - from) |-> <<s, from + i - 1>>]
Stuffing(n) == [i \in 1..n |-> STUFF]

-----------------------------------------------------------------------------
(***************************************************************************)
(* The sender.  A packet is [pusi, ptr, bytes, count]; with it go the      *)
(* sender's new state and section lengths.                                 *)
(***************************************************************************)
Rest == IF snd.sec = 0 THEN 0 ELSE len[snd.sec] - snd.off

Left(c) == LET r == Rest IN IF r < c THEN r ELSE c

(* A packet of c bytes in which no section starts. *)
Continuing(c) ==
  [pkt |-> [pusi |-> FALSE, ptr |-> 0, count |-> c,
            bytes |-> Bytes(snd.sec, snd.off, snd.off + Left(c)) \o Stuffing(c - Left(c))],
   snd |-> [snd EXCEPT !.off = @ + Left(c), !.cc = (@ + 1) % CCMOD],
   len |-> len]

(* Where each of the sections of lengths ls ends, and their bytes, one section
   after the other behind section s. *)
Upto(ls) ==
  LET upto[i \in 0..Len(ls)] == IF i = 0 THEN 0 ELSE upto[i - 1] + ls[i] IN upto

Body(s, ls) ==
  LET body[i \in 0..Len(ls)] ==
        IF i = 0 THEN <<>> ELSE body[i - 1] \o Bytes(s + i, 0, ls[i])
  IN body[Len(ls)]

(* A packet of c bytes with the end of the current section and then sections
   of lengths ls, the last of them cut off where the packet ends. *)
Starting(c, ls) ==
  LET n    == Len(ls)
      room == c - 1 - Rest
      all  == Upto(ls)[n]
      tail == IF all < room THEN 0 ELSE all - room
  IN [pkt |-> [pusi |-> TRUE, ptr |-> Rest, count |-> c,
               bytes |-> Bytes(snd.sec, snd.off, snd.off + Rest)
                         \o SubSeq(Body(snd.sec, ls) \o Stuffing(room), 1, room)],
      snd |-> [sec |-> snd.sec + n, off |-> ls[n] - tail, cc |-> (snd.cc + 1) % CCMOD],
      len |-> len \o ls]

(* The sequences of lengths that can start in a packet with room bytes left. *)
Starts(room) ==
  {<<l>> : l \in Lens}
  \cup {<<l, m>> : l \in {x \in Lens : x < room}, m \in Lens}
  \cup {<<q[1], q[2], m>> : q \in {y \in Lens \X Lens : y[1] + y[2] < room}, m \in Lens}

Sendable ==
  {Continuing(c) : c \in {x \in Counts : Rest > 0}}
  \cup UNION {{Starting(c, ls) : ls \in {q \in Starts(c - 1 - Rest) :
                                          snd.sec + Len(q) <= MaxSections}} :
              c \in {x \in Counts : Rest + 1 < x}}

-----------------------------------------------------------------------------
(***************************************************************************)
(* The feed.                                                               *)
(***************************************************************************)

(* section_length: reads bytes 1 and 2 of what is taken for a header.  For a
   section's own header that is its length; stuffing decodes to more than
   DMX_MAX_SECTION_SIZE; any other bytes to something, g. *)
SectionLength(buf, p, ln, g) ==
  LET b1 == buf[p + 2]
      b2 == buf[p + 3]
  IN IF b1[1] > 0 /\ b1[2] = 1 /\ b2 = <<b1[1], 2>> THEN ln[b1[1]]
     ELSE IF b1 = STUFF /\ b2 = STUFF THEN MAXSEC + 1 ELSE g

(* What a piece of the buffer is: section s, or 0 if it is not exactly one. *)
Identify(piece, ln) ==
  LET s == piece[1][1]
  IN IF s > 0 /\ piece = Bytes(s, 0, ln[s]) THEN s ELSE 0

(* dvb_dmx_swfilter_section_feed: with check_crc a piece that is not a section
   and has the syntax indicator (indic) fails the check. *)
SectionFeed(piece, ln, indic) ==
  LET s == Identify(piece, ln)
  IN IF CheckCrc /\ s = 0 /\ indic THEN <<>> ELSE <<s>>

(* dvb_dmx_swfilter_section_new *)
SectionNew(fd) == [fd EXCEPT !.buf = <<>>, !.secbufp = 0]

(* The feed after a dump: tsfeedp counts the bytes copied, secbufp has moved
   behind the last complete section. *)
(* mutant: secbufp does not move *)
DumpedInPlace(fd, buf, end) == [fd EXCEPT !.buf = buf]
Dumped(fd, buf, end) == [fd EXCEPT !.buf = buf, !.secbufp = end]

(* A whole section, by what is taken for its header, is in buf from p on. *)
Fits(buf, p, ln, g) ==
  /\ p + 2 < Len(buf)
  /\ SectionLength(buf, p, ln, g) \in 1..MAXSEC
  /\ SectionLength(buf, p, ln, g) + p <= Len(buf)

(* The pieces that are dumped from each position on, and where the dump ends. *)
Dump(buf, ln, g, indic) ==
  LET dump[p \in 0..Len(buf)] ==
        IF ~ Fits(buf, p, ln, g) THEN [end |-> p, out |-> <<>>]
        ELSE LET q == p + SectionLength(buf, p, ln, g)
             IN [end |-> dump[q].end,
                 out |-> SectionFeed(SubSeq(buf, p + 1, q), ln, indic) \o dump[q].out]
  IN dump

(* dvb_dmx_swfilter_section_copy_dump: append as much as fits, then dump all
   sections from secbufp on that are complete. *)
CopyDump(fd, bytes, ln, g, indic) ==
  LET room == DMX_MAX_SECFEED_SIZE - Len(fd.fd.buf)
      buf  == fd.fd.buf \o SubSeq(bytes, 1, IF Len(bytes) < room THEN Len(bytes) ELSE room)
      d    == Dump(buf, ln, g, indic)[fd.fd.secbufp]
  IN IF room = 0 \/ bytes = <<>> THEN fd
     ELSE [fd  |-> Dumped(fd.fd, buf, d.end),
           out |-> IF fd.fd.pusi_seen THEN fd.out \o d.out ELSE fd.out]

(* mutant: the continuity counter is not checked *)
CcIgnored(cc) == TRUE
CcOk(cc) == (feed.cc + 1) % CCMOD = cc

(* dvb_dmx_swfilter_section_packet for a packet with payload; bad: the pointer
   field points past the payload. *)
SectionPacket(pkt, cc, dc, bad, ln, g, indic) ==
  LET f0 == [feed EXCEPT !.cc = cc]
      f1 == IF CcOk(cc) /\ ~ dc THEN f0 ELSE SectionNew([f0 EXCEPT !.pusi_seen = FALSE])
      r1 == [fd |-> f1, out |-> <<>>]
      before == CopyDump(r1, SubSeq(pkt.bytes, 1, pkt.ptr), ln, g, indic)
      r2 == [before EXCEPT !.fd = SectionNew([@ EXCEPT !.pusi_seen = TRUE])]
  IN IF ~ pkt.pusi THEN CopyDump(r1, pkt.bytes, ln, g, indic)
     ELSE IF pkt.count > 1 /\ ~ bad
          THEN CopyDump(r2, SubSeq(pkt.bytes, pkt.ptr + 1, Len(pkt.bytes)), ln, g, indic)
          ELSE r1

Init ==
  /\ snd = [sec |-> 0, off |-> 0, cc |-> 0]
  /\ len = <<>>
  \* the table of feeds comes from vmalloc: cc and pusi_seen are not initialised
  /\ \E c \in 0..(CCMOD - 1), p \in BOOLEAN :
       feed = [cc |-> c, pusi_seen |-> p, buf |-> <<>>, secbufp |-> 0,
               filtering |-> FALSE]
  /\ got = <<>> /\ given = {} /\ due = {}
  /\ suspect = FALSE /\ repeats = FALSE /\ clean = FALSE
  /\ missed = 0

(* dmx_section_feed_start_filtering *)
StartFiltering ==
  /\ ~ feed.filtering
  /\ feed' = [SectionNew(feed) EXCEPT !.filtering = TRUE]
  /\ suspect' = TRUE /\ repeats' = FALSE /\ clean' = FALSE /\ missed' = 0
  /\ got' = <<>>
  /\ UNCHANGED <<snd, len, given, due>>

(* dmx_section_feed_stop_filtering *)
StopFiltering ==
  /\ feed.filtering
  /\ feed' = [feed EXCEPT !.filtering = FALSE]
  /\ got' = <<>>
  /\ UNCHANGED <<snd, len, given, due, suspect, repeats, clean, missed>>

(* A packet is lost, or dropped by swfilter_packet for its error indicator or
   by swfilter_packets for its sync byte, or the feed is not filtering.  When
   CCMOD of them in a row are lost the counter fits again, and the feed cannot
   tell that there were any. *)
Miss ==
  \E m \in Sendable :
    /\ snd' = m.snd /\ len' = m.len
    /\ missed' = IF feed.filtering THEN (missed + 1) % CCMOD ELSE 0
    /\ suspect' = (suspect \/ (feed.filtering /\ missed = CCMOD - 1))
    /\ clean' = FALSE
    /\ got' = <<>>
    /\ UNCHANGED <<feed, given, due, repeats>>

(* A packet without payload: section_packet fails and packet_type resets
   secbufp, but not tsfeedp. *)
NoPayload ==
  /\ feed.filtering
  /\ feed' = [feed EXCEPT !.secbufp = 0]
  /\ repeats' = TRUE
  /\ got' = <<>>
  /\ UNCHANGED <<snd, len, given, due, suspect, clean, missed>>

(* A packet with payload arrives; dc: discontinuity_indicator. *)
Receive ==
  \E m \in Sendable, dc, bad, indic \in BOOLEAN, g \in Guesses :
    /\ feed.filtering
    /\ bad => m.pkt.pusi
    /\ LET res   == SectionPacket(m.pkt, snd.cc, dc, bad, m.len, g, indic)
           inseq == CcOk(snd.cc) /\ ~ dc
           old   == {s \in {snd.sec} : s > 0 /\ clean /\ inseq}
           all   == old \cup {s \in 1..m.snd.sec : s > snd.sec}
       IN /\ feed' = res.fd
          /\ got' = res.out
          /\ given' = given \cup {s \in {res.out[i] : i \in DOMAIN res.out} : s > 0}
          /\ due' = due \cup (IF bad THEN {}
                              ELSE {s \in all : s < m.snd.sec \/ m.snd.off = m.len[s]})
          /\ clean' = (~ bad /\ m.snd.sec \in all)
          /\ suspect' = IF bad THEN TRUE ELSE suspect /\ inseq /\ ~ m.pkt.pusi
          /\ repeats' = (repeats /\ inseq /\ (bad \/ ~ m.pkt.pusi))
    /\ snd' = m.snd /\ len' = m.len
    /\ missed' = 0

Next == StartFiltering \/ StopFiltering \/ Miss \/ NoPayload \/ Receive

Spec == Init /\ [][Next]_vars

-----------------------------------------------------------------------------
Byte == {STUFF} \cup ((1..MaxSections) \X (0..(MAXSEC - 1)))

TypeOK ==
  /\ snd \in [sec : 0..MaxSections, off : 0..MAXSEC, cc : 0..(CCMOD - 1)]
  /\ len \in Seq(Lens) /\ Len(len) = snd.sec
  /\ feed.cc \in 0..(CCMOD - 1)
  /\ feed.pusi_seen \in BOOLEAN /\ feed.filtering \in BOOLEAN
  /\ feed.buf \in Seq(Byte) /\ Len(feed.buf) <= MAXSEC + PACKET
  /\ feed.secbufp \in 0..Len(feed.buf)
  /\ got \in Seq(0..MaxSections)
  /\ given \subseteq 1..MaxSections /\ due \subseteq 1..MaxSections
  /\ suspect \in BOOLEAN /\ repeats \in BOOLEAN /\ clean \in BOOLEAN
  /\ missed \in 0..(CCMOD - 1)

(* Every section all of whose bytes reached the filtering feed in sequence
   is given to the callback: no discontinuity elsewhere, no end of the buffer
   and no neighbour in the same packet costs it. *)
IntactIsGiven == due \subseteq given

(* Pieces that are not a section are given to the callback only after one of
   three things, and no longer than to the next section start or detected
   discontinuity: a (re)start of the feed, which keeps the counter and
   pusi_seen of the session before; a pointer field past the end of the
   payload; a loss of CCMOD packets in a row, which the continuity counter
   cannot show.  Any other loss, and every marked discontinuity, is noticed
   before two sections are mixed. *)
GarbageOnlyWhenSuspect ==
  [][(\E i \in DOMAIN got' : got'[i] = 0) => suspect]_vars

(* Sections are given in the order of the broadcast and once, unless a packet
   without payload made the feed look through its buffer again. *)
InOrderOnce ==
  [][repeats \/ \A i \in DOMAIN got' : got'[i] > 0 =>
       /\ \A s \in given : s < got'[i]
       /\ \A j \in 1..(i - 1) : got'[j] < got'[i]]_vars

=============================================================================
