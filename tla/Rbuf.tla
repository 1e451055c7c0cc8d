-------------------------------- MODULE Rbuf --------------------------------
(***************************************************************************)
(* The ring buffer of a demux file (dvb-core/dvb_ringbuffer.c) between its *)
(* two users in dmxdev.c: the demux callback, which writes in interrupt    *)
(* context under dmxdev->lock, and read(), which holds the file's mutex    *)
(* only.  Steps are the memory copies and the updates of shared fields.    *)
(* The timer of a section filter raises an error on its own.               *)
(*                                                                         *)
(* Byte k of chunk s (a section with its 3 byte header, or TS data) is     *)
(* <<s, k>>; <<0, 0>> is whatever the memory held before.                  *)
(***************************************************************************)
EXTENDS Integers, Sequences, FiniteSets

CONSTANTS
  SIZE,        \* bytes of the buffer
  Lens,        \* lengths of the chunks
  Reads,       \* lengths read() is called with
  Types,       \* DMXDEV_TYPE_SEC "SEC", DMXDEV_TYPE_PES "PES"
  Guesses,     \* what bytes that are no header may decode to
  MaxChunks    \* bound: chunks the demux delivers

ASSUME RbufAssumption ==
  /\ SIZE \in Nat \ {0}
  /\ Lens \subseteq Nat \ {0} /\ Reads \subseteq Nat \ {0}
  /\ Types \subseteq {"SEC", "PES"}
  /\ "SEC" \in Types => \A l \in Lens : l >= 3
  /\ Guesses \subseteq Nat /\ MaxChunks \in Nat

VARIABLES
  type, oneshot,   \* of the filter: its type, DMX_ONESHOT
  fstate,          \* state of the filter: "GO", "DONE", "TIMEDOUT"
  timer,           \* "off", "armed", or "fired": its function is running
  data, pread, pwrite, error,    \* struct dvb_ringbuffer
  len,             \* lengths of the chunks delivered so far
  w,               \* the callback: pc, at (bytes copied), todo
  r,               \* the reader: pc, phase, nb (O_NONBLOCK), count, todo, got,
                   \* n, left, ubuf, fail
  todo, secheader, \* of the filter: what read_sec knows of the section
  user,            \* history: the bytes read() has copied out
  torn,            \* history: an error was taken, or a header
                   \* read broken off, in the middle of a section
  raced            \* history: the callback has emptied the buffer during an
                   \* access of the reader, against note (2) of
                   \* dvb_ringbuffer.h

ring == <<data, pread, pwrite, error>>
file == <<type, oneshot, fstate, timer>>
vars == <<type, oneshot, fstate, timer, data, pread, pwrite, error, len, w, r,
          todo, secheader, user, torn, raced>>

NONE == <<0, 0>>
Cells == 0..(SIZE - 1)
Bytes(s, from, n) == [i \in 1..n |-> <<s, from + i - 1>>]

(* dvb_ringbuffer_free, dvb_ringbuffer_avail, dvb_ringbuffer_empty *)
(* mutant: all cells may be filled *)
FreeOffByOne == LET f == pread - pwrite IN IF f <= 0 THEN f + SIZE ELSE f
Free == LET f == pread - pwrite IN (IF f <= 0 THEN f + SIZE ELSE f) - 1

Avail == LET a == pwrite - pread IN IF a < 0 THEN a + SIZE ELSE a

Empty == pread = pwrite

(* mutant: the end of the buffer is taken for a cell *)
MovedPastEnd(p, n) == IF p + n > SIZE THEN (p + n) % SIZE ELSE p + n
(* A pointer n bytes further. *)
Moved(p, n) == (p + n) % SIZE

(* memcpy to and from the buffer; a read past its end returns foreign bytes *)
Store(at, bs) ==
  [c \in Cells |-> IF c \in at..(at + Len(bs) - 1) THEN bs[c - at + 1] ELSE data[c]]
Load(at, n) ==
  [i \in 1..n |-> IF at + i - 1 \in Cells THEN data[at + i - 1] ELSE NONE]

WIdle == [pc |-> "idle", at |-> 0, todo |-> 0]
RIdle == [pc |-> "idle", phase |-> "raw", nb |-> FALSE, count |-> 0, todo |-> 0,
          got |-> 0, n |-> 0, left |-> 0, ubuf |-> <<>>, fail |-> ""]

(* mutant: nobody is woken *)
WokenNobody == r
(* wake_up(&buffer.queue) *)
Woken == IF r.pc = "sleep" THEN [r EXCEPT !.pc = "loop"] ELSE r

Init ==
  /\ type \in Types /\ oneshot \in BOOLEAN
  /\ (type = "PES" => ~ oneshot)
  /\ fstate = "GO"
  /\ timer = IF type = "SEC" THEN "armed" ELSE "off"
  /\ data = [c \in Cells |-> NONE]
  /\ pread = 0 /\ pwrite = 0 /\ error = ""
  /\ len = <<>>
  /\ w = WIdle /\ r = RIdle
  /\ todo = 0 /\ secheader = <<NONE, NONE, NONE>>
  /\ user = <<>> /\ torn = FALSE /\ raced = FALSE

-----------------------------------------------------------------------------
(***************************************************************************)
(* The callback: dvb_dmxdev_section_callback, dvb_dmxdev_ts_callback.      *)
(***************************************************************************)
WHolds == w.pc \in {"copy1", "split", "copy2", "publish", "flush", "clear", "seterr"}
RReads == r.pc \in {"copy1", "split", "copy2", "advance", "flush", "clear"}

(* The section callback looks at the error before it takes the lock. *)
WEnter ==
  /\ w.pc = "idle" /\ Len(len) < MaxChunks
  /\ \E l \in Lens : len' = Append(len, l)
  /\ IF type = "SEC" /\ error # ""
     THEN r' = Woken /\ UNCHANGED w
     ELSE w' = [w EXCEPT !.pc = "lock"] /\ UNCHANGED r
  /\ UNCHANGED <<file, ring, todo, secheader, user, torn, raced>>

(* Under dmxdev->lock: the checks, del_timer, and dvb_dmxdev_buffer_write up
   to its first copy. *)
WLock ==
  LET l == len[Len(len)] IN
  /\ w.pc = "lock"
  /\ IF type = "SEC" /\ fstate # "GO"
     THEN w' = WIdle /\ UNCHANGED <<r, timer>>
     ELSE IF type = "PES" /\ error # ""
     THEN w' = WIdle /\ r' = Woken /\ UNCHANGED timer
     ELSE /\ timer' = IF timer = "armed" THEN "off" ELSE timer
          /\ w' = [pc |-> IF l > Free THEN "flush"
                          ELSE IF pwrite + l > SIZE THEN "copy1" ELSE "copy2",
                   at |-> 0, todo |-> l]
          /\ UNCHANGED r
  /\ UNCHANGED <<type, oneshot, fstate, ring, len, todo, secheader, user, torn, raced>>

(* dvb_ringbuffer_write *)
WCopy1 ==
  /\ w.pc = "copy1"
  /\ LET split == SIZE - pwrite
     IN /\ data' = Store(pwrite, Bytes(Len(len), 0, split))
        /\ w' = [pc |-> "split", at |-> split, todo |-> w.todo - split]
  /\ UNCHANGED <<file, pread, pwrite, error, len, r, todo, secheader, user, torn, raced>>

WSplit ==
  /\ w.pc = "split"
  /\ pwrite' = 0
  /\ w' = [w EXCEPT !.pc = "copy2"]
  /\ UNCHANGED <<file, data, pread, error, len, r, todo, secheader, user, torn, raced>>

WCopy2 ==
  /\ w.pc = "copy2"
  /\ data' = Store(pwrite, Bytes(Len(len), w.at, w.todo))
  /\ w' = [w EXCEPT !.pc = "publish"]
  /\ UNCHANGED <<file, pread, pwrite, error, len, r, todo, secheader, user, torn, raced>>

Stopped == IF type = "SEC" /\ oneshot THEN "DONE" ELSE fstate

WPublish ==
  /\ w.pc = "publish"
  /\ pwrite' = Moved(pwrite, w.todo)
  /\ fstate' = Stopped
  /\ w' = [w EXCEPT !.pc = "wake"]
  /\ UNCHANGED <<type, oneshot, timer, data, pread, error, len, r, todo, secheader, user, torn, raced>>

(* The chunk does not fit: dvb_ringbuffer_flush, then the error is set. *)
WFlush ==
  /\ w.pc = "flush"
  /\ pread' = pwrite /\ raced' = (raced \/ RReads)
  /\ w' = [w EXCEPT !.pc = "clear"]
  /\ UNCHANGED <<file, data, pwrite, error, len, r, todo, secheader, user, torn>>

WClear ==
  /\ w.pc = "clear"
  /\ error' = ""
  /\ w' = [w EXCEPT !.pc = "seterr"]
  /\ UNCHANGED <<file, data, pread, pwrite, len, r, todo, secheader, user, torn, raced>>

WSetErr ==
  /\ w.pc = "seterr"
  /\ error' = "EOVERFLOW"
  /\ fstate' = Stopped
  /\ w' = [w EXCEPT !.pc = "wake"]
  /\ UNCHANGED <<type, oneshot, timer, data, pread, pwrite, len, r, todo, secheader, user, torn, raced>>

(* The lock is released; wake_up. *)
WWake ==
  /\ w.pc = "wake"
  /\ w' = WIdle
  /\ r' = Woken
  /\ UNCHANGED <<file, ring, len, todo, secheader, user, torn, raced>>

Callback == WLock \/ WCopy1 \/ WSplit \/ WCopy2 \/ WPublish \/ WFlush \/ WClear
            \/ WSetErr \/ WWake

(* dvb_dmxdev_filter_timeout *)
TimerFires ==
  /\ timer = "armed"
  /\ timer' = "fired"
  /\ error' = "ETIMEDOUT"
  /\ UNCHANGED <<type, oneshot, fstate, data, pread, pwrite, len, w, r, todo, secheader, user, torn, raced>>

TimerEnds ==
  /\ timer = "fired" /\ ~ WHolds
  /\ timer' = "off" /\ fstate' = "TIMEDOUT"
  /\ r' = Woken
  /\ UNCHANGED <<type, oneshot, ring, len, w, todo, secheader, user, torn, raced>>

-----------------------------------------------------------------------------
(***************************************************************************)
(* The reader: dvb_demux_read, dvb_dmxdev_read_sec, dvb_dmxdev_buffer_read.*)
(***************************************************************************)
Least(a, b) == IF a < b THEN a ELSE b
Call(phase, nb, count, want) ==
  [RIdle EXCEPT !.pc = "top", !.phase = phase, !.nb = nb, !.count = count, !.todo = want]

ReadCall ==
  /\ r.pc = "idle"
  /\ \E c \in Reads, nb \in BOOLEAN :
       r' = IF type = "PES" THEN Call("raw", nb, c, c)
            ELSE IF todo <= 0 THEN Call("hdr", nb, c, Least(3 + todo, c))
            ELSE Call("body", nb, c, Least(todo, c))
  /\ UNCHANGED <<file, ring, len, w, todo, secheader, user, torn, raced>>

RTop ==
  /\ r.pc = "top"
  /\ r' = IF error # "" THEN [r EXCEPT !.pc = "flush", !.fail = "ERR"]
          ELSE [r EXCEPT !.pc = "loop"]
  /\ UNCHANGED <<file, ring, len, w, todo, secheader, user, torn, raced>>

(* The head of the loop, with wait_event_interruptible: the test and going to
   sleep are one step because the reader is on the queue before it tests. *)
RLoop ==
  /\ r.pc = "loop"
  /\ r' = [r EXCEPT !.pc = IF r.todo = 0 \/ (r.nb /\ Empty) THEN "ret"
                           ELSE IF ~ Empty \/ error # "" THEN "test" ELSE "sleep",
                    !.fail = IF r.todo > 0 /\ r.nb /\ Empty THEN "EWOULDBLOCK" ELSE ""]
  /\ UNCHANGED <<file, ring, len, w, todo, secheader, user, torn, raced>>

RSignal ==
  /\ r.pc = "sleep"
  /\ r' = [r EXCEPT !.pc = "ret", !.fail = "ERESTARTSYS"]
  /\ UNCHANGED <<file, ring, len, w, todo, secheader, user, torn, raced>>

(* The error is looked at again, then avail is taken and read_user entered. *)
RTest ==
  /\ r.pc = "test"
  /\ r' = IF error # "" THEN [r EXCEPT !.pc = "flush", !.fail = "ERR"]
          ELSE [r EXCEPT !.pc = "avail"]
  /\ UNCHANGED <<file, ring, len, w, todo, secheader, user, torn, raced>>

RAvail ==
  /\ r.pc = "avail"
  /\ LET n == Least(Avail, r.todo)
     IN r' = [r EXCEPT !.pc = IF pread + n > SIZE THEN "copy1" ELSE "copy2",
                       !.n = n, !.left = n, !.ubuf = <<>>]
  /\ UNCHANGED <<file, ring, len, w, todo, secheader, user, torn, raced>>

(* dvb_ringbuffer_read_user *)
RCopy1 ==
  /\ r.pc = "copy1"
  /\ LET split == SIZE - pread
     IN r' = [r EXCEPT !.pc = "split", !.left = @ - split, !.ubuf = Load(pread, split)]
  /\ UNCHANGED <<file, ring, len, w, todo, secheader, user, torn, raced>>

RSplit ==
  /\ r.pc = "split"
  /\ pread' = 0
  /\ user' = user \o r.ubuf
  /\ r' = [r EXCEPT !.pc = "copy2", !.ubuf = <<>>]
  /\ UNCHANGED <<file, data, pwrite, error, len, w, todo, secheader, torn, raced>>

RCopy2 ==
  /\ r.pc = "copy2"
  /\ r' = [r EXCEPT !.pc = "advance", !.ubuf = Load(pread, r.left)]
  /\ UNCHANGED <<file, ring, len, w, todo, secheader, user, torn, raced>>

RAdvance ==
  /\ r.pc = "advance"
  /\ pread' = Moved(pread, r.left)
  /\ user' = user \o r.ubuf
  /\ r' = [r EXCEPT !.pc = "loop", !.todo = @ - r.n, !.got = @ + r.n,
                    !.n = 0, !.left = 0, !.ubuf = <<>>]
  /\ UNCHANGED <<file, data, pwrite, error, len, w, todo, secheader, torn, raced>>

(* copy_to_user fails; what a split has copied is gone *)
RFault ==
  /\ r.pc \in {"copy1", "copy2"}
  /\ r' = [r EXCEPT !.pc = "ret", !.fail = "EFAULT", !.ubuf = <<>>]
  /\ torn' = (torn \/ r.left < r.n)
  /\ UNCHANGED <<file, ring, len, w, todo, secheader, user, raced>>

(* The read that meets the error has left part of a section unread, and
   read_sec will not notice. *)
MidSection == \/ r.phase = "hdr" /\ r.got > 0
              \/ r.phase = "body" /\ todo > r.got

(* dvb_ringbuffer_flush of the reader *)
RFlush ==
  /\ r.pc = "flush"
  /\ pread' = pwrite
  /\ r' = [r EXCEPT !.pc = "clear"]
  /\ torn' = (torn \/ MidSection \/ (w.at > 0 /\ w.pc \in {"copy2", "publish"}))
  /\ UNCHANGED <<file, data, pwrite, error, len, w, todo, secheader, user, raced>>

RClear ==
  /\ r.pc = "clear"
  /\ error' = ""
  /\ r' = [r EXCEPT !.pc = "ret"]
  /\ UNCHANGED <<file, data, pread, pwrite, len, w, todo, secheader, user, torn, raced>>

-----------------------------------------------------------------------------
(* buffer_read returns the bytes it got, or its failure if there are none;
   read_sec goes on from there. *)
Failed == r.got = 0 /\ r.fail # ""
Last(n) == SubSeq(user, Len(user) - n + 1, Len(user))

(* mutant: every read starts a header *)
HeaderFromStart(n) == [i \in 1..3 |-> IF i \in 1..n THEN Last(n)[i] ELSE secheader[i]]
(* secheader after n more bytes have been copied to secheader - todo *)
Header(n) ==
  [i \in 1..3 |-> IF i \in (1 - todo)..(n - todo) THEN Last(n)[i + todo] ELSE secheader[i]]

(* The length field of a header; of other bytes, anything. *)
HeaderLength(h, g) ==
  IF h[2][1] > 0 /\ h[2][2] = 1 /\ h[3] = <<h[2][1], 2>> THEN len[h[2][1]] - 3 ELSE g

RReturn ==
  /\ r.pc = "ret"
  /\ \/ /\ r.phase = "raw"
        /\ r' = RIdle
        /\ UNCHANGED <<todo, secheader, torn>>
     \/ /\ r.phase = "hdr" /\ Failed
        /\ r' = RIdle /\ todo' = 0
        /\ torn' = (torn \/ (todo < 0 /\ r.fail # "ERR"))
        /\ UNCHANGED secheader
     \/ /\ r.phase = "hdr" /\ ~ Failed \* copy_from_user fails
        /\ r' = RIdle /\ torn' = TRUE
        /\ UNCHANGED <<todo, secheader>>
     \/ /\ r.phase = "hdr" /\ ~ Failed
        /\ secheader' = Header(r.got)
        /\ UNCHANGED torn
        /\ LET left == r.count - r.got
           IN IF todo - r.got > -3
              THEN r' = RIdle /\ todo' = todo - r.got
              ELSE \E g \in Guesses :
                     /\ todo' = HeaderLength(secheader', g)
                     /\ r' = IF left = 0 THEN RIdle
                             ELSE Call("body", r.nb, left, Least(left, todo'))
     \/ /\ r.phase = "body"
        /\ r' = RIdle
        /\ todo' = IF Failed THEN todo ELSE todo - r.got
        /\ UNCHANGED <<secheader, torn>>
  /\ UNCHANGED <<file, ring, len, w, user, raced>>

Reader == RTop \/ RLoop \/ RTest \/ RAvail \/ RCopy1 \/ RSplit \/ RCopy2
          \/ RAdvance \/ RFault \/ RFlush \/ RClear \/ RReturn

Next == WEnter \/ Callback \/ TimerFires \/ TimerEnds \/ ReadCall \/ RSignal \/ Reader

(* The callback and the timer function run to their end; so does a reader that
   is not asleep. *)
Fairness == WF_vars(Callback) /\ WF_vars(TimerEnds) /\ WF_vars(Reader)

Spec == Init /\ [][Next]_vars /\ Fairness

-----------------------------------------------------------------------------
Pos(p) == p \in Cells

TypeOK ==
  /\ Pos(pread) /\ Pos(pwrite)
  /\ error \in {"", "EOVERFLOW", "ETIMEDOUT"}
  /\ fstate \in {"GO", "DONE", "TIMEDOUT"} /\ timer \in {"off", "armed", "fired"}
  /\ w.at \in 0..SIZE /\ w.todo \in Nat
  /\ r.n \in 0..(SIZE - 1) /\ r.left \in 0..r.n /\ r.todo \in Nat
  /\ todo \in Int

(* The bytes between pread and pwrite. *)
Queue == [i \in 1..Avail |-> data[(pread + i - 1) % SIZE]]

Fifo == INSTANCE ByteFifo WITH
  Cap <- SIZE - 1,
  q <- Queue, user <- user,
  err <- error # "" \/ w.pc \in {"clear", "seterr"}

(* As long as the callback does not empty the buffer under a read (note (2)
   of dvb_ringbuffer.h), callback and read() make a bounded queue of bytes:
   nothing is read before it is written, overwritten before it is read, read
   twice or out of order, and nothing is lost without an error, through every
   interleaving of the copies and pointer updates. *)
FifoSpec == Fifo!Spec

(* read_sec, called with any lengths, blocking or not, takes the length of a
   section from the three bytes of one section's header.  Two things break it
   for good, and no other: an error or a fault taken in the middle of a section
   (read_sec resets todo only when the read of a header fails), and a header
   read broken off while the callback has stored only part of it (todo is reset
   although the first bytes are gone). *)
Framed ==
  r.pc = "ret" /\ r.phase = "hdr" /\ ~ Failed /\ todo - r.got <= -3 /\ ~ torn =>
    \E s \in DOMAIN len : Header(r.got) = Bytes(s, 0, 3)

(* A reader that sleeps on data or on an error is woken. *)
WakesUp == (r.pc = "sleep" /\ (~ Empty \/ error # "")) ~> r.pc # "sleep"
=============================================================================
