---------------------------- MODULE Rbuf_proofs ----------------------------
(***************************************************************************)
(* Proofs about the ring buffer of a demux file, for a buffer of any size, *)
(* chunks and reads of any length, and any number of chunks: it implements *)
(* the bounded queue of ByteFifo as long as the callback does not empty it *)
(* while the reader is in it, and then read_sec gives whole sections.      *)
(***************************************************************************)
EXTENDS Rbuf, ModLemmas, SequenceTheorems

-----------------------------------------------------------------------------
(* The pointers and the cells. *)

(* The cell of byte i of the queue. *)
Cell(i) == (pread + i - 1) % SIZE

(* A sum of two positions wraps at most once. *)
LEMMA WrapOnce ==
  ASSUME NEW x \in 0..(2 * SIZE - 1)
  PROVE  x % SIZE = IF x < SIZE THEN x ELSE x - SIZE
<1>0. SIZE \in Nat \ {0}
  BY RbufAssumption
<1>1. CASE x < SIZE
  BY <1>0, <1>1, ModUnique
<1>2. CASE x >= SIZE
  BY <1>0, <1>2, ModUnique
<1>3. QED
  BY <1>0, <1>1, <1>2

(* The cells in use and the free ones make SIZE - 1. *)
LEMMA FreeAndAvail ==
  ASSUME pread \in Cells, pwrite \in Cells
  PROVE  Avail \in 0..(SIZE - 1) /\ Free = SIZE - 1 - Avail
  BY RbufAssumption DEF Cells, Avail, Free

(* The same for any two pointers ... *)
LEMMA FreeAndAvailOf ==
  ASSUME NEW p \in Cells, NEW q \in Cells
  PROVE  (IF p - q <= 0 THEN p - q + SIZE ELSE p - q) - 1
           = SIZE - 1 - (IF q - p < 0 THEN q - p + SIZE ELSE q - p)
  BY RbufAssumption DEF Cells

(* ... and for those after a step. *)
LEMMA FreeAndAvailNext ==
  ASSUME pread' \in Cells, pwrite' \in Cells
  PROVE  Free' = SIZE - 1 - Avail'
<1>1. Free' = (IF pread' - pwrite' <= 0 THEN pread' - pwrite' + SIZE ELSE pread' - pwrite') - 1
  BY DEF Free
<1>2. Avail' = IF pwrite' - pread' < 0 THEN pwrite' - pread' + SIZE ELSE pwrite' - pread'
  BY DEF Avail
<1>3. QED
  BY <1>1, <1>2, FreeAndAvailOf, Zenon

(* A cell of the queue, without the modulus. *)
LEMMA CellIs ==
  ASSUME pread \in Cells, NEW i \in 1..SIZE
  PROVE  Cell(i) = (IF pread + i - 1 < SIZE THEN pread + i - 1 ELSE pread + i - 1 - SIZE)
         /\ Cell(i) \in Cells
<1>1. pread + i - 1 \in 0..(2 * SIZE - 1)
  BY RbufAssumption DEF Cells
<1> DEFINE x == pread + i - 1
<1>2. Cell(i) = IF x < SIZE THEN x ELSE x - SIZE
  <2>1. Cell(i) = x % SIZE
    BY DEF Cell
  <2>2. x \in 0..(2 * SIZE - 1)
    BY <1>1
  <2> HIDE DEF x
  <2>3. QED
    BY <2>1, <2>2, WrapOnce
<1>3. QED
  BY <1>1, <1>2, RbufAssumption DEF Cells

(* The queue is the cells in use, in order. *)
LEMMA QueueIs ==
  ASSUME pread \in Cells, pwrite \in Cells
  PROVE  /\ Len(Queue) = Avail /\ DOMAIN Queue = 1..Avail
         /\ \A i \in 1..Avail : Queue[i] = data[Cell(i)] /\ i \in 1..SIZE
<1>1. Avail \in Nat /\ Avail < SIZE
  BY FreeAndAvail, RbufAssumption
<1>2. QED
  BY <1>1, RbufAssumption DEF Queue, Cell

(* What is stored in free cells is not in the queue. *)
LEMMA FreeIsNotUsed ==
  ASSUME pread \in Cells, pwrite \in Cells, NEW k \in Nat, k <= Free, pwrite + k <= SIZE,
         NEW i \in 1..Avail
  PROVE  Cell(i) \notin pwrite..(pwrite + k - 1)
<1>1. i \in 1..SIZE /\ SIZE \in Nat
  BY FreeAndAvail, RbufAssumption
<1>2. Cell(i) = IF pread + i - 1 < SIZE THEN pread + i - 1 ELSE pread + i - 1 - SIZE
  BY <1>1, CellIs
<1>3. QED
  BY <1>1, <1>2 DEF Cells, Avail, Free

(* The writer's pointer moves over k free cells: they are put at the end. *)
LEMMA PutCells ==
  ASSUME pread \in Cells, pwrite \in Cells, NEW k \in Nat, k <= Free, pwrite + k <= SIZE,
         pread' = pread, data' = data, pwrite' = IF pwrite + k = SIZE THEN 0 ELSE pwrite + k
  PROVE  /\ pwrite' \in Cells
         /\ Avail' = Avail + k
         /\ \A i \in 1..Avail : Queue'[i] = Queue[i]
         /\ \A i \in (Avail + 1)..(Avail + k) : Queue'[i] = data[pwrite + (i - Avail) - 1]
<1>1. SIZE \in Nat \ {0} /\ Avail \in 0..(SIZE - 1) /\ k <= SIZE - 1 - Avail
  BY FreeAndAvail, RbufAssumption
<1>2. pwrite' \in Cells /\ Avail' = Avail + k
  BY <1>1 DEF Cells, Avail, Free
<1>3. \A i \in 1..(Avail + k) : Queue'[i] = data[Cell(i)] /\ i \in 1..SIZE
  BY <1>1, <1>2 DEF Queue, Cell
<1>4. \A i \in 1..Avail : Queue'[i] = Queue[i]
  BY <1>1, <1>3 DEF Queue, Cell
<1>5. ASSUME NEW i \in (Avail + 1)..(Avail + k)
      PROVE  Queue'[i] = data[pwrite + (i - Avail) - 1]
  <2>1. i \in 1..(Avail + k) /\ i \in 1..SIZE
    BY <1>1, <1>5
  <2>2. Cell(i) = IF pread + i - 1 < SIZE THEN pread + i - 1 ELSE pread + i - 1 - SIZE
    BY <2>1, CellIs
  <2>3. Cell(i) = pwrite + (i - Avail) - 1
    BY <1>1, <1>5, <2>2 DEF Cells, Avail, Free
  <2>4. QED
    BY <1>3, <2>1, <2>3
<1>6. QED
  BY <1>2, <1>4, <1>5

(* The reader's pointer moves over the first k cells in use. *)
LEMMA TakeCells ==
  ASSUME pread \in Cells, pwrite \in Cells, NEW k \in Nat, k <= Avail, pread + k <= SIZE,
         pwrite' = pwrite, data' = data, pread' = IF pread + k = SIZE THEN 0 ELSE pread + k
  PROVE  /\ pread' \in Cells
         /\ Avail' = Avail - k
         /\ \A i \in 1..(Avail - k) : Queue'[i] = Queue[i + k]
         /\ \A i \in 1..k : Queue[i] = data[pread + i - 1]
<1>1. SIZE \in Nat \ {0} /\ Avail \in 0..(SIZE - 1)
  BY FreeAndAvail, RbufAssumption
<1>2. pread' \in Cells /\ Avail' = Avail - k
  BY <1>1 DEF Cells, Avail
<1>3. ASSUME NEW i \in 1..(Avail - k) PROVE Queue'[i] = Queue[i + k]
  <2>1. i + k \in 1..SIZE /\ i \in 1..SIZE /\ i + k \in 1..Avail
    BY <1>1, <1>3
  <2> DEFINE j == i + k
             x == pread' + i - 1
  <2>2. Cell(j) = IF pread + j - 1 < SIZE THEN pread + j - 1 ELSE pread + j - 1 - SIZE
    <3>1. j \in 1..SIZE
      BY <2>1
    <3> HIDE DEF j
    <3>2. QED
      BY <3>1, CellIs
  <2>3. pread' + i - 1 \in 0..(2 * SIZE - 1)
    BY <1>1, <1>2, <2>1 DEF Cells
  <2>4. x % SIZE = IF x < SIZE THEN x ELSE x - SIZE
    <3>1. x \in 0..(2 * SIZE - 1)
      BY <2>3
    <3> HIDE DEF x
    <3>2. QED
      BY <3>1, WrapOnce
  <2>5. x % SIZE = Cell(j)
    BY <1>1, <2>1, <2>2, <2>4 DEF Cells
  <2>6. Queue'[i] = data[x % SIZE]
    BY <1>2, <1>3 DEF Queue
  <2>7. Queue[j] = data[Cell(j)]
    BY <2>1, QueueIs
  <2>8. QED
    BY <2>5, <2>6, <2>7
<1>4. ASSUME NEW i \in 1..k PROVE Queue[i] = data[pread + i - 1]
  <2>1. i \in 1..SIZE /\ i \in 1..Avail /\ pread + i - 1 < SIZE
    BY <1>1, <1>4 DEF Cells
  <2>2. Cell(i) = pread + i - 1
    BY <2>1, CellIs
  <2>3. QED
    BY <2>1, <2>2, QueueIs
<1>5. QED
  BY <1>2, <1>3, <1>4

-----------------------------------------------------------------------------
(* The invariant, as long as raced is FALSE. *)

(* The records of the state. *)
Byte == Nat \X Nat
Writer == [pc : {"idle", "lock", "copy1", "split", "copy2", "publish", "flush", "clear",
                 "seterr", "wake"},
           at : Nat, todo : Nat]
ReadState == [pc : {"idle", "top", "loop", "sleep", "test", "avail", "copy1", "split",
                    "copy2", "advance", "flush", "clear", "ret"},
              phase : {"raw", "hdr", "body"}, nb : BOOLEAN, count : Nat, todo : Nat,
              got : Nat, n : Nat, left : Nat, ubuf : Seq(Byte),
              fail : {"", "ERR", "EWOULDBLOCK", "ERESTARTSYS", "EFAULT"}]

(* The types, while the reader has not been raced. *)
Typed ==
  /\ type \in Types /\ oneshot \in BOOLEAN
  /\ fstate \in {"GO", "DONE", "TIMEDOUT"} /\ timer \in {"off", "armed", "fired"}
  /\ data \in [Cells -> Byte] /\ pread \in Cells /\ pwrite \in Cells
  /\ error \in {"", "EOVERFLOW", "ETIMEDOUT"}
  /\ len \in Seq(Lens)
  /\ w \in Writer /\ w.at <= SIZE
  /\ r \in ReadState /\ r.n < SIZE /\ r.left <= r.n
  /\ todo \in Int /\ (\A i \in 1..3 : secheader[i] \in Byte)
  /\ user \in Seq(Byte) /\ torn \in BOOLEAN

(* No byte is of a chunk that the demux has yet to deliver. *)
Produced(b) == b[1] <= Len(len)
Known ==
  /\ \A c \in Cells : Produced(data[c])
  /\ \A i \in 1..Len(r.ubuf) : Produced(r.ubuf[i])
  /\ \A i \in 1..Len(user) : Produced(user[i])
  /\ \A i \in 1..3 : Produced(secheader[i])

(* What read_sec and buffer_read have counted. *)
Counted ==
  /\ todo >= -2
  /\ r.phase # "raw" => type = "SEC"
  /\ r.phase # "raw" => r.got + r.todo <= r.count
  /\ r.phase = "hdr" => todo <= 0 /\ r.got + r.todo <= 3 + todo
  /\ r.phase = "body" => r.got + r.todo <= todo
  /\ r.got <= Len(user)
  /\ r.pc \in {"copy1", "split", "copy2", "advance"} => r.n <= r.todo
  /\ r.pc = "split" => r.n - r.left <= Len(r.ubuf)
  /\ r.pc \in {"copy2", "advance"} => r.got + (r.n - r.left) <= Len(user)

(* The callback writes to free cells, and what it is about to publish is   *)
(* in them.                                                                *)
Writes ==
  /\ w.pc = "lock" => len # <<>>
  /\ w.pc = "copy1" => w.at = 0 /\ pwrite + w.todo > SIZE /\ w.todo <= Free
  /\ w.pc = "split" =>
       /\ w.at = SIZE - pwrite /\ w.todo >= 1 /\ w.at + w.todo <= Free
       /\ \A k \in 0..(w.at - 1) : data[pwrite + k] = <<Len(len), k>>
  /\ w.pc \in {"copy2", "publish"} =>
       w.todo >= 1 /\ w.todo <= Free /\ pwrite + w.todo <= SIZE
  /\ w.pc = "publish" =>
       \A k \in 0..(w.todo - 1) : data[pwrite + k] = <<Len(len), w.at + k>>

(* The reader copies cells in use, and has copied what they hold. *)
ReadsUsed ==
  /\ r.pc = "copy1" => r.left = r.n /\ pread + r.left > SIZE /\ r.left <= Avail
  /\ r.pc = "split" =>
       /\ Len(r.ubuf) = SIZE - pread /\ r.left >= 1 /\ (SIZE - pread) + r.left <= Avail
       /\ \A i \in 1..(SIZE - pread) : r.ubuf[i] = data[pread + i - 1]
  /\ r.pc \in {"copy2", "advance"} => r.left <= Avail /\ pread + r.left <= SIZE
  /\ r.pc = "advance" =>
       /\ Len(r.ubuf) = r.left
       /\ \A i \in 1..r.left : r.ubuf[i] = data[pread + i - 1]
  /\ r.pc = "flush" => error # "" \/ w.pc \in {"clear", "seterr"}

(* The next byte the callback may put; all that were put are before it. *)
NextByte ==
  IF w.pc \in {"idle", "wake"} THEN <<Len(len) + 1, 0>>
  ELSE IF w.pc \in {"copy2", "publish"} THEN <<Len(len), w.at>> ELSE <<Len(len), 0>>
Fresh ==
  /\ \A i \in 1..Avail : Fifo!Before(Queue[i], NextByte)
  /\ user # <<>> => Fifo!Before(user[Len(user)], NextByte)

(* What holds while the callback keeps its flush out of the reads. *)
Safe == Typed /\ Known /\ Counted /\ Writes /\ ReadsUsed /\ Fresh

(* The inductive invariant: a flush during a read ends all that is known. *)
IInv == raced \in BOOLEAN /\ (~raced => Safe)

(* It holds when the file is opened. *)
LEMMA InitSafe == Init => Safe /\ raced = FALSE
<1> SUFFICES ASSUME Init PROVE Safe /\ raced = FALSE
  OBVIOUS
<1>0. SIZE \in Nat \ {0}
  BY RbufAssumption
<1>1. w = WIdle /\ r = RIdle /\ user = <<>> /\ len = <<>> /\ todo = 0 /\ raced = FALSE
      /\ pread = 0 /\ pwrite = 0 /\ secheader = <<NONE, NONE, NONE>>
      /\ data = [c \in Cells |-> NONE]
  BY Zenon DEF Init
<1>2. w \in Writer /\ w.pc = "idle" /\ w.at = 0
  BY <1>1 DEF WIdle, Writer
<1>3. /\ r \in ReadState /\ r.pc = "idle" /\ r.n = 0 /\ r.left = 0 /\ r.todo = 0 /\ r.got = 0
      /\ r.phase = "raw" /\ r.ubuf = <<>>
  <2>1. <<>> \in Seq(Byte)
    BY EmptySeq
  <2>2. /\ r.pc = "idle" /\ r.n = 0 /\ r.left = 0 /\ r.todo = 0 /\ r.got = 0
        /\ r.phase = "raw" /\ r.ubuf = <<>>
    BY <1>1 DEF RIdle
  <2>3. r \in ReadState
    BY <1>1, <2>1 DEF RIdle, ReadState
  <2>4. QED
    BY <2>2, <2>3
<1>4. \A i \in 1..3 : secheader[i] = <<0, 0>>
  <2>1. \A i \in 1..3 : i = 1 \/ i = 2 \/ i = 3
    OBVIOUS
  <2>2. secheader[1] = <<0, 0>> /\ secheader[2] = <<0, 0>> /\ secheader[3] = <<0, 0>>
    BY <1>1 DEF NONE
  <2>3. QED
    BY <2>1, <2>2
<1>5. Typed
  <2>1. data \in [Cells -> Byte] /\ pread \in Cells /\ pwrite \in Cells
    BY <1>0, <1>1 DEF NONE, Byte, Cells
  <2>2. user \in Seq(Byte) /\ len \in Seq(Lens)
    BY <1>1
  <2>3. type \in Types /\ oneshot \in BOOLEAN /\ fstate = "GO" /\ timer \in {"off", "armed"}
        /\ error = "" /\ torn = FALSE
    BY Zenon DEF Init
  <2>4. \A i \in 1..3 : secheader[i] \in Byte
    BY <1>4 DEF Byte
  <2>5. w.at <= SIZE /\ r.n < SIZE /\ r.left <= r.n /\ todo \in Int
    BY <1>0, <1>1, <1>2, <1>3
  <2>6. QED
    BY <1>2, <1>3, <2>1, <2>2, <2>3, <2>4, <2>5 DEF Typed
<1>10. Known
  <2>1. Len(user) = 0 /\ Len(r.ubuf) = 0 /\ Len(len) = 0
    BY <1>1, <1>3
  <2>2. \A c \in Cells : data[c] = <<0, 0>>
    BY <1>1 DEF NONE
  <2>3. QED
    BY <1>4, <2>1, <2>2 DEF Known, Produced
<1>11. Counted
  BY <1>1, <1>3 DEF Counted
<1>6. Writes
  BY <1>2 DEF Writes
<1>7. ReadsUsed
  BY <1>3 DEF ReadsUsed
<1>8. Fresh
  <2>1. Avail = 0 /\ user = <<>>
    BY <1>0, <1>1 DEF Avail
  <2>2. QED
    BY <2>1 DEF Fresh
<1>9. QED
  BY <1>1, <1>5, <1>6, <1>7, <1>8, <1>10, <1>11 DEF Safe

-----------------------------------------------------------------------------
(* What the parts of the invariant depend on. *)

(* A reader that is woken only leaves its sleep. *)
LEMMA WokenIs ==
  ASSUME r \in ReadState, r' = r \/ r' = Woken
  PROVE  /\ r' \in ReadState
         /\ r'.pc = r.pc \/ (r.pc = "sleep" /\ r'.pc = "loop")
         /\ r'.phase = r.phase /\ r'.count = r.count /\ r'.todo = r.todo /\ r'.got = r.got
         /\ r'.n = r.n /\ r'.left = r.left /\ r'.ubuf = r.ubuf
  BY ZenonT(60) DEF Woken, ReadState

(* The parts of the invariant over what they depend on: the reader's counts, *)
LEMMA SameCounted ==
  ASSUME Safe, r' = r \/ r' = Woken, todo' = todo, type' = type, user' = user
  PROVE  Counted'
<1>1. r \in ReadState
  BY DEF Safe, Typed
<1>2. QED
  BY <1>1, WokenIs DEF Safe, Counted

(* the bytes that were produced, *)
LEMMA SameKnown ==
  ASSUME Safe, r' = r \/ r' = Woken, secheader' = secheader, user' = user, data' = data, len' = len
  PROVE  Known'
<1>1. r \in ReadState
  BY DEF Safe, Typed
<1>2. QED
  BY <1>1, WokenIs DEF Safe, Known, Produced

(* the reader's copies, *)
LEMMA SameReadsUsed ==
  ASSUME Safe, r' = r \/ r' = Woken, pread' = pread, pwrite' = pwrite, data' = data,
         r.pc = "flush" => error' # "" \/ w'.pc \in {"clear", "seterr"}
  PROVE  ReadsUsed'
<1>1. r \in ReadState
  BY DEF Safe, Typed
<1>2. Avail' = Avail
  BY DEF Avail
<1>3. QED
  BY <1>1, <1>2, WokenIs DEF Safe, ReadsUsed

(* the callback's copies, *)
LEMMA SameWrites ==
  ASSUME Safe, w' = w, pread' = pread, pwrite' = pwrite, data' = data, len' = len
  PROVE  Writes'
  BY DEF Safe, Writes, Free

(* the queue, *)
LEMMA SameQueue ==
  ASSUME pread' = pread, pwrite' = pwrite, data' = data
  PROVE  Avail' = Avail /\ Queue' = Queue
  BY DEF Avail, Queue

(* and the order of the bytes. *)
LEMMA SameFresh ==
  ASSUME Safe, pread' = pread, pwrite' = pwrite, data' = data, user' = user, NextByte' = NextByte
  PROVE  Fresh'
  BY SameQueue DEF Safe, Fresh

(* Later bytes may come later. *)
LEMMA LaterFresh ==
  ASSUME Safe, pread' = pread, pwrite' = pwrite, data' = data, user' = user,
         NEW s \in Nat, NEW k \in Nat, NextByte = <<s, k>>,
         NEW t \in Nat, NEW m \in Nat, NextByte' = <<t, m>>, s < t \/ (s = t /\ k <= m)
  PROVE  Fresh'
<1>1. \A b \in Byte : Fifo!Before(b, NextByte) => Fifo!Before(b, NextByte')
  BY DEF Fifo!Before, Byte
<1>2. \A i \in 1..Avail : Queue[i] \in Byte
  <2>1. \A i \in 1..Avail : Queue[i] = data[Cell(i)] /\ i \in 1..SIZE
    BY QueueIs DEF Safe, Typed
  <2>2. \A i \in 1..SIZE : Cell(i) \in Cells
    BY CellIs DEF Safe, Typed
  <2>3. QED
    BY <2>1, <2>2 DEF Safe, Typed
<1>3. user # <<>> => user[Len(user)] \in Byte
  <2>1. user \in Seq(Byte)
    BY DEF Safe, Typed
  <2>2. QED
    BY <2>1, EmptySeq
<1>4. QED
  BY <1>1, <1>2, <1>3, SameQueue DEF Safe, Fresh

-----------------------------------------------------------------------------
(* The callback: every step keeps the invariant. *)

(* The demux delivers a chunk. *)
LEMMA WEnterSafe == Safe /\ WEnter => Safe'
<1> SUFFICES ASSUME Safe, WEnter PROVE Safe'
  OBVIOUS
<1>0. Typed /\ Known /\ w \in Writer /\ r \in ReadState /\ len \in Seq(Lens)
  BY DEF Safe, Typed
<1>1. PICK l \in Lens : len' = Append(len, l)
  BY DEF WEnter
<1>2. len' \in Seq(Lens) /\ Len(len') = Len(len) + 1 /\ Len(len) \in Nat /\ len' # <<>>
  BY <1>0, <1>1
<1>3. /\ UNCHANGED <<type, oneshot, fstate, timer, data, pread, pwrite, error, todo, secheader,
                     user, torn>>
      /\ r' = r \/ r' = Woken
      /\ w.pc = "idle"
      /\ w' = w \/ w' = [w EXCEPT !.pc = "lock"]
  BY DEF WEnter, file, ring
<1>4. w' \in Writer /\ w'.at = w.at /\ w'.pc \in {"idle", "lock"}
  BY <1>0, <1>3 DEF Writer
<1>5. Typed'
  BY <1>0, <1>2, <1>3, <1>4, WokenIs DEF Typed
<1>6. Known'
  <2>1. r'.ubuf = r.ubuf
    BY <1>0, <1>3, WokenIs
  <2>2. \A b \in Byte : Produced(b) => Produced(b)'
    BY <1>2 DEF Produced, Byte
  <2>3. \A c \in Cells : data[c] \in Byte
    BY <1>0 DEF Typed
  <2>4. (\A i \in 1..Len(r.ubuf) : r.ubuf[i] \in Byte) /\ (\A i \in 1..Len(user) : user[i] \in Byte)
    <3>1. r.ubuf \in Seq(Byte) /\ user \in Seq(Byte)
      BY <1>0 DEF Typed, ReadState
    <3>2. QED
      BY <3>1, ElementOfSeq
  <2>5. \A i \in 1..3 : secheader[i] \in Byte
    BY <1>0 DEF Typed
  <2>6. QED
    BY <1>0, <1>3, <2>1, <2>2, <2>3, <2>4, <2>5 DEF Known, Produced
<1>7. Counted'
  BY <1>3, SameCounted
<1>8. Writes'
  BY <1>2, <1>4 DEF Writes
<1>9. ReadsUsed'
  <2>1. r.pc = "flush" => error' # ""
    BY <1>3 DEF Safe, ReadsUsed
  <2>2. QED
    BY <1>3, <2>1, SameReadsUsed
<1>10. Fresh'
  <2>1. NextByte = <<Len(len) + 1, 0>>
    BY <1>3 DEF NextByte
  <2>2. NextByte' = <<Len(len) + 1, 0>> \/ NextByte' = <<Len(len) + 2, 0>>
    BY <1>2, <1>4 DEF NextByte
  <2>3. Len(len) + 1 \in Nat /\ Len(len) + 2 \in Nat
    BY <1>2
  <2>4. QED
    BY <1>3, <2>1, <2>2, <2>3, LaterFresh
<1>11. QED
  BY <1>5, <1>6, <1>7, <1>8, <1>9, <1>10 DEF Safe

(* A step of the callback that leaves the buffer and the chunks alone. *)
LEMMA WLocal ==
  ASSUME Safe, r' = r \/ r' = Woken, w' \in Writer, w'.at <= SIZE,
         fstate' \in {"GO", "DONE", "TIMEDOUT"}, timer' \in {"off", "armed", "fired"},
         error' \in {"", "EOVERFLOW", "ETIMEDOUT"},
         r.pc = "flush" => error' # "" \/ w'.pc \in {"clear", "seterr"},
         UNCHANGED <<type, oneshot, data, pread, pwrite, len, todo, secheader, user, torn>>
  PROVE  Typed' /\ Known' /\ Counted' /\ ReadsUsed'
<1>0. Typed /\ r \in ReadState
  BY DEF Safe, Typed
<1>1. Typed'
  BY <1>0, WokenIs DEF Typed
<1>2. QED
  BY <1>1, SameKnown, SameCounted, SameReadsUsed

(* The callback takes the lock and finds out whether the chunk fits. *)
LEMMA WLockSafe == Safe /\ WLock => Safe'
<1> DEFINE l == len[Len(len)]
<1> SUFFICES ASSUME Safe, WLock PROVE Safe'
  OBVIOUS
<1>0. /\ Typed /\ w \in Writer /\ r \in ReadState /\ len \in Seq(Lens) /\ len # <<>>
      /\ pread \in Cells /\ pwrite \in Cells /\ SIZE \in Nat
  BY RbufAssumption DEF Safe, Typed, Writes, WLock
<1>1. l \in Nat \ {0} /\ Len(len) \in Nat
  <2>1. Len(len) \in Nat \ {0}
    BY <1>0, EmptySeq
  <2>2. l \in Lens
    BY <1>0, <2>1, ElementOfSeq
  <2>3. QED
    BY <2>1, <2>2, RbufAssumption
<1>2. /\ UNCHANGED <<type, oneshot, fstate, data, pread, pwrite, error, len, todo, secheader,
                     user, torn>>
      /\ r' = r \/ r' = Woken
      /\ w.pc = "lock"
      /\ timer' = timer \/ timer' = "off"
  BY DEF WLock, ring
<1> DEFINE pc2 == IF l > Free THEN "flush" ELSE IF pwrite + l > SIZE THEN "copy1" ELSE "copy2"
<1>3. w' = WIdle \/ w' = [pc |-> pc2, at |-> 0, todo |-> l]
  BY DEF WLock
<1> HIDE DEF l
<1>4. /\ w' \in Writer /\ w'.at = 0
      /\ w'.pc \in {"idle", pc2} /\ (w'.pc # "idle" => w'.todo = l)
  BY <1>1, <1>3 DEF Writer, WIdle
<1>5. Typed' /\ Known' /\ Counted' /\ ReadsUsed'
  <2>1. r.pc = "flush" => error' # ""
    BY <1>2 DEF Safe, ReadsUsed
  <2>2. /\ fstate' \in {"GO", "DONE", "TIMEDOUT"} /\ timer' \in {"off", "armed", "fired"}
        /\ error' \in {"", "EOVERFLOW", "ETIMEDOUT"}
    BY <1>0, <1>2 DEF Typed
  <2>3. w'.at <= SIZE /\ w' \in Writer
    BY <1>0, <1>4
  <2>4. QED
    BY <1>2, <2>1, <2>2, <2>3, WLocal
<1>6. Writes'
  <2>1. Free' = Free /\ Free \in Int
    BY <1>0, <1>2 DEF Free, Cells
  <2>2. QED
    BY <1>0, <1>1, <1>2, <1>4, <2>1 DEF Writes, Cells
<1>7. Fresh'
  <2>1. NextByte = <<Len(len), 0>>
    BY <1>2 DEF NextByte
  <2>2. NextByte' = <<Len(len), 0>> \/ NextByte' = <<Len(len) + 1, 0>>
    BY <1>2, <1>4 DEF NextByte
  <2>3. Len(len) + 1 \in Nat
    BY <1>1
  <2>4. QED
    BY <1>1, <1>2, <2>1, <2>2, <2>3, LaterFresh
<1>8. QED
  BY <1>5, <1>6, <1>7 DEF Safe

(* A copy to free cells: the queue does not change. *)
(* Cell c after bytes f, f + 1, ... of chunk n were copied to k cells from pwrite on. *)
Copied(c, k, f, n) ==
  IF c \in pwrite..(pwrite + k - 1) THEN <<n, f + (c - pwrite)>> ELSE data[c]

(* The memory after a memcpy of the callback. *)
LEMMA StoreIs ==
  ASSUME data \in [Cells -> Byte], pwrite \in Cells, NEW k \in Nat, NEW f \in Nat, NEW n \in Nat
  PROVE  /\ Store(pwrite, Bytes(n, f, k)) \in [Cells -> Byte]
         /\ \A c \in Cells : Store(pwrite, Bytes(n, f, k))[c] = Copied(c, k, f, n)
<1> DEFINE bs == Bytes(n, f, k)
           d == Store(pwrite, bs)
<1>0. SIZE \in Nat /\ pwrite \in Nat
  BY RbufAssumption DEF Cells
<1>1. Len(bs) = k /\ \A i \in 1..k : bs[i] = <<n, f + i - 1>>
  BY DEF Bytes
<1> HIDE DEF bs
<1>2. d = [c \in Cells |-> IF c \in pwrite..(pwrite + k - 1) THEN bs[c - pwrite + 1] ELSE data[c]]
  BY <1>1 DEF Store
<1> HIDE DEF d
<1>3. ASSUME NEW c \in Cells, c \in pwrite..(pwrite + k - 1)
      PROVE  bs[c - pwrite + 1] = <<n, f + (c - pwrite)>> /\ f + (c - pwrite) \in Nat
  <2> DEFINE i == c - pwrite + 1
  <2>1. i \in 1..k /\ f + i - 1 = f + (c - pwrite) /\ f + (c - pwrite) \in Nat
    BY <1>0, <1>3 DEF Cells
  <2> HIDE DEF i
  <2>2. bs[i] = <<n, f + i - 1>>
    BY <1>1, <2>1
  <2>3. QED
    BY <2>1, <2>2 DEF i
<1>4. \A c \in Cells : d[c] = IF c \in pwrite..(pwrite + k - 1) THEN <<n, f + (c - pwrite)>> ELSE data[c]
  BY <1>2, <1>3
<1>5. \A c \in Cells : d[c] \in Byte
  <2>1. \A c \in Cells : c \in pwrite..(pwrite + k - 1) => d[c] \in Byte
    BY <1>3, <1>4 DEF Byte
  <2>2. \A c \in Cells : c \notin pwrite..(pwrite + k - 1) => d[c] \in Byte
    BY <1>4
  <2>3. QED
    BY <2>1, <2>2
<1>6. d \in [Cells -> Byte]
  BY <1>2, <1>5
<1>7. \A c \in Cells : d[c] = Copied(c, k, f, n)
  BY <1>4 DEF Copied
<1>8. QED
  BY <1>6, <1>7 DEF d, bs

(* They are bytes of the current chunk. *)
Stores(k, f) ==
  /\ data' \in [Cells -> Byte]
  /\ \A c \in Cells : data'[c] = Copied(c, k, f, Len(len))

(* An error that the reader is about to take is still there. *)
ErrorStays == r.pc = "flush" => error' # "" \/ w'.pc \in {"clear", "seterr"}

(* A memcpy to free cells is not seen by the reader. *)
LEMMA StoreFree ==
  ASSUME Safe, NEW k \in Nat, NEW f \in Nat, k <= Free, pwrite + k <= SIZE,
         Stores(k, f), ErrorStays,
         r' = r, pread' = pread, pwrite' = pwrite, len' = len, user' = user,
         secheader' = secheader
  PROVE  /\ \A j \in 0..(k - 1) : data'[pwrite + j] = <<Len(len), f + j>>
         /\ Queue' = Queue /\ Avail' = Avail
         /\ Known' /\ ReadsUsed'
<1>0. /\ pread \in Cells /\ pwrite \in Cells /\ SIZE \in Nat \ {0} /\ len \in Seq(Lens)
      /\ r \in ReadState /\ Len(len) \in Nat /\ r.left \in Nat
  <2>1. /\ pread \in Cells /\ pwrite \in Cells /\ len \in Seq(Lens) /\ r \in ReadState
    BY DEF Safe, Typed
  <2>2. r.left \in Nat
    BY <2>1 DEF ReadState
  <2>3. Len(len) \in Nat
    BY <2>1, LenProperties
  <2>4. QED
    BY <2>1, <2>2, <2>3, RbufAssumption
<1>5. \A j \in 0..(k - 1) : data'[pwrite + j] = <<Len(len), f + j>>
  <2>1. ASSUME NEW j \in 0..(k - 1) PROVE data'[pwrite + j] = <<Len(len), f + j>>
    <3> DEFINE c == pwrite + j
    <3>1. c \in Cells /\ c \in pwrite..(pwrite + k - 1) /\ f + (c - pwrite) = f + j
      BY <1>0 DEF Cells
    <3> HIDE DEF c
    <3>2. data'[c] = <<Len(len), f + (c - pwrite)>>
      BY <3>1 DEF Stores, Copied
    <3>3. QED
      BY <3>1, <3>2 DEF c
  <2>2. QED
    BY <2>1
<1>6. Avail' = Avail /\ Avail \in 0..(SIZE - 1)
  BY <1>0, FreeAndAvail DEF Avail
<1>7. \A i \in 1..Avail : data'[Cell(i)] = data[Cell(i)] /\ Cell(i) \in Cells
  <2>1. ASSUME NEW i \in 1..Avail PROVE data'[Cell(i)] = data[Cell(i)] /\ Cell(i) \in Cells
    <3>1. Cell(i) \notin pwrite..(pwrite + k - 1)
      BY <1>0, FreeIsNotUsed
    <3>2. i \in 1..SIZE
      BY <1>0, <1>6
    <3>3. Cell(i) \in Cells
      BY <1>0, <3>2, CellIs
    <3>4. QED
      BY <3>1, <3>3 DEF Stores, Copied
  <2>2. QED
    BY <2>1
<1>8. Queue' = Queue
  BY <1>6, <1>7 DEF Queue, Cell
<1>9. Known'
  <2>1. \A c \in Cells : Produced(data'[c])
    BY <1>0 DEF Safe, Known, Produced, Stores, Copied
  <2>2. QED
    BY <2>1 DEF Safe, Known, Produced
<1>10. ReadsUsed'
  <2>1. ASSUME NEW i \in 1..Avail, pread + i <= SIZE PROVE data'[pread + i - 1] = data[pread + i - 1]
    <3>1. i \in 1..SIZE /\ pread + i - 1 < SIZE
      BY <1>0, <1>6, <2>1 DEF Cells
    <3>2. Cell(i) = pread + i - 1
      BY <1>0, <3>1, CellIs
    <3>3. QED
      BY <1>7, <3>2
  <2>2. /\ r.pc = "split" => (SIZE - pread) + r.left <= Avail
        /\ r.pc = "advance" => r.left <= Avail /\ pread + r.left <= SIZE
    BY DEF Safe, ReadsUsed
  <2>3. /\ r.pc = "split" => \A i \in 1..(SIZE - pread) : i \in 1..Avail /\ pread + i <= SIZE
        /\ r.pc = "advance" => \A i \in 1..r.left : i \in 1..Avail /\ pread + i <= SIZE
    BY <1>0, <1>6, <2>2 DEF Cells
  <2>4. r.pc = "split" => \A i \in 1..(SIZE - pread) : data'[pread + i - 1] = data[pread + i - 1]
    BY <2>1, <2>3
  <2>5. r.pc = "advance" => \A i \in 1..r.left : data'[pread + i - 1] = data[pread + i - 1]
    BY <2>1, <2>3
  <2>6. QED
    BY <1>6, <2>4, <2>5 DEF Safe, ReadsUsed, ErrorStays
<1>11. QED
  BY <1>5, <1>6, <1>8, <1>9, <1>10

(* What the steps below need of the types. *)
LEMMA Facts ==
  ASSUME Safe
  PROVE  /\ SIZE \in Nat \ {0} /\ pread \in Cells /\ pwrite \in Cells /\ data \in [Cells -> Byte]
         /\ pread \in Nat /\ pwrite \in Nat /\ pread < SIZE /\ pwrite < SIZE
         /\ len \in Seq(Lens) /\ Len(len) \in Nat
         /\ w \in Writer /\ w.at \in Nat /\ w.todo \in Nat
         /\ r \in ReadState /\ r.n \in Nat /\ r.left \in Nat /\ r.todo \in Nat /\ r.got \in Nat
         /\ r.count \in Nat /\ r.ubuf \in Seq(Byte) /\ Len(r.ubuf) \in Nat
         /\ user \in Seq(Byte) /\ Len(user) \in Nat
         /\ Avail \in 0..(SIZE - 1) /\ Free = SIZE - 1 - Avail
<1>1. /\ SIZE \in Nat \ {0} /\ pread \in Cells /\ pwrite \in Cells /\ data \in [Cells -> Byte]
      /\ len \in Seq(Lens) /\ w \in Writer /\ r \in ReadState /\ user \in Seq(Byte)
  BY RbufAssumption DEF Safe, Typed
<1>2. w.at \in Nat /\ w.todo \in Nat
  BY <1>1 DEF Writer
<1>3. r.n \in Nat /\ r.left \in Nat /\ r.todo \in Nat /\ r.got \in Nat /\ r.ubuf \in Seq(Byte)
      /\ r.count \in Nat
  BY <1>1 DEF ReadState
<1>4. Len(len) \in Nat /\ Len(r.ubuf) \in Nat /\ Len(user) \in Nat
  BY <1>1, <1>3, LenProperties
<1>5. pread \in Nat /\ pwrite \in Nat /\ pread < SIZE /\ pwrite < SIZE
  BY <1>1 DEF Cells
<1>6. QED
  BY <1>1, <1>2, <1>3, <1>4, <1>5, FreeAndAvail

(* The numbers among them. *)
LEMMA Numbers ==
  ASSUME Safe
  PROVE  /\ SIZE \in Nat /\ SIZE > 0 /\ pread \in Nat /\ pread < SIZE
         /\ r.n \in Nat /\ r.left \in Nat /\ r.todo \in Nat
         /\ Avail \in Nat /\ Avail < SIZE
<1>1. SIZE \in Nat \ {0} /\ Avail \in 0..(SIZE - 1)
  BY Facts
<1>2. pread \in Nat /\ pread < SIZE /\ r.n \in Nat /\ r.left \in Nat /\ r.todo \in Nat
  BY Facts
<1>3. QED
  BY <1>1, <1>2

(* The queue is a sequence of bytes. *)
LEMMA QueueBytes == Safe => \A i \in 1..Avail : Queue[i] \in Byte
<1> SUFFICES ASSUME Safe PROVE \A i \in 1..Avail : Queue[i] \in Byte
  OBVIOUS
<1>1. \A i \in 1..Avail : Queue[i] = data[Cell(i)] /\ i \in 1..SIZE
  BY Facts, QueueIs
<1>2. \A i \in 1..SIZE : Cell(i) \in Cells
  BY Facts, CellIs
<1>3. QED
  BY <1>1, <1>2, Facts

(* The k cells from pwrite on hold the bytes f, f + 1, ... of the current chunk. *)
Stored(k, f) == \A j \in 0..(k - 1) : data[pwrite + j] = <<Len(len), f + j>>

(* An error is raised, or about to be. *)
Err == error # "" \/ w.pc \in {"clear", "seterr"}

(* pwrite moves over them: they are put. *)
LEMMA PutStep ==
  ASSUME Safe, NEW k \in Nat, NEW f \in Nat, k >= 1, k <= Free, pwrite + k <= SIZE,
         NextByte = <<Len(len), f>>, Stored(k, f),
         pread' = pread, data' = data, user' = user,
         pwrite' = IF pwrite + k = SIZE THEN 0 ELSE pwrite + k,
         NEW t \in Nat, NEW m \in Nat, NextByte' = <<t, m>>,
         Len(len) < t \/ (Len(len) = t /\ f + k <= m), Err' = Err
  PROVE  pwrite' \in Cells /\ Avail' = Avail + k /\ Fresh' /\ Fifo!Put
<1>0. /\ SIZE \in Nat \ {0} /\ Avail \in 0..(SIZE - 1) /\ k <= SIZE - 1 - Avail /\ Len(len) \in Nat
      /\ user \in Seq(Byte) /\ pread \in Cells
  BY Facts
<1>1. /\ pwrite' \in Cells /\ Avail' = Avail + k
      /\ \A i \in 1..Avail : Queue'[i] = Queue[i]
      /\ \A i \in (Avail + 1)..(Avail + k) : Queue'[i] = data[pwrite + (i - Avail) - 1]
  BY Facts, PutCells
<1>2. \A i \in (Avail + 1)..(Avail + k) : Queue'[i] = <<Len(len), f + (i - Avail) - 1>>
  <2>1. ASSUME NEW i \in (Avail + 1)..(Avail + k)
        PROVE  Queue'[i] = <<Len(len), f + (i - Avail) - 1>>
    <3> DEFINE j == (i - Avail) - 1
    <3>1. j \in 0..(k - 1) /\ pwrite + j = pwrite + (i - Avail) - 1 /\ f + j = f + (i - Avail) - 1
      BY <1>0, <2>1, Facts
    <3>2. Queue'[i] = data[pwrite + (i - Avail) - 1]
      BY <1>1
    <3> HIDE DEF j
    <3>3. data[pwrite + j] = <<Len(len), f + j>>
      BY <3>1 DEF Stored
    <3>4. QED
      BY <3>1, <3>2, <3>3
  <2>2. QED
    BY <2>1
<1>3. \A b \in Byte : Fifo!Before(b, NextByte) =>
        /\ Fifo!Before(b, NextByte')
        /\ \A g \in Nat : g >= f => Fifo!Before(b, <<Len(len), g>>)
  BY <1>0 DEF Fifo!Before, Byte
<1>4. user # <<>> => user[Len(user)] \in Byte
  BY <1>0, EmptySeq, ElementOfSeq
<1>5. Fresh'
  <2>1. ASSUME NEW i \in 1..Avail PROVE Fifo!Before(Queue'[i], NextByte')
    BY <1>1, <1>3, QueueBytes DEF Safe, Fresh
  <2>2. ASSUME NEW i \in (Avail + 1)..(Avail + k) PROVE Fifo!Before(Queue'[i], NextByte')
    <3>1. Queue'[i] = <<Len(len), f + (i - Avail) - 1>>
      BY <1>2
    <3>2. Len(len) < t \/ (Len(len) = t /\ f + (i - Avail) - 1 < m)
      BY <1>0, <2>2
    <3>3. QED
      BY <3>1, <3>2 DEF Fifo!Before
  <2>3. \A i \in 1..Avail' : i \in 1..Avail \/ i \in (Avail + 1)..(Avail + k)
    BY <1>0, <1>1
  <2>4. user' # <<>> => Fifo!Before(user'[Len(user')], NextByte')
    BY <1>3, <1>4 DEF Safe, Fresh
  <2>5. QED
    BY <2>1, <2>2, <2>3, <2>4 DEF Fresh
<1>6. Fifo!Put
  <2>1. Len(Queue) = Avail /\ Len(Queue') = Avail + k
    BY <1>0, <1>1 DEF Queue
  <2>2. SubSeq(Queue', 1, Len(Queue)) = Queue
    <3>1. \A i \in 1..Avail : Queue'[i] \in Byte
      BY <1>1, QueueBytes
    <3>2. Queue \in Seq(Byte)
      BY <1>0, QueueBytes DEF Queue
    <3>3. /\ SubSeq(Queue', 1, Avail) \in Seq(Byte)
          /\ Len(SubSeq(Queue', 1, Avail)) = Avail
          /\ \A i \in 1..Avail : SubSeq(Queue', 1, Avail)[i] = Queue'[i]
      <4>1. /\ SubSeq(Queue', 1, Avail) \in Seq(Byte)
            /\ Len(SubSeq(Queue', 1, Avail)) = IF 1 <= Avail THEN Avail - 1 + 1 ELSE 0
            /\ \A i \in 1..(Avail - 1 + 1) : SubSeq(Queue', 1, Avail)[i] = Queue'[1 + i - 1]
        BY <1>0, <3>1, SubSeqProperties
      <4>2. Avail - 1 + 1 = Avail /\ \A i \in 1..Avail : 1 + i - 1 = i
        BY <1>0
      <4>3. QED
        BY <1>0, <4>1, <4>2
    <3>4. QED
      BY <1>1, <2>1, <3>2, <3>3, SeqEqual
  <2>3. ASSUME NEW i \in (Avail + 1)..(Avail + k)
        PROVE  /\ \A j \in 1..(i - 1) : Fifo!Before(Queue'[j], Queue'[i])
               /\ user # <<>> => Fifo!Before(user[Len(user)], Queue'[i])
    <3> DEFINE g == f + (i - Avail) - 1
    <3>1. Queue'[i] = <<Len(len), g>> /\ g \in Nat /\ g >= f
      BY <1>0, <1>2, <2>3, SMTT(30)
    <3> HIDE DEF g
    <3>2. ASSUME NEW j \in 1..Avail PROVE Fifo!Before(Queue'[j], Queue'[i])
      BY <1>1, <1>3, <3>1, QueueBytes DEF Safe, Fresh
    <3>3. ASSUME NEW j \in (Avail + 1)..(i - 1) PROVE Fifo!Before(Queue'[j], Queue'[i])
      <4>1. j \in (Avail + 1)..(Avail + k) /\ f + (j - Avail) - 1 < g
        BY <1>0, <2>3, <3>3 DEF g
      <4>2. Queue'[j] = <<Len(len), f + (j - Avail) - 1>>
        BY <1>2, <4>1
      <4>3. QED
        BY <3>1, <4>1, <4>2 DEF Fifo!Before
    <3>4. \A j \in 1..(i - 1) : j \in 1..Avail \/ j \in (Avail + 1)..(i - 1)
      BY <1>0, <2>3
    <3>5. user # <<>> => Fifo!Before(user[Len(user)], Queue'[i])
      BY <1>3, <1>4, <3>1 DEF Safe, Fresh
    <3>6. QED
      BY <3>2, <3>3, <3>4, <3>5
  <2>4. Len(Queue') \in (Len(Queue) + 1)..(SIZE - 1)
    BY <1>0, <2>1
  <2>5. QED
    BY <2>1, <2>2, <2>3, <2>4 DEF Fifo!Put, Err
<1>7. QED
  BY <1>1, <1>5, <1>6

(* A step the queue does not see. *)
LEMMA Unseen ==
  ASSUME Queue' = Queue, user' = user, Err' = Err
  PROVE  UNCHANGED Fifo!vars
  BY DEF Fifo!vars, Err

(* The copies of the callback are such a memcpy. *)
LEMMA CopyStores ==
  ASSUME data \in [Cells -> Byte], pwrite \in Cells, Len(len) \in Nat, NEW k \in Nat,
         NEW f \in Nat, data' = Store(pwrite, Bytes(Len(len), f, k))
  PROVE  Stores(k, f)
  BY StoreIs DEF Stores

(* The copy up to the end of the buffer. *)
LEMMA WCopy1Step == Safe /\ WCopy1 => Safe' /\ UNCHANGED Fifo!vars
<1> SUFFICES ASSUME Safe, WCopy1 PROVE Safe' /\ UNCHANGED Fifo!vars
  OBVIOUS
<1> DEFINE k == SIZE - pwrite
<1>0. Typed /\ SIZE \in Nat \ {0} /\ w \in Writer /\ w.at = 0 /\ w.todo \in Nat /\ pwrite \in Nat
      /\ pwrite < SIZE /\ pwrite + w.todo > SIZE /\ w.todo <= Free /\ Free \in Int /\ Len(len) \in Nat
      /\ pwrite \in Cells /\ data \in [Cells -> Byte]
  BY Facts, SMTT(30) DEF Safe, Writes, WCopy1
<1>1. k \in Nat /\ k >= 1 /\ k <= Free /\ pwrite + k <= SIZE /\ w.todo - k \in Nat /\ w.todo - k >= 1
      /\ k + (w.todo - k) <= Free /\ k <= SIZE
  BY <1>0
<1>2. /\ data' = Store(pwrite, Bytes(Len(len), 0, k))
      /\ w' = [pc |-> "split", at |-> k, todo |-> w.todo - k] /\ w.pc = "copy1"
  BY DEF WCopy1
<1>3. UNCHANGED <<type, oneshot, fstate, timer, pread, pwrite, error, len, r, todo, secheader,
                  user, torn>>
  BY DEF WCopy1, file
<1> HIDE DEF k
<1>4. Stores(k, 0)
  BY <1>0, <1>1, <1>2, CopyStores
<1>5. w' \in Writer /\ w'.pc = "split" /\ w'.at = k /\ w'.todo = w.todo - k
  BY <1>1, <1>2 DEF Writer
<1>6. ErrorStays
  BY <1>2, <1>3 DEF Safe, ReadsUsed, ErrorStays
<1>7. /\ \A j \in 0..(k - 1) : data'[pwrite + j] = <<Len(len), 0 + j>>
      /\ Queue' = Queue /\ Avail' = Avail /\ Known' /\ ReadsUsed'
  BY <1>1, <1>3, <1>4, <1>6, StoreFree
<1>8. Typed'
  <2>1. data' \in [Cells -> Byte]
    BY <1>4 DEF Stores
  <2>2. QED
    BY <1>0, <1>1, <1>3, <1>5, <2>1 DEF Typed
<1>9. Counted'
  BY <1>3, SameCounted
<1>10. Writes'
  <2>1. Free' = Free
    BY <1>3 DEF Free
  <2>2. \A j \in 0..(w'.at - 1) : data'[pwrite' + j] = <<Len(len'), j>>
    BY <1>1, <1>3, <1>5, <1>7
  <2>3. w'.at = SIZE - pwrite' /\ w'.todo >= 1 /\ w'.at + w'.todo <= Free'
    BY <1>1, <1>3, <1>5, <2>1 DEF k
  <2>4. QED
    BY <1>5, <2>2, <2>3 DEF Writes
<1>11. Fresh'
  <2>1. NextByte' = NextByte
    BY <1>2, <1>3, <1>5 DEF NextByte
  <2>2. QED
    BY <1>3, <1>7, <2>1 DEF Safe, Fresh
<1>12. Err' = Err
  BY <1>2, <1>3, <1>5 DEF Err
<1>13. QED
  BY <1>3, <1>7, <1>8, <1>9, <1>10, <1>11, <1>12, Unseen DEF Safe

(* The copy that ends the chunk. *)
LEMMA WCopy2Step == Safe /\ WCopy2 => Safe' /\ UNCHANGED Fifo!vars
<1> SUFFICES ASSUME Safe, WCopy2 PROVE Safe' /\ UNCHANGED Fifo!vars
  OBVIOUS
<1> DEFINE k == w.todo
           f == w.at
<1>0. Typed /\ w \in Writer /\ w.at \in Nat /\ w.todo \in Nat /\ w.todo >= 1
      /\ w.todo <= Free /\ pwrite + w.todo <= SIZE /\ Len(len) \in Nat
      /\ pwrite \in Cells /\ data \in [Cells -> Byte]
  BY Facts DEF Safe, Writes, WCopy2
<1>2. /\ data' = Store(pwrite, Bytes(Len(len), f, k))
      /\ w' = [w EXCEPT !.pc = "publish"] /\ w.pc = "copy2"
  BY DEF WCopy2
<1>3. UNCHANGED <<type, oneshot, fstate, timer, pread, pwrite, error, len, r, todo, secheader,
                  user, torn>>
  BY DEF WCopy2, file
<1>4. Stores(k, f)
  BY <1>0, <1>2, CopyStores
<1>5. w' \in Writer /\ w'.pc = "publish" /\ w'.at = w.at /\ w'.todo = w.todo
  BY <1>0, <1>2 DEF Writer
<1>6. ErrorStays
  BY <1>2, <1>3 DEF Safe, ReadsUsed, ErrorStays
<1>7. /\ \A j \in 0..(k - 1) : data'[pwrite + j] = <<Len(len), f + j>>
      /\ Queue' = Queue /\ Avail' = Avail /\ Known' /\ ReadsUsed'
  BY <1>0, <1>3, <1>4, <1>6, StoreFree
<1>8. Typed'
  <2>1. data' \in [Cells -> Byte]
    BY <1>4 DEF Stores
  <2>2. QED
    BY <1>0, <1>3, <1>5, <2>1 DEF Typed
<1>9. Counted'
  BY <1>3, SameCounted
<1>10. Writes'
  <2>1. Free' = Free
    BY <1>3 DEF Free
  <2>2. \A j \in 0..(w'.todo - 1) : data'[pwrite' + j] = <<Len(len'), w'.at + j>>
    BY <1>3, <1>5, <1>7
  <2>3. w'.todo >= 1 /\ w'.todo <= Free' /\ pwrite' + w'.todo <= SIZE
    BY <1>0, <1>3, <1>5, <2>1
  <2>4. QED
    BY <1>5, <2>2, <2>3 DEF Writes
<1>11. Fresh'
  <2>1. NextByte' = NextByte
    BY <1>2, <1>3, <1>5 DEF NextByte
  <2>2. QED
    BY <1>3, <1>7, <2>1 DEF Safe, Fresh
<1>12. Err' = Err
  BY <1>2, <1>3, <1>5 DEF Err
<1>13. QED
  BY <1>3, <1>7, <1>8, <1>9, <1>10, <1>11, <1>12, Unseen DEF Safe

(* pwrite is moved. *)
LEMMA PutKeepsReader ==
  ASSUME Safe, Avail' >= Avail, Avail' \in Nat, r' = r, pread' = pread, data' = data, ErrorStays
  PROVE  ReadsUsed'
<1>1. Avail \in Nat /\ r.left \in Nat /\ pread \in Nat /\ SIZE \in Nat
  BY Numbers
<1>2. /\ r.pc = "copy1" => r.left <= Avail'
      /\ r.pc = "split" => (SIZE - pread) + r.left <= Avail'
      /\ r.pc \in {"copy2", "advance"} => r.left <= Avail'
  <2>1. /\ r.pc = "copy1" => r.left <= Avail
        /\ r.pc = "split" => (SIZE - pread) + r.left <= Avail
        /\ r.pc \in {"copy2", "advance"} => r.left <= Avail
    BY DEF Safe, ReadsUsed
  <2>2. QED
    BY <1>1, <2>1
<1>3. QED
  BY <1>2 DEF Safe, ReadsUsed, ErrorStays

(* pwrite wraps: the first part of the chunk is put. *)
LEMMA WSplitStep == Safe /\ WSplit => Safe' /\ Fifo!Put
<1> SUFFICES ASSUME Safe, WSplit PROVE Safe' /\ Fifo!Put
  OBVIOUS
<1> DEFINE k == w.at
<1>0. /\ Typed /\ w \in Writer /\ w.at \in Nat /\ w.todo \in Nat /\ w.todo >= 1
      /\ w.at = SIZE - pwrite /\ w.at + w.todo <= Free
      /\ SIZE \in Nat \ {0} /\ pwrite \in Nat /\ pwrite < SIZE /\ Len(len) \in Nat
      /\ Avail \in 0..(SIZE - 1) /\ Free = SIZE - 1 - Avail
  BY Facts DEF Safe, Writes, WSplit
<1>1. k \in Nat /\ k >= 1 /\ k <= Free /\ pwrite + k <= SIZE /\ pwrite + k = SIZE
  BY <1>0
<1>2. pwrite' = 0 /\ w.pc = "split" /\ w' = [w EXCEPT !.pc = "copy2"]
  BY DEF WSplit
<1>3. UNCHANGED <<type, oneshot, fstate, timer, data, pread, error, len, r, todo, secheader,
                  user, torn>>
  BY DEF WSplit, file
<1>4. w' \in Writer /\ w'.pc = "copy2" /\ w'.at = w.at /\ w'.todo = w.todo
  BY <1>0, <1>2 DEF Writer
<1>5. NextByte = <<Len(len), 0>> /\ NextByte' = <<Len(len), k>>
  BY <1>2, <1>3, <1>4 DEF NextByte
<1>6. Stored(k, 0)
  BY <1>2 DEF Safe, Writes, Stored
<1>7. Err' = Err
  BY <1>2, <1>3, <1>4 DEF Err
<1>8. pwrite' = IF pwrite + k = SIZE THEN 0 ELSE pwrite + k
  BY <1>1, <1>2
<1>9. pwrite' \in Cells /\ Avail' = Avail + k /\ Fresh' /\ Fifo!Put
  <2>1. Len(len) = Len(len) /\ 0 + k <= k
    BY <1>1
  <2>2. QED
    BY <1>0, <1>1, <1>3, <1>5, <1>6, <1>7, <1>8, <2>1, PutStep
<1>10. Typed'
  BY <1>0, <1>3, <1>4, <1>9 DEF Typed
<1>11. Known' /\ Counted'
  BY <1>3, SameKnown, SameCounted
<1>12. Writes'
  <2>1. Free' = SIZE - 1 - Avail'
    <3>1. pread' \in Cells /\ pwrite' \in Cells
      BY <1>3, <1>9, Facts
    <3>2. QED
      BY <3>1, FreeAndAvailNext
  <2>2. w'.todo <= Free' /\ pwrite' + w'.todo <= SIZE /\ w'.todo >= 1
    BY <1>0, <1>1, <1>2, <1>4, <1>9, <2>1, SMTT(30)
  <2>3. QED
    BY <1>4, <2>2 DEF Writes
<1>13. ReadsUsed'
  <2>1. ErrorStays
    BY <1>2, <1>3 DEF Safe, ReadsUsed, ErrorStays
  <2>2. Avail' >= Avail /\ Avail' \in Nat
    BY <1>0, <1>1, <1>9
  <2>3. QED
    BY <1>3, <2>1, <2>2, PutKeepsReader
<1>14. QED
  BY <1>9, <1>10, <1>11, <1>12, <1>13 DEF Safe

(* pwrite moves: the rest of the chunk is put. *)
LEMMA WPublishStep == Safe /\ WPublish => Safe' /\ Fifo!Put
<1> SUFFICES ASSUME Safe, WPublish PROVE Safe' /\ Fifo!Put
  OBVIOUS
<1> DEFINE k == w.todo
           f == w.at
<1>0. /\ Typed /\ w \in Writer /\ w.at \in Nat /\ w.todo \in Nat /\ w.todo >= 1
      /\ w.todo <= Free /\ pwrite + w.todo <= SIZE
      /\ SIZE \in Nat \ {0} /\ pwrite \in Nat /\ pwrite < SIZE /\ Len(len) \in Nat
      /\ Avail \in 0..(SIZE - 1)
  BY Facts DEF Safe, Writes, WPublish
<1>2. /\ pwrite' = (pwrite + k) % SIZE /\ w.pc = "publish" /\ w' = [w EXCEPT !.pc = "wake"]
      /\ fstate' = Stopped
  BY DEF WPublish, Moved
<1>3. UNCHANGED <<type, oneshot, timer, data, pread, error, len, r, todo, secheader, user, torn>>
  BY DEF WPublish
<1>4. w' \in Writer /\ w'.pc = "wake" /\ w'.at = w.at
  BY <1>0, <1>2 DEF Writer
<1>5. NextByte = <<Len(len), f>> /\ NextByte' = <<Len(len) + 1, 0>>
  BY <1>2, <1>3, <1>4 DEF NextByte
<1>6. Stored(k, f)
  BY <1>2 DEF Safe, Writes, Stored
<1>7. Err' = Err
  BY <1>2, <1>3, <1>4 DEF Err
<1>8. pwrite' = IF pwrite + k = SIZE THEN 0 ELSE pwrite + k
  <2> DEFINE x == pwrite + k
  <2>1. x \in 0..(2 * SIZE - 1) /\ x <= SIZE /\ x \in Nat
    BY <1>0
  <2>2. pwrite' = x % SIZE
    BY <1>2
  <2> HIDE DEF x
  <2>3. x % SIZE = IF x < SIZE THEN x ELSE x - SIZE
    BY <2>1, WrapOnce
  <2>4. pwrite' = IF x = SIZE THEN 0 ELSE x
    BY <1>0, <2>1, <2>2, <2>3
  <2>5. QED
    BY <2>4 DEF x
<1>9. pwrite' \in Cells /\ Avail' = Avail + k /\ Fresh' /\ Fifo!Put
  <2>1. Len(len) < Len(len) + 1 /\ Len(len) + 1 \in Nat
    BY <1>0
  <2>2. QED
    BY <1>0, <1>3, <1>5, <1>6, <1>7, <1>8, <2>1, PutStep
<1>10. Typed'
  <2>1. fstate' \in {"GO", "DONE", "TIMEDOUT"}
    BY <1>0, <1>2 DEF Stopped, Typed
  <2>2. QED
    BY <1>0, <1>3, <1>4, <1>9, <2>1 DEF Typed
<1>11. Known' /\ Counted'
  BY <1>3, SameKnown, SameCounted
<1>12. Writes'
  BY <1>4 DEF Writes
<1>13. ReadsUsed'
  <2>1. ErrorStays
    BY <1>2, <1>3 DEF Safe, ReadsUsed, ErrorStays
  <2>2. Avail' >= Avail /\ Avail' \in Nat
    BY <1>0, <1>9
  <2>3. QED
    BY <1>3, <2>1, <2>2, PutKeepsReader
<1>14. QED
  BY <1>9, <1>10, <1>11, <1>12, <1>13 DEF Safe

(* The queue is emptied by the callback; the reader is not in it. *)
LEMMA WFlushStep == Safe /\ WFlush /\ raced' = FALSE => Safe' /\ Fifo!Overflow
<1> SUFFICES ASSUME Safe, WFlush, raced' = FALSE PROVE Safe' /\ Fifo!Overflow
  OBVIOUS
<1>0. Typed /\ w \in Writer /\ Len(len) \in Nat /\ SIZE \in Nat \ {0} /\ pwrite \in Cells
  BY Facts DEF Safe
<1>1. pread' = pwrite /\ w.pc = "flush" /\ w' = [w EXCEPT !.pc = "clear"] /\ ~RReads
  BY DEF WFlush
<1>2. UNCHANGED <<type, oneshot, fstate, timer, data, pwrite, error, len, r, todo, secheader,
                  user, torn>>
  BY DEF WFlush, file
<1>3. w' \in Writer /\ w'.pc = "clear" /\ w'.at = w.at
  BY <1>0, <1>1 DEF Writer
<1>4. Avail' = 0 /\ Queue' = <<>>
  <2>1. Avail' = 0
    BY <1>0, <1>1, <1>2 DEF Avail, Cells
  <2>2. QED
    BY <2>1 DEF Queue
<1>5. Typed'
  BY <1>0, <1>1, <1>2, <1>3 DEF Typed
<1>6. Known' /\ Counted'
  BY <1>2, SameKnown, SameCounted
<1>7. Writes'
  BY <1>3 DEF Writes
<1>8. ReadsUsed'
  BY <1>1, <1>2 DEF ReadsUsed, RReads
<1>9. Fresh'
  <2>1. NextByte' = NextByte
    BY <1>1, <1>2, <1>3 DEF NextByte
  <2>2. QED
    BY <1>2, <1>4, <2>1 DEF Safe, Fresh
<1>10. Fifo!Overflow
  BY <1>2, <1>3, <1>4 DEF Fifo!Overflow
<1>11. QED
  BY <1>5, <1>6, <1>7, <1>8, <1>9, <1>10 DEF Safe

(* The callback flushes the buffer and raises the overflow. *)
LEMMA WErrStep ==
  Safe /\ (WClear \/ WSetErr \/ WWake) => Safe' /\ UNCHANGED Fifo!vars
<1> SUFFICES ASSUME Safe, WClear \/ WSetErr \/ WWake PROVE Safe' /\ UNCHANGED Fifo!vars
  OBVIOUS
<1>0. /\ Typed /\ w \in Writer /\ Len(len) \in Nat /\ SIZE \in Nat \ {0} /\ w.at <= SIZE
      /\ fstate \in {"GO", "DONE", "TIMEDOUT"} /\ timer \in {"off", "armed", "fired"}
      /\ error \in {"", "EOVERFLOW", "ETIMEDOUT"}
  BY Facts DEF Safe, Typed
<1>a. Len(len) \in Nat /\ Len(len) + 1 \in Nat
  BY Facts
<1>1. /\ UNCHANGED <<type, oneshot, timer, data, pread, pwrite, len, todo, secheader, user, torn>>
      /\ r' = r \/ r' = Woken
      /\ fstate' = fstate \/ fstate' = Stopped
  BY DEF WClear, WSetErr, WWake, file, ring
<1>2. \/ w.pc = "clear" /\ w' = [w EXCEPT !.pc = "seterr"] /\ error' = ""
      \/ w.pc = "seterr" /\ w' = [w EXCEPT !.pc = "wake"] /\ error' = "EOVERFLOW"
      \/ w.pc = "wake" /\ w' = WIdle /\ error' = error
  BY DEF WClear, WSetErr, WWake, ring
<1>3. /\ w' \in Writer /\ w'.at <= SIZE
      /\ w'.pc \in {"seterr", "wake", "idle"}
      /\ w.pc = "clear" => w'.pc = "seterr"
      /\ w.pc = "seterr" => w'.pc = "wake"
      /\ w.pc = "wake" => w'.pc = "idle"
  <2>1. CASE w.pc = "clear" /\ w' = [w EXCEPT !.pc = "seterr"]
    BY <1>0, <2>1 DEF Writer
  <2>2. CASE w.pc = "seterr" /\ w' = [w EXCEPT !.pc = "wake"]
    BY <1>0, <2>2 DEF Writer
  <2>3. CASE w.pc = "wake" /\ w' = WIdle
    <3>1. w'.pc = "idle" /\ w'.at = 0 /\ w' \in Writer
      BY <2>3 DEF WIdle, Writer
    <3>2. w'.at <= SIZE
      BY <3>1, RbufAssumption
    <3>3. QED
      BY <2>3, <3>1, <3>2
  <2>4. QED
    BY <1>2, <2>1, <2>2, <2>3
<1>4. Typed' /\ Known' /\ Counted' /\ ReadsUsed'
  <2>1. r.pc = "flush" => error' # "" \/ w'.pc \in {"clear", "seterr"}
    BY <1>2, <1>3 DEF Safe, ReadsUsed
  <2>2. /\ fstate' \in {"GO", "DONE", "TIMEDOUT"} /\ timer' \in {"off", "armed", "fired"}
        /\ error' \in {"", "EOVERFLOW", "ETIMEDOUT"}
    BY <1>0, <1>1, <1>2 DEF Stopped
  <2>3. QED
    BY <1>1, <1>3, <2>1, <2>2, WLocal
<1>5. Writes'
  BY <1>3 DEF Writes
<1>6. Fresh'
  <2>1. NextByte = <<Len(len), 0>> \/ NextByte = <<Len(len) + 1, 0>>
    BY <1>2 DEF NextByte
  <2>2. NextByte' = NextByte \/ (NextByte = <<Len(len), 0>> /\ NextByte' = <<Len(len) + 1, 0>>)
    BY <1>1, <1>2, <1>3 DEF NextByte
  <2>4. CASE NextByte' = NextByte
    BY <1>1, <2>4, SameFresh
  <2>5. CASE NextByte = <<Len(len), 0>> /\ NextByte' = <<Len(len) + 1, 0>>
    BY <1>a, <1>1, <2>5, LaterFresh
  <2>6. QED
    BY <2>2, <2>4, <2>5
<1>7. Err' = Err
  BY <1>2, <1>3 DEF Err
<1>8. Queue' = Queue
  BY <1>1, SameQueue
<1>9. QED
  BY <1>1, <1>4, <1>5, <1>6, <1>7, <1>8, Unseen DEF Safe

(* The timer of the filter raises its error. *)
LEMMA TimerStep ==
  Safe /\ (TimerFires \/ TimerEnds) => Safe' /\ (Fifo!Timeout \/ UNCHANGED Fifo!vars)
<1> SUFFICES ASSUME Safe, TimerFires \/ TimerEnds
             PROVE  Safe' /\ (Fifo!Timeout \/ UNCHANGED Fifo!vars)
  OBVIOUS
<1>0. /\ w \in Writer /\ w.at <= SIZE
      /\ fstate \in {"GO", "DONE", "TIMEDOUT"} /\ timer \in {"off", "armed", "fired"}
      /\ error \in {"", "EOVERFLOW", "ETIMEDOUT"}
  BY DEF Safe, Typed
<1>1. /\ UNCHANGED <<type, oneshot, data, pread, pwrite, len, w, todo, secheader, user, torn>>
      /\ r' = r \/ r' = Woken
      /\ fstate' = fstate \/ fstate' = "TIMEDOUT"
      /\ timer' = "off" \/ timer' = "fired"
      /\ error' = error \/ error' = "ETIMEDOUT"
  BY DEF TimerFires, TimerEnds, ring
<1>2. r.pc = "flush" => error' # "" \/ w'.pc \in {"clear", "seterr"}
  BY <1>1 DEF Safe, ReadsUsed
<1>3. Typed' /\ Known' /\ Counted' /\ ReadsUsed'
  <2>1. /\ fstate' \in {"GO", "DONE", "TIMEDOUT"} /\ timer' \in {"off", "armed", "fired"}
        /\ error' \in {"", "EOVERFLOW", "ETIMEDOUT"} /\ w' \in Writer /\ w'.at <= SIZE
    BY <1>0, <1>1
  <2>2. QED
    BY <1>1, <1>2, <2>1, WLocal
<1>4. Writes'
  BY <1>1, SameWrites
<1>5. Fresh'
  <2>1. NextByte' = NextByte
    BY <1>1 DEF NextByte
  <2>2. QED
    BY <1>1, <2>1, SameFresh
<1>6. Queue' = Queue
  BY <1>1, SameQueue
<1>7. Fifo!Timeout \/ UNCHANGED Fifo!vars
  <2>1. CASE error' = error
    <3>1. Err' = Err
      BY <1>1, <2>1 DEF Err
    <3>2. QED
      BY <1>1, <1>6, <3>1, Unseen
  <2>2. CASE error' = "ETIMEDOUT"
    BY <1>1, <1>6, <2>2 DEF Fifo!Timeout
  <2>3. QED
    BY <1>1, <2>1, <2>2
<1>8. QED
  BY <1>3, <1>4, <1>5, <1>7 DEF Safe

-----------------------------------------------------------------------------
(* The reader.  Most of its steps are its own: only r, and what read_sec     *)
(* knows of the section, change.                                             *)

(* The bytes of the header, and those being copied out, were produced. *)
HeaderKnown == \A i \in 1..3 : secheader[i] \in Byte /\ Produced(secheader[i])
UbufKnown == \A i \in 1..Len(r.ubuf) : Produced(r.ubuf[i])

(* Such a step keeps the invariant if what the reader counts stays right,    *)
(* and the queue does not see it.                                            *)
LEMMA RLocal ==
  ASSUME Safe,
         UNCHANGED <<type, oneshot, fstate, timer, data, pread, pwrite, error, len, w, user>>,
         r' \in ReadState, r'.n < SIZE, r'.left <= r'.n, todo' \in Int, torn' \in BOOLEAN,
         HeaderKnown', UbufKnown', Counted', ReadsUsed'
  PROVE  Safe' /\ UNCHANGED Fifo!vars
<1>1. Typed'
  BY DEF Safe, Typed, HeaderKnown
<1>2. Known'
  <2>1. /\ \A c \in Cells : Produced(data[c])'
        /\ \A i \in 1..Len(user) : Produced(user[i])'
    BY DEF Safe, Known, Produced
  <2>2. QED
    BY <2>1 DEF Known, HeaderKnown, UbufKnown
<1>3. Writes'
  BY SameWrites
<1>4. NextByte' = NextByte /\ Err' = Err
  BY DEF NextByte, Err
<1>5. Fresh'
  BY <1>4, SameFresh
<1>6. QED
  BY <1>1, <1>2, <1>3, <1>4, <1>5, SameQueue, Unseen DEF Safe

(* A header that is left alone. *)
LEMMA HeaderStays ==
  ASSUME Safe, secheader' = secheader, len' = len
  PROVE  HeaderKnown'
  BY DEF Safe, Typed, Known, Produced, HeaderKnown

(* Nothing is being copied out. *)
LEMMA EmptyUbuf ==
  ASSUME r'.ubuf = <<>>
  PROVE  UbufKnown'
  BY DEF UbufKnown

(* Steps that only decide where the reader goes. *)
LEMMA RDecides ==
  ASSUME Safe, NEW p \in {"loop", "sleep", "test", "avail", "flush", "ret"},
         NEW e \in {"", "ERR", "EWOULDBLOCK", "ERESTARTSYS", "EFAULT"},
         r' = [r EXCEPT !.pc = p, !.fail = e],
         p = "flush" => error # "",
         UNCHANGED <<type, oneshot, fstate, timer, data, pread, pwrite, error, len, w, todo,
                     secheader, user, torn>>
  PROVE  Safe' /\ UNCHANGED Fifo!vars
<1>0. Typed /\ r \in ReadState /\ Counted
  BY DEF Safe, Typed
<1>1. /\ r' \in ReadState /\ r'.pc = p /\ r'.n = r.n /\ r'.left = r.left /\ r'.got = r.got
      /\ r'.todo = r.todo /\ r'.count = r.count /\ r'.phase = r.phase /\ r'.ubuf = r.ubuf
  BY <1>0 DEF ReadState
<1>2. Counted'
  BY <1>0, <1>1 DEF Counted
<1>3. ReadsUsed'
  BY <1>1 DEF ReadsUsed
<1>4. UbufKnown'
  BY <1>1 DEF Safe, Known, UbufKnown, Produced
<1>5. r'.n < SIZE /\ r'.left <= r'.n /\ todo' \in Int /\ torn' \in BOOLEAN
  BY <1>0, <1>1 DEF Typed
<1>6. QED
  BY <1>1, <1>2, <1>3, <1>4, <1>5, HeaderStays, RLocal

(* The reader looks at the error. *)
LEMMA RTopStep == Safe /\ (RTop \/ RTest) => Safe' /\ UNCHANGED Fifo!vars
<1> SUFFICES ASSUME Safe, RTop \/ RTest PROVE Safe' /\ UNCHANGED Fifo!vars
  OBVIOUS
<1>0. r \in ReadState /\ r.fail \in {"", "ERR", "EWOULDBLOCK", "ERESTARTSYS", "EFAULT"}
  BY DEF Safe, Typed, ReadState
<1>1. UNCHANGED <<type, oneshot, fstate, timer, data, pread, pwrite, error, len, w, todo,
                  secheader, user, torn>>
  BY DEF RTop, RTest, file, ring
<1>2. CASE error # ""
  <2>1. r' = [r EXCEPT !.pc = "flush", !.fail = "ERR"]
    BY <1>2 DEF RTop, RTest
  <2>2. QED
    BY <1>1, <1>2, <2>1, RDecides
<1>3. CASE error = ""
  <2>1. \E p \in {"loop", "avail"} : r' = [r EXCEPT !.pc = p]
    BY <1>3 DEF RTop, RTest
  <2>2. PICK p \in {"loop", "avail"} : r' = [r EXCEPT !.pc = p]
    BY <2>1
  <2>3. r' = [r EXCEPT !.pc = p, !.fail = r.fail]
    BY <1>0, <2>2 DEF ReadState
  <2>4. QED
    BY <1>0, <1>1, <2>3, RDecides
<1>4. QED
  BY <1>2, <1>3

(* The reader finds data, goes to sleep, returns or is interrupted. *)
LEMMA RLoopStep == Safe /\ (RLoop \/ RSignal) => Safe' /\ UNCHANGED Fifo!vars
<1> SUFFICES ASSUME Safe, RLoop \/ RSignal PROVE Safe' /\ UNCHANGED Fifo!vars
  OBVIOUS
<1>1. UNCHANGED <<type, oneshot, fstate, timer, data, pread, pwrite, error, len, w, todo,
                  secheader, user, torn>>
  BY DEF RLoop, RSignal, file, ring
<1>2. \E p \in {"ret", "test", "sleep"}, e \in {"", "EWOULDBLOCK", "ERESTARTSYS"} :
        r' = [r EXCEPT !.pc = p, !.fail = e]
  BY DEF RLoop, RSignal
<1>3. QED
  BY <1>1, <1>2, RDecides

(* A call, of read_sec or of buffer_read, starts. *)
LEMMA CallIs ==
  ASSUME NEW ph \in {"raw", "hdr", "body"}, NEW nb \in BOOLEAN, NEW c \in Nat, NEW t \in Nat
  PROVE  /\ Call(ph, nb, c, t) \in ReadState
         /\ Call(ph, nb, c, t).pc = "top" /\ Call(ph, nb, c, t).phase = ph
         /\ Call(ph, nb, c, t).count = c /\ Call(ph, nb, c, t).todo = t
         /\ Call(ph, nb, c, t).got = 0 /\ Call(ph, nb, c, t).n = 0
         /\ Call(ph, nb, c, t).left = 0 /\ Call(ph, nb, c, t).ubuf = <<>>
<1>1. <<>> \in Seq(Byte)
  BY EmptySeq
<1>2. QED
  BY <1>1 DEF Call, RIdle, ReadState

(* A call of buffer_read begins. *)
LEMMA RStarts ==
  ASSUME Safe, NEW ph \in {"raw", "hdr", "body"}, NEW nb \in BOOLEAN, NEW c \in Nat, NEW t \in Nat,
         r' = Call(ph, nb, c, t), todo' \in Int, todo' >= -2, torn' \in BOOLEAN, HeaderKnown',
         ph # "raw" => type = "SEC" /\ t <= c,
         ph = "hdr" => todo' <= 0 /\ t <= 3 + todo',
         ph = "body" => t <= todo',
         UNCHANGED <<type, oneshot, fstate, timer, data, pread, pwrite, error, len, w, user>>
  PROVE  Safe' /\ UNCHANGED Fifo!vars
<1>1. /\ r' \in ReadState /\ r'.pc = "top" /\ r'.phase = ph /\ r'.count = c /\ r'.todo = t
      /\ r'.got = 0 /\ r'.n = 0 /\ r'.left = 0 /\ r'.ubuf = <<>>
  BY CallIs, SMTT(30)
<1>2. Counted'
  <2>1. Len(user') \in Nat
    BY Facts
  <2>2. QED
    BY <1>1, <2>1 DEF Counted
<1>3. ReadsUsed'
  BY <1>1 DEF ReadsUsed
<1>4. r'.n < SIZE /\ r'.left <= r'.n
  BY <1>1, Numbers
<1>5. QED
  BY <1>1, <1>2, <1>3, <1>4, EmptyUbuf, RLocal

(* read() is called. *)
LEMMA ReadCallStep == Safe /\ ReadCall => Safe' /\ UNCHANGED Fifo!vars
<1> SUFFICES ASSUME Safe, ReadCall PROVE Safe' /\ UNCHANGED Fifo!vars
  OBVIOUS
<1>0. type \in {"SEC", "PES"} /\ todo \in Int /\ todo >= -2 /\ torn \in BOOLEAN
  BY RbufAssumption DEF Safe, Typed, Counted
<1>1. UNCHANGED <<type, oneshot, fstate, timer, data, pread, pwrite, error, len, w, todo,
                  secheader, user, torn>>
  BY DEF ReadCall, file, ring
<1>2. PICK c \in Reads, nb \in BOOLEAN :
        r' = IF type = "PES" THEN Call("raw", nb, c, c)
             ELSE IF todo <= 0 THEN Call("hdr", nb, c, Least(3 + todo, c))
             ELSE Call("body", nb, c, Least(todo, c))
  BY DEF ReadCall
<1>3. c \in Nat
  BY RbufAssumption
<1>4. HeaderKnown' /\ todo' \in Int /\ todo' >= -2 /\ torn' \in BOOLEAN
  BY <1>0, <1>1, HeaderStays
<1>5. CASE type = "PES"
  <2>1. r' = Call("raw", nb, c, c)
    BY <1>2, <1>5
  <2>2. QED
    BY <1>1, <1>3, <1>4, <2>1, RStarts
<1>6. CASE type = "SEC" /\ todo <= 0
  <2> DEFINE t == Least(3 + todo, c)
  <2>1. r' = Call("hdr", nb, c, t)
    BY <1>2, <1>6
  <2>2. t \in Nat /\ t <= c /\ t <= 3 + todo' /\ todo' <= 0
    BY <1>0, <1>1, <1>3, <1>6 DEF Least
  <2> HIDE DEF t
  <2>3. QED
    BY <1>1, <1>3, <1>4, <1>6, <2>1, <2>2, RStarts
<1>7. CASE type = "SEC" /\ ~(todo <= 0)
  <2> DEFINE t == Least(todo, c)
  <2>1. r' = Call("body", nb, c, t)
    BY <1>2, <1>7
  <2>2. t \in Nat /\ t <= c /\ t <= todo'
    BY <1>0, <1>1, <1>3, <1>7 DEF Least
  <2> HIDE DEF t
  <2>3. QED
    BY <1>1, <1>3, <1>4, <1>7, <2>1, <2>2, RStarts
<1>8. QED
  BY <1>0, <1>5, <1>6, <1>7

(* avail is taken: that much can be read whatever the callback puts later. *)
LEMMA RAvailStep == Safe /\ RAvail => Safe' /\ UNCHANGED Fifo!vars
<1> SUFFICES ASSUME Safe, RAvail PROVE Safe' /\ UNCHANGED Fifo!vars
  OBVIOUS
<1>1. UNCHANGED <<type, oneshot, fstate, timer, data, pread, pwrite, error, len, w, todo,
                  secheader, user, torn>>
  BY DEF RAvail, file, ring
<1> DEFINE n == Least(Avail, r.todo)
           p == IF pread + n > SIZE THEN "copy1" ELSE "copy2"
<1>2. r' = [r EXCEPT !.pc = p, !.n = n, !.left = n, !.ubuf = <<>>]
  BY DEF RAvail
<1>3. n \in Nat /\ n <= Avail /\ n <= r.todo /\ n < SIZE
  BY Numbers DEF Least
<1>4. p \in {"copy1", "copy2"} /\ (p = "copy1" <=> pread + n > SIZE)
  OBVIOUS
<1>5. p = "copy2" => pread + n <= SIZE
  BY <1>3, Numbers
<1> HIDE DEF n, p
<1>6. /\ r' \in ReadState /\ r'.pc = p /\ r'.n = n /\ r'.left = n /\ r'.ubuf = <<>>
      /\ r'.got = r.got /\ r'.todo = r.todo /\ r'.count = r.count /\ r'.phase = r.phase
  <2>1. r \in ReadState /\ <<>> \in Seq(Byte)
    BY Facts, EmptySeq
  <2>2. QED
    BY <1>2, <1>3, <1>4, <2>1 DEF ReadState
<1>7. Counted'
  <2>1. r'.got + (r'.n - r'.left) <= Len(user')
    <3>1. r.got <= Len(user) /\ r.got \in Nat
      BY Facts DEF Safe, Counted
    <3>2. QED
      BY <1>1, <1>3, <1>6, <3>1
  <2>2. r'.n <= r'.todo
    BY <1>3, <1>6
  <2>3. QED
    BY <1>1, <1>4, <1>6, <2>1, <2>2 DEF Safe, Counted
<1>8. ReadsUsed'
  <2>1. Avail' = Avail
    BY <1>1, SameQueue
  <2>2. QED
    BY <1>1, <1>3, <1>4, <1>5, <1>6, <2>1 DEF ReadsUsed
<1>9. r'.n < SIZE /\ r'.left <= r'.n /\ todo' \in Int /\ torn' \in BOOLEAN
  <2>1. todo \in Int /\ torn \in BOOLEAN
    BY DEF Safe, Typed
  <2>2. QED
    BY <1>1, <1>3, <1>6, <2>1
<1>10. HeaderKnown' /\ UbufKnown'
  BY <1>1, <1>6, HeaderStays, EmptyUbuf
<1>11. QED
  BY <1>1, <1>6, <1>7, <1>8, <1>9, <1>10, RLocal

(* What a copy out of the buffer finds. *)
LEMMA LoadIs ==
  ASSUME Safe, NEW k \in Nat, pread + k <= SIZE
  PROVE  /\ Load(pread, k) \in Seq(Byte) /\ Len(Load(pread, k)) = k
         /\ \A i \in 1..k : Load(pread, k)[i] = data[pread + i - 1] /\ pread + i - 1 \in Cells
<1>0. SIZE \in Nat /\ pread \in Nat
  BY Numbers
<1>1. \A i \in 1..k : pread + i - 1 \in Cells
  BY <1>0 DEF Cells
<1>2. Load(pread, k) = [i \in 1..k |-> data[pread + i - 1]]
  BY <1>1 DEF Load
<1>3. \A i \in 1..k : data[pread + i - 1] \in Byte
  BY <1>1, Facts
<1>4. QED
  BY <1>1, <1>2, <1>3

(* copy_to_user up to the end of the buffer. *)
LEMMA RCopy1Step == Safe /\ RCopy1 => Safe' /\ UNCHANGED Fifo!vars
<1> SUFFICES ASSUME Safe, RCopy1 PROVE Safe' /\ UNCHANGED Fifo!vars
  OBVIOUS
<1>1. UNCHANGED <<type, oneshot, fstate, timer, data, pread, pwrite, error, len, w, todo,
                  secheader, user, torn>>
  BY DEF RCopy1, file, ring
<1> DEFINE k == SIZE - pread
           u == Load(pread, k)
           m == r.left - k
<1>2. r' = [r EXCEPT !.pc = "split", !.left = m, !.ubuf = u] /\ r.pc = "copy1"
  BY DEF RCopy1
<1>3. k \in Nat /\ pread + k <= SIZE
  BY Numbers
<1>4. r.left = r.n /\ pread + r.left > SIZE /\ r.left <= Avail
  BY <1>2 DEF Safe, ReadsUsed
<1>5. m \in Nat /\ m >= 1 /\ k + m <= Avail /\ m <= r.n /\ r.n - m = k
  <2>1. SIZE \in Nat /\ pread \in Nat /\ r.left \in Nat /\ Avail \in Nat
    BY Numbers
  <2>2. QED
    BY <1>3, <1>4, <2>1
<1>6. /\ u \in Seq(Byte) /\ Len(u) = k
      /\ \A i \in 1..k : u[i] = data[pread + i - 1] /\ pread + i - 1 \in Cells
  <2> HIDE DEF k
  <2>1. QED
    BY <1>3, LoadIs
<1> HIDE DEF u, m
<1>7. /\ r' \in ReadState /\ r'.pc = "split" /\ r'.n = r.n /\ r'.left = m /\ r'.ubuf = u
      /\ r'.got = r.got /\ r'.todo = r.todo /\ r'.count = r.count /\ r'.phase = r.phase
  <2>1. r \in ReadState
    BY Facts
  <2>2. QED
    BY <1>2, <1>5, <1>6, <2>1 DEF ReadState
<1>8. Counted'
  <2>1. r'.n - r'.left <= Len(r'.ubuf)
    BY <1>3, <1>5, <1>6, <1>7
  <2>2. QED
    BY <1>1, <1>2, <1>7, <2>1 DEF Safe, Counted
<1>9. ReadsUsed'
  <2>1. Avail' = Avail
    BY <1>1, SameQueue
  <2>2. QED
    BY <1>1, <1>5, <1>6, <1>7, <2>1 DEF ReadsUsed
<1>10. r'.n < SIZE /\ r'.left <= r'.n /\ todo' \in Int /\ torn' \in BOOLEAN
  <2>1. r.n < SIZE /\ todo \in Int /\ torn \in BOOLEAN
    BY DEF Safe, Typed
  <2>2. QED
    BY <1>1, <1>5, <1>7, <2>1
<1>11. HeaderKnown' /\ UbufKnown'
  <2>1. \A i \in 1..k : Produced(u[i])
    BY <1>6 DEF Safe, Known
  <2>2. QED
    BY <1>1, <1>6, <1>7, <2>1, HeaderStays DEF UbufKnown, Produced
<1>12. QED
  BY <1>1, <1>7, <1>8, <1>9, <1>10, <1>11, RLocal

(* copy_to_user of the rest. *)
LEMMA RCopy2Step == Safe /\ RCopy2 => Safe' /\ UNCHANGED Fifo!vars
<1> SUFFICES ASSUME Safe, RCopy2 PROVE Safe' /\ UNCHANGED Fifo!vars
  OBVIOUS
<1>1. UNCHANGED <<type, oneshot, fstate, timer, data, pread, pwrite, error, len, w, todo,
                  secheader, user, torn>>
  BY DEF RCopy2, file, ring
<1> DEFINE k == r.left
           u == Load(pread, k)
<1>2. r' = [r EXCEPT !.pc = "advance", !.ubuf = u] /\ r.pc = "copy2"
  BY DEF RCopy2
<1>3. k \in Nat /\ pread + k <= SIZE /\ k <= Avail
  BY <1>2, Facts DEF Safe, ReadsUsed
<1>6. /\ u \in Seq(Byte) /\ Len(u) = k
      /\ \A i \in 1..k : u[i] = data[pread + i - 1] /\ pread + i - 1 \in Cells
  <2> HIDE DEF k
  <2>1. QED
    BY <1>3, LoadIs
<1> HIDE DEF u
<1>7. /\ r' \in ReadState /\ r'.pc = "advance" /\ r'.n = r.n /\ r'.left = k /\ r'.ubuf = u
      /\ r'.got = r.got /\ r'.todo = r.todo /\ r'.count = r.count /\ r'.phase = r.phase
  <2>1. r \in ReadState
    BY Facts
  <2>2. QED
    BY <1>2, <1>3, <1>6, <2>1 DEF ReadState
<1>8. Counted'
  BY <1>1, <1>2, <1>7 DEF Safe, Counted
<1>9. ReadsUsed'
  <2>1. Avail' = Avail
    BY <1>1, SameQueue
  <2>2. QED
    BY <1>1, <1>3, <1>6, <1>7, <2>1 DEF ReadsUsed
<1>10. r'.n < SIZE /\ r'.left <= r'.n /\ todo' \in Int /\ torn' \in BOOLEAN
  <2>1. r.n < SIZE /\ r.left <= r.n /\ todo \in Int /\ torn \in BOOLEAN
    BY DEF Safe, Typed
  <2>2. QED
    BY <1>1, <1>7, <2>1
<1>11. HeaderKnown' /\ UbufKnown'
  <2>1. \A i \in 1..k : Produced(u[i])
    BY <1>6 DEF Safe, Known
  <2>2. QED
    BY <1>1, <1>6, <1>7, <2>1, HeaderStays DEF UbufKnown, Produced
<1>12. QED
  BY <1>1, <1>7, <1>8, <1>9, <1>10, <1>11, RLocal

(* copy_to_user fails. *)
LEMMA RFaultStep == Safe /\ RFault => Safe' /\ UNCHANGED Fifo!vars
<1> SUFFICES ASSUME Safe, RFault PROVE Safe' /\ UNCHANGED Fifo!vars
  OBVIOUS
<1>1. UNCHANGED <<type, oneshot, fstate, timer, data, pread, pwrite, error, len, w, todo,
                  secheader, user>> /\ torn' = (torn \/ r.left < r.n)
  BY DEF RFault, file, ring
<1>2. r' = [r EXCEPT !.pc = "ret", !.fail = "EFAULT", !.ubuf = <<>>]
  BY DEF RFault
<1>7. /\ r' \in ReadState /\ r'.pc = "ret" /\ r'.n = r.n /\ r'.left = r.left /\ r'.ubuf = <<>>
      /\ r'.got = r.got /\ r'.todo = r.todo /\ r'.count = r.count /\ r'.phase = r.phase
  <2>1. r \in ReadState /\ <<>> \in Seq(Byte)
    BY Facts, EmptySeq
  <2>2. QED
    BY <1>2, <2>1 DEF ReadState
<1>8. Counted'
  BY <1>1, <1>7 DEF Safe, Counted
<1>9. ReadsUsed'
  BY <1>7 DEF ReadsUsed
<1>10. r'.n < SIZE /\ r'.left <= r'.n /\ todo' \in Int /\ torn' \in BOOLEAN
  <2>1. r.n < SIZE /\ r.left <= r.n /\ todo \in Int /\ torn \in BOOLEAN
    BY DEF Safe, Typed
  <2>2. QED
    BY <1>1, <1>7, <2>1
<1>11. QED
  BY <1>1, <1>7, <1>8, <1>9, <1>10, HeaderStays, EmptyUbuf, RLocal

(* The bytes the reader has copied are those of the first k cells in use. *)
Taken(k) == Len(r.ubuf) = k /\ \A i \in 1..k : r.ubuf[i] = data[pread + i - 1]

(* The bytes that were read were produced. *)
UserKnown == \A i \in 1..Len(user) : Produced(user[i])

(* pread moves over them: the reader gets the first k bytes of the queue. *)
LEMMA TakeStep ==
  ASSUME Safe, NEW k \in Nat, k <= Avail, pread + k <= SIZE, Taken(k),
         pread' = IF pread + k = SIZE THEN 0 ELSE pread + k,
         user' = user \o r.ubuf,
         UNCHANGED <<data, pwrite, error, len, w>>
  PROVE  /\ pread' \in Cells /\ Avail' = Avail - k
         /\ user' \in Seq(Byte) /\ Len(user') = Len(user) + k
         /\ UserKnown' /\ Writes' /\ Fresh'
         /\ Fifo!Get \/ UNCHANGED Fifo!vars
<1>0. /\ SIZE \in Nat \ {0} /\ Avail \in 0..(SIZE - 1) /\ user \in Seq(Byte) /\ r.ubuf \in Seq(Byte)
      /\ pread \in Cells /\ pwrite \in Cells /\ Len(user) \in Nat /\ pread \in Nat /\ pread < SIZE
      /\ Free = SIZE - 1 - Avail
  BY Facts
<1>1. /\ pread' \in Cells /\ Avail' = Avail - k
      /\ \A i \in 1..(Avail - k) : Queue'[i] = Queue[i + k]
      /\ \A i \in 1..k : Queue[i] = data[pread + i - 1]
  BY <1>0, TakeCells
<1>2. /\ user' \in Seq(Byte) /\ Len(user') = Len(user) + k
      /\ \A i \in 1..Len(user') : user'[i] = IF i <= Len(user) THEN user[i] ELSE r.ubuf[i - Len(user)]
  <2>1. /\ user \o r.ubuf \in Seq(Byte) /\ Len(user \o r.ubuf) = Len(user) + Len(r.ubuf)
        /\ \A i \in 1..(Len(user) + Len(r.ubuf)) :
             (user \o r.ubuf)[i] = IF i <= Len(user) THEN user[i] ELSE r.ubuf[i - Len(user)]
    BY <1>0, ConcatProperties
  <2>2. Len(r.ubuf) = k
    BY DEF Taken
  <2>3. QED
    BY <2>1, <2>2
<1>3. NextByte' = NextByte /\ Err' = Err
  BY DEF NextByte, Err
<1>4. Len(r.ubuf) = k /\ \A i \in 1..k : r.ubuf[i] = Queue[i]
  BY <1>1 DEF Taken
<1>5. UserKnown'
  <2>1. ASSUME NEW i \in 1..Len(user') PROVE Produced(user'[i])
    <3>1. CASE i <= Len(user)
      <4>1. i \in 1..Len(user) /\ user'[i] = user[i]
        BY <1>0, <1>2, <3>1
      <4>2. QED
        BY <4>1 DEF Safe, Known
    <3>2. CASE i > Len(user)
      <4> DEFINE j == i - Len(user)
      <4>1. j \in 1..Len(r.ubuf)
        BY <1>0, <1>2, <1>4, <3>2
      <4>2. user'[i] = r.ubuf[j]
        BY <1>0, <1>2, <3>2
      <4> HIDE DEF j
      <4>3. QED
        BY <4>1, <4>2 DEF Safe, Known
    <3>3. QED
      BY <1>0, <1>2, <3>1, <3>2
  <2>2. QED
    BY <2>1 DEF UserKnown, Produced
<1>6. Writes'
  <2>1. Free' = Free + k /\ Free \in Nat
    <3>1. Free' = SIZE - 1 - Avail'
      BY <1>0, <1>1, FreeAndAvailNext
    <3>2. QED
      BY <1>0, <1>1, <3>1
  <2>2. w.at \in Nat /\ w.todo \in Nat
    BY Facts
  <2>3. /\ w.pc = "copy1" => w.todo <= Free'
        /\ w.pc = "split" => w.at + w.todo <= Free'
        /\ w.pc \in {"copy2", "publish"} => w.todo <= Free'
    <3>1. /\ w.pc = "copy1" => w.todo <= Free
          /\ w.pc = "split" => w.at + w.todo <= Free
          /\ w.pc \in {"copy2", "publish"} => w.todo <= Free
      BY DEF Safe, Writes
    <3>2. QED
      BY <2>1, <2>2, <3>1
  <2>4. QED
    BY <2>3 DEF Safe, Writes
<1>7. Fresh'
  <2>1. ASSUME NEW i \in 1..Avail' PROVE Fifo!Before(Queue'[i], NextByte)
    <3> DEFINE j == i + k
    <3>1. j \in 1..Avail /\ Queue'[i] = Queue[j]
      BY <1>0, <1>1, <2>1
    <3> HIDE DEF j
    <3>2. QED
      BY <3>1 DEF Safe, Fresh
  <2>2. ASSUME user' # <<>> PROVE Fifo!Before(user'[Len(user')], NextByte)
    <3>1. CASE k = 0
      <4>1. Len(user') = Len(user) /\ Len(user') \in Nat \ {0}
        BY <1>0, <1>2, <2>2, <3>1, EmptySeq
      <4>2. user # <<>> /\ user'[Len(user')] = user[Len(user)]
        BY <1>0, <1>2, <4>1
      <4>3. QED
        BY <4>2 DEF Safe, Fresh
    <3>2. CASE k > 0
      <4>1. /\ Len(user') \in 1..Len(user') /\ ~(Len(user') <= Len(user))
            /\ Len(user') - Len(user) = k /\ k \in 1..k /\ k \in 1..Avail
        BY <1>0, <1>2, <3>2
      <4>2. user'[Len(user')] = Queue[k]
        BY <1>2, <1>4, <4>1
      <4>3. QED
        BY <4>1, <4>2 DEF Safe, Fresh
    <3>3. k = 0 \/ k > 0
      OBVIOUS
    <3>4. QED
      BY <3>1, <3>2, <3>3, Zenon
  <2>3. QED
    BY <1>3, <2>1, <2>2 DEF Fresh
<1>8. Len(Queue) = Avail /\ Queue \in Seq(Byte)
  BY <1>0, QueueBytes DEF Queue
<1>9. CASE k = 0
  <2>1. pread' = pread
    BY <1>0, <1>9
  <2>2. r.ubuf = <<>>
    BY <1>0, <1>4, <1>9, EmptySeq
  <2>3. user' = user
    BY <1>0, <2>2, ConcatEmptySeq
  <2>4. UNCHANGED Fifo!vars
    BY <1>3, <2>1, <2>3, SameQueue, Unseen
  <2>5. QED
    BY <1>1, <1>2, <1>5, <1>6, <1>7, <2>4
<1>10. CASE k > 0
  <2>1. k \in 1..Len(Queue)
    BY <1>8, <1>10
  <2>2. r.ubuf = SubSeq(Queue, 1, k)
    <3>1. /\ SubSeq(Queue, 1, k) \in Seq(Byte) /\ Len(SubSeq(Queue, 1, k)) = k
          /\ \A i \in 1..k : SubSeq(Queue, 1, k)[i] = Queue[i]
      <4>1. \A i \in 1..k : Queue[i] \in Byte
        BY <1>0, QueueBytes
      <4>2. /\ SubSeq(Queue, 1, k) \in Seq(Byte)
            /\ Len(SubSeq(Queue, 1, k)) = IF 1 <= k THEN k - 1 + 1 ELSE 0
            /\ \A i \in 1..(k - 1 + 1) : SubSeq(Queue, 1, k)[i] = Queue[1 + i - 1]
        BY <4>1, SubSeqProperties
      <4>3. k - 1 + 1 = k /\ 1 <= k /\ \A i \in 1..k : 1 + i - 1 = i
        BY <1>10
      <4>4. QED
        BY <4>2, <4>3
    <3>2. QED
      BY <1>0, <1>4, <3>1, SeqEqual
  <2>3. Queue' = SubSeq(Queue, k + 1, Len(Queue))
    <3>1. Queue' = [i \in 1..(Avail - k) |-> Queue'[i]]
      BY <1>1 DEF Queue
    <3>2. Avail - (k + 1) + 1 = Avail - k
      BY <1>0
    <3>3. SubSeq(Queue, k + 1, Avail) = [i \in 1..(Avail - k) |-> Queue[i + k]]
      BY <1>0, <1>8, <3>2
    <3>4. QED
      BY <1>1, <1>8, <3>1, <3>3
  <2>4. Fifo!Get
    BY <1>3, <2>1, <2>2, <2>3 DEF Fifo!Get, Err
  <2>5. QED
    BY <1>1, <1>2, <1>5, <1>6, <1>7, <2>4
<1>11. QED
  BY <1>9, <1>10

(* The two places where pread is moved. *)
LEMMA RSplitStep == Safe /\ RSplit => Safe' /\ (Fifo!Get \/ UNCHANGED Fifo!vars)
<1> SUFFICES ASSUME Safe, RSplit PROVE Safe' /\ (Fifo!Get \/ UNCHANGED Fifo!vars)
  OBVIOUS
<1>1. UNCHANGED <<type, oneshot, fstate, timer, data, pwrite, error, len, w, todo, secheader, torn>>
  BY DEF RSplit, file
<1>2. /\ r.pc = "split" /\ pread' = 0 /\ user' = user \o r.ubuf
      /\ r' = [r EXCEPT !.pc = "copy2", !.ubuf = <<>>]
  BY DEF RSplit
<1> DEFINE k == SIZE - pread
<1>3. /\ Len(r.ubuf) = k /\ r.left >= 1 /\ k + r.left <= Avail
      /\ \A i \in 1..k : r.ubuf[i] = data[pread + i - 1]
  BY <1>2 DEF Safe, ReadsUsed
<1>4. k \in Nat /\ k <= Avail /\ pread + k <= SIZE /\ pread + k = SIZE
  <2>1. SIZE \in Nat /\ pread \in Nat /\ pread < SIZE /\ r.left \in Nat /\ Avail \in Nat
    BY Facts
  <2>2. QED
    BY <1>3, <2>1
<1>5. Taken(k)
  BY <1>3 DEF Taken
<1> HIDE DEF k
<1>6. pread' = IF pread + k = SIZE THEN 0 ELSE pread + k
  BY <1>2, <1>4
<1>7. /\ pread' \in Cells /\ Avail' = Avail - k
      /\ user' \in Seq(Byte) /\ Len(user') = Len(user) + k
      /\ UserKnown' /\ Writes' /\ Fresh'
      /\ Fifo!Get \/ UNCHANGED Fifo!vars
  BY <1>1, <1>2, <1>4, <1>5, <1>6, TakeStep
<1>8. /\ r' \in ReadState /\ r'.pc = "copy2" /\ r'.n = r.n /\ r'.left = r.left /\ r'.ubuf = <<>>
      /\ r'.got = r.got /\ r'.todo = r.todo /\ r'.count = r.count /\ r'.phase = r.phase
  <2>1. r \in ReadState /\ <<>> \in Seq(Byte)
    BY Facts, EmptySeq
  <2>2. QED
    BY <1>2, <2>1 DEF ReadState
<1>9. Typed'
  BY <1>1, <1>7, <1>8 DEF Safe, Typed
<1>10. Known'
  <2>1. /\ \A c \in Cells : Produced(data[c])'
        /\ \A i \in 1..3 : Produced(secheader[i])'
    BY <1>1 DEF Safe, Known, Produced
  <2>2. UbufKnown'
    BY <1>8, EmptyUbuf
  <2>3. QED
    BY <1>7, <2>1, <2>2 DEF Known, UserKnown, UbufKnown
<1>11. Counted'
  <2>1. r.got <= Len(user) /\ r.n - r.left <= Len(r.ubuf) /\ r.n <= r.todo
    BY <1>2 DEF Safe, Counted
  <2>2. r.got \in Nat /\ r.n \in Nat /\ r.left \in Nat /\ Len(user) \in Nat
    BY Facts
  <2>3. r'.got <= Len(user') /\ r'.got + (r'.n - r'.left) <= Len(user')
    BY <1>3, <1>4, <1>7, <1>8, <2>1, <2>2
  <2>4. QED
    BY <1>1, <1>8, <2>1, <2>3 DEF Safe, Counted
<1>12. ReadsUsed'
  <2>1. r.left \in Nat /\ r.n \in Nat /\ SIZE \in Nat /\ Avail \in Nat
    BY Facts
  <2>2. r.left <= r.n /\ r.n < SIZE
    BY DEF Safe, Typed
  <2>3. r'.left <= Avail' /\ pread' + r'.left <= SIZE
    BY <1>2, <1>3, <1>4, <1>7, <1>8, <2>1, <2>2
  <2>4. QED
    BY <1>8, <2>3 DEF ReadsUsed
<1>13. QED
  BY <1>7, <1>9, <1>10, <1>11, <1>12 DEF Safe

(* pread moves: the bytes are taken from the queue. *)
LEMMA RAdvanceStep == Safe /\ RAdvance => Safe' /\ (Fifo!Get \/ UNCHANGED Fifo!vars)
<1> SUFFICES ASSUME Safe, RAdvance PROVE Safe' /\ (Fifo!Get \/ UNCHANGED Fifo!vars)
  OBVIOUS
<1>1. UNCHANGED <<type, oneshot, fstate, timer, data, pwrite, error, len, w, todo, secheader, torn>>
  BY DEF RAdvance, file
<1> DEFINE k == r.left
           t == r.todo - r.n
           g == r.got + r.n
<1>2. /\ r.pc = "advance" /\ pread' = (pread + k) % SIZE /\ user' = user \o r.ubuf
      /\ r' = [r EXCEPT !.pc = "loop", !.todo = t, !.got = g, !.n = 0, !.left = 0, !.ubuf = <<>>]
  BY DEF RAdvance, Moved
<1>3. /\ Len(r.ubuf) = k /\ k <= Avail /\ pread + k <= SIZE
      /\ \A i \in 1..k : r.ubuf[i] = data[pread + i - 1]
  BY <1>2 DEF Safe, ReadsUsed
<1>4. k \in Nat /\ SIZE \in Nat \ {0} /\ pread \in Nat
  BY Facts
<1>5. Taken(k)
  BY <1>3 DEF Taken
<1>a. r.got \in Nat /\ r.n \in Nat /\ r.todo \in Nat /\ r.count \in Nat /\ Len(user) \in Nat
  BY Facts
<1>b. r.n <= r.todo /\ r.got + (r.n - r.left) <= Len(user)
  BY <1>2 DEF Safe, Counted
<1>c. t \in Nat /\ g \in Nat /\ g + t = r.got + r.todo /\ g <= Len(user) + k
  BY <1>4, <1>a, <1>b, SMTT(30)
<1> HIDE DEF k, t, g
<1>6. pread' = IF pread + k = SIZE THEN 0 ELSE pread + k
  <2> DEFINE x == pread + k
  <2>1. x \in 0..(2 * SIZE - 1) /\ x <= SIZE /\ x \in Nat
    BY <1>3, <1>4
  <2>2. pread' = x % SIZE
    BY <1>2
  <2> HIDE DEF x
  <2>3. x % SIZE = IF x < SIZE THEN x ELSE x - SIZE
    BY <2>1, WrapOnce
  <2>4. pread' = IF x = SIZE THEN 0 ELSE x
    BY <1>4, <2>1, <2>2, <2>3
  <2>5. QED
    BY <2>4 DEF x
<1>7. /\ pread' \in Cells /\ Avail' = Avail - k
      /\ user' \in Seq(Byte) /\ Len(user') = Len(user) + k
      /\ UserKnown' /\ Writes' /\ Fresh'
      /\ Fifo!Get \/ UNCHANGED Fifo!vars
  BY <1>1, <1>2, <1>3, <1>4, <1>5, <1>6, TakeStep
<1>8. /\ r' \in ReadState /\ r'.pc = "loop" /\ r'.n = 0 /\ r'.left = 0 /\ r'.ubuf = <<>>
      /\ r'.got = g /\ r'.todo = t /\ r'.count = r.count /\ r'.phase = r.phase
  <2>1. r \in ReadState /\ <<>> \in Seq(Byte)
    BY Facts, EmptySeq
  <2>2. QED
    BY <1>2, <1>c, <2>1 DEF ReadState
<1>9. Typed'
  <2>1. r'.n < SIZE /\ r'.left <= r'.n
    BY <1>4, <1>8
  <2>2. QED
    BY <1>1, <1>7, <1>8, <2>1 DEF Safe, Typed
<1>10. Known'
  <2>1. /\ \A c \in Cells : Produced(data[c])'
        /\ \A i \in 1..3 : Produced(secheader[i])'
    BY <1>1 DEF Safe, Known, Produced
  <2>2. UbufKnown'
    BY <1>8, EmptyUbuf
  <2>3. QED
    BY <1>7, <2>1, <2>2 DEF Known, UserKnown, UbufKnown
<1>11. Counted'
  <2>1. r'.got <= Len(user') /\ r'.got + r'.todo = r.got + r.todo
    BY <1>7, <1>8, <1>c
  <2>2. QED
    BY <1>1, <1>8, <2>1 DEF Safe, Counted
<1>12. ReadsUsed'
  BY <1>8 DEF ReadsUsed
<1>13. QED
  BY <1>7, <1>9, <1>10, <1>11, <1>12 DEF Safe

(* The reader takes an error. *)
LEMMA RFlushStep == Safe /\ RFlush => Safe' /\ Fifo!Discard
<1> SUFFICES ASSUME Safe, RFlush PROVE Safe' /\ Fifo!Discard
  OBVIOUS
<1>1. UNCHANGED <<type, oneshot, fstate, timer, data, pwrite, error, len, w, todo, secheader, user>>
  BY DEF RFlush, file
<1>2. r.pc = "flush" /\ pread' = pwrite /\ r' = [r EXCEPT !.pc = "clear"]
      /\ torn' = (torn \/ MidSection \/ (w.at > 0 /\ w.pc \in {"copy2", "publish"}))
  BY DEF RFlush
<1>3. /\ r' \in ReadState /\ r'.pc = "clear" /\ r'.n = r.n /\ r'.left = r.left /\ r'.ubuf = r.ubuf
      /\ r'.got = r.got /\ r'.todo = r.todo /\ r'.count = r.count /\ r'.phase = r.phase
  <2>1. r \in ReadState
    BY Facts
  <2>2. QED
    BY <1>2, <2>1 DEF ReadState
<1>4. pwrite \in Cells /\ pwrite \in Nat /\ SIZE \in Nat \ {0} /\ Avail \in Nat /\ Free = SIZE - 1 - Avail
  BY Facts
<1>5. Avail' = 0 /\ Queue' = <<>>
  <2>1. Avail' = 0
    BY <1>1, <1>2, <1>4 DEF Avail
  <2>2. QED
    BY <2>1 DEF Queue
<1>6. Typed'
  <2>1. torn' \in BOOLEAN
    BY <1>2
  <2>2. QED
    BY <1>1, <1>2, <1>3, <1>4, <2>1 DEF Safe, Typed
<1>7. Known'
  BY <1>1, <1>3 DEF Safe, Known, Produced
<1>8. Counted'
  BY <1>1, <1>3 DEF Safe, Counted
<1>9. Writes'
  <2>1. Free' >= Free /\ Free \in Int /\ Free' \in Int
    <3>1. Free' = SIZE - 1
      BY <1>1, <1>2, <1>4 DEF Free
    <3>2. QED
      BY <1>4, <3>1
  <2>2. w.at \in Nat /\ w.todo \in Nat
    BY Facts
  <2>3. /\ w.pc = "copy1" => w.todo <= Free'
        /\ w.pc = "split" => w.at + w.todo <= Free'
        /\ w.pc \in {"copy2", "publish"} => w.todo <= Free'
    <3>1. /\ w.pc = "copy1" => w.todo <= Free
          /\ w.pc = "split" => w.at + w.todo <= Free
          /\ w.pc \in {"copy2", "publish"} => w.todo <= Free
      BY DEF Safe, Writes
    <3>2. QED
      BY <2>1, <2>2, <3>1
  <2>4. QED
    BY <1>1, <2>3 DEF Safe, Writes
<1>10. ReadsUsed'
  BY <1>3 DEF ReadsUsed
<1>11. Fresh'
  <2>1. NextByte' = NextByte
    BY <1>1 DEF NextByte
  <2>2. QED
    BY <1>1, <1>5, <2>1 DEF Safe, Fresh
<1>12. Fifo!Discard
  <2>1. Err /\ Err' = Err
    BY <1>1, <1>2 DEF Safe, ReadsUsed, Err
  <2>2. QED
    BY <1>1, <1>5, <2>1 DEF Fifo!Discard, Err
<1>13. QED
  BY <1>6, <1>7, <1>8, <1>9, <1>10, <1>11, <1>12 DEF Safe

(* The reader takes the error. *)
LEMMA RClearStep == Safe /\ RClear => Safe' /\ (Fifo!Report \/ UNCHANGED Fifo!vars)
<1> SUFFICES ASSUME Safe, RClear PROVE Safe' /\ (Fifo!Report \/ UNCHANGED Fifo!vars)
  OBVIOUS
<1>1. UNCHANGED <<type, oneshot, fstate, timer, data, pread, pwrite, len, w, todo, secheader,
                  user, torn>>
  BY DEF RClear, file
<1>2. error' = "" /\ r' = [r EXCEPT !.pc = "ret"]
  BY DEF RClear
<1>3. /\ r' \in ReadState /\ r'.pc = "ret" /\ r'.n = r.n /\ r'.left = r.left /\ r'.ubuf = r.ubuf
      /\ r'.got = r.got /\ r'.todo = r.todo /\ r'.count = r.count /\ r'.phase = r.phase
  <2>1. r \in ReadState
    BY Facts
  <2>2. QED
    BY <1>2, <2>1 DEF ReadState
<1>4. Typed'
  BY <1>1, <1>2, <1>3 DEF Safe, Typed
<1>5. Known'
  BY <1>1, <1>3 DEF Safe, Known, Produced
<1>6. Counted'
  BY <1>1, <1>3 DEF Safe, Counted
<1>7. Writes'
  BY <1>1, SameWrites
<1>8. ReadsUsed'
  BY <1>3 DEF ReadsUsed
<1>9. Fresh'
  <2>1. NextByte' = NextByte
    BY <1>1 DEF NextByte
  <2>2. QED
    BY <1>1, <2>1, SameFresh
<1>10. Queue' = Queue
  BY <1>1, SameQueue
<1>11. Fifo!Report \/ UNCHANGED Fifo!vars
  <2>1. CASE w.pc \in {"clear", "seterr"}
    <3>1. Err' = Err
      BY <1>1, <2>1 DEF Err
    <3>2. QED
      BY <1>1, <1>10, <3>1, Unseen
  <2>2. CASE w.pc \notin {"clear", "seterr"}
    BY <1>1, <1>2, <1>10, <2>2 DEF Fifo!Report
  <2>3. QED
    BY <2>1, <2>2
<1>12. QED
  BY <1>4, <1>5, <1>6, <1>7, <1>8, <1>9, <1>11 DEF Safe

(* buffer_read returns, and read_sec with it or with the body still to read. *)
LEMMA REnds ==
  ASSUME Safe, r' = RIdle, todo' \in Int, todo' >= -2, torn' \in BOOLEAN, HeaderKnown',
         UNCHANGED <<type, oneshot, fstate, timer, data, pread, pwrite, error, len, w, user>>
  PROVE  Safe' /\ UNCHANGED Fifo!vars
<1>1. /\ r' \in ReadState /\ r'.pc = "idle" /\ r'.phase = "raw" /\ r'.got = 0 /\ r'.n = 0
      /\ r'.left = 0 /\ r'.ubuf = <<>>
  <2>1. <<>> \in Seq(Byte)
    BY EmptySeq
  <2>2. QED
    BY <2>1 DEF RIdle, ReadState
<1>2. Counted'
  <2>1. Len(user') \in Nat
    BY Facts
  <2>2. QED
    BY <1>1, <2>1 DEF Counted
<1>3. ReadsUsed'
  BY <1>1 DEF ReadsUsed
<1>4. r'.n < SIZE /\ r'.left <= r'.n
  BY <1>1, Numbers
<1>5. QED
  BY <1>1, <1>2, <1>3, <1>4, EmptyUbuf, RLocal

(* The header is made of bytes that the reader got. *)
LEMMA HeaderIs ==
  ASSUME Safe, NEW n \in Nat, n <= Len(user), NEW i \in 1..3
  PROVE  Header(n)[i] \in Byte /\ Produced(Header(n)[i])
<1>0. /\ user \in Seq(Byte) /\ Len(user) \in Nat /\ todo \in Int
      /\ secheader[i] \in Byte /\ Produced(secheader[i])
  BY Facts DEF Safe, Typed, Known
<1>1. CASE i \in (1 - todo)..(n - todo)
  <2> DEFINE j == i + todo
             k == Len(user) - n + j
  <2>1. Header(n)[i] = Last(n)[j]
    BY <1>1 DEF Header
  <2>2. j \in 1..n /\ k \in 1..Len(user)
    BY <1>0, <1>1
  <2>3. Last(n)[j] = user[k]
    <3> DEFINE a == Len(user) - n + 1
    <3>1. a \in Int /\ (\A x \in a..Len(user) : x \in 1..Len(user)) /\ Len(user) - a + 1 = n
          /\ a + j - 1 = k
      BY <1>0, <2>2
    <3> HIDE DEF a, j, k
    <3>2. \A x \in a..Len(user) : user[x] \in Byte
      BY <1>0, <3>1, ElementOfSeq
    <3>3. \A x \in 1..(Len(user) - a + 1) : SubSeq(user, a, Len(user))[x] = user[a + x - 1]
      BY <1>0, <3>1, <3>2, SubSeqProperties
    <3>4. SubSeq(user, a, Len(user))[j] = user[k]
      BY <2>2, <3>1, <3>3
    <3>5. QED
      BY <3>4 DEF Last, a
  <2> HIDE DEF j, k
  <2>4. user[k] \in Byte /\ Produced(user[k])
    BY <1>0, <2>2, ElementOfSeq DEF Safe, Known
  <2>5. QED
    BY <2>1, <2>3, <2>4
<1>2. CASE i \notin (1 - todo)..(n - todo)
  BY <1>0, <1>2 DEF Header
<1>3. QED
  BY <1>1, <1>2

(* The length read_sec finds there is no less than zero. *)
LEMMA HeaderLengthIs ==
  ASSUME Safe, type = "SEC", NEW h, h[2] \in Byte, Produced(h[2]), NEW g \in Guesses
  PROVE  HeaderLength(h, g) \in Nat
<1>1. g \in Nat /\ \A l \in Lens : l \in Nat /\ l >= 3
  <2>1. type \in Types
    BY DEF Safe, Typed
  <2>2. QED
    BY <2>1, RbufAssumption
<1>2. len \in Seq(Lens) /\ Len(len) \in Nat
  BY Facts
<1>3. CASE h[2][1] > 0
  <2>1. h[2][1] \in 1..Len(len)
    BY <1>2, <1>3 DEF Byte, Produced
  <2>2. len[h[2][1]] \in Lens
    BY <1>2, <2>1, ElementOfSeq
  <2>3. len[h[2][1]] - 3 \in Nat
    BY <1>1, <2>2
  <2>4. QED
    BY <1>1, <2>3 DEF HeaderLength
<1>4. CASE ~(h[2][1] > 0)
  BY <1>1, <1>4 DEF HeaderLength
<1>5. QED
  BY <1>3, <1>4

(* buffer_read returns, and read_sec goes on. *)
LEMMA RReturnStep == Safe /\ RReturn => Safe' /\ UNCHANGED Fifo!vars
<1> SUFFICES ASSUME Safe, RReturn PROVE Safe' /\ UNCHANGED Fifo!vars
  OBVIOUS
<1>0. /\ todo \in Int /\ todo >= -2 /\ torn \in BOOLEAN
      /\ r.got \in Nat /\ r.todo \in Nat /\ r.count \in Nat
  BY Facts DEF Safe, Typed, Counted
<1>1. UNCHANGED <<type, oneshot, fstate, timer, data, pread, pwrite, error, len, w, user>>
  BY DEF RReturn, file, ring
<1>2. CASE r.phase = "raw" /\ r' = RIdle /\ UNCHANGED <<todo, secheader, torn>>
  <2>1. todo' \in Int /\ todo' >= -2 /\ torn' \in BOOLEAN /\ HeaderKnown'
    BY <1>0, <1>1, <1>2, HeaderStays
  <2>2. QED
    BY <1>1, <1>2, <2>1, REnds
<1>3. CASE /\ r' = RIdle /\ todo' = 0
           /\ torn' = (torn \/ (todo < 0 /\ r.fail # "ERR"))
           /\ UNCHANGED secheader
  <2>1. todo' \in Int /\ todo' >= -2 /\ torn' \in BOOLEAN /\ HeaderKnown'
    <3>1. torn' \in BOOLEAN
      BY <1>3
    <3>2. QED
      BY <1>1, <1>3, <3>1, HeaderStays
  <2>2. QED
    BY <1>1, <1>3, <2>1, REnds
<1>4. CASE r' = RIdle /\ torn' = TRUE /\ UNCHANGED <<todo, secheader>>
  <2>1. todo' \in Int /\ todo' >= -2 /\ torn' \in BOOLEAN /\ HeaderKnown'
    BY <1>0, <1>1, <1>4, HeaderStays
  <2>2. QED
    BY <1>1, <1>4, <2>1, REnds
<1> DEFINE left == r.count - r.got
<1>5. CASE /\ r.phase = "hdr"
           /\ secheader' = Header(r.got) /\ UNCHANGED torn
           /\ IF todo - r.got > -3
              THEN r' = RIdle /\ todo' = todo - r.got
              ELSE \E g \in Guesses :
                     /\ todo' = HeaderLength(secheader', g)
                     /\ r' = IF left = 0 THEN RIdle
                             ELSE Call("body", r.nb, left, Least(left, todo'))
  <2>1. r.got <= Len(user) /\ type = "SEC" /\ r.got + r.todo <= r.count
    BY <1>5 DEF Safe, Counted
  <2>2. HeaderKnown'
    BY <1>0, <1>1, <1>5, <2>1, HeaderIs DEF HeaderKnown, Produced
  <2>3. torn' \in BOOLEAN
    BY <1>0, <1>5
  <2>4. CASE todo - r.got > -3
    <3>1. r' = RIdle /\ todo' = todo - r.got
      BY <1>5, <2>4
    <3>2. todo' \in Int /\ todo' >= -2
      BY <1>0, <2>4, <3>1
    <3>3. QED
      BY <1>1, <2>2, <2>3, <3>1, <3>2, REnds
  <2>5. CASE ~(todo - r.got > -3)
    <3>1. PICK g \in Guesses :
            /\ todo' = HeaderLength(secheader', g)
            /\ r' = IF left = 0 THEN RIdle ELSE Call("body", r.nb, left, Least(left, todo'))
      BY <1>5, <2>5
    <3>2. todo' \in Nat
      <4> DEFINE h == secheader'
      <4>1. h[2] \in Byte /\ Produced(h[2])
        BY <1>0, <1>5, <2>1, HeaderIs
      <4>2. todo' = HeaderLength(h, g)
        BY <3>1
      <4> HIDE DEF h
      <4>3. QED
        BY <2>1, <4>1, <4>2, HeaderLengthIs
    <3>3. left \in Nat
      BY <1>0, <2>1
    <3>4. r.nb \in BOOLEAN
      <4>1. r \in ReadState
        BY Facts
      <4>2. QED
        BY <4>1 DEF ReadState
    <3>5. CASE left = 0
      <4>1. r' = RIdle /\ todo' \in Int /\ todo' >= -2
        BY <3>1, <3>2, <3>5
      <4>2. QED
        BY <1>1, <2>2, <2>3, <4>1, REnds
    <3>6. CASE left # 0
      <4> DEFINE t == Least(left, todo')
                 b == r.nb
      <4>1. r' = Call("body", b, left, t)
        BY <3>1, <3>6
      <4>2. t \in Nat /\ t <= left /\ t <= todo' /\ todo' \in Int /\ todo' >= -2
        BY <3>2, <3>3 DEF Least
      <4>3. b \in BOOLEAN
        BY <3>4
      <4> HIDE DEF t, b, left
      <4>4. QED
        BY <1>1, <2>1, <2>2, <2>3, <3>3, <4>1, <4>2, <4>3, RStarts
    <3>7. QED
      BY <3>5, <3>6
  <2>6. QED
    BY <2>4, <2>5
<1>6. CASE /\ r.phase = "body" /\ r' = RIdle
           /\ todo' = IF Failed THEN todo ELSE todo - r.got
           /\ UNCHANGED <<secheader, torn>>
  <2>1. r.got + r.todo <= todo
    BY <1>6 DEF Safe, Counted
  <2>2. todo' \in Int /\ todo' >= -2
    BY <1>0, <1>6, <2>1
  <2>3. torn' \in BOOLEAN /\ HeaderKnown'
    BY <1>0, <1>1, <1>6, HeaderStays
  <2>4. QED
    BY <1>1, <1>6, <2>2, <2>3, REnds
<1>7. QED
  BY <1>2, <1>3, <1>4, <1>5, <1>6 DEF RReturn

-----------------------------------------------------------------------------
(* A step of the system is a step of the queue, or one it does not see. *)

(* The queue does not see a chunk that is not copied yet, *)
LEMMA WEnterStep == Safe /\ WEnter => Safe' /\ UNCHANGED Fifo!vars
<1> SUFFICES ASSUME Safe, WEnter PROVE UNCHANGED Fifo!vars
  BY WEnterSafe
<1>1. /\ UNCHANGED <<data, pread, pwrite, error, user>>
      /\ w.pc = "idle" /\ (w' = w \/ w' = [w EXCEPT !.pc = "lock"])
  BY DEF WEnter, ring
<1>2. w'.pc \in {"idle", "lock"}
  <2>1. w \in Writer
    BY Facts
  <2>2. QED
    BY <1>1, <2>1 DEF Writer
<1>3. Err' = Err
  BY <1>1, <1>2 DEF Err
<1>4. QED
  BY <1>1, <1>3, SameQueue, Unseen

(* nor the callback taking the lock. *)
LEMMA WLockStep == Safe /\ WLock => Safe' /\ UNCHANGED Fifo!vars
<1> SUFFICES ASSUME Safe, WLock PROVE UNCHANGED Fifo!vars
  BY WLockSafe
<1>1. UNCHANGED <<data, pread, pwrite, error, user>> /\ w.pc = "lock"
  BY DEF WLock, ring
<1>2. w'.pc \in {"idle", "flush", "copy1", "copy2"}
  <2> DEFINE l == len[Len(len)]
             p == IF l > Free THEN "flush" ELSE IF pwrite + l > SIZE THEN "copy1" ELSE "copy2"
  <2>1. w' = WIdle \/ w' = [pc |-> p, at |-> 0, todo |-> l]
    BY DEF WLock
  <2>2. p \in {"flush", "copy1", "copy2"}
    OBVIOUS
  <2> HIDE DEF l, p
  <2>3. QED
    BY <2>1, <2>2 DEF WIdle
<1>3. Err' = Err
  BY <1>1, <1>2 DEF Err
<1>4. QED
  BY <1>1, <1>3, SameQueue, Unseen

(* Every step keeps the invariant unless it races, and is a step of the queue. *)
LEMMA StepSafe ==
  ASSUME Safe, Next, raced' = FALSE
  PROVE  Safe' /\ (Fifo!Next \/ UNCHANGED Fifo!vars)
<1>1. CASE WEnter
  BY <1>1, WEnterStep
<1>2. CASE Callback
  <2>1. CASE WLock \/ WCopy1 \/ WCopy2
    BY <2>1, WLockStep, WCopy1Step, WCopy2Step
  <2>2. CASE WSplit \/ WPublish
    BY <2>2, WSplitStep, WPublishStep DEF Fifo!Next
  <2>3. CASE WFlush
    BY <2>3, WFlushStep DEF Fifo!Next
  <2>4. CASE WClear \/ WSetErr \/ WWake
    BY <2>4, WErrStep
  <2>5. QED
    BY <1>2, <2>1, <2>2, <2>3, <2>4 DEF Callback
<1>3. CASE TimerFires \/ TimerEnds
  BY <1>3, TimerStep DEF Fifo!Next
<1>4. CASE ReadCall \/ RSignal
  BY <1>4, ReadCallStep, RLoopStep
<1>5. CASE Reader
  <2>1. CASE RTop \/ RLoop \/ RTest \/ RAvail
    BY <2>1, RTopStep, RLoopStep, RAvailStep
  <2>2. CASE RCopy1 \/ RCopy2 \/ RFault \/ RReturn
    BY <2>2, RCopy1Step, RCopy2Step, RFaultStep, RReturnStep
  <2>3. CASE RSplit \/ RAdvance
    BY <2>3, RSplitStep, RAdvanceStep DEF Fifo!Next
  <2>4. CASE RFlush \/ RClear
    BY <2>4, RFlushStep, RClearStep DEF Fifo!Next
  <2>5. QED
    BY <1>5, <2>1, <2>2, <2>3, <2>4 DEF Reader
<1>6. QED
  BY <1>1, <1>2, <1>3, <1>4, <1>5 DEF Next

(* The same for the steps that change nothing. *)
LEMMA StillSafe ==
  ASSUME Safe, UNCHANGED vars
  PROVE  Safe' /\ UNCHANGED Fifo!vars
<1>1. UNCHANGED <<type, oneshot, fstate, timer, data, pread, pwrite, error, len, w, r, todo,
                  secheader, user, torn>>
  BY DEF vars
<1>2. Typed' /\ Counted'
  BY <1>1, SameCounted DEF Safe, Typed
<1>3. Known' /\ Writes'
  BY <1>1, SameKnown, SameWrites
<1>4. ReadsUsed'
  <2>1. r.pc = "flush" => error' # "" \/ w'.pc \in {"clear", "seterr"}
    BY <1>1 DEF Safe, ReadsUsed
  <2>2. QED
    BY <1>1, <2>1, SameReadsUsed
<1>5. NextByte' = NextByte /\ Err' = Err
  BY <1>1 DEF NextByte, Err
<1>6. Fresh'
  BY <1>1, <1>5, SameFresh
<1>7. QED
  BY <1>1, <1>2, <1>3, <1>4, <1>5, <1>6, SameQueue, Unseen DEF Safe

(* Only the callback's flush touches raced, and it never resets it. *)
LEMMA RacedStays ==
  ASSUME raced \in BOOLEAN, [Next]_vars
  PROVE  raced' \in BOOLEAN /\ (raced => raced')
<1>1. CASE WFlush
  BY <1>1 DEF WFlush
<1>2. ASSUME [Next]_vars, ~WFlush PROVE raced' = raced
  <2>1. CASE WEnter \/ TimerFires \/ TimerEnds \/ ReadCall \/ RSignal
    BY <2>1, Zenon DEF WEnter, TimerFires, TimerEnds, ReadCall, RSignal
  <2>2. CASE WLock \/ WCopy1 \/ WSplit \/ WCopy2 \/ WPublish \/ WClear \/ WSetErr \/ WWake
    BY <2>2, Zenon DEF WLock, WCopy1, WSplit, WCopy2, WPublish, WClear, WSetErr, WWake
  <2>3. CASE RTop \/ RLoop \/ RTest \/ RAvail \/ RCopy1 \/ RSplit \/ RCopy2
    BY <2>3, Zenon DEF RTop, RLoop, RTest, RAvail, RCopy1, RSplit, RCopy2
  <2>4. CASE RAdvance \/ RFault \/ RFlush \/ RClear \/ RReturn
    BY <2>4, Zenon DEF RAdvance, RFault, RFlush, RClear, RReturn
  <2>5. CASE UNCHANGED vars
    BY <2>5 DEF vars
  <2>6. QED
    BY <1>2, <2>1, <2>2, <2>3, <2>4, <2>5 DEF Next, Callback, Reader
<1>3. QED
  BY <1>1, <1>2

(* One step of the induction, with what the queue sees of it. *)
LEMMA IInvStep ==
  IInv /\ [Next]_vars => IInv' /\ (~raced' => Fifo!Next \/ UNCHANGED Fifo!vars)
<1> SUFFICES ASSUME IInv, [Next]_vars
             PROVE  IInv' /\ (~raced' => Fifo!Next \/ UNCHANGED Fifo!vars)
  OBVIOUS
<1>1. raced' \in BOOLEAN /\ (raced => raced')
  BY RacedStays DEF IInv
<1>2. ASSUME ~raced' PROVE Safe' /\ (Fifo!Next \/ UNCHANGED Fifo!vars)
  <2>1. Safe /\ raced' = FALSE
    BY <1>1, <1>2 DEF IInv
  <2>2. CASE Next
    BY <2>1, <2>2, StepSafe
  <2>3. CASE UNCHANGED vars
    BY <2>1, <2>3, StillSafe
  <2>4. QED
    BY <2>2, <2>3
<1>3. QED
  BY <1>1, <1>2 DEF IInv

(* The initial states map to initial states of the queue. *)
LEMMA InitMaps == Init => IInv /\ Fifo!Init
<1> SUFFICES ASSUME Init PROVE IInv /\ Fifo!Init
  OBVIOUS
<1>1. IInv
  BY InitSafe DEF IInv
<1>2. pread = 0 /\ pwrite = 0 /\ user = <<>> /\ error = "" /\ w = WIdle
  BY DEF Init
<1>3. Queue = <<>>
  <2>1. Avail = 0
    <3>1. pread = 0 /\ pwrite = 0 /\ SIZE \in Nat
      BY <1>2, RbufAssumption
    <3>2. QED
      BY <3>1 DEF Avail
  <2>2. QED
    BY <2>1 DEF Queue
<1>4. w.pc = "idle"
  BY <1>2 DEF WIdle
<1>5. QED
  BY <1>1, <1>2, <1>3, <1>4 DEF Fifo!Init

(* Until the callback empties the buffer under a read (WFlush sets raced),   *)
(* the invariant of the ring buffer holds: callback and reader keep to the   *)
(* free cells and to those in use, whatever the order of their steps.        *)
THEOREM Invariant == Spec => []IInv
<1>1. Init => IInv
  BY InitMaps
<1>2. IInv /\ [Next]_vars => IInv'
  BY IInvStep
<1>3. QED
  BY <1>1, <1>2, PTL DEF Spec

(* Until then the pointers stay inside the buffer, and what the callback and *)
(* dvb_ringbuffer_read_user are about to copy has its type and stays below   *)
(* the size of the buffer.                                                   *)
THEOREM TypeCorrect == Spec => [](~raced => TypeOK)
<1>1. IInv => (~raced => TypeOK)
  <2> SUFFICES ASSUME IInv, ~raced PROVE TypeOK
    OBVIOUS
  <2>1. Safe
    BY DEF IInv
  <2>2. /\ r.n \in Nat /\ r.left \in Nat /\ r.todo \in Nat /\ w.at \in Nat /\ w.todo \in Nat
        /\ SIZE \in Nat
    BY <2>1, Facts
  <2>3. w.at <= SIZE /\ r.n < SIZE /\ r.left <= r.n
    BY <2>1 DEF Safe, Typed
  <2>4. w.at \in 0..SIZE /\ r.n \in 0..(SIZE - 1) /\ r.left \in 0..r.n
    BY <2>2, <2>3
  <2>5. QED
    <3>1. /\ Pos(pread) /\ Pos(pwrite) /\ error \in {"", "EOVERFLOW", "ETIMEDOUT"}
          /\ fstate \in {"GO", "DONE", "TIMEDOUT"} /\ timer \in {"off", "armed", "fired"}
          /\ todo \in Int
      BY <2>1 DEF Pos, Safe, Typed
    <3>2. QED
      BY <2>2, <2>4, <3>1 DEF TypeOK
<1>2. QED
  BY <1>1, Invariant, PTL

(* The ring buffer starts as an empty queue, and every step of callback,     *)
(* timer and reader is a step of the queue or invisible to it, up to the     *)
(* first time the callback empties the buffer under a read.                  *)
THEOREM FifoUntilRaced == Spec => Fifo!Init /\ [][raced' \/ Fifo!Next]_(Fifo!vars)
<1>1. Init => Fifo!Init
  BY InitMaps
<1>2. IInv /\ [Next]_vars => [raced' \/ Fifo!Next]_(Fifo!vars)
  BY IInvStep
<1>3. QED
  BY <1>1, <1>2, Invariant, PTL DEF Spec

(* Refinement: if the callback never empties the buffer under a read - what  *)
(* note (2) of dvb_ringbuffer.h asks for - callback and read() implement the *)
(* bounded queue of bytes: none is lost without an error, overwritten before *)
(* it is read, read twice or out of order.                                   *)
THEOREM RingIsFifo == Spec /\ []~raced => FifoSpec
<1>1. Init => Fifo!Init
  BY InitMaps
<1>2. IInv /\ ~raced' /\ [Next]_vars => [Fifo!Next]_(Fifo!vars)
  BY IInvStep
<1>3. QED
  BY <1>1, <1>2, Invariant, PTL DEF Spec, FifoSpec, Fifo!Spec

-----------------------------------------------------------------------------
(* The framing of sections: what comes out of the queue is whole chunks, and *)
(* read_sec knows where in a section it is.                                  *)

(* Byte b may come next after byte a: the next one of its chunk, or the     *)
(* first of another one.                                                     *)
Succeeds(L, a, b) == IF a[2] + 1 < L[a[1]] THEN b = <<a[1], a[2] + 1>> ELSE b[2] = 0

(* What follows the first i bytes of a queue q; e is to be put next. *)
After(q, e, i) == IF i < Len(q) THEN q[i + 1] ELSE e

(* Chunks of the lengths L follow one another; the last one may go on with e. *)
Chain(L, q, e) ==
  \A i \in 1..Len(q) : /\ q[i] \in Byte /\ q[i][1] \in 1..Len(L) /\ q[i][2] < L[q[i][1]]
                       /\ Succeeds(L, q[i], After(q, e, i))

(* The first m bytes are taken: p is left. *)
Drops(q, p, m) ==
  /\ m \in Nat /\ Len(q) \in Nat /\ m <= Len(q) /\ Len(p) = Len(q) - m
  /\ \A i \in 1..(Len(q) - m) : p[i] = q[i + m]

(* What the reader leaves of a chain of chunks is one. *)
LEMMA ChainDrop ==
  ASSUME NEW L, NEW q, NEW e, NEW p, NEW m, Drops(q, p, m), Chain(L, q, e)
  PROVE  Chain(L, p, e) /\ After(p, e, 0) = After(q, e, m)
<1>0. /\ m \in Nat /\ Len(q) \in Nat /\ m <= Len(q) /\ Len(p) = Len(q) - m
      /\ \A i \in 1..(Len(q) - m) : p[i] = q[i + m]
  BY DEF Drops
<1>1. ASSUME NEW i \in 0..Len(p) PROVE After(p, e, i) = After(q, e, i + m)
  BY <1>0, <1>1 DEF After
<1>2. After(p, e, 0) = After(q, e, m)
  BY <1>0, <1>1
<1>3. ASSUME NEW i \in 1..Len(p)
      PROVE  /\ p[i] \in Byte /\ p[i][1] \in 1..Len(L) /\ p[i][2] < L[p[i][1]]
             /\ Succeeds(L, p[i], After(p, e, i))
  <2>1. i + m \in 1..Len(q) /\ p[i] = q[i + m] /\ i \in 0..Len(p)
    BY <1>0, <1>3
  <2>2. QED
    BY <1>1, <2>1 DEF Chain
<1>4. QED
  BY <1>2, <1>3 DEF Chain

(* As long as a chunk goes on, the queue holds its bytes in order. *)
LEMMA ChainRun ==
  ASSUME NEW L, NEW q, NEW e, Len(q) \in Nat, Chain(L, q, e),
         NEW s \in 1..Len(L), L[s] \in Nat, NEW o \in Int, o >= -1,
         Succeeds(L, <<s, o>>, After(q, e, 0)),
         NEW m \in Nat, m <= Len(q), o + m < L[s]
  PROVE  /\ \A i \in 1..m : q[i] = <<s, o + i>>
         /\ Succeeds(L, <<s, o + m>>, After(q, e, m))
<1>1. ASSUME NEW i \in 1..m, i > 1 => q[i - 1] = <<s, o + (i - 1)>> PROVE q[i] = <<s, o + i>>
  <2>1. CASE i = 1
    <3>1. After(q, e, 0) = q[1] /\ o + 1 < L[s]
      BY <2>1 DEF After
    <3>2. QED
      BY <2>1, <3>1 DEF Succeeds
  <2>2. CASE i > 1
    <3>1. i - 1 \in 1..Len(q) /\ i - 1 < Len(q) /\ (i - 1) + 1 = i
      BY <2>2
    <3>2. Succeeds(L, q[i - 1], q[i])
      BY <3>1 DEF Chain, After
    <3>3. (o + (i - 1)) + 1 < L[s] /\ (o + (i - 1)) + 1 = o + i
      BY <2>2
    <3>4. QED
      BY <1>1, <2>2, <3>2, <3>3 DEF Succeeds
  <2>3. QED
    BY <2>1, <2>2
<1>2. \A i \in 1..m : q[i] = <<s, o + i>>
  <2> DEFINE T == {i \in 1..m : q[i] # <<s, o + i>>}
  <2> SUFFICES ASSUME T # {} PROVE FALSE
    OBVIOUS
  <2>1. T \subseteq Nat
    OBVIOUS
  <2>2. PICK i \in T : \A j \in T : i <= j
    <3> HIDE DEF T
    <3>1. QED
      BY <2>1, LeastElement
  <2>3. i \in 1..m /\ q[i] # <<s, o + i>>
    OBVIOUS
  <2>4. i > 1 => q[i - 1] = <<s, o + (i - 1)>>
    <3> SUFFICES ASSUME i > 1 PROVE i - 1 \notin T /\ i - 1 \in 1..m
      OBVIOUS
    <3>1. i - 1 \in 1..m /\ ~(i <= i - 1)
      BY <2>3
    <3> HIDE DEF T
    <3>2. QED
      BY <2>2, <3>1
  <2>5. QED
    BY <1>1, <2>3, <2>4
<1>3. CASE m = 0
  <2>1. <<s, o + m>> = <<s, o>>
    BY <1>3
  <2>2. QED
    BY <1>2, <1>3, <2>1
<1>4. CASE m > 0
  <2>1. m \in 1..Len(q) /\ q[m] = <<s, o + m>>
    BY <1>2, <1>4
  <2>2. QED
    BY <1>2, <2>1 DEF Chain
<1>5. QED
  BY <1>3, <1>4

(* Bytes f, ..., f + k - 1 of chunk s are put where e was to come: p is the  *)
(* queue then, and e2 is to come next.                                       *)
Puts(L, q, e, p, e2, s, f, k) ==
  /\ k \in Nat /\ k >= 1 /\ f \in Nat /\ Len(q) \in Nat
  /\ s \in 1..Len(L) /\ s \in Nat /\ L[s] \in Nat /\ f + k <= L[s]
  /\ Len(p) = Len(q) + k
  /\ \A i \in 1..Len(q) : p[i] = q[i]
  /\ \A i \in (Len(q) + 1)..(Len(q) + k) : p[i] = <<s, f + (i - Len(q)) - 1>>
  /\ e = IF f = 0 THEN NONE ELSE <<s, f>>
  /\ Succeeds(L, <<s, f + k - 1>>, e2)

(* A chain with bytes more of the last chunk is one. *)
LEMMA ChainPut ==
  ASSUME NEW L, NEW q, NEW e, NEW p, NEW e2, NEW s, NEW f, NEW k,
         Puts(L, q, e, p, e2, s, f, k), Chain(L, q, e)
  PROVE  /\ Chain(L, p, e2)
         /\ After(q, e, 0)[2] = 0 => After(p, e2, 0)[2] = 0
         /\ \A a \in Byte : Succeeds(L, a, After(q, e, 0)) => Succeeds(L, a, After(p, e2, 0))
<1>0. Len(q) \in Nat /\ k \in Nat /\ k >= 1 /\ Len(p) = Len(q) + k /\ f \in Nat
      /\ L[s] \in Nat /\ f + k <= L[s]
  BY DEF Puts
<1> USE DEF Puts
<1>1. p[Len(q) + 1] = <<s, f>> /\ Len(q) + 1 \in 1..Len(p)
  <2>1. Len(q) + 1 \in (Len(q) + 1)..(Len(q) + k) /\ f + ((Len(q) + 1) - Len(q)) - 1 = f
    OBVIOUS
  <2>2. QED
    BY <2>1
<1>2. \A a \in Byte : Succeeds(L, a, e) => Succeeds(L, a, <<s, f>>)
  BY DEF Succeeds, Byte, NONE
<1>3. e[2] = 0 => <<s, f>>[2] = 0
  BY DEF NONE
<1>4. ASSUME NEW i \in 0..Len(q)
      PROVE  /\ After(q, e, i)[2] = 0 => After(p, e2, i)[2] = 0
             /\ \A a \in Byte : Succeeds(L, a, After(q, e, i)) => Succeeds(L, a, After(p, e2, i))
  <2>1. CASE i < Len(q)
    <3>1. i + 1 \in 1..Len(q) /\ i < Len(p)
      BY <2>1
    <3>2. After(q, e, i) = After(p, e2, i)
      BY <2>1, <3>1 DEF After
    <3>3. QED
      BY <3>2
  <2>2. CASE i = Len(q)
    <3>1. After(q, e, i) = e /\ After(p, e2, i) = <<s, f>>
      BY <1>1, <2>2 DEF After
    <3>2. QED
      BY <1>2, <1>3, <3>1
  <2>3. i < Len(q) \/ i = Len(q)
    OBVIOUS
  <2>4. QED
    BY <2>1, <2>2, <2>3
<1>5. ASSUME NEW i \in 1..Len(p)
      PROVE  /\ p[i] \in Byte /\ p[i][1] \in 1..Len(L) /\ p[i][2] < L[p[i][1]]
             /\ Succeeds(L, p[i], After(p, e2, i))
  <2>1. CASE i <= Len(q)
    <3>1. i \in 1..Len(q) /\ p[i] = q[i] /\ i \in 0..Len(q)
      BY <2>1
    <3>2. QED
      BY <1>4, <3>1 DEF Chain
  <2>2. CASE i > Len(q)
    <3> DEFINE o == f + (i - Len(q)) - 1
    <3>0. i \in (Len(q) + 1)..(Len(q) + k) /\ o \in Nat /\ o < L[s]
      BY <2>2, SMTT(30)
    <3>1. p[i] = <<s, o>> /\ o \in Nat /\ o < L[s]
      BY <3>0
    <3>5. i < Len(p) \/ i = Len(p)
      <4> HIDE DEF Puts
      <4>1. QED
        BY <1>0
    <3>2. CASE i < Len(p)
      <4>1. i + 1 \in (Len(q) + 1)..(Len(q) + k) /\ f + ((i + 1) - Len(q)) - 1 = o + 1
            /\ o + 1 < L[s]
        <5> HIDE DEF Puts
        <5>1. QED
          BY <1>0, <2>2, <3>2
      <4>2. After(p, e2, i) = <<s, o + 1>>
        BY <3>2, <4>1 DEF After
      <4> HIDE DEF o
      <4>3. QED
        BY <3>1, <4>1, <4>2, SMTT(30) DEF Succeeds, Byte
    <3>3. CASE i = Len(p)
      <4>1. o = f + k - 1 /\ After(p, e2, i) = e2
        BY <3>3 DEF After
      <4>2. Succeeds(L, <<s, o>>, After(p, e2, i))
        BY <4>1
      <4> HIDE DEF o
      <4>3. QED
        BY <3>1, <4>2 DEF Byte
    <3>4. QED
      BY <3>2, <3>3, <3>5
  <2>3. QED
    BY <2>1, <2>2
<1>6. Chain(L, p, e2)
  BY <1>5 DEF Chain
<1>7. 0 \in 0..Len(q)
  OBVIOUS
<1>8. QED
  BY <1>4, <1>6, <1>7

(* The demux delivers another chunk. *)
LEMMA ChainMore ==
  ASSUME NEW L, NEW M, Len(L) \in Nat, Len(M) \in Nat, Len(L) <= Len(M),
         \A s \in 1..Len(L) : M[s] = L[s], NEW q, NEW e
  PROVE  /\ Chain(L, q, e) => Chain(M, q, e)
         /\ \A a, b : a[1] \in 1..Len(L) => (Succeeds(L, a, b) <=> Succeeds(M, a, b))
<1>1. \A a, b : a[1] \in 1..Len(L) => (Succeeds(L, a, b) <=> Succeeds(M, a, b))
  BY DEF Succeeds
<1>2. ASSUME Chain(L, q, e), NEW i \in 1..Len(q)
      PROVE  /\ q[i] \in Byte /\ q[i][1] \in 1..Len(M) /\ q[i][2] < M[q[i][1]]
             /\ Succeeds(M, q[i], After(q, e, i))
  <2>1. /\ q[i] \in Byte /\ q[i][1] \in 1..Len(L) /\ q[i][2] < L[q[i][1]]
        /\ Succeeds(L, q[i], After(q, e, i))
    BY <1>2 DEF Chain
  <2>2. QED
    BY <1>1, <2>1
<1>3. QED
  BY <1>1, <1>2 DEF Chain

(* The callback has put part of its chunk; the byte it is to put next. *)
MidChunk == w.pc \in {"copy2", "publish"} /\ w.at > 0
Beyond == IF MidChunk THEN <<Len(len), w.at>> ELSE NONE

(* The byte the reader gets next: NONE stands for the first of a new chunk. *)
Front == After(Queue, Beyond, 0)

(* What is in the queue are whole chunks, but for those the reader and the   *)
(* callback have begun with.                                                 *)
Whole == Chain(len, Queue, Beyond)

(* The callback has the rest of its chunk to write. *)
Sized ==
  w.pc \in {"copy1", "split", "copy2", "publish"} =>
    Len(len) > 0 /\ w.at + w.todo = len[Len(len)]

(* The bytes the running buffer_read has passed on. *)
Had == r.got + (IF r.pc \in {"copy2", "advance"} THEN r.n - r.left ELSE 0)

(* The read of a header has taken an error: read_sec will start over. *)
GaveUp == r.phase = "hdr" /\ r.pc \in {"clear", "ret"} /\ r.fail = "ERR"

(* read_sec expects the first byte of a section. *)
AtStart == GaveUp \/ (todo = 0 /\ Had = 0)

(* The callback has emptied the queue and the reader has not seen the error. *)
Overflowed ==
  /\ Empty /\ r.pc # "clear"
  /\ w.pc \in {"clear", "seterr"} \/ (error # "" /\ w.pc \in {"wake", "idle"})

(* The bytes of a header read so far are those of section s. *)
HeaderSoFar(s) ==
  /\ \A i \in 1..3 : i <= -todo => secheader[i] = <<s, i - 1>>
  /\ \A i \in 1..3 : i <= Had => user[Len(user) - Had + i] = <<s, i - 1 - todo>>

(* How much of section s has been read. *)
Consumed(s) == IF todo <= 0 THEN Had - todo ELSE len[s] - (todo - Had)

(* The reader is in section s, and its next byte is the one it expects. *)
Within(s) ==
  /\ todo <= 0 => HeaderSoFar(s)
  /\ Consumed(s) \in 1..len[s]
  /\ Overflowed \/ Succeeds(len, <<s, Consumed(s) - 1>>, Front)
Position == IF AtStart THEN Front[2] = 0 ELSE \E s \in 1..Len(len) : Within(s)

(* Where the reader can be. *)
Steady ==
  /\ r.pc = "split" => r.n - r.left = Len(r.ubuf)
  /\ r.pc = "idle" => r.got = 0
  /\ r.pc = "flush" => r.fail = "ERR"
  /\ type = "SEC" /\ r.pc # "idle" => r.phase # "raw"
  /\ ~torn /\ GaveUp => r.got = 0

(* The invariant of the framing, on top of Safe. *)
Framing == Sized /\ Whole /\ Steady /\ (~torn /\ type = "SEC" => Position)

-----------------------------------------------------------------------------
(* What the parts depend on. *)

(* The lengths of the chunks. *)
LEMMA Lengths ==
  ASSUME Safe, NEW s \in 1..Len(len)
  PROVE  len[s] \in Nat /\ len[s] >= 1 /\ (type = "SEC" => len[s] >= 3)
<1>1. len[s] \in Lens
  <2>1. len \in Seq(Lens)
    BY Facts
  <2>2. QED
    BY <2>1, ElementOfSeq
<1>2. type \in Types
  BY DEF Safe, Typed
<1>3. \A l \in Lens : l \in Nat /\ l >= 1
  BY RbufAssumption
<1>4. type = "SEC" => \A l \in Lens : l >= 3
  BY <1>2, RbufAssumption
<1>5. QED
  BY <1>1, <1>3, <1>4

(* The queue as a sequence. *)
LEMMA QueueLen ==
  ASSUME Safe
  PROVE  Len(Queue) = Avail /\ Avail \in Nat
  BY Facts, QueueIs

(* A reader that is woken keeps its failure. *)
LEMMA WokenFail ==
  ASSUME r \in ReadState, r' = r \/ r' = Woken
  PROVE  r'.fail = r.fail
  BY ZenonT(60) DEF Woken, ReadState

(* What the callback and the timer leave of the reader. *)
LEMMA ReaderSame ==
  ASSUME Safe, r' = r \/ r' = Woken, UNCHANGED <<todo, torn>>
  PROVE  /\ Had' = Had /\ GaveUp' = GaveUp /\ AtStart' = AtStart
         /\ r'.pc = "clear" <=> r.pc = "clear"
<1>1. /\ r'.pc = r.pc \/ (r.pc = "sleep" /\ r'.pc = "loop")
      /\ r'.phase = r.phase /\ r'.got = r.got /\ r'.n = r.n /\ r'.left = r.left
      /\ r'.fail = r.fail
  BY Facts, WokenIs, WokenFail
<1>2. Had' = Had /\ GaveUp' = GaveUp
  BY <1>1 DEF Had, GaveUp
<1>3. QED
  BY <1>1, <1>2 DEF AtStart

(* Steady depends on what the reader does only. *)
LEMMA SteadySame ==
  ASSUME Safe, Steady, r' = r \/ r' = Woken, UNCHANGED <<type, todo, torn>>
  PROVE  Steady'
<1>1. /\ r'.pc = r.pc \/ (r.pc = "sleep" /\ r'.pc = "loop")
      /\ r'.phase = r.phase /\ r'.got = r.got /\ r'.n = r.n /\ r'.left = r.left
      /\ r'.fail = r.fail /\ r'.ubuf = r.ubuf
  BY Facts, WokenIs, WokenFail
<1>2. GaveUp' = GaveUp
  BY ReaderSame
<1>3. QED
  BY <1>1, <1>2 DEF Steady

(* A step of the callback or the timer after which the next byte is still    *)
(* the one the reader expects, or an error is due.                           *)
LEMMA PositionStays ==
  ASSUME Safe, Position, r' = r \/ r' = Woken, UNCHANGED <<todo, torn, secheader, user>>,
         Len(len') \in Nat, Len(len) <= Len(len'), \A s \in 1..Len(len) : len'[s] = len[s],
         Front[2] = 0 => Front'[2] = 0,
         \/ Overflowed'
         \/ /\ ~Overflowed
            /\ \A a \in Byte : Succeeds(len, a, Front) => Succeeds(len, a, Front')
  PROVE  Position'
<1>1. Had' = Had /\ AtStart' = AtStart
  BY ReaderSame
<1>2. CASE AtStart
  BY <1>1, <1>2 DEF Position
<1>3. CASE ~AtStart
  <2>1. PICK s \in 1..Len(len) : Within(s)
    BY <1>3 DEF Position
  <2>2. s \in 1..Len(len') /\ len'[s] = len[s] /\ len[s] \in Nat
    <3>1. Len(len) \in Nat
      BY Facts
    <3>2. QED
      BY <3>1, Lengths
  <2>3. HeaderSoFar(s)' <=> HeaderSoFar(s)
    BY <1>1 DEF HeaderSoFar
  <2>4. Consumed(s)' = Consumed(s)
    BY <1>1, <2>2 DEF Consumed
  <2>5. CASE ~Overflowed /\ \A a \in Byte : Succeeds(len, a, Front) => Succeeds(len, a, Front')
    <3> DEFINE a == <<s, Consumed(s) - 1>>
    <3>1. Consumed(s) \in 1..len[s] /\ Succeeds(len, a, Front)
      BY <2>1, <2>5 DEF Within
    <3>2. a \in Byte /\ a[1] = s
      BY <2>2, <3>1 DEF Byte
    <3> HIDE DEF a
    <3>3. Succeeds(len, a, Front')
      BY <2>5, <3>1, <3>2
    <3>4. Succeeds(len', a, Front')
      BY <2>2, <3>2, <3>3 DEF Succeeds
    <3>5. Succeeds(len', <<s, Consumed(s)' - 1>>, Front')
      BY <2>4, <3>4 DEF a
    <3>6. Within(s)'
      BY <2>1, <2>2, <2>3, <2>4, <3>5 DEF Within
    <3>7. QED
      BY <1>1, <1>3, <2>2, <3>6 DEF Position
  <2>6. CASE Overflowed'
    <3>1. Within(s)'
      BY <2>1, <2>2, <2>3, <2>4, <2>6 DEF Within
    <3>2. QED
      BY <1>1, <1>3, <2>2, <3>1 DEF Position
  <2>7. QED
    BY <2>5, <2>6
<1>4. QED
  BY <1>2, <1>3

(* The same for a step of the callback or the timer that changes nothing     *)
(* about the queue.                                                          *)
LEMMA QuietStep ==
  ASSUME Safe, Framing, r' = r \/ r' = Woken, UNCHANGED <<type, todo, torn, secheader, user>>,
         len' = len, Queue' = Queue, Beyond' = Beyond, Overflowed => Overflowed', Sized'
  PROVE  Framing'
<1>1. Front' = Front /\ Whole'
  BY DEF Front, Whole, Framing
<1>2. Steady'
  BY SteadySame DEF Framing
<1>3. ASSUME ~torn', type' = "SEC" PROVE Position'
  <2>1. Position /\ Len(len) \in Nat
    BY <1>3, Facts DEF Framing
  <2>2. QED
    BY <1>1, <2>1, PositionStays
<1>4. QED
  BY <1>1, <1>2, <1>3 DEF Framing

-----------------------------------------------------------------------------
(* The steps of the callback and the timer. *)

(* The demux delivers a chunk. *)
LEMMA WEnterFraming == Safe /\ Framing /\ WEnter => Framing'
<1> SUFFICES ASSUME Safe, Framing, WEnter PROVE Framing'
  OBVIOUS
<1>1. /\ w.pc = "idle" /\ UNCHANGED <<type, data, pread, pwrite, error, todo, secheader, user, torn>>
      /\ w' = w \/ w' = [w EXCEPT !.pc = "lock"]
      /\ r' = r \/ r' = Woken
      /\ \E l \in Lens : len' = Append(len, l)
  BY DEF WEnter, file, ring
<1>2. error # "" => w' = w \/ type # "SEC"
  BY DEF WEnter
<1>3. w'.pc \in {"idle", "lock"} /\ w \in Writer
  <2>1. w \in Writer
    BY Facts
  <2>2. QED
    BY <1>1, <2>1 DEF Writer
<1>4. /\ Len(len) \in Nat /\ Len(len') \in Nat /\ Len(len) <= Len(len')
      /\ \A s \in 1..Len(len) : len'[s] = len[s]
  <2>1. PICK l \in Lens : len' = Append(len, l)
    BY <1>1
  <2>2. len \in Seq(Lens) /\ Len(len) \in Nat
    BY Facts
  <2>3. QED
    BY <2>1, <2>2, AppendProperties
<1>5. Queue' = Queue /\ Beyond = NONE /\ Beyond' = NONE
  BY <1>1, <1>3, SameQueue DEF Beyond, MidChunk
<1>6. Front' = Front
  BY <1>5 DEF Front
<1>7. Whole'
  <2>1. Chain(len, Queue, NONE)
    BY <1>5 DEF Framing, Whole
  <2>2. Chain(len', Queue, NONE)
    BY <1>4, <2>1, ChainMore
  <2>3. QED
    BY <1>5, <2>2 DEF Whole
<1>8. Sized'
  BY <1>3 DEF Sized
<1>9. Steady'
  BY <1>1, SteadySame DEF Framing
<1>10. ASSUME ~torn', type' = "SEC" PROVE Position'
  <2>1. Position
    BY <1>1, <1>10 DEF Framing
  <2>2. Overflowed => Overflowed'
    <3>1. r'.pc = "clear" <=> r.pc = "clear"
      BY <1>1, ReaderSame
    <3>2. QED
      BY <1>1, <1>2, <1>10, <3>1 DEF Overflowed, Empty
  <2>3. QED
    BY <1>1, <1>4, <1>6, <2>1, <2>2, PositionStays
<1>11. QED
  BY <1>7, <1>8, <1>9, <1>10 DEF Framing

(* The callback takes the lock. *)
LEMMA WLockFraming == Safe /\ Framing /\ WLock => Framing'
<1> SUFFICES ASSUME Safe, Framing, WLock PROVE Framing'
  OBVIOUS
<1> DEFINE l == len[Len(len)]
           p == IF l > Free THEN "flush" ELSE IF pwrite + l > SIZE THEN "copy1" ELSE "copy2"
<1>1. /\ w.pc = "lock"
      /\ UNCHANGED <<type, data, pread, pwrite, error, len, todo, secheader, user, torn>>
      /\ r' = r \/ r' = Woken
      /\ w' = WIdle \/ w' = [pc |-> p, at |-> 0, todo |-> l]
  BY DEF WLock, ring
<1>2. Len(len) > 0 /\ Len(len) \in Nat /\ l \in Nat
  <2>1. len # <<>> /\ len \in Seq(Lens) /\ Len(len) \in Nat
    BY <1>1, Facts DEF Safe, Writes
  <2>2. Len(len) \in 1..Len(len)
    BY <2>1, EmptySeq
  <2>3. QED
    BY <2>1, <2>2, Lengths
<1>3. w'.at = 0 /\ w'.pc \in {"idle", p} /\ (w'.pc # "idle" => w'.todo = l)
  <2> HIDE DEF p, l
  <2>1. QED
    BY <1>1 DEF WIdle
<1>4. Sized'
  BY <1>1, <1>2, <1>3 DEF Sized
<1>5. Beyond' = NONE /\ Beyond = NONE
  BY <1>1, <1>3 DEF Beyond, MidChunk
<1>6. ~Overflowed
  BY <1>1 DEF Overflowed
<1>7. QED
  BY <1>1, <1>4, <1>5, <1>6, SameQueue, QuietStep

(* The copies do not show. *)
LEMMA WCopyFraming == Safe /\ Framing /\ (WCopy1 \/ WCopy2) => Framing'
<1> SUFFICES ASSUME Safe, Framing, WCopy1 \/ WCopy2 PROVE Framing'
  OBVIOUS
<1>1. Queue' = Queue
  <2>1. UNCHANGED Fifo!vars
    BY WCopy1Step, WCopy2Step
  <2>2. QED
    BY <2>1 DEF Fifo!vars
<1>2. UNCHANGED <<type, len, r, todo, secheader, user, torn>> /\ w.pc \in {"copy1", "copy2"}
  BY DEF WCopy1, WCopy2, file
<1>3. w \in Writer /\ pwrite \in Nat /\ SIZE \in Nat /\ w.todo \in Nat
  BY Facts
<1>4. w'.pc \in {"split", "publish"} /\ w'.at + w'.todo = w.at + w.todo
      /\ (w'.pc = "publish" => w.pc = "copy2" /\ w'.at = w.at) /\ (w'.pc = "split" => w.pc = "copy1")
  <2>1. CASE WCopy1
    <3>1. w.pc = "copy1" /\ w.at = 0
      BY <2>1 DEF WCopy1, Safe, Writes
    <3>2. w' = [pc |-> "split", at |-> SIZE - pwrite, todo |-> w.todo - (SIZE - pwrite)]
      BY <2>1 DEF WCopy1
    <3>3. QED
      BY <1>3, <3>1, <3>2
  <2>2. CASE WCopy2
    BY <1>3, <2>2 DEF WCopy2, Writer
  <2>3. QED
    BY <2>1, <2>2
<1>5. Sized'
  BY <1>2, <1>4 DEF Sized, Framing
<1>6. Beyond' = Beyond
  BY <1>2, <1>4 DEF Beyond, MidChunk
<1>7. ~Overflowed
  BY <1>2 DEF Overflowed
<1>8. QED
  BY <1>1, <1>2, <1>5, <1>6, <1>7, QuietStep

(* The error is raised, the lock released, the timer runs. *)
LEMMA QuietFraming ==
  Safe /\ Framing /\ (WClear \/ WSetErr \/ WWake \/ TimerFires \/ TimerEnds) => Framing'
<1> SUFFICES ASSUME Safe, Framing, WClear \/ WSetErr \/ WWake \/ TimerFires \/ TimerEnds
             PROVE  Framing'
  OBVIOUS
<1>1. UNCHANGED <<type, data, pread, pwrite, len, todo, secheader, user, torn>>
  BY DEF WClear, WSetErr, WWake, TimerFires, TimerEnds, file, ring
<1>2. r' = r \/ r' = Woken
  BY DEF WClear, WSetErr, WWake, TimerFires, TimerEnds
<1>3. \/ w' = w /\ (error' = error \/ error' = "ETIMEDOUT")
      \/ w.pc = "clear" /\ w'.pc = "seterr"
      \/ w.pc = "seterr" /\ w'.pc = "wake" /\ error' = "EOVERFLOW"
      \/ w.pc = "wake" /\ w'.pc = "idle" /\ error' = error
  <2>1. w \in Writer
    BY Facts
  <2>2. CASE WClear \/ WSetErr
    BY <2>1, <2>2 DEF WClear, WSetErr, Writer
  <2>3. CASE WWake
    BY <2>3 DEF WWake, WIdle, ring
  <2>4. CASE TimerFires \/ TimerEnds
    BY <2>4 DEF TimerFires, TimerEnds, ring
  <2>5. QED
    BY <2>2, <2>3, <2>4
<1>4. Sized' /\ Beyond' = Beyond
  BY <1>1, <1>3 DEF Sized, Framing, Beyond, MidChunk
<1>5. Overflowed => Overflowed'
  <2>1. r'.pc = "clear" <=> r.pc = "clear"
    BY <1>1, <1>2, ReaderSame
  <2>2. QED
    BY <1>1, <1>3, <2>1 DEF Overflowed, Empty
<1>6. QED
  BY <1>1, <1>2, <1>4, <1>5, SameQueue, QuietStep

(* pwrite moves over bytes f, f + 1, ... of the current chunk: as in PutStep. *)
LEMMA PutFraming ==
  ASSUME Safe, Framing, NEW k \in Nat, NEW f \in Nat, k >= 1, k <= Free, pwrite + k <= SIZE,
         Stored(k, f), Len(len) > 0, f + k <= len[Len(len)],
         Beyond = IF f = 0 THEN NONE ELSE <<Len(len), f>>,
         Succeeds(len, <<Len(len), f + k - 1>>, Beyond'),
         UNCHANGED <<type, pread, data, len, r, todo, secheader, user, torn>>,
         pwrite' = IF pwrite + k = SIZE THEN 0 ELSE pwrite + k,
         ~Overflowed, Sized'
  PROVE  Framing'
<1>1. /\ pwrite' \in Cells /\ Avail' = Avail + k
      /\ \A i \in 1..Avail : Queue'[i] = Queue[i]
      /\ \A i \in (Avail + 1)..(Avail + k) : Queue'[i] = data[pwrite + (i - Avail) - 1]
  BY Facts, PutCells
<1> DEFINE s == Len(len)
<1>2. /\ Avail \in Nat /\ Len(Queue) = Avail /\ s \in Nat /\ pread \in Cells /\ pwrite \in Nat
      /\ s \in 1..Len(len)
  BY Facts, QueueLen
<1>3. len[s] \in Nat
  BY <1>2, Lengths
<1>4. Len(Queue') = Avail + k
  <2>1. DOMAIN Queue' = 1..(Avail + k)
    BY <1>1 DEF Queue
  <2>2. Queue' = [i \in 1..(Avail + k) |-> Queue'[i]]
    BY <1>1 DEF Queue
  <2>3. QED
    BY <1>2, <2>1, <2>2
<1>5. \A i \in (Avail + 1)..(Avail + k) : Queue'[i] = <<s, f + (i - Avail) - 1>>
  <2> SUFFICES ASSUME NEW i \in (Avail + 1)..(Avail + k)
               PROVE  Queue'[i] = <<s, f + (i - Avail) - 1>>
    OBVIOUS
  <2> DEFINE j == i - Avail - 1
  <2>1. j \in 0..(k - 1) /\ pwrite + (i - Avail) - 1 = pwrite + j /\ f + (i - Avail) - 1 = f + j
    BY <1>2
  <2>2. data[pwrite + j] = <<s, f + j>>
    BY <2>1 DEF Stored
  <2>3. QED
    BY <1>1, <2>1, <2>2
<1> DEFINE q == Queue
           p == Queue'
           e == Beyond
           e2 == Beyond'
<1>6. Puts(len, q, e, p, e2, s, f, k) /\ Chain(len, q, e)
  BY <1>1, <1>2, <1>3, <1>4, <1>5 DEF Framing, Whole, Puts
<1> HIDE DEF q, p, e, e2, s
<1>7. /\ Chain(len, p, e2)
      /\ After(q, e, 0)[2] = 0 => After(p, e2, 0)[2] = 0
      /\ \A a \in Byte : Succeeds(len, a, After(q, e, 0)) => Succeeds(len, a, After(p, e2, 0))
  BY <1>6, ChainPut
<1>8. /\ Front[2] = 0 => Front'[2] = 0
      /\ \A a \in Byte : Succeeds(len, a, Front) => Succeeds(len, a, Front')
  BY <1>7 DEF q, p, e, e2, Front
<1>9. Whole'
  BY <1>7 DEF p, e2, Whole
<1>10. Steady'
  BY SteadySame DEF Framing
<1>11. ASSUME ~torn', type' = "SEC" PROVE Position'
  <2>1. Position /\ Len(len) \in Nat
    BY <1>11, Facts DEF Framing
  <2>2. QED
    BY <1>8, <2>1, PositionStays
<1>12. QED
  BY <1>9, <1>10, <1>11 DEF Framing

(* The first part of a chunk is put, *)
LEMMA WSplitFraming == Safe /\ Framing /\ WSplit => Framing'
<1> SUFFICES ASSUME Safe, Framing, WSplit PROVE Framing'
  OBVIOUS
<1> DEFINE k == w.at
<1>1. /\ w.pc = "split" /\ pwrite' = 0 /\ w' = [w EXCEPT !.pc = "copy2"]
      /\ UNCHANGED <<type, data, pread, len, r, todo, secheader, user, torn>>
  BY DEF WSplit, file
<1>2. /\ w \in Writer /\ w.at \in Nat /\ w.todo \in Nat /\ w.todo >= 1
      /\ w.at = SIZE - pwrite /\ w.at + w.todo <= Free
      /\ SIZE \in Nat /\ pwrite \in Nat /\ pwrite < SIZE /\ Len(len) \in Nat
      /\ Avail \in 0..(SIZE - 1) /\ Free = SIZE - 1 - Avail
  BY <1>1, Facts DEF Safe, Writes
<1>3. Len(len) > 0 /\ w.at + w.todo = len[Len(len)]
  BY <1>1 DEF Framing, Sized
<1>4. k \in Nat /\ k >= 1 /\ k <= Free /\ pwrite + k <= SIZE /\ pwrite + k = SIZE
      /\ 0 + k < len[Len(len)] /\ 0 + k <= len[Len(len)] /\ 0 + k - 1 = k - 1
  BY <1>2, <1>3
<1>5. w'.pc = "copy2" /\ w'.at = w.at /\ w'.todo = w.todo
  BY <1>1, <1>2 DEF Writer
<1>6. Sized'
  BY <1>1, <1>3, <1>5 DEF Sized
<1>7. Beyond = NONE /\ Beyond' = <<Len(len), k>>
  BY <1>1, <1>4, <1>5 DEF Beyond, MidChunk
<1>8. Succeeds(len, <<Len(len), 0 + k - 1>>, Beyond')
  BY <1>4, <1>7 DEF Succeeds
<1>9. Stored(k, 0)
  BY <1>1 DEF Safe, Writes, Stored
<1>10. ~Overflowed
  BY <1>1 DEF Overflowed
<1>11. pwrite' = IF pwrite + k = SIZE THEN 0 ELSE pwrite + k
  BY <1>1, <1>4
<1> HIDE DEF k
<1>12. QED
  BY <1>1, <1>3, <1>4, <1>6, <1>7, <1>8, <1>9, <1>10, <1>11, PutFraming

(* and the rest of it. *)
LEMMA WPublishFraming == Safe /\ Framing /\ WPublish => Framing'
<1> SUFFICES ASSUME Safe, Framing, WPublish PROVE Framing'
  OBVIOUS
<1> DEFINE k == w.todo
           f == w.at
<1>1. /\ w.pc = "publish" /\ pwrite' = (pwrite + k) % SIZE /\ w' = [w EXCEPT !.pc = "wake"]
      /\ UNCHANGED <<type, data, pread, len, r, todo, secheader, user, torn>>
  BY DEF WPublish, Moved
<1>2. /\ w \in Writer /\ f \in Nat /\ k \in Nat /\ k >= 1 /\ k <= Free /\ pwrite + k <= SIZE
      /\ SIZE \in Nat \ {0} /\ pwrite \in Nat /\ pwrite < SIZE /\ Len(len) \in Nat
  BY <1>1, Facts DEF Safe, Writes
<1>3. Len(len) > 0 /\ f + k = len[Len(len)]
  BY <1>1 DEF Framing, Sized
<1>4. pwrite' = IF pwrite + k = SIZE THEN 0 ELSE pwrite + k
  <2> DEFINE x == pwrite + k
  <2>1. x \in 0..(2 * SIZE - 1) /\ x <= SIZE /\ x \in Nat
    BY <1>2
  <2>2. pwrite' = x % SIZE
    BY <1>1
  <2> HIDE DEF x
  <2>3. x % SIZE = IF x < SIZE THEN x ELSE x - SIZE
    BY <2>1, WrapOnce
  <2>4. pwrite' = IF x = SIZE THEN 0 ELSE x
    BY <1>2, <2>1, <2>2, <2>3
  <2>5. QED
    BY <2>4 DEF x
<1>5. w'.pc = "wake"
  BY <1>1, <1>2 DEF Writer
<1>6. Sized' /\ Beyond' = NONE
  BY <1>5 DEF Sized, Beyond, MidChunk
<1>7. Beyond = IF f = 0 THEN NONE ELSE <<Len(len), f>>
  BY <1>1, <1>2 DEF Beyond, MidChunk
<1>8. Succeeds(len, <<Len(len), f + k - 1>>, Beyond') /\ f + k <= len[Len(len)]
  <2>1. ~((f + k - 1) + 1 < len[Len(len)]) /\ f + k <= len[Len(len)]
    BY <1>2, <1>3
  <2>2. QED
    BY <1>6, <2>1 DEF Succeeds, NONE
<1>9. Stored(k, f)
  BY <1>1 DEF Safe, Writes, Stored
<1>10. ~Overflowed
  BY <1>1 DEF Overflowed
<1> HIDE DEF k, f
<1>11. QED
  BY <1>1, <1>2, <1>3, <1>4, <1>6, <1>7, <1>8, <1>9, <1>10, PutFraming

(* The callback empties the queue: the reader will see an error. *)
LEMMA WFlushFraming == Safe /\ Framing /\ WFlush /\ raced' = FALSE => Framing'
<1> SUFFICES ASSUME Safe, Framing, WFlush, raced' = FALSE PROVE Framing'
  OBVIOUS
<1>1. /\ w.pc = "flush" /\ pread' = pwrite /\ w' = [w EXCEPT !.pc = "clear"] /\ ~RReads
      /\ UNCHANGED <<type, pwrite, len, r, todo, secheader, user, torn>>
  BY DEF WFlush, file
<1>2. w'.pc = "clear"
  <2>1. w \in Writer
    BY Facts
  <2>2. QED
    BY <1>1, <2>1 DEF Writer
<1>3. Queue' = <<>> /\ Beyond' = NONE
  <2>1. Queue' = <<>>
    BY WFlushStep DEF Fifo!Overflow
  <2>2. QED
    BY <1>2, <2>1 DEF Beyond, MidChunk
<1>4. Whole' /\ Front' = NONE
  BY <1>3 DEF Whole, Chain, Front, After
<1>5. Overflowed'
  BY <1>1, <1>2 DEF Overflowed, Empty, RReads
<1>6. Sized'
  BY <1>2 DEF Sized
<1>7. Steady'
  BY <1>1, SteadySame DEF Framing
<1>8. ASSUME ~torn', type' = "SEC" PROVE Position'
  <2>1. Position /\ Len(len) \in Nat /\ Front'[2] = 0
    BY <1>1, <1>4, <1>8, Facts DEF Framing, NONE
  <2>2. QED
    BY <1>1, <1>5, <2>1, PositionStays
<1>9. QED
  BY <1>4, <1>6, <1>7, <1>8 DEF Framing

-----------------------------------------------------------------------------
(* The steps of the reader that take nothing from the queue. *)

(* They keep the framing if what has been read so far stays the same. *)
LEMMA ReaderStays ==
  ASSUME Safe, Framing, UNCHANGED <<type, data, pread, pwrite, len, w, todo, secheader, user>>,
         ~torn' => ~torn /\ Had' = Had /\ (GaveUp' <=> GaveUp),
         Overflowed => Overflowed', Steady'
  PROVE  Framing'
<1>1. Queue' = Queue /\ Beyond' = Beyond
  BY SameQueue DEF Beyond, MidChunk
<1>2. Front' = Front /\ Whole' /\ Sized'
  BY <1>1 DEF Front, Whole, Sized, Framing
<1>3. ASSUME ~torn', type' = "SEC" PROVE Position'
  <2>1. Had' = Had /\ (AtStart' <=> AtStart) /\ Position
    BY <1>3 DEF AtStart, Framing
  <2>2. CASE AtStart
    BY <1>2, <2>1, <2>2 DEF Position
  <2>3. CASE ~AtStart
    <3>1. PICK s \in 1..Len(len) : Within(s)
      BY <2>1, <2>3 DEF Position
    <3>2. HeaderSoFar(s)' <=> HeaderSoFar(s)
      BY <2>1 DEF HeaderSoFar
    <3>3. Consumed(s)' = Consumed(s)
      BY <2>1 DEF Consumed
    <3>4. Within(s)'
      BY <1>2, <3>1, <3>2, <3>3 DEF Within
    <3>5. QED
      BY <2>1, <2>3, <3>4 DEF Position
  <2>4. QED
    BY <2>2, <2>3
<1>4. QED
  BY <1>2, <1>3 DEF Framing

(* The reader decides where to go. *)
LEMMA DecideFraming ==
  ASSUME Safe, Framing, NEW p \in {"loop", "sleep", "test", "avail", "flush", "ret"},
         NEW e \in {"", "ERR", "EWOULDBLOCK", "ERESTARTSYS", "EFAULT"},
         r' = [r EXCEPT !.pc = p, !.fail = e], r.pc \in {"top", "loop", "sleep", "test"},
         p = "flush" => e = "ERR", p = "ret" => e # "ERR",
         UNCHANGED <<type, data, pread, pwrite, error, len, w, todo, secheader, user, torn>>
  PROVE  Framing'
<1>1. r'.pc = p /\ r'.fail = e /\ r'.phase = r.phase /\ r'.got = r.got
  <2>1. r \in ReadState
    BY Facts
  <2>2. QED
    BY <2>1 DEF ReadState
<1>2. Had' = Had
  BY <1>1 DEF Had
<1>3. ~GaveUp /\ ~GaveUp'
  BY <1>1 DEF GaveUp
<1>4. Overflowed => Overflowed'
  BY <1>1 DEF Overflowed, Empty
<1>5. Steady'
  BY <1>1, <1>3 DEF Steady, Framing
<1>6. QED
  BY <1>2, <1>3, <1>4, <1>5, ReaderStays

(* The reader looks at the buffer, waits or gives up. *)
LEMMA RTopFraming == Safe /\ Framing /\ (RTop \/ RTest \/ RLoop \/ RSignal) => Framing'
<1> SUFFICES ASSUME Safe, Framing, RTop \/ RTest \/ RLoop \/ RSignal PROVE Framing'
  OBVIOUS
<1>0. r \in ReadState /\ r.fail \in {"", "ERR", "EWOULDBLOCK", "ERESTARTSYS", "EFAULT"}
  BY DEF Safe, Typed, ReadState
<1>1. UNCHANGED <<type, data, pread, pwrite, error, len, w, todo, secheader, user, torn>>
      /\ r.pc \in {"top", "loop", "sleep", "test"}
  BY DEF RTop, RTest, RLoop, RSignal, file, ring
<1>2. CASE RTop \/ RTest
  <2>1. CASE error # ""
    <3>1. r' = [r EXCEPT !.pc = "flush", !.fail = "ERR"]
      BY <1>2, <2>1 DEF RTop, RTest
    <3>2. QED
      BY <1>1, <3>1, DecideFraming
  <2>2. CASE error = ""
    <3>1. PICK p \in {"loop", "avail"} : r' = [r EXCEPT !.pc = p]
      BY <1>2, <2>2 DEF RTop, RTest
    <3>2. r' = [r EXCEPT !.pc = p, !.fail = r.fail]
      BY <1>0, <3>1 DEF ReadState
    <3>3. QED
      BY <1>0, <1>1, <3>2, DecideFraming
  <2>3. QED
    BY <2>1, <2>2
<1>3. CASE RLoop \/ RSignal
  <2>1. \E p \in {"ret", "test", "sleep"}, e \in {"", "EWOULDBLOCK", "ERESTARTSYS"} :
          r' = [r EXCEPT !.pc = p, !.fail = e]
    BY <1>3 DEF RLoop, RSignal
  <2>2. QED
    BY <1>1, <2>1, DecideFraming
<1>4. QED
  BY <1>2, <1>3

(* read() is called. *)
LEMMA ReadCallFraming == Safe /\ Framing /\ ReadCall => Framing'
<1> SUFFICES ASSUME Safe, Framing, ReadCall PROVE Framing'
  OBVIOUS
<1>1. UNCHANGED <<type, data, pread, pwrite, error, len, w, todo, secheader, user, torn>>
      /\ r.pc = "idle"
  BY DEF ReadCall, file, ring
<1>2. PICK c \in Reads, nb \in BOOLEAN :
        r' = IF type = "PES" THEN Call("raw", nb, c, c)
             ELSE IF todo <= 0 THEN Call("hdr", nb, c, Least(3 + todo, c))
             ELSE Call("body", nb, c, Least(todo, c))
  BY DEF ReadCall
<1>3. PICK ph \in {"raw", "hdr", "body"} :
        /\ \E t : r' = Call(ph, nb, c, t)
        /\ type = "SEC" => ph # "raw"
  BY <1>2
<1>4. r'.pc = "top" /\ r'.got = 0 /\ (type = "SEC" => r'.phase # "raw")
  <2>1. r'.pc = "top" /\ r'.got = 0 /\ r'.phase = ph
    BY <1>3 DEF Call, RIdle
  <2>2. QED
    BY <1>3, <2>1
<1>5. r.got = 0
  BY <1>1 DEF Framing, Steady
<1>6. Had' = Had
  BY <1>1, <1>4, <1>5 DEF Had
<1>7. ~GaveUp /\ ~GaveUp'
  BY <1>1, <1>4 DEF GaveUp
<1>8. Overflowed => Overflowed'
  BY <1>1, <1>4 DEF Overflowed, Empty
<1>9. Steady'
  BY <1>1, <1>4, <1>7 DEF Steady
<1>10. QED
  BY <1>1, <1>6, <1>7, <1>8, <1>9, ReaderStays

(* The reader copies. *)
LEMMA RCopyFraming == Safe /\ Framing /\ (RAvail \/ RCopy1 \/ RCopy2) => Framing'
<1> SUFFICES ASSUME Safe, Framing, RAvail \/ RCopy1 \/ RCopy2 PROVE Framing'
  OBVIOUS
<1>1. UNCHANGED <<type, data, pread, pwrite, error, len, w, todo, secheader, user, torn>>
  BY DEF RAvail, RCopy1, RCopy2, file, ring
<1>0. r \in ReadState /\ r.got \in Nat /\ r.left \in Nat /\ r.n \in Nat
  BY Facts
<1>2. r.pc \in {"avail", "copy1", "copy2"} /\ r'.pc \in {"copy1", "copy2", "split", "advance"}
      /\ r'.phase = r.phase
  <2>1. CASE RAvail
    BY <1>0, <2>1 DEF RAvail, ReadState
  <2>2. CASE RCopy1 \/ RCopy2
    BY <1>0, <2>2 DEF RCopy1, RCopy2, ReadState
  <2>3. QED
    BY <2>1, <2>2
<1>3. Had' = Had
  <2>1. CASE RAvail
    <3> DEFINE n == Least(Avail, r.todo)
               p == IF pread + n > SIZE THEN "copy1" ELSE "copy2"
    <3>1. r' = [r EXCEPT !.pc = p, !.n = n, !.left = n, !.ubuf = <<>>] /\ r.pc = "avail"
      BY <2>1 DEF RAvail
    <3>2. n \in Nat
      BY Numbers DEF Least
    <3> HIDE DEF n, p
    <3>3. r'.n = n /\ r'.left = n /\ r'.got = r.got
      BY <1>0, <3>1 DEF ReadState
    <3>4. QED
      BY <1>0, <3>1, <3>2, <3>3 DEF Had
  <2>2. CASE RCopy1
    <3>1. r.pc = "copy1" /\ r'.pc = "split" /\ r'.got = r.got
      BY <1>0, <2>2 DEF RCopy1, ReadState
    <3>2. QED
      BY <3>1 DEF Had
  <2>3. CASE RCopy2
    <3>1. r.pc = "copy2" /\ r'.pc = "advance" /\ r'.got = r.got /\ r'.n = r.n /\ r'.left = r.left
      BY <1>0, <2>3 DEF RCopy2, ReadState
    <3>2. QED
      BY <3>1 DEF Had
  <2>4. QED
    BY <2>1, <2>2, <2>3
<1>4. ~GaveUp /\ ~GaveUp'
  BY <1>2 DEF GaveUp
<1>5. Overflowed => Overflowed'
  BY <1>1, <1>2 DEF Overflowed, Empty
<1>6. r'.pc = "split" => r'.n - r'.left = Len(r'.ubuf)
  <2> SUFFICES ASSUME r'.pc = "split" PROVE r'.n - r'.left = Len(r'.ubuf)
    OBVIOUS
  <2>1. RCopy1
    <3>1. RAvail \/ RCopy2 => r'.pc \in {"copy1", "copy2", "advance"}
      BY <1>0 DEF RAvail, RCopy2, ReadState
    <3>2. QED
      BY <3>1
  <2> DEFINE k == SIZE - pread
  <2>2. r.pc = "copy1" /\ r.left = r.n /\ pread \in Nat /\ SIZE \in Nat /\ pread < SIZE
    BY <2>1, Facts DEF RCopy1, Safe, ReadsUsed
  <2>3. k \in Nat /\ r' = [r EXCEPT !.pc = "split", !.left = r.left - k, !.ubuf = Load(pread, k)]
    BY <2>1, <2>2 DEF RCopy1
  <2>4. Len(Load(pread, k)) = k
    BY <2>3 DEF Load
  <2> HIDE DEF k
  <2>5. r'.n = r.n /\ r'.left = r.left - k /\ r'.ubuf = Load(pread, k)
    BY <1>0, <2>3 DEF ReadState
  <2>6. QED
    BY <1>0, <2>2, <2>3, <2>4, <2>5
<1>7. Steady'
  BY <1>1, <1>2, <1>4, <1>6 DEF Steady, Framing
<1>8. QED
  BY <1>1, <1>3, <1>4, <1>5, <1>7, ReaderStays

(* A copy fails. *)
LEMMA RFaultFraming == Safe /\ Framing /\ RFault => Framing'
<1> SUFFICES ASSUME Safe, Framing, RFault PROVE Framing'
  OBVIOUS
<1>1. UNCHANGED <<type, data, pread, pwrite, error, len, w, todo, secheader, user>>
      /\ r.pc \in {"copy1", "copy2"} /\ torn' = (torn \/ r.left < r.n)
  BY DEF RFault, file, ring
<1>2. /\ r'.pc = "ret" /\ r'.fail = "EFAULT" /\ r'.phase = r.phase /\ r'.got = r.got
  <2>1. r \in ReadState
    BY Facts
  <2>2. QED
    BY <2>1 DEF RFault, ReadState
<1>3. ~torn' => ~torn /\ Had' = Had
  <2> SUFFICES ASSUME ~torn' PROVE ~torn /\ Had' = Had
    OBVIOUS
  <2>1. ~torn /\ ~(r.left < r.n)
    BY <1>1
  <2>2. r.left <= r.n /\ r.got \in Nat /\ r.left \in Nat /\ r.n \in Nat
    BY Facts DEF Safe, Typed
  <2>3. r.n - r.left = 0 /\ r.got + 0 = r.got
    BY <2>1, <2>2
  <2>4. QED
    BY <1>2, <2>1, <2>3 DEF Had
<1>4. ~GaveUp /\ ~GaveUp'
  BY <1>1, <1>2 DEF GaveUp
<1>5. Overflowed => Overflowed'
  BY <1>1, <1>2 DEF Overflowed, Empty
<1>6. Steady'
  BY <1>1, <1>2, <1>4 DEF Steady, Framing
<1>7. QED
  BY <1>1, <1>3, <1>4, <1>5, <1>6, ReaderStays

(* The error is taken. *)
LEMMA RClearFraming == Safe /\ Framing /\ RClear => Framing'
<1> SUFFICES ASSUME Safe, Framing, RClear PROVE Framing'
  OBVIOUS
<1>1. UNCHANGED <<type, data, pread, pwrite, len, w, todo, secheader, user, torn>> /\ r.pc = "clear"
  BY DEF RClear, file
<1>2. r'.pc = "ret" /\ r'.fail = r.fail /\ r'.phase = r.phase /\ r'.got = r.got
  <2>1. r \in ReadState
    BY Facts
  <2>2. QED
    BY <2>1 DEF RClear, ReadState
<1>3. Had' = Had /\ (GaveUp' <=> GaveUp) /\ ~Overflowed
  BY <1>1, <1>2 DEF Had, GaveUp, Overflowed
<1>4. Steady'
  BY <1>1, <1>2, <1>3 DEF Steady, Framing
<1>5. QED
  BY <1>1, <1>3, <1>4, ReaderStays

-----------------------------------------------------------------------------
(* The steps of the reader that take from the queue. *)

(* What the reader gets, and what is left, when pread moves over k bytes. *)
LEMMA TakeBytes ==
  ASSUME Safe, Whole, NEW k \in Nat, k <= Avail, pread + k <= SIZE, Taken(k),
         pread' = IF pread + k = SIZE THEN 0 ELSE pread + k,
         user' = user \o r.ubuf,
         UNCHANGED <<data, pwrite, error, len, w>>
  PROVE  /\ Whole' /\ Front' = After(Queue, Beyond, k)
         /\ Len(user') = Len(user) + k
         /\ \A i \in 1..Len(user) : user'[i] = user[i]
         /\ \A i \in 1..k : user'[Len(user) + i] = Queue[i]
<1>0. /\ user \in Seq(Byte) /\ r.ubuf \in Seq(Byte) /\ Len(user) \in Nat
      /\ pread \in Cells /\ pwrite \in Cells /\ Len(Queue) = Avail /\ Avail \in Nat
  BY Facts, QueueLen
<1>1. /\ Avail' = Avail - k
      /\ \A i \in 1..(Avail - k) : Queue'[i] = Queue[i + k]
      /\ \A i \in 1..k : Queue[i] = data[pread + i - 1]
  BY <1>0, TakeCells
<1>2. Len(Queue') = Avail - k
  <2>1. Queue' = [i \in 1..(Avail - k) |-> Queue'[i]]
    BY <1>1 DEF Queue
  <2>2. Avail - k \in Nat
    BY <1>0
  <2>3. QED
    BY <2>1, <2>2
<1>3. Whole' /\ Front' = After(Queue, Beyond, k)
  <2> DEFINE q == Queue
             p == Queue'
             e == Beyond
  <2>1. Drops(q, p, k) /\ Chain(len, q, e)
    BY <1>0, <1>1, <1>2 DEF Whole, Drops
  <2>2. Beyond' = e
    BY DEF Beyond, MidChunk
  <2> HIDE DEF q, p, e
  <2>3. Chain(len, p, e) /\ After(p, e, 0) = After(q, e, k)
    BY <2>1, ChainDrop
  <2>4. Whole' /\ Front' = After(p, e, 0)
    BY <2>2, <2>3 DEF Whole, Front, p
  <2>5. QED
    BY <2>3, <2>4 DEF q, e
<1>4. /\ Len(user') = Len(user) + k
      /\ \A i \in 1..(Len(user) + k) : user'[i] = IF i <= Len(user) THEN user[i] ELSE r.ubuf[i - Len(user)]
      /\ \A i \in 1..k : r.ubuf[i] = data[pread + i - 1]
  <2>1. Len(r.ubuf) = k /\ \A i \in 1..k : r.ubuf[i] = data[pread + i - 1]
    BY DEF Taken
  <2>2. QED
    BY <1>0, <2>1, ConcatProperties
<1>5. \A i \in 1..Len(user) : user'[i] = user[i]
  BY <1>0, <1>4
<1>6. ASSUME NEW i \in 1..k PROVE user'[Len(user) + i] = Queue[i]
  <2> DEFINE j == Len(user) + i
  <2>1. j \in 1..(Len(user) + k) /\ ~(j <= Len(user)) /\ j - Len(user) = i
    BY <1>0
  <2>2. user'[j] = r.ubuf[i]
    BY <1>4, <2>1
  <2>3. QED
    BY <1>1, <1>4, <2>2
<1>7. QED
  BY <1>3, <1>4, <1>5, <1>6

(* Byte i of the last h of a bytes. *)
LEMMA LastIndex ==
  ASSUME NEW a \in Nat, NEW h \in Nat, h <= a, NEW i \in Nat, i >= 1, i <= h
  PROVE  a - h + i \in 1..a
  OBVIOUS

(* k more of the l bytes of a section: h have been asked for, t is todo. *)
LEMMA TakeCount ==
  ASSUME NEW k \in Nat, NEW h \in Nat, NEW l \in Nat, l >= 3, NEW t \in Int,
         t <= 0 => h + k <= 3 + t, t > 0 => h + k <= t
  PROVE  LET c == IF t <= 0 THEN h - t ELSE l - (t - h)
         IN /\ c \in Int /\ c + k <= l
            /\ c + k = IF t <= 0 THEN (h + k) - t ELSE l - (t - (h + k))
            /\ c \in Nat => c - 1 \in Int /\ c - 1 >= -1 /\ (c - 1) + k < l
                            /\ (c - 1) + k = (c + k) - 1
  OBVIOUS

(* Bytes of a section follow those that have been read. *)
LEMMA TakeWithin ==
  ASSUME Safe, Whole, type = "SEC", NEW k \in Nat, k <= Avail, k >= 1,
         Front' = After(Queue, Beyond, k),
         Len(user') = Len(user) + k,
         \A i \in 1..Len(user) : user'[i] = user[i],
         \A i \in 1..k : user'[Len(user) + i] = Queue[i],
         UNCHANGED <<len, todo, secheader>>,
         Had \in Nat, Had <= Len(user), Had' = Had + k,
         todo <= 0 => Had + k <= 3 + todo, todo > 0 => Had + k <= todo,
         NEW s \in 1..Len(len), todo <= 0 => HeaderSoFar(s),
         Consumed(s) \in 0..len[s], Succeeds(len, <<s, Consumed(s) - 1>>, Front)
  PROVE  Within(s)'
<1>0. /\ len[s] \in Nat /\ len[s] >= 3 /\ todo \in Int /\ Len(user) \in Nat /\ Len(Queue) \in Nat
      /\ Len(Queue) = Avail
  BY Lengths, Facts, QueueLen DEF Safe, Typed
<1> DEFINE c == Consumed(s)
           o == c - 1
<1>1. /\ c + k <= len[s] /\ Consumed(s)' = c + k /\ c \in Nat
      /\ o \in Int /\ o >= -1 /\ o + k < len[s] /\ o + k = (c + k) - 1
  <2>1. /\ c = IF todo <= 0 THEN Had - todo ELSE len[s] - (todo - Had)
        /\ Consumed(s)' = IF todo <= 0 THEN (Had + k) - todo ELSE len[s] - (todo - (Had + k))
    BY DEF Consumed
  <2>2. c \in Nat
    BY <1>0
  <2> DEFINE h == Had
             l == len[s]
             d == Consumed(s)'
  <2>3. /\ h \in Nat /\ l \in Nat /\ l >= 3 /\ todo \in Int /\ c \in Nat
        /\ todo <= 0 => h + k <= 3 + todo
        /\ todo > 0 => h + k <= todo
        /\ c = IF todo <= 0 THEN h - todo ELSE l - (todo - h)
        /\ d = IF todo <= 0 THEN (h + k) - todo ELSE l - (todo - (h + k))
    BY <1>0, <2>1, <2>2
  <2> HIDE DEF c, o, h, l, d
  <2>4. /\ c \in Int /\ c + k <= l
        /\ c + k = IF todo <= 0 THEN (h + k) - todo ELSE l - (todo - (h + k))
        /\ c - 1 \in Int /\ c - 1 >= -1 /\ (c - 1) + k < l /\ (c - 1) + k = (c + k) - 1
    BY <2>3, TakeCount
  <2>5. c + k <= l /\ d = c + k /\ o = c - 1
    BY <2>3, <2>4 DEF o
  <2>6. QED
    BY <2>2, <2>4, <2>5 DEF l, d
<1>2. o \in Int /\ o >= -1 /\ o + k < len[s] /\ o + k = (c + k) - 1
  BY <1>1
<1>3. /\ \A i \in 1..k : Queue[i] = <<s, o + i>>
      /\ Succeeds(len, <<s, o + k>>, After(Queue, Beyond, k))
  <2> DEFINE q == Queue
             e == Beyond
  <2>1. Len(q) \in Nat /\ k <= Len(q) /\ Chain(len, q, e) /\ Succeeds(len, <<s, o>>, After(q, e, 0))
    BY <1>0 DEF Whole, Front
  <2> HIDE DEF q, e, o
  <2>2. /\ \A i \in 1..k : q[i] = <<s, o + i>>
        /\ Succeeds(len, <<s, o + k>>, After(q, e, k))
    BY <1>0, <1>2, <2>1, ChainRun
  <2>3. QED
    BY <2>2 DEF q, e
<1>4. Succeeds(len', <<s, Consumed(s)' - 1>>, Front')
  <2> HIDE DEF o, c
  <2>1. QED
    BY <1>1, <1>2, <1>3
<1>5. ASSUME todo <= 0 PROVE HeaderSoFar(s)'
  <2>1. \A i \in 1..3 : i <= -todo' => secheader'[i] = <<s, i - 1>>
    BY <1>5 DEF HeaderSoFar
  <2>2. ASSUME NEW i \in 1..3, i <= Had' PROVE user'[Len(user') - Had' + i] = <<s, i - 1 - todo'>>
    <3> DEFINE x == Len(user) - Had + i
    <3>1. Len(user') - Had' + i = x
      BY <1>0
    <3>2. CASE i <= Had
      <4>0. user[x] = <<s, i - 1 - todo>>
        BY <1>5, <3>2 DEF HeaderSoFar
      <4>1. x \in 1..Len(user) /\ user[x] = <<s, i - 1 - todo>>
        <5>1. Len(user) \in Nat /\ i \in Nat /\ i >= 1
          BY <1>0
        <5>2. QED
          BY <3>2, <4>0, <5>1, LastIndex
      <4>2. QED
        BY <3>1, <4>1
    <3>3. CASE i > Had
      <4> DEFINE j == i - Had
      <4>1. j \in 1..k /\ x = Len(user) + j
        BY <1>0, <2>2, <3>3
      <4>2. o + j = i - 1 - todo
        BY <1>0, <1>5, <3>3 DEF Consumed
      <4> HIDE DEF o, j, x
      <4>3. user'[x] = <<s, o + j>>
        BY <1>3, <4>1
      <4>4. QED
        BY <3>1, <4>2, <4>3
    <3>4. i <= Had \/ i > Had
      <4>1. i \in Int /\ Had \in Int
        OBVIOUS
      <4>2. QED
        BY <4>1
    <3>5. QED
      BY <3>2, <3>3, <3>4
  <2>3. QED
    BY <2>1, <2>2 DEF HeaderSoFar
<1>6. Consumed(s)' \in 1..len'[s]
  <2>1. len'[s] = len[s]
    OBVIOUS
  <2> HIDE DEF c, o
  <2>2. c + k \in 1..len[s]
    BY <1>0, <1>1
  <2>3. QED
    BY <1>1, <2>1, <2>2
<1>7. QED
  BY <1>4, <1>5, <1>6 DEF Within

(* pread moves over k bytes that buffer_read has asked for. *)
LEMMA TakeFraming ==
  ASSUME Safe, Framing, NEW k \in Nat, k <= Avail, pread + k <= SIZE, Taken(k),
         pread' = IF pread + k = SIZE THEN 0 ELSE pread + k,
         user' = user \o r.ubuf,
         UNCHANGED <<type, data, pwrite, error, len, w, todo, secheader, torn>>,
         Steady', ~GaveUp, ~GaveUp', r'.pc # "clear",
         Had \in Nat, Had <= Len(user), Had' = Had + k,
         type = "SEC" => /\ todo <= 0 => Had + k <= 3 + todo
                         /\ todo > 0 => Had + k <= todo
  PROVE  Framing'
<1>1. /\ Whole' /\ Front' = After(Queue, Beyond, k)
      /\ Len(user') = Len(user) + k
      /\ \A i \in 1..Len(user) : user'[i] = user[i]
      /\ \A i \in 1..k : user'[Len(user) + i] = Queue[i]
  BY TakeBytes DEF Framing
<1>2. Sized'
  BY DEF Framing, Sized
<1>3. ASSUME ~torn', type' = "SEC" PROVE Position'
  <2>0. /\ Position /\ type = "SEC" /\ Whole
        /\ todo <= 0 => Had + k <= 3 + todo
        /\ todo > 0 => Had + k <= todo
    BY <1>3 DEF Framing
  <2>1. todo \in Int /\ Len(user) \in Nat /\ Len(Queue) = Avail /\ Avail \in Nat
        /\ pread \in Nat /\ pread < SIZE /\ SIZE \in Nat /\ user \in Seq(Byte)
    BY Facts, QueueLen DEF Safe, Typed
  <2>2. CASE k = 0
    <3>1. Had' = Had /\ Front' = Front /\ pread' = pread /\ Len(user') = Len(user)
      BY <1>1, <2>1, <2>2 DEF Front
    <3>2. (AtStart' <=> AtStart) /\ (Overflowed => Overflowed')
      BY <3>1 DEF AtStart, Overflowed, Empty
    <3>3. CASE AtStart
      BY <2>0, <3>1, <3>2, <3>3 DEF Position
    <3>4. CASE ~AtStart
      <4>1. PICK s \in 1..Len(len) : Within(s)
        BY <2>0, <3>4 DEF Position
      <4>2. ASSUME todo <= 0 PROVE HeaderSoFar(s)'
        <5>1. HeaderSoFar(s)
          BY <4>1, <4>2 DEF Within
        <5>2. ASSUME NEW i \in 1..3, i <= Had
              PROVE  user'[Len(user) - Had + i] = <<s, i - 1 - todo>>
          <6>1. Len(user) - Had + i \in 1..Len(user)
            BY <2>1, <5>2, LastIndex
          <6>2. QED
            BY <1>1, <5>1, <5>2, <6>1 DEF HeaderSoFar
        <5>3. QED
          BY <3>1, <5>1, <5>2 DEF HeaderSoFar
      <4>3. Consumed(s)' = Consumed(s)
        BY <3>1 DEF Consumed
      <4>4. Within(s)'
        BY <3>1, <3>2, <4>1, <4>2, <4>3 DEF Within
      <4>5. QED
        BY <3>2, <3>4, <4>4 DEF Position
    <3>5. QED
      BY <3>3, <3>4
  <2>3. CASE k >= 1
    <3>1. ~Overflowed
      <4>1. ~Empty
        BY <2>1, <2>3 DEF Empty, Avail
      <4>2. QED
        BY <4>1 DEF Overflowed
    <3>2. ~AtStart'
      BY <2>1, <2>3 DEF AtStart
    <3>3. PICK s \in 1..Len(len) :
            /\ todo <= 0 => HeaderSoFar(s)
            /\ Consumed(s) \in 0..len[s] /\ Succeeds(len, <<s, Consumed(s) - 1>>, Front)
      <4>1. CASE AtStart
        <5>1. todo = 0 /\ Had = 0 /\ Front[2] = 0
          BY <2>0, <4>1 DEF AtStart, Position
        <5>2. Front = Queue[1] /\ 1 \in 1..Len(Queue)
          BY <2>1, <2>3 DEF Front, After
        <5>3. Front \in Byte /\ Front[1] \in 1..Len(len)
          BY <2>0, <5>2 DEF Whole, Chain
        <5> DEFINE s == Front[1]
        <5>4. Front = <<s, 0>> /\ s \in 1..Len(len)
          BY <5>1, <5>3 DEF Byte
        <5>5. len[s] \in Nat /\ len[s] >= 1
          BY <5>4, Lengths
        <5> HIDE DEF s
        <5>6. Consumed(s) = 0
          BY <5>1 DEF Consumed
        <5>7. HeaderSoFar(s)
          BY <5>1 DEF HeaderSoFar
        <5>8. Succeeds(len, <<s, Consumed(s) - 1>>, Front)
          BY <5>4, <5>5, <5>6 DEF Succeeds
        <5>9. Consumed(s) \in 0..len[s]
          BY <5>5, <5>6
        <5>10. QED
          BY <5>4, <5>7, <5>8, <5>9
      <4>2. CASE ~AtStart
        <5>1. PICK s \in 1..Len(len) : Within(s)
          BY <2>0, <4>2 DEF Position
        <5>2. Consumed(s) \in 1..len[s] /\ len[s] \in Nat
          BY <5>1, Lengths DEF Within
        <5>3. Consumed(s) \in 0..len[s]
          BY <5>2
        <5>4. (todo <= 0 => HeaderSoFar(s)) /\ Succeeds(len, <<s, Consumed(s) - 1>>, Front)
          BY <3>1, <5>1 DEF Within
        <5>5. QED
          BY <5>3, <5>4
      <4>3. QED
        BY <4>1, <4>2
    <3>4. Within(s)'
      BY <1>1, <2>0, <2>3, <3>3, TakeWithin
    <3>5. QED
      BY <3>2, <3>4 DEF Position
  <2>4. QED
    BY <2>2, <2>3
<1>4. QED
  BY <1>1, <1>2, <1>3 DEF Framing

(* No more is taken than the header, or the body, still has. *)
LEMMA Wanted ==
  ASSUME Safe, Steady, type = "SEC", r.pc \in {"split", "copy2", "advance"}, NEW m \in Nat, m <= r.n
  PROVE  /\ todo <= 0 => r.got + m <= 3 + todo
         /\ todo > 0 => r.got + m <= todo
<1>1. /\ r.phase \in {"hdr", "body"}
      /\ r.phase = "hdr" => todo <= 0 /\ r.got + r.todo <= 3 + todo
      /\ r.phase = "body" => r.got + r.todo <= todo
      /\ r.n <= r.todo
  <2>1. r.phase \in {"raw", "hdr", "body"} /\ r.phase # "raw"
    BY DEF Steady, Safe, Typed, ReadState
  <2>2. QED
    BY <2>1 DEF Safe, Counted
<1>2. /\ r.got \in Nat /\ r.n \in Nat /\ r.todo \in Nat /\ todo \in Int /\ todo >= -2
  BY Facts DEF Safe, Typed, Counted
<1>3. r.got + m <= r.got + r.todo
  BY <1>1, <1>2
<1>4. CASE r.phase = "hdr"
  BY <1>1, <1>2, <1>3, <1>4
<1>5. CASE r.phase = "body"
  BY <1>1, <1>2, <1>3, <1>5
<1>6. QED
  BY <1>1, <1>4, <1>5

(* The bytes up to the end of the buffer are taken, *)
LEMMA RSplitFraming == Safe /\ Framing /\ RSplit => Framing'
<1> SUFFICES ASSUME Safe, Framing, RSplit PROVE Framing'
  OBVIOUS
<1>1. /\ UNCHANGED <<type, data, pwrite, error, len, w, todo, secheader, torn>>
      /\ r.pc = "split" /\ pread' = 0 /\ user' = user \o r.ubuf
      /\ r' = [r EXCEPT !.pc = "copy2", !.ubuf = <<>>]
  BY DEF RSplit, file
<1> DEFINE k == SIZE - pread
<1>2. /\ Len(r.ubuf) = k /\ r.left >= 1 /\ k + r.left <= Avail
      /\ \A i \in 1..k : r.ubuf[i] = data[pread + i - 1]
  BY <1>1 DEF Safe, ReadsUsed
<1>3. /\ SIZE \in Nat /\ pread \in Nat /\ pread < SIZE /\ r.left \in Nat /\ Avail \in Nat
      /\ r.n \in Nat /\ r.got \in Nat /\ Len(user) \in Nat
  BY Facts
<1>4. k \in Nat /\ k <= Avail /\ pread + k <= SIZE /\ pread + k = SIZE
  BY <1>2, <1>3
<1>5. Taken(k)
  BY <1>2 DEF Taken
<1>6. r.n - r.left = k /\ r.got <= Len(user)
  BY <1>1, <1>2 DEF Framing, Steady, Safe, Counted
<1> HIDE DEF k
<1>7. r'.pc = "copy2" /\ r'.n = r.n /\ r'.left = r.left /\ r'.got = r.got /\ r'.phase = r.phase
  <2>1. r \in ReadState
    BY Facts
  <2>2. QED
    BY <1>1, <2>1 DEF ReadState
<1>8. Had = r.got /\ Had' = r.got + k
  <2>1. Had = r.got + 0 /\ Had' = r.got + (r.n - r.left)
    BY <1>1, <1>7 DEF Had
  <2>2. QED
    BY <1>3, <1>6, <2>1
<1>9. ~GaveUp /\ ~GaveUp'
  BY <1>1, <1>7 DEF GaveUp
<1>10. Steady'
  BY <1>1, <1>7, <1>9 DEF Framing, Steady
<1>11. k <= r.n
  BY <1>3, <1>6
<1>12. type = "SEC" => /\ todo <= 0 => Had + k <= 3 + todo
                       /\ todo > 0 => Had + k <= todo
  BY <1>1, <1>4, <1>8, <1>11, Wanted DEF Framing
<1>13. pread' = IF pread + k = SIZE THEN 0 ELSE pread + k
  BY <1>1, <1>4
<1>14. Had \in Nat /\ Had <= Len(user) /\ Had' = Had + k
  BY <1>3, <1>6, <1>8
<1>15. r'.pc # "clear"
  BY <1>7
<1>16. QED
  BY <1>1, <1>4, <1>5, <1>9, <1>10, <1>12, <1>13, <1>14, <1>15, TakeFraming

(* and the others. *)
LEMMA RAdvanceFraming == Safe /\ Framing /\ RAdvance => Framing'
<1> SUFFICES ASSUME Safe, Framing, RAdvance PROVE Framing'
  OBVIOUS
<1> DEFINE k == r.left
           t == r.todo - r.n
           g == r.got + r.n
<1>1. /\ UNCHANGED <<type, data, pwrite, error, len, w, todo, secheader, torn>>
      /\ r.pc = "advance" /\ pread' = (pread + k) % SIZE /\ user' = user \o r.ubuf
      /\ r' = [r EXCEPT !.pc = "loop", !.todo = t, !.got = g, !.n = 0, !.left = 0, !.ubuf = <<>>]
  BY DEF RAdvance, file, Moved
<1>2. /\ Len(r.ubuf) = k /\ k <= Avail /\ pread + k <= SIZE
      /\ \A i \in 1..k : r.ubuf[i] = data[pread + i - 1]
  BY <1>1 DEF Safe, ReadsUsed
<1>3. /\ k \in Nat /\ SIZE \in Nat \ {0} /\ pread \in Nat /\ r.got \in Nat /\ r.n \in Nat
      /\ Len(user) \in Nat
  BY Facts
<1>4. r.left <= r.n /\ r.got + (r.n - r.left) <= Len(user)
  BY <1>1 DEF Safe, Counted, Typed
<1>5. Taken(k)
  BY <1>2 DEF Taken
<1>6. pread' = IF pread + k = SIZE THEN 0 ELSE pread + k
  <2> DEFINE x == pread + k
  <2>1. x \in 0..(2 * SIZE - 1) /\ x <= SIZE /\ x \in Nat
    BY <1>2, <1>3
  <2>2. pread' = x % SIZE
    BY <1>1
  <2> HIDE DEF x, k
  <2>3. x % SIZE = IF x < SIZE THEN x ELSE x - SIZE
    BY <2>1, WrapOnce
  <2>4. pread' = IF x = SIZE THEN 0 ELSE x
    BY <1>3, <2>1, <2>2, <2>3
  <2>5. QED
    BY <2>4 DEF x
<1>7. r'.pc = "loop" /\ r'.got = g /\ r'.phase = r.phase
  <2>1. r \in ReadState
    BY Facts
  <2> HIDE DEF g, t, k
  <2>2. QED
    BY <1>1, <2>1 DEF ReadState
<1>8. Had = r.got + (r.n - r.left) /\ Had' = g + 0
  BY <1>1, <1>7 DEF Had
<1>9. ~GaveUp /\ ~GaveUp'
  BY <1>1, <1>7 DEF GaveUp
<1>10. Steady'
  BY <1>1, <1>7, <1>9 DEF Framing, Steady
<1>11. Had \in Nat /\ Had <= Len(user) /\ Had' = Had + k /\ Had + k = r.got + r.n /\ r.n <= r.n
  BY <1>3, <1>4, <1>8
<1>12. type = "SEC" => /\ todo <= 0 => Had + k <= 3 + todo
                       /\ todo > 0 => Had + k <= todo
  <2> HIDE DEF k
  <2>1. QED
    BY <1>1, <1>3, <1>11, Wanted DEF Framing
<1>13. r'.pc # "clear"
  BY <1>7
<1> HIDE DEF k, t, g
<1>14. QED
  BY <1>1, <1>2, <1>3, <1>5, <1>6, <1>9, <1>10, <1>11, <1>12, <1>13, TakeFraming

(* The reader empties the queue.  Unless it was in the middle of a section   *)
(* it is at the start of one afterwards.                                     *)
LEMMA RFlushFraming == Safe /\ Framing /\ RFlush => Framing'
<1> SUFFICES ASSUME Safe, Framing, RFlush PROVE Framing'
  OBVIOUS
<1>1. /\ UNCHANGED <<type, pwrite, error, len, w, todo, secheader, user>>
      /\ r.pc = "flush" /\ pread' = pwrite /\ r' = [r EXCEPT !.pc = "clear"]
      /\ torn' = (torn \/ MidSection \/ (w.at > 0 /\ w.pc \in {"copy2", "publish"}))
  BY DEF RFlush, file
<1>2. /\ r'.pc = "clear" /\ r'.got = r.got /\ r'.phase = r.phase /\ r'.fail = r.fail
      /\ r.phase \in {"raw", "hdr", "body"}
  <2>1. r \in ReadState
    BY Facts
  <2>2. QED
    BY <1>1, <2>1 DEF ReadState
<1>3. Queue' = <<>> /\ Beyond' = Beyond
  <2>1. Queue' = <<>>
    BY RFlushStep DEF Fifo!Discard
  <2>2. QED
    BY <1>1, <2>1 DEF Beyond, MidChunk
<1>4. Whole' /\ Front' = Beyond
  BY <1>3 DEF Whole, Chain, Front, After
<1>5. Sized'
  BY <1>1 DEF Framing, Sized
<1>6. ~torn' => ~torn /\ ~MidSection /\ Beyond = NONE
  BY <1>1 DEF Beyond, MidChunk
<1>7. r.got \in Nat /\ r.todo \in Nat /\ todo \in Int
  BY Facts DEF Safe, Typed
<1>8. Steady'
  <2>1. ~torn' /\ GaveUp' => r'.got = 0
    BY <1>2, <1>6, <1>7 DEF GaveUp, MidSection
  <2>2. QED
    BY <1>1, <1>2, <2>1 DEF Framing, Steady
<1>9. ASSUME ~torn', type' = "SEC" PROVE Position'
  <2>1. /\ Position /\ ~MidSection /\ Front' = NONE /\ Front'[2] = 0 /\ r.phase # "raw"
        /\ r.fail = "ERR"
    BY <1>1, <1>4, <1>6, <1>9 DEF Framing, Steady, NONE
  <2>2. CASE r.phase = "hdr"
    <3>1. AtStart'
      BY <1>2, <2>1, <2>2 DEF AtStart, GaveUp
    <3>2. QED
      BY <2>1, <3>1 DEF Position
  <2>3. CASE r.phase = "body"
    <3>1. todo = r.got
      <4>1. r.got + r.todo <= todo /\ ~(todo > r.got)
        BY <2>1, <2>3 DEF Safe, Counted, MidSection
      <4>2. QED
        BY <1>7, <4>1
    <3>2. Had = r.got + 0 /\ Had' = r.got + 0 /\ ~GaveUp /\ ~GaveUp'
      BY <1>1, <1>2, <2>3 DEF Had, GaveUp
    <3>3. CASE AtStart'
      BY <2>1, <3>3 DEF Position
    <3>4. CASE ~AtStart'
      <4>1. ~AtStart /\ todo > 0
        BY <1>1, <1>7, <3>1, <3>2, <3>4 DEF AtStart
      <4>2. PICK s \in 1..Len(len) : Within(s)
        BY <2>1, <4>1 DEF Position
      <4>3. len[s] \in Nat /\ len[s] >= 1
        BY Lengths
      <4>4. Consumed(s)' = len[s]
        BY <1>1, <1>7, <3>1, <3>2, <4>1, <4>3 DEF Consumed
      <4>5. Consumed(s)' \in 1..len[s] /\ ~((Consumed(s)' - 1) + 1 < len[s])
        BY <4>3, <4>4
      <4>6. Succeeds(len', <<s, Consumed(s)' - 1>>, Front')
        BY <1>1, <2>1, <4>5 DEF Succeeds
      <4>7. Within(s)'
        BY <1>1, <1>7, <4>1, <4>5, <4>6 DEF Within
      <4>8. QED
        BY <1>1, <3>4, <4>7 DEF Position
    <3>5. QED
      BY <3>3, <3>4
  <2>4. QED
    BY <1>2, <2>1, <2>2, <2>3
<1>10. QED
  BY <1>4, <1>5, <1>8, <1>9 DEF Framing

-----------------------------------------------------------------------------
(* buffer_read returns, and read_sec goes on. *)

(* The last n bytes that were read. *)
LEMMA LastIs ==
  ASSUME Safe, NEW n \in Nat, n <= Len(user), NEW j \in 1..n
  PROVE  Last(n)[j] = user[Len(user) - n + j]
<1>0. user \in Seq(Byte) /\ Len(user) \in Nat
  BY Facts
<1> DEFINE a == Len(user) - n + 1
<1>1. a \in Int /\ (\A x \in a..Len(user) : x \in 1..Len(user)) /\ Len(user) - a + 1 = n
      /\ a + j - 1 = Len(user) - n + j
  BY <1>0
<1> HIDE DEF a
<1>2. \A x \in a..Len(user) : user[x] \in Byte
  BY <1>0, <1>1, ElementOfSeq
<1>3. \A x \in 1..(Len(user) - a + 1) : SubSeq(user, a, Len(user))[x] = user[a + x - 1]
  BY <1>0, <1>1, <1>2, SubSeqProperties
<1>4. SubSeq(user, a, Len(user))[j] = user[Len(user) - n + j]
  BY <1>1, <1>3
<1>5. QED
  BY <1>4 DEF Last, a

(* The header with the bytes just read is that of the section. *)
LEMMA HeaderOf ==
  ASSUME Safe, todo <= 0, Had = r.got, NEW s, HeaderSoFar(s), NEW i \in 1..3, i <= r.got - todo
  PROVE  Header(r.got)[i] = <<s, i - 1>>
<1>0. r.got \in Nat /\ todo \in Int /\ Len(user) \in Nat /\ r.got <= Len(user)
  BY Facts DEF Safe, Typed, Counted
<1>1. CASE i <= -todo
  <2>1. ~(i \in (1 - todo)..(r.got - todo))
    BY <1>0, <1>1
  <2>2. Header(r.got)[i] = secheader[i]
    BY <2>1 DEF Header
  <2>3. QED
    BY <1>1, <2>2 DEF HeaderSoFar
<1>2. CASE i > -todo
  <2> DEFINE j == i + todo
  <2>1. i \in (1 - todo)..(r.got - todo) /\ j \in 1..r.got /\ j \in 1..3 /\ j <= r.got
        /\ j - 1 - todo = i - 1
    BY <1>0, <1>2
  <2>2. Header(r.got)[i] = Last(r.got)[j]
    BY <2>1 DEF Header
  <2> HIDE DEF j
  <2>3. Last(r.got)[j] = user[Len(user) - r.got + j]
    BY <1>0, <2>1, LastIs
  <2>4. user[Len(user) - r.got + j] = <<s, j - 1 - todo>>
    BY <2>1 DEF HeaderSoFar
  <2>5. QED
    BY <2>1, <2>2, <2>3, <2>4
<1>3. QED
  BY <1>0, <1>1, <1>2

(* A complete header: its three bytes, and the length in it. *)
LEMMA HeaderDone ==
  ASSUME Safe, todo <= 0, Had = r.got, NEW s \in 1..Len(len), HeaderSoFar(s), r.got - todo >= 3
  PROVE  /\ Header(r.got) = Bytes(s, 0, 3)
         /\ \A g : HeaderLength(Header(r.got), g) = len[s] - 3
<1>0. r.got \in Nat /\ todo \in Int /\ Len(len) \in Nat
  BY Facts DEF Safe, Typed
<1>1. \A i \in 1..3 : Header(r.got)[i] = <<s, i - 1>>
  <2> SUFFICES ASSUME NEW i \in 1..3 PROVE Header(r.got)[i] = <<s, i - 1>>
    OBVIOUS
  <2>1. i <= r.got - todo
    BY <1>0
  <2>2. QED
    BY <2>1, HeaderOf
<1>2. Header(r.got) = Bytes(s, 0, 3)
  <2>1. Header(r.got) = [i \in 1..3 |-> Header(r.got)[i]]
    BY DEF Header
  <2>2. Bytes(s, 0, 3) = [i \in 1..3 |-> <<s, i - 1>>]
    BY DEF Bytes
  <2>3. QED
    BY <1>1, <2>1, <2>2
<1>3. ASSUME NEW g PROVE HeaderLength(Header(r.got), g) = len[s] - 3
  <2> DEFINE h == Header(r.got)
  <2>1. h[2] = <<s, 1>> /\ h[3] = <<s, 2>> /\ s > 0
    BY <1>0, <1>1
  <2> HIDE DEF h
  <2>2. HeaderLength(h, g) = len[s] - 3
    BY <2>1 DEF HeaderLength
  <2>3. QED
    BY <2>2 DEF h
<1>4. QED
  BY <1>2, <1>3

(* Until the reader has seen the error the next byte begins a chunk. *)
LEMMA OverflowedFront ==
  ASSUME Safe, Overflowed
  PROVE  Front = NONE
<1>1. Avail = 0 /\ Len(Queue) = 0
  <2>1. pread = pwrite /\ pread \in Nat /\ SIZE \in Nat
    BY Facts DEF Overflowed, Empty
  <2>2. Avail = 0
    BY <2>1 DEF Avail
  <2>3. QED
    BY <2>2, QueueLen
<1>2. Beyond = NONE
  BY DEF Overflowed, Beyond, MidChunk
<1>3. QED
  BY <1>1, <1>2 DEF Front, After

(* The end of the section s has been reached: a new one begins. *)
LEMMA SectionEnds ==
  ASSUME Safe, NEW s \in 1..Len(len), Within(s), Consumed(s) = len[s]
  PROVE  Front[2] = 0
<1>1. len[s] \in Nat
  BY Lengths
<1>2. CASE Overflowed
  BY <1>2, OverflowedFront DEF NONE
<1>3. CASE ~Overflowed
  <2>1. ~((Consumed(s) - 1) + 1 < len[s])
    BY <1>1
  <2>2. QED
    BY <1>3, <2>1 DEF Within, Succeeds
<1>4. QED
  BY <1>2, <1>3

(* read_sec has taken what was read into account. *)
LEMMA ReturnPosition ==
  ASSUME Safe, Position, UNCHANGED <<data, pread, pwrite, error, len, w>>,
         r'.pc \in {"idle", "top"}, r'.got = 0, todo \in Int, todo' \in Int,
         AtStart => todo' = 0,
         \A s \in 1..Len(len) : ~AtStart /\ Within(s) =>
           /\ IF todo' <= 0 THEN -todo' = Consumed(s) ELSE len[s] - todo' = Consumed(s)
           /\ \A i \in 1..3 : i <= -todo' => secheader'[i] = <<s, i - 1>>,
         todo' = 0 => Front[2] = 0
  PROVE  Position'
<1>1. Had' = 0 /\ ~GaveUp' /\ (AtStart' <=> todo' = 0)
  <2>1. Had' = 0 + 0 /\ ~GaveUp'
    BY DEF Had, GaveUp
  <2>2. QED
    BY <2>1 DEF AtStart
<1>2. Front' = Front /\ (Overflowed => Overflowed')
  <2>1. Queue' = Queue /\ Beyond' = Beyond
    BY SameQueue DEF Beyond, MidChunk
  <2>2. QED
    BY <2>1 DEF Front, Overflowed, Empty
<1>3. CASE todo' = 0
  BY <1>1, <1>2, <1>3 DEF Position
<1>4. CASE todo' # 0
  <2>1. ~AtStart
    BY <1>4
  <2>2. PICK s \in 1..Len(len) : Within(s)
    BY <2>1 DEF Position
  <2>3. len[s] \in Nat
    BY Lengths
  <2>4. Consumed(s)' = Consumed(s)
    <3>1. IF todo' <= 0 THEN -todo' = Consumed(s) ELSE len[s] - todo' = Consumed(s)
      BY <2>1, <2>2
    <3>2. Consumed(s)' = IF todo' <= 0 THEN 0 - todo' ELSE len[s] - (todo' - 0)
      BY <1>1 DEF Consumed
    <3> DEFINE t == todo'
               c == Consumed(s)
               d == Consumed(s)'
               l == len[s]
    <3>3. /\ t \in Int /\ l \in Nat
          /\ IF t <= 0 THEN -t = c ELSE l - t = c
          /\ d = IF t <= 0 THEN 0 - t ELSE l - (t - 0)
      BY <2>3, <3>1, <3>2
    <3> HIDE DEF t, c, d, l
    <3>4. d = c
      BY <3>3
    <3>5. QED
      BY <3>4 DEF c, d
  <2>5. HeaderSoFar(s)'
    <3>1. \A i \in 1..3 : i <= -todo' => secheader'[i] = <<s, i - 1>>
      BY <2>1, <2>2
    <3>2. \A i \in 1..3 : ~(i <= Had')
      <4>1. Had' = 0
        BY <1>1
      <4>2. QED
        BY <4>1
    <3>3. QED
      BY <3>1, <3>2 DEF HeaderSoFar
  <2>6. Within(s)'
    BY <1>2, <2>2, <2>4, <2>5 DEF Within
  <2>7. QED
    BY <1>1, <1>4, <2>6 DEF Position
<1>5. QED
  BY <1>3, <1>4

(* No byte of a header is left of a body. *)
LEMMA NoHeader ==
  ASSUME NEW t \in Int, t > 0
  PROVE  ~(t <= 0) /\ \A i \in 1..3 : ~(i <= -t)
  OBVIOUS

(* read() returns. *)
LEMMA RReturnFraming == Safe /\ Framing /\ RReturn => Framing'
<1> SUFFICES ASSUME Safe, Framing, RReturn PROVE Framing'
  OBVIOUS
<1>0. /\ todo \in Int /\ todo >= -2 /\ r.got \in Nat /\ r.todo \in Nat /\ Len(len) \in Nat
      /\ r.phase \in {"raw", "hdr", "body"} /\ r \in ReadState
  BY Facts DEF Safe, Typed, Counted, ReadState
<1>1. UNCHANGED <<type, data, pread, pwrite, error, len, w, user>> /\ r.pc = "ret"
  BY DEF RReturn, file, ring
<1>2. Had = r.got
  <2>1. Had = r.got + 0
    BY <1>1 DEF Had
  <2>2. QED
    BY <1>0, <2>1
<1> DEFINE left == r.count - r.got
<1>3. r' = RIdle \/ r' = Call("body", r.nb, left, Least(left, todo'))
  BY DEF RReturn
<1>4. r'.pc \in {"idle", "top"} /\ r'.got = 0 /\ (r'.pc # "idle" => r'.phase # "raw")
  <2>1. CASE r' = RIdle
    BY <2>1 DEF RIdle
  <2>2. CASE r' = Call("body", r.nb, left, Least(left, todo'))
    <3> HIDE DEF left
    <3>1. QED
      BY <2>2 DEF Call, RIdle
  <2>3. QED
    BY <1>3, <2>1, <2>2
<1>5. Steady'
  BY <1>1, <1>4 DEF Steady, GaveUp
<1>6. Whole' /\ Sized'
  <2>1. Queue' = Queue /\ Beyond' = Beyond
    BY <1>1, SameQueue DEF Beyond, MidChunk
  <2>2. QED
    BY <1>1, <2>1 DEF Framing, Whole, Sized
<1>7. ASSUME ~torn', type' = "SEC" PROVE Position'
  <2>0. r.phase # "raw" /\ type = "SEC"
    BY <1>1, <1>7 DEF Framing, Steady
  <2>a. ~torn
    BY <1>7 DEF RReturn
  <2>b. Position /\ (GaveUp => r.got = 0)
    BY <2>0, <2>a DEF Framing, Steady
  <2>1. CASE r.phase = "hdr" /\ Failed /\ todo' = 0
    <3>1. AtStart
      <4>1. r.got = 0 /\ todo <= 0
        BY <2>1 DEF Failed, Safe, Counted
      <4>2. ~(todo < 0 /\ r.fail # "ERR")
        BY <1>1, <1>7, <2>0, <2>1 DEF RReturn
      <4>3. QED
        BY <1>0, <1>1, <1>2, <2>1, <4>1, <4>2 DEF AtStart, GaveUp
    <3>2. Front[2] = 0
      BY <2>b, <3>1 DEF Position
    <3>3. QED
      BY <1>0, <1>1, <1>4, <2>b, <2>1, <3>1, <3>2, ReturnPosition
  <2>2. CASE /\ r.phase = "hdr" /\ ~Failed
             /\ secheader' = Header(r.got)
             /\ IF todo - r.got > -3 THEN todo' = todo - r.got
                ELSE \E g \in Guesses : todo' = HeaderLength(secheader', g)
    <3>1. todo <= 0 /\ r.got + r.todo <= 3 + todo
      BY <2>2 DEF Safe, Counted
    <3>2. ~GaveUp
      BY <1>1, <2>b, <2>2 DEF GaveUp, Failed
    <3>3. ASSUME NEW s \in 1..Len(len), ~AtStart, Within(s)
          PROVE  HeaderSoFar(s) /\ Consumed(s) = r.got - todo
      BY <1>2, <3>1, <3>3 DEF Within, Consumed
    <3>4. CASE todo - r.got > -3
      <4>1. todo' = todo - r.got /\ todo' \in Int /\ todo' <= 0
        BY <1>0, <2>2, <3>1, <3>4
      <4>2. AtStart <=> todo' = 0
        BY <1>0, <1>2, <3>1, <3>2, <4>1 DEF AtStart
      <4>3. todo' = 0 => Front[2] = 0
        BY <2>b, <4>2 DEF Position
      <4>4. ASSUME NEW s \in 1..Len(len), ~AtStart, Within(s)
            PROVE  /\ IF todo' <= 0 THEN -todo' = Consumed(s) ELSE len[s] - todo' = Consumed(s)
                   /\ \A i \in 1..3 : i <= -todo' => secheader'[i] = <<s, i - 1>>
        <5>1. HeaderSoFar(s) /\ Consumed(s) = r.got - todo
          BY <3>3, <4>4
        <5>2. -todo' = Consumed(s) /\ -todo' = r.got - todo
          BY <1>0, <4>1, <5>1
        <5>3. \A i \in 1..3 : i <= -todo' => secheader'[i] = <<s, i - 1>>
          BY <1>2, <2>2, <3>1, <5>1, <5>2, HeaderOf
        <5>4. QED
          BY <4>1, <5>2, <5>3
      <4>5. QED
        BY <1>0, <1>1, <1>4, <2>b, <4>1, <4>2, <4>3, <4>4, ReturnPosition
    <3>5. CASE ~(todo - r.got > -3)
      <4>1. PICK g \in Guesses : todo' = HeaderLength(Header(r.got), g)
        BY <2>2, <3>5
      <4>2. r.got - todo = 3 /\ r.got - todo >= 3
        BY <1>0, <3>1, <3>5
      <4>3. ~AtStart
        BY <1>0, <1>2, <3>2, <4>2 DEF AtStart
      <4>4. PICK s \in 1..Len(len) : Within(s)
        BY <2>b, <4>3 DEF Position
      <4>5. HeaderSoFar(s) /\ Consumed(s) = 3 /\ len[s] \in Nat /\ len[s] >= 3
        BY <2>0, <3>3, <4>2, <4>3, <4>4, Lengths
      <4>6. todo' = len[s] - 3
        BY <1>2, <3>1, <4>1, <4>2, <4>5, HeaderDone
      <4>7. todo' \in Int /\ todo' >= 0
        BY <4>5, <4>6
      <4>8. todo' = 0 => Front[2] = 0
        <5>1. todo' = 0 => Consumed(s) = len[s]
          BY <4>5, <4>6
        <5>2. QED
          BY <4>4, <5>1, SectionEnds
      <4>9. CASE todo' = 0
        <5>1. (AtStart' <=> TRUE) /\ Front' = Front
          <6>1. Had' = 0 + 0 /\ Queue' = Queue /\ Beyond' = Beyond
            BY <1>1, <1>4, SameQueue DEF Had, Beyond, MidChunk
          <6>2. QED
            BY <4>9, <6>1 DEF AtStart, Front
        <5>2. QED
          BY <4>8, <4>9, <5>1 DEF Position
      <4>10. CASE todo' # 0
        <5>1. ASSUME NEW t \in 1..Len(len), ~AtStart, Within(t)
              PROVE  /\ IF todo' <= 0 THEN -todo' = Consumed(t) ELSE len[t] - todo' = Consumed(t)
                     /\ \A i \in 1..3 : i <= -todo' => secheader'[i] = <<t, i - 1>>
          <6>1. HeaderSoFar(t) /\ Consumed(t) = 3 /\ len[t] \in Nat
            BY <3>3, <4>2, <5>1, Lengths
          <6>2. todo' = len[t] - 3
            BY <1>2, <3>1, <4>1, <4>2, <6>1, HeaderDone
          <6>3. todo' > 0
            BY <4>7, <4>10
          <6>4. len[t] - todo' = Consumed(t)
            BY <6>1, <6>2
          <6>5. ~(todo' <= 0) /\ \A i \in 1..3 : ~(i <= -todo')
            BY <4>7, <6>3, NoHeader
          <6>6. QED
            BY <6>4, <6>5
        <5>2. QED
          BY <1>0, <1>1, <1>4, <2>b, <4>3, <4>7, <4>8, <5>1, ReturnPosition
      <4>11. QED
        BY <4>9, <4>10
    <3>6. QED
      BY <3>4, <3>5
  <2>3. CASE r.phase = "body" /\ todo' = IF Failed THEN todo ELSE todo - r.got
    <3>1. r.got + r.todo <= todo
      BY <2>3 DEF Safe, Counted
    <3>2. todo' = todo - r.got /\ todo >= 0 /\ todo' >= 0 /\ todo' \in Int /\ todo' <= todo
      <4>1. todo' = todo - r.got
        <5>1. CASE Failed
          <6>1. r.got = 0 /\ todo' = todo
            BY <2>3, <5>1 DEF Failed
          <6>2. QED
            BY <1>0, <6>1
        <5>2. CASE ~Failed
          BY <2>3, <5>2
        <5>3. QED
          BY <5>1, <5>2
      <4>2. QED
        BY <1>0, <3>1, <4>1
    <3>3. AtStart <=> todo = 0
      <4>1. todo = 0 => r.got = 0
        BY <1>0, <3>1
      <4>2. QED
        BY <1>2, <2>3, <4>1 DEF AtStart, GaveUp
    <3>4. ASSUME NEW s \in 1..Len(len), ~AtStart, Within(s)
          PROVE  len[s] - todo' = Consumed(s) /\ len[s] \in Nat
      <4>0. todo # 0 /\ len[s] \in Nat
        BY <3>3, <3>4, Lengths
      <4>1. todo > 0 /\ len[s] \in Nat
        BY <1>0, <3>2, <4>0
      <4>2. Consumed(s) = len[s] - (todo - r.got)
        BY <1>0, <1>2, <4>1 DEF Consumed
      <4>3. QED
        BY <3>2, <4>1, <4>2
    <3>5. todo' = 0 => Front[2] = 0
      <4>1. CASE AtStart
        BY <2>b, <4>1 DEF Position
      <4>2. CASE ~AtStart
        <5>1. PICK s \in 1..Len(len) : Within(s)
          BY <2>b, <4>2 DEF Position
        <5>2. len[s] - todo' = Consumed(s) /\ len[s] \in Nat
          BY <3>4, <4>2, <5>1
        <5>3. todo' = 0 => Consumed(s) = len[s]
          BY <5>2
        <5>4. QED
          BY <5>1, <5>3, SectionEnds
      <4>3. QED
        BY <4>1, <4>2
    <3>6. CASE todo' = 0
      <4>1. (AtStart' <=> TRUE) /\ Front' = Front
        <5>1. Had' = 0 + 0 /\ Queue' = Queue /\ Beyond' = Beyond
          BY <1>1, <1>4, SameQueue DEF Had, Beyond, MidChunk
        <5>2. QED
          BY <3>6, <5>1 DEF AtStart, Front
      <4>2. QED
        BY <3>5, <3>6, <4>1 DEF Position
    <3>7. CASE todo' # 0
      <4>1. todo' > 0 /\ ~AtStart
        BY <1>0, <3>2, <3>3, <3>7
      <4>2. ~(todo' <= 0) /\ \A i \in 1..3 : ~(i <= -todo')
        BY <3>2, <4>1, NoHeader
      <4>3. QED
        BY <1>0, <1>1, <1>4, <2>b, <3>2, <3>4, <3>5, <4>1, <4>2, ReturnPosition
    <3>8. QED
      BY <3>6, <3>7
  <2>4. QED
    BY <1>0, <1>7, <2>0, <2>1, <2>2, <2>3 DEF RReturn
<1>8. QED
  BY <1>5, <1>6, <1>7 DEF Framing

-----------------------------------------------------------------------------
(* The induction. *)

(* A file that has just been opened is at the start of a section. *)
LEMMA InitFraming == Init => Framing
<1> SUFFICES ASSUME Init PROVE Framing
  OBVIOUS
<1>1. w = WIdle /\ r = RIdle /\ todo = 0
  BY Zenon DEF Init
<1>2. w.pc = "idle" /\ r.pc = "idle" /\ r.got = 0
  BY <1>1 DEF WIdle, RIdle
<1>3. Queue = <<>>
  BY InitMaps DEF Fifo!Init
<1>4. Beyond = NONE
  BY <1>2 DEF Beyond, MidChunk
<1>5. Whole /\ Front = NONE
  BY <1>3, <1>4 DEF Whole, Chain, Front, After
<1>6. Sized /\ Steady
  BY <1>2 DEF Sized, Steady, GaveUp
<1>7. AtStart
  <2>1. Had = 0 + 0
    BY <1>2 DEF Had
  <2>2. QED
    BY <1>1, <2>1 DEF AtStart
<1>8. Position
  BY <1>5, <1>7 DEF Position, NONE
<1>9. QED
  BY <1>5, <1>6, <1>8 DEF Framing

(* Every step keeps the framing, unless it races. *)
LEMMA StepFraming ==
  ASSUME Safe, Framing, Next, raced' = FALSE
  PROVE  Framing'
<1>1. CASE WEnter
  BY <1>1, WEnterFraming
<1>2. CASE Callback
  <2>1. CASE WLock \/ WCopy1 \/ WCopy2
    BY <2>1, WLockFraming, WCopyFraming
  <2>2. CASE WSplit \/ WPublish \/ WFlush
    BY <2>2, WSplitFraming, WPublishFraming, WFlushFraming
  <2>3. CASE WClear \/ WSetErr \/ WWake
    BY <2>3, QuietFraming
  <2>4. QED
    BY <1>2, <2>1, <2>2, <2>3 DEF Callback
<1>3. CASE TimerFires \/ TimerEnds
  BY <1>3, QuietFraming
<1>4. CASE ReadCall \/ RSignal
  BY <1>4, ReadCallFraming, RTopFraming
<1>5. CASE Reader
  <2>1. CASE RTop \/ RLoop \/ RTest
    BY <2>1, RTopFraming
  <2>2. CASE RAvail \/ RCopy1 \/ RCopy2 \/ RFault
    BY <2>2, RCopyFraming, RFaultFraming
  <2>3. CASE RSplit \/ RAdvance
    BY <2>3, RSplitFraming, RAdvanceFraming
  <2>4. CASE RFlush \/ RClear \/ RReturn
    BY <2>4, RFlushFraming, RClearFraming, RReturnFraming
  <2>5. QED
    BY <1>5, <2>1, <2>2, <2>3, <2>4 DEF Reader
<1>6. QED
  BY <1>1, <1>2, <1>3, <1>4, <1>5 DEF Next

(* A step that changes nothing. *)
LEMMA StillFraming ==
  ASSUME Safe, Framing, UNCHANGED vars
  PROVE  Framing'
<1>1. UNCHANGED <<type, data, pread, pwrite, error, len, w, r, todo, secheader, user, torn>>
  BY DEF vars
<1>2. Had' = Had /\ (GaveUp' <=> GaveUp)
  BY <1>1 DEF Had, GaveUp
<1>3. Overflowed => Overflowed'
  BY <1>1 DEF Overflowed, Empty
<1>4. Steady'
  BY <1>1, <1>2 DEF Framing, Steady
<1>5. QED
  BY <1>1, <1>2, <1>3, <1>4, ReaderStays

(* The queue holds whole sections and the reader is where read_sec thinks it *)
(* is, as long as the callback has not emptied the queue under it.           *)
FramingInv == ~raced => Framing

(* The header read_sec has completed is that of one section. *)
LEMMA FramingIsFramed ==
  ASSUME Safe, Framing
  PROVE  Framed
<1> SUFFICES ASSUME r.pc = "ret", r.phase = "hdr", ~Failed, todo - r.got <= -3, ~torn
             PROVE  \E s \in DOMAIN len : Header(r.got) = Bytes(s, 0, 3)
  BY DEF Framed
<1>0. /\ todo \in Int /\ r.got \in Nat /\ todo <= 0 /\ type = "SEC"
      /\ len \in Seq(Lens) /\ Len(len) \in Nat
  BY Facts DEF Safe, Typed, Counted
<1>1. Had = r.got
  <2>1. Had = r.got + 0
    BY DEF Had
  <2>2. QED
    BY <1>0, <2>1
<1>2. ~GaveUp
  BY DEF Framing, Steady, GaveUp, Failed
<1>3. ~AtStart /\ r.got - todo >= 3
  BY <1>0, <1>1, <1>2 DEF AtStart
<1>4. PICK s \in 1..Len(len) : Within(s)
  BY <1>0, <1>3 DEF Framing, Position
<1>5. HeaderSoFar(s)
  BY <1>0, <1>4 DEF Within
<1>6. Header(r.got) = Bytes(s, 0, 3)
  BY <1>0, <1>1, <1>3, <1>5, HeaderDone
<1>7. s \in DOMAIN len
  BY <1>0, LenProperties
<1>8. QED
  BY <1>6, <1>7

(* Until the callback empties the buffer under a read, dvb_dmxdev_read_sec,  *)
(* called with any lengths, blocking or not, interrupted, faulted or met by  *)
(* an error, takes the length of a section from the three bytes of the       *)
(* header of one section, unless it has lost part of one (torn).             *)
THEOREM ReadSecFramed == Spec => [](~raced => Framed)
<1>1. Init => FramingInv
  BY InitFraming DEF FramingInv
<1>2. IInv /\ IInv' /\ FramingInv /\ [Next]_vars => FramingInv'
  <2> SUFFICES ASSUME IInv, FramingInv, [Next]_vars, ~raced' PROVE Framing'
    BY DEF FramingInv
  <2>1. raced' \in BOOLEAN /\ (raced => raced')
    BY RacedStays DEF IInv
  <2>2. Safe /\ Framing /\ raced' = FALSE
    BY <2>1 DEF IInv, FramingInv
  <2>3. CASE Next
    BY <2>2, <2>3, StepFraming
  <2>4. CASE UNCHANGED vars
    BY <2>2, <2>4, StillFraming
  <2>5. QED
    BY <2>3, <2>4
<1>3. IInv /\ FramingInv => (~raced => Framed)
  BY FramingIsFramed DEF IInv, FramingInv
<1>4. QED
  BY <1>1, <1>2, <1>3, Invariant, PTL DEF Spec
=============================================================================
