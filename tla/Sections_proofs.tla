--------------------------- MODULE Sections_proofs ---------------------------
(***************************************************************************)
(* Proofs about the section reassembly of Sections.                        *)
(*                                                                         *)
(* The argument: a dump gives its pieces in the order of the buffer        *)
(* (DumpGives), and of a buffer that is a layout of sections it gives      *)
(* exactly the complete ones (DumpLayout).  A packet brings either the     *)
(* next bytes of the current section or its last ones and then a layout of *)
(* others (SendableIs).  So the buffer is in the order of the broadcast    *)
(* whatever is lost, and a layout as long as the feed is not suspect and   *)
(* has missed nothing, which is what the continuity counter tells it       *)
(* (NoneMissed).  IInv says this, and the properties follow.               *)
(***************************************************************************)
EXTENDS Sections, ModLemmas, SequenceTheorems, TLAPS

-----------------------------------------------------------------------------
(* The dump of a buffer is a function of the position. *)

(* The dump from p, if f is the one from the positions behind p. *)
DumpStep(buf, ln, g, indic, f, p) ==
  IF ~ Fits(buf, p, ln, g) THEN [end |-> p, out |-> <<>>]
  ELSE LET q == p + SectionLength(buf, p, ln, g)
       IN [end |-> f[q].end,
           out |-> SectionFeed(SubSeq(buf, p + 1, q), ln, indic) \o f[q].out]

(* f is the dump from position m on. *)
DumpsFrom(buf, ln, g, indic, f, m) ==
  f = [p \in m..Len(buf) |-> DumpStep(buf, ln, g, indic, f, p)]

(* A piece that fits is at least a byte long and ends in the buffer. *)
LEMMA FitsEnd ==
  ASSUME NEW buf, Len(buf) \in Nat, NEW ln, NEW g, NEW p \in 0..Len(buf),
         Fits(buf, p, ln, g)
  PROVE  p + SectionLength(buf, p, ln, g) \in (p + 1)..Len(buf)
  BY DEF Fits

(* The dump from one position extends to the one before it. *)
LEMMA DumpExtends ==
  ASSUME NEW buf, Len(buf) \in Nat, NEW ln, NEW g, NEW indic, NEW f,
         NEW m \in 0..Len(buf), NEW h,
         h = [p \in m..Len(buf) |-> IF p = m THEN DumpStep(buf, ln, g, indic, f, m) ELSE f[p]],
         m < Len(buf) => DumpsFrom(buf, ln, g, indic, f, m + 1)
  PROVE  DumpsFrom(buf, ln, g, indic, h, m)
<1> DEFINE N == Len(buf)
<1> HIDE DEF N
<1>0. N \in Nat /\ m \in 0..N
  BY DEF N
<1>1. ASSUME NEW p \in m..N
      PROVE  h[p] = DumpStep(buf, ln, g, indic, h, p)
  <2>1. DumpStep(buf, ln, g, indic, h, p) = DumpStep(buf, ln, g, indic, f, p)
    <3>1. CASE ~ Fits(buf, p, ln, g)
      BY <3>1 DEF DumpStep
    <3>2. CASE Fits(buf, p, ln, g)
      <4> DEFINE q == p + SectionLength(buf, p, ln, g)
      <4>1. q \in (p + 1)..N
        BY <1>0, <1>1, <3>2, FitsEnd DEF N
      <4> HIDE DEF q
      <4>2. h[q] = f[q]
        BY <1>0, <1>1, <4>1 DEF N
      <4>3. QED
        BY <4>2 DEF DumpStep, q
    <3>3. QED
      BY <3>1, <3>2
  <2>2. h[p] = DumpStep(buf, ln, g, indic, f, p)
    <3>1. CASE p = m
      BY <1>1, <3>1 DEF N
    <3>2. CASE p # m
      <4>1. p \in (m + 1)..N /\ m < N
        BY <1>0, <1>1, <3>2
      <4>2. h[p] = f[p]
        BY <1>1, <3>2 DEF N
      <4>3. f[p] = DumpStep(buf, ln, g, indic, f, p)
        BY <4>1 DEF DumpsFrom, N
      <4>4. QED
        BY <4>2, <4>3
    <3>3. QED
      BY <3>1, <3>2
  <2>3. QED
    BY <2>1, <2>2
<1>2. h = [p \in m..N |-> h[p]]
  BY DEF N
<1>3. QED
  BY <1>1, <1>2 DEF DumpsFrom, N

(* The dump exists: there is one from the end of the buffer on, and so from *)
(* every position.                                                          *)
LEMMA DumpExists ==
  ASSUME NEW buf, Len(buf) \in Nat, NEW ln, NEW g, NEW indic
  PROVE  \E f : DumpsFrom(buf, ln, g, indic, f, 0)
<1> DEFINE T == {k \in 0..Len(buf) : ~ \E f : DumpsFrom(buf, ln, g, indic, f, Len(buf) - k)}
<1>1. SUFFICES T = {}
  <2>1. Len(buf) \in 0..Len(buf) /\ Len(buf) - Len(buf) = 0
    OBVIOUS
  <2>2. QED
    BY <2>1
<1>2. SUFFICES ASSUME T # {} PROVE FALSE
  OBVIOUS
<1>3. T \subseteq Nat
  OBVIOUS
<1>4. PICK k \in T : \A y \in T : k <= y
  BY <1>2, <1>3, LeastElement
<1>5. k \in 0..Len(buf) /\ Len(buf) - k \in 0..Len(buf)
  BY <1>4
<1>6. \E f : k > 0 => DumpsFrom(buf, ln, g, indic, f, (Len(buf) - k) + 1)
  <2>1. CASE k = 0
    BY <2>1
  <2>2. CASE k > 0
    <3>1. k - 1 \in 0..Len(buf) /\ ~ (k - 1 \in T) /\ Len(buf) - (k - 1) = (Len(buf) - k) + 1
      BY <1>4, <1>5, <2>2
    <3>2. QED
      BY <3>1
  <2>3. QED
    BY <1>5, <2>1, <2>2
<1>7. PICK f : k > 0 => DumpsFrom(buf, ln, g, indic, f, (Len(buf) - k) + 1)
  BY <1>6
<1>8. Len(buf) - k < Len(buf) => k > 0
  BY <1>5
<1> DEFINE m == Len(buf) - k
           h == [p \in m..Len(buf) |-> IF p = m THEN DumpStep(buf, ln, g, indic, f, m) ELSE f[p]]
<1>9. DumpsFrom(buf, ln, g, indic, h, m)
  <2>1. m \in 0..Len(buf) /\ (m < Len(buf) => DumpsFrom(buf, ln, g, indic, f, m + 1))
    BY <1>5, <1>7, <1>8
  <2> HIDE DEF m
  <2>2. QED
    BY <2>1, DumpExtends
<1>10. QED
  BY <1>4, <1>9

(* Dump is the one that CopyDump takes. *)
LEMMA DumpIs ==
  ASSUME NEW buf, Len(buf) \in Nat, NEW ln, NEW g, NEW indic, NEW p \in 0..Len(buf)
  PROVE  Dump(buf, ln, g, indic)[p] = DumpStep(buf, ln, g, indic, Dump(buf, ln, g, indic), p)
<1>1. Dump(buf, ln, g, indic) = CHOOSE f : DumpsFrom(buf, ln, g, indic, f, 0)
  BY DEF Dump, DumpsFrom, DumpStep
<1>2. DumpsFrom(buf, ln, g, indic, Dump(buf, ln, g, indic), 0)
  BY <1>1, DumpExists
<1>3. QED
  BY <1>2 DEF DumpsFrom

-----------------------------------------------------------------------------
(* The order of the bytes in the buffer. *)

(* Byte b has been sent when the sender is at byte off of section sec. *)
Sent(b, ln, sec, off) ==
  b[1] > 0 => /\ b[1] <= sec /\ b[2] < ln[b[1]]
              /\ b[1] = sec => b[2] < off

(* a comes before b in the broadcast. *)
Before(a, b) == a[1] < b[1] \/ (a[1] = b[1] /\ a[2] < b[2])

(* The bytes are in the order of the broadcast, each of them once. *)
Ordered(buf, ln, sec, off) ==
  /\ \A i \in 1..Len(buf) : Sent(buf[i], ln, sec, off)
  /\ \A i, j \in 1..Len(buf) :
       i < j /\ buf[i][1] > 0 /\ buf[j][1] > 0 => Before(buf[i], buf[j])

(* The sections of which every byte has been sent. *)
Ended(ln, sec, off) == {s \in 1..sec : s < sec \/ off = ln[s]}

(* The first and the last byte of section s are among bytes p + 1 .. e. *)
Found(buf, ln, s, p, e) ==
  \E i, j \in (p + 1)..e : buf[i] = <<s, 0>> /\ buf[j] = <<s, ln[s] - 1>>

(* The constants, as the assumption gives them. *)
LEMMA Sizes == MAXSEC \in Nat /\ PACKET \in Nat /\ MaxSections \in Nat /\ Lens \subseteq 3..MAXSEC
  BY SectionsAssumption DEF HDR

(* A length is that of a section. *)
LEMMA LenRange ==
  ASSUME NEW ln \in Seq(Lens), NEW s \in 1..Len(ln)
  PROVE  ln[s] \in Nat /\ ln[s] >= 3 /\ ln[s] <= MAXSEC /\ ln[s] \in Lens
<1>1. ln[s] \in Lens
  OBVIOUS
<1>2. ln[s] \in 3..MAXSEC
  BY <1>1, Sizes
<1>3. QED
  BY <1>1, <1>2, Sizes

(* What a dump from p to e gives: out is in the order of the broadcast. *)
Given(buf, ln, out, p, e) ==
  /\ e \in p..Len(buf)
  /\ out \in Seq(0..Len(ln))
  /\ \A x \in 1..Len(out) : out[x] > 0 => Found(buf, ln, out[x], p, e)
  /\ \A x, y \in 1..Len(out) : x < y /\ out[x] > 0 /\ out[y] > 0 => out[x] < out[y]

(* Two sequences behind each other, by their bytes. *)
LEMMA ConcatIs ==
  ASSUME NEW p \in Seq(Byte), NEW q \in Seq(Byte)
  PROVE  /\ p \o q \in Seq(Byte) /\ Len(p \o q) = Len(p) + Len(q)
         /\ \A i \in 1..Len(p) : (p \o q)[i] = p[i]
         /\ \A i \in 1..Len(q) : (p \o q)[Len(p) + i] = q[i]
  OBVIOUS

(* The positions of m elements and n behind them. *)
LEMMA IndexSplit ==
  ASSUME NEW m \in Nat, NEW n \in Nat, NEW i \in 1..(m + n)
  PROVE  /\ i \in Nat
         /\ i <= m => i \in 1..m
         /\ i > m => i - m \in 1..n /\ m + (i - m) = i
         /\ i <= m \/ i > m
  OBVIOUS

(* They are positions of the whole. *)
LEMMA IndexJoin ==
  ASSUME NEW m \in Nat, NEW n \in Nat
  PROVE  /\ \A i \in 1..m : i \in 1..(m + n)
         /\ \A i \in 1..n : m + i \in 1..(m + n)
  OBVIOUS

(* The first and the last byte of a section. *)
LEMMA BytesEnds ==
  ASSUME NEW t, NEW n \in Nat, n >= 3
  PROVE  /\ Len(Bytes(t, 0, n)) = n
         /\ Bytes(t, 0, n)[1] = <<t, 0>> /\ Bytes(t, 0, n)[n] = <<t, n - 1>>
<1>1. Bytes(t, 0, n) = [i \in 1..n |-> <<t, 0 + i - 1>>]
  <2>1. n - 0 = n
    OBVIOUS
  <2>2. QED
    BY <2>1 DEF Bytes
<1>2. 1 \in 1..n /\ n \in 1..n /\ 0 + 1 - 1 = 0 /\ 0 + n - 1 = n - 1
  OBVIOUS
<1>3. QED
  BY <1>1, <1>2

(* A piece that is identified is a section: its first byte and its last. *)
LEMMA Identified ==
  ASSUME NEW ln \in Seq(Lens), NEW buf \in Seq(Byte), NEW sec \in 0..Len(ln), NEW off,
         Ordered(buf, ln, sec, off), NEW p \in 0..Len(buf), NEW q \in (p + 1)..Len(buf),
         NEW s, s = Identify(SubSeq(buf, p + 1, q), ln)
  PROVE  /\ s \in 0..Len(ln)
         /\ s > 0 => buf[p + 1] = <<s, 0>> /\ buf[q] = <<s, ln[s] - 1>>
<1> DEFINE piece == SubSeq(buf, p + 1, q)
           t == piece[1][1]
<1>1. /\ Len(piece) = q - p /\ Len(piece) >= 1
      /\ \A i \in 1..(q - p) : piece[i] = buf[p + i]
  BY SubSeqProperties
<1> HIDE DEF piece
<1>2. piece[1] = buf[p + 1] /\ buf[p + 1] \in Byte /\ p + 1 \in 1..Len(buf)
  BY <1>1
<1>3. t \in Nat /\ (t > 0 => t <= Len(ln))
  <2>1. t \in Nat
    BY <1>2, SectionsAssumption DEF Byte, STUFF
  <2>2. ASSUME t > 0 PROVE t <= Len(ln)
    <3>1. Sent(buf[p + 1], ln, sec, off) /\ buf[p + 1][1] = t
      BY <1>2 DEF Ordered
    <3>2. t <= sec
      BY <2>2, <3>1 DEF Sent
    <3>3. QED
      BY <2>1, <3>2
  <2>3. QED
    BY <2>1, <2>2
<1>4. s = IF t > 0 /\ piece = Bytes(t, 0, ln[t]) THEN t ELSE 0
  BY DEF Identify, piece
<1>5. CASE t > 0 /\ piece = Bytes(t, 0, ln[t])
  <2>1. ln[t] \in Nat /\ ln[t] >= 3 /\ s = t
    BY <1>3, <1>4, <1>5, LenRange
  <2>2. /\ Len(Bytes(t, 0, ln[t])) = ln[t]
        /\ Bytes(t, 0, ln[t])[1] = <<t, 0>> /\ Bytes(t, 0, ln[t])[ln[t]] = <<t, ln[t] - 1>>
    BY <2>1, BytesEnds
  <2>3. /\ q - p = ln[t] /\ piece[1] = <<t, 0>> /\ piece[q - p] = <<t, ln[t] - 1>>
    BY <1>1, <1>5, <2>2
  <2>4. piece[q - p] = buf[q]
    <3>1. q - p \in 1..(q - p) /\ p + (q - p) = q
      OBVIOUS
    <3>2. QED
      BY <1>1, <3>1
  <2>5. buf[p + 1] = <<t, 0>> /\ buf[q] = <<t, ln[t] - 1>>
    BY <1>2, <2>3, <2>4
  <2>6. t \in 0..Len(ln)
    BY <1>3, <1>5
  <2>7. QED
    BY <2>1, <2>5, <2>6
<1>6. QED
  BY <1>3, <1>4, <1>5

(* What is given for one piece. *)
LEMMA OnePiece ==
  ASSUME NEW ln, NEW piece, NEW indic
  PROVE  \/ SectionFeed(piece, ln, indic) = <<>>
         \/ SectionFeed(piece, ln, indic) = <<Identify(piece, ln)>>
  BY DEF SectionFeed

(* A piece in front of a dump. *)
LEMMA GivenCons ==
  ASSUME NEW ln \in Seq(Lens), NEW buf \in Seq(Byte), NEW sec \in 0..Len(ln), NEW off,
         Ordered(buf, ln, sec, off), NEW p \in 0..Len(buf), NEW q \in (p + 1)..Len(buf),
         NEW s \in 0..Len(ln), s > 0 => buf[p + 1] = <<s, 0>> /\ buf[q] = <<s, ln[s] - 1>>,
         NEW rest, NEW e, Given(buf, ln, rest, q, e), NEW head, head = <<>> \/ head = <<s>>
  PROVE  Given(buf, ln, head \o rest, p, e)
<1>0. /\ e \in q..Len(buf) /\ rest \in Seq(0..Len(ln)) /\ Len(buf) \in Nat /\ e \in p..Len(buf)
      /\ Len(rest) \in Nat
  BY DEF Given
<1>1. ASSUME NEW t, Found(buf, ln, t, q, e) PROVE Found(buf, ln, t, p, e)
  <2>1. PICK i, j \in (q + 1)..e : buf[i] = <<t, 0>> /\ buf[j] = <<t, ln[t] - 1>>
    BY <1>1 DEF Found
  <2>2. i \in (p + 1)..e /\ j \in (p + 1)..e
    BY <1>0
  <2>3. QED
    BY <2>1, <2>2 DEF Found
<1>2. CASE head = <<>>
  <2>1. head \o rest = rest
    BY <1>0, <1>2, ConcatEmptySeq
  <2>2. QED
    BY <1>0, <1>1, <2>1 DEF Given
<1>3. CASE head = <<s>>
  <2> DEFINE out == head \o rest
  <2>1. /\ out \in Seq(0..Len(ln)) /\ Len(out) = Len(rest) + 1 /\ out[1] = s
        /\ \A x \in 2..Len(out) : out[x] = rest[x - 1] /\ x - 1 \in 1..Len(rest)
    BY <1>0, <1>3
  <2> HIDE DEF out
  <2>2. s > 0 => Found(buf, ln, s, p, e)
    <3>1. p + 1 \in (p + 1)..e /\ q \in (p + 1)..e
      BY <1>0
    <3>2. QED
      BY <3>1 DEF Found
  <2>3. ASSUME NEW x \in 1..Len(out), out[x] > 0 PROVE Found(buf, ln, out[x], p, e)
    <3>1. CASE x = 1
      BY <2>1, <2>2, <2>3, <3>1
    <3>2. CASE x # 1
      <4>1. x \in 2..Len(out)
        BY <1>0, <2>1, <3>2
      <4>2. QED
        BY <1>1, <2>1, <2>3, <4>1 DEF Given
    <3>3. QED
      BY <3>1, <3>2
  <2>4. ASSUME NEW x \in 1..Len(out), NEW y \in 1..Len(out), x < y, out[x] > 0, out[y] > 0
        PROVE  out[x] < out[y]
    <3>0. y \in 2..Len(out)
      BY <1>0, <2>1, <2>4
    <3>1. CASE x = 1
      <4>1. out[x] = s /\ s > 0 /\ buf[p + 1] = <<s, 0>>
        BY <2>1, <2>4, <3>1
      <4>2. Found(buf, ln, out[y], q, e)
        BY <2>1, <2>4, <3>0 DEF Given
      <4>3. PICK i \in (q + 1)..e : buf[i] = <<out[y], 0>>
        BY <4>2 DEF Found
      <4>4. i \in 1..Len(buf) /\ p + 1 \in 1..Len(buf) /\ p + 1 < i
        BY <1>0
      <4>5. out[y] \in Nat
        BY <2>1
      <4>6. Before(<<s, 0>>, <<out[y], 0>>)
        <5>1. buf[p + 1][1] > 0 /\ buf[i][1] > 0
          BY <2>4, <4>1, <4>3
        <5>2. Before(buf[p + 1], buf[i])
          BY <4>4, <5>1 DEF Ordered
        <5>3. QED
          BY <4>1, <4>3, <5>2
      <4>7. QED
        BY <4>1, <4>5, <4>6 DEF Before
    <3>2. CASE x # 1
      <4>1. x \in 2..Len(out)
        BY <1>0, <2>1, <3>2
      <4>2. /\ x - 1 \in 1..Len(rest) /\ y - 1 \in 1..Len(rest) /\ x - 1 < y - 1
            /\ out[x] = rest[x - 1] /\ out[y] = rest[y - 1]
        <5>1. x - 1 < y - 1
          BY <1>0, <2>1, <2>4, <3>0, <4>1
        <5>2. QED
          BY <2>1, <3>0, <4>1, <5>1
      <4>3. QED
        BY <2>4, <4>2 DEF Given
    <3>3. QED
      BY <3>1, <3>2
  <2>5. QED
    BY <1>0, <2>1, <2>3, <2>4 DEF Given, out
<1>4. QED
  BY <1>2, <1>3

(* Every dump of an ordered buffer is in order. *)
LEMMA DumpGives ==
  ASSUME NEW ln \in Seq(Lens), NEW buf \in Seq(Byte), NEW sec \in 0..Len(ln), NEW off,
         Ordered(buf, ln, sec, off), NEW g, NEW indic, NEW p \in 0..Len(buf)
  PROVE  LET d == Dump(buf, ln, g, indic)[p] IN Given(buf, ln, d.out, p, d.end)
<1> DEFINE D == Dump(buf, ln, g, indic)
           G(x) == Given(buf, ln, D[x].out, x, D[x].end)
           T == {x \in 0..Len(buf) : ~ G(x)}
<1>1. SUFFICES ASSUME T # {} PROVE FALSE
  OBVIOUS
<1>2. Len(buf) \in Nat /\ T \subseteq 0..Len(buf)
  OBVIOUS
<1>3. PICK x \in T : \A y \in T : y <= x
  BY <1>1, <1>2, GreatestElement
<1>4. x \in 0..Len(buf) /\ ~ G(x)
  BY <1>3
<1>5. \A y \in (x + 1)..Len(buf) : G(y)
  BY <1>2, <1>3, <1>4
<1>6. D[x] = DumpStep(buf, ln, g, indic, D, x)
  BY <1>2, <1>4, DumpIs
<1> HIDE DEF D, T
<1>7. CASE ~ Fits(buf, x, ln, g)
  <2>1. D[x].end = x /\ D[x].out = <<>>
    BY <1>6, <1>7 DEF DumpStep
  <2>2. G(x)
    BY <1>2, <1>4, <2>1 DEF Given
  <2>3. QED
    BY <1>4, <2>2
<1>8. CASE Fits(buf, x, ln, g)
  <2> DEFINE q == x + SectionLength(buf, x, ln, g)
             piece == SubSeq(buf, x + 1, q)
  <2>1. q \in (x + 1)..Len(buf)
    BY <1>2, <1>4, <1>8, FitsEnd
  <2>2. D[x].end = D[q].end /\ D[x].out = SectionFeed(piece, ln, indic) \o D[q].out
    <3>1. D[x] = [end |-> D[q].end, out |-> SectionFeed(piece, ln, indic) \o D[q].out]
      BY <1>6, <1>8 DEF DumpStep
    <3> HIDE DEF q, piece
    <3>2. QED
      BY <3>1
  <2>3. G(q)
    BY <1>5, <2>1
  <2> DEFINE s == Identify(piece, ln)
             head == SectionFeed(piece, ln, indic)
  <2>4. head = <<>> \/ head = <<s>>
    BY OnePiece
  <2> HIDE DEF q
  <2>5. s \in 0..Len(ln) /\ (s > 0 => buf[x + 1] = <<s, 0>> /\ buf[q] = <<s, ln[s] - 1>>)
    BY <1>4, <2>1, Identified
  <2> HIDE DEF s, piece, head
  <2>6. Given(buf, ln, head \o D[q].out, x, D[q].end)
    BY <1>4, <2>1, <2>3, <2>4, <2>5, GivenCons
  <2>7. QED
    BY <1>4, <2>2, <2>6 DEF head
<1>9. QED
  BY <1>7, <1>8

-----------------------------------------------------------------------------
(* copy_dump: what it appends and what it gives. *)

FeedType == [cc : 0..(CCMOD - 1), pusi_seen : BOOLEAN, buf : Seq(Byte), secbufp : Nat,
             filtering : BOOLEAN]
FeedOK(fd) ==
  fd \in FeedType /\ Len(fd.buf) <= MAXSEC + PACKET /\ fd.secbufp <= Len(fd.buf)

(* The buffer with as much of bytes as it has room for. *)
Taken(buf, bytes) ==
  IF Len(bytes) < (MAXSEC + PACKET) - Len(buf) THEN Len(bytes) ELSE (MAXSEC + PACKET) - Len(buf)
Grown(buf, bytes) == buf \o SubSeq(bytes, 1, Taken(buf, bytes))

(* The buffer after copying: its length, and which bytes it holds. *)
LEMMA GrownIs ==
  ASSUME NEW buf \in Seq(Byte), NEW bytes \in Seq(Byte), Len(buf) <= MAXSEC + PACKET
  PROVE  LET n == Taken(buf, bytes)
         IN /\ n \in 0..Len(bytes) /\ Len(Grown(buf, bytes)) = Len(buf) + n
            /\ Len(buf) + n <= MAXSEC + PACKET
            /\ n < Len(bytes) => Len(buf) + n = MAXSEC + PACKET
            /\ Grown(buf, bytes) \in Seq(Byte) /\ Len(Grown(buf, bytes)) \in Nat
            /\ \A i \in 1..Len(buf) : Grown(buf, bytes)[i] = buf[i]
            /\ \A i \in 1..n : Grown(buf, bytes)[Len(buf) + i] = bytes[i]
            /\ n = 0 => Grown(buf, bytes) = buf
<1> DEFINE n == Taken(buf, bytes)
           q == SubSeq(bytes, 1, n)
<1>1. /\ n \in 0..Len(bytes) /\ Len(buf) + n <= MAXSEC + PACKET
      /\ n < Len(bytes) => Len(buf) + n = MAXSEC + PACKET
  BY Sizes DEF Taken
<1> HIDE DEF n
<1>2. /\ q \in Seq(Byte) /\ Len(q) = n /\ \A i \in 1..n : q[i] = bytes[i]
  BY <1>1, SubSeqProperties
<1>3. n = 0 => q = <<>>
  BY <1>2, EmptySeq
<1> HIDE DEF q
<1>4. Grown(buf, bytes) = buf \o q
  BY DEF Grown, n, q
<1>5. /\ Grown(buf, bytes) \in Seq(Byte) /\ Len(Grown(buf, bytes)) = Len(buf) + n
      /\ \A i \in 1..Len(buf) : Grown(buf, bytes)[i] = buf[i]
      /\ \A i \in 1..n : Grown(buf, bytes)[Len(buf) + i] = bytes[i]
  <2>1. Len(buf) \in Nat /\ n \in Nat
    BY <1>1
  <2>2. /\ buf \o q \in Seq(Byte) /\ Len(buf \o q) = Len(buf) + Len(q)
        /\ \A i \in 1..Len(buf) : (buf \o q)[i] = buf[i]
        /\ \A i \in 1..Len(q) : (buf \o q)[Len(buf) + i] = q[i]
    BY <1>2, ConcatIs
  <2>3. ASSUME NEW i \in 1..Len(buf) PROVE (buf \o q)[i] = buf[i]
    BY <2>2
  <2>4. ASSUME NEW i \in 1..n PROVE (buf \o q)[Len(buf) + i] = bytes[i]
    BY <1>2, <2>2
  <2>5. QED
    BY <1>2, <1>4, <2>2, <2>3, <2>4
<1>6. n = 0 => Grown(buf, bytes) = buf
  BY <1>3, <1>4, ConcatEmptySeq
<1>7. Len(Grown(buf, bytes)) \in Nat
  BY <1>1, <1>5
<1>8. QED
  BY <1>1, <1>5, <1>6, <1>7 DEF n

(* CopyDump, in these terms. *)
LEMMA CopyDumpIs ==
  ASSUME NEW r, NEW bytes, NEW ln, NEW g, NEW indic
  PROVE  CopyDump(r, bytes, ln, g, indic) =
           IF (MAXSEC + PACKET) - Len(r.fd.buf) = 0 \/ bytes = <<>> THEN r
           ELSE [fd  |-> Dumped(r.fd, Grown(r.fd.buf, bytes),
                                Dump(Grown(r.fd.buf, bytes), ln, g, indic)[r.fd.secbufp].end),
                 out |-> IF r.fd.pusi_seen
                         THEN r.out \o Dump(Grown(r.fd.buf, bytes), ln, g, indic)[r.fd.secbufp].out
                         ELSE r.out]
  BY DEF CopyDump, DMX_MAX_SECFEED_SIZE, Grown, Taken

(* res is r after bytes were copied: the dump gave a and ended at e. *)
Copied(r, bytes, ln, g, indic, res, a, e) ==
  LET buf == Grown(r.fd.buf, bytes)
  IN /\ res.fd = [r.fd EXCEPT !.buf = buf, !.secbufp = e]
     /\ res.out = IF r.fd.pusi_seen THEN r.out \o a ELSE r.out
     /\ Given(buf, ln, a, r.fd.secbufp, e)
     /\ \/ Taken(r.fd.buf, bytes) = 0 /\ a = <<>> /\ e = r.fd.secbufp
        \/ /\ Taken(r.fd.buf, bytes) # 0
           /\ a = Dump(buf, ln, g, indic)[r.fd.secbufp].out
           /\ e = Dump(buf, ln, g, indic)[r.fd.secbufp].end

(* A feed and bytes to copy, such that the buffer will be in order. *)
Copyable(f, o, bytes, ln, sec, off, r) ==
  /\ FeedOK(f) /\ o \in Seq(Nat) /\ bytes \in Seq(Byte) /\ ln \in Seq(Lens)
  /\ sec \in 0..Len(ln) /\ Ordered(Grown(f.buf, bytes), ln, sec, off)
  /\ r = [fd |-> f, out |-> o]

(* Copying and dumping gives the pieces of a dump, or changes nothing. *)
LEMMA CopyDumps ==
  ASSUME NEW f, NEW o, NEW bytes, NEW g, NEW indic, NEW ln, NEW sec, NEW off, NEW r,
         Copyable(f, o, bytes, ln, sec, off, r)
  PROVE  /\ CopyDump(r, bytes, ln, g, indic) = [fd  |-> CopyDump(r, bytes, ln, g, indic).fd,
                                                out |-> CopyDump(r, bytes, ln, g, indic).out]
         /\ \E a, e : Copied(r, bytes, ln, g, indic, CopyDump(r, bytes, ln, g, indic), a, e)
<1> DEFINE room == (MAXSEC + PACKET) - Len(f.buf)
           n == Taken(f.buf, bytes)
           buf == Grown(f.buf, bytes)
           d == Dump(buf, ln, g, indic)[f.secbufp]
           res == CopyDump(r, bytes, ln, g, indic)
<1> USE DEF Copyable
<1>0. /\ f \in FeedType /\ f.buf \in Seq(Byte) /\ Len(f.buf) \in Nat /\ f.secbufp \in 0..Len(f.buf)
      /\ Len(f.buf) <= MAXSEC + PACKET /\ r.fd = f /\ r.out = o
  BY DEF FeedOK, FeedType
<1>1. /\ n \in 0..Len(bytes) /\ Len(buf) = Len(f.buf) + n /\ buf \in Seq(Byte)
      /\ n = 0 => buf = f.buf
  BY <1>0, GrownIs
<1>2. n = 0 <=> room = 0 \/ bytes = <<>>
  <2>1. Len(bytes) \in Nat /\ (Len(bytes) = 0 <=> bytes = <<>>) /\ room \in Nat
    BY <1>0, EmptySeq, Sizes
  <2>2. QED
    BY <2>1 DEF Taken
<1>3. res = IF room = 0 \/ bytes = <<>> THEN r
            ELSE [fd  |-> [f EXCEPT !.buf = buf, !.secbufp = d.end],
                  out |-> IF f.pusi_seen THEN o \o d.out ELSE o]
  <2>1. res = IF (MAXSEC + PACKET) - Len(r.fd.buf) = 0 \/ bytes = <<>> THEN r
              ELSE [fd  |-> Dumped(r.fd, Grown(r.fd.buf, bytes),
                                   Dump(Grown(r.fd.buf, bytes), ln, g, indic)[r.fd.secbufp].end),
                    out |-> IF r.fd.pusi_seen
                            THEN r.out \o Dump(Grown(r.fd.buf, bytes), ln, g, indic)[r.fd.secbufp].out
                            ELSE r.out]
    BY CopyDumpIs
  <2>2. Dumped(f, buf, d.end) = [f EXCEPT !.buf = buf, !.secbufp = d.end]
    BY DEF Dumped
  <2> HIDE DEF res
  <2>3. QED
    BY <1>0, <2>1, <2>2
<1>4. f.secbufp \in 0..Len(buf)
  <2>1. n \in Nat /\ Len(buf) = Len(f.buf) + n
    BY <1>1
  <2> HIDE DEF n, buf
  <2>2. QED
    BY <1>0, <2>1
<1> HIDE DEF room, buf, d, res, n
<1>5. CASE n = 0
  <2>1. res = r
    BY <1>2, <1>3, <1>5
  <2>2. f = [f EXCEPT !.buf = buf, !.secbufp = f.secbufp]
    BY <1>0, <1>1, <1>5 DEF FeedType
  <2>3. Given(buf, ln, <<>>, f.secbufp, f.secbufp)
    BY <1>1, <1>4 DEF Given
  <2>4. o = IF f.pusi_seen THEN o \o <<>> ELSE o
    BY ConcatEmptySeq
  <2>5. Copied(r, bytes, ln, g, indic, res, <<>>, f.secbufp)
    BY <1>0, <1>5, <2>1, <2>2, <2>3, <2>4 DEF Copied, buf, n
  <2>6. QED
    BY <2>1, <2>5 DEF res
<1>6. CASE n # 0
  <2>1. /\ res = [fd  |-> [f EXCEPT !.buf = buf, !.secbufp = d.end],
                  out |-> IF f.pusi_seen THEN o \o d.out ELSE o]
    BY <1>2, <1>3, <1>6
  <2>2. Given(buf, ln, d.out, f.secbufp, d.end)
    BY <1>1, <1>4, DumpGives DEF d, buf
  <2>3. Copied(r, bytes, ln, g, indic, res, d.out, d.end)
    BY <1>0, <1>6, <2>1, <2>2 DEF Copied, buf, d, n
  <2>4. QED
    BY <2>1, <2>3 DEF res
<1>7. QED
  BY <1>5, <1>6

(* The feed stays well formed. *)
LEMMA CopiedOK ==
  ASSUME NEW f, FeedOK(f), NEW o \in Seq(Nat), NEW bytes \in Seq(Byte), NEW g, NEW indic,
         NEW ln, NEW r, r = [fd |-> f, out |-> o], NEW res, NEW a, NEW e,
         Copied(r, bytes, ln, g, indic, res, a, e)
  PROVE  /\ FeedOK(res.fd) /\ res.fd.cc = f.cc /\ res.fd.pusi_seen = f.pusi_seen
         /\ res.fd.filtering = f.filtering /\ res.fd.buf = Grown(f.buf, bytes)
         /\ res.fd.secbufp = e
<1>0. /\ f \in FeedType /\ f.buf \in Seq(Byte) /\ Len(f.buf) \in Nat /\ f.secbufp \in 0..Len(f.buf)
      /\ Len(f.buf) <= MAXSEC + PACKET /\ r.fd = f /\ r.out = o
  BY DEF FeedOK, FeedType
<1> DEFINE buf == Grown(f.buf, bytes)
<1>1. buf \in Seq(Byte) /\ Len(buf) \in Nat /\ Len(buf) <= MAXSEC + PACKET
  <2>1. /\ Len(buf) = Len(f.buf) + Taken(f.buf, bytes) /\ Len(buf) \in Nat /\ buf \in Seq(Byte)
        /\ Len(f.buf) + Taken(f.buf, bytes) <= MAXSEC + PACKET
    BY <1>0, GrownIs
  <2>2. QED
    BY <2>1
<1> HIDE DEF buf
<1>2. res.fd = [f EXCEPT !.buf = buf, !.secbufp = e] /\ e \in f.secbufp..Len(buf)
  BY <1>0 DEF Copied, Given, buf
<1>3. e \in Nat /\ e <= Len(buf)
  BY <1>0, <1>1, <1>2
<1>4. res.fd \in FeedType
  BY <1>0, <1>1, <1>2, <1>3 DEF FeedType
<1>5. QED
  BY <1>0, <1>1, <1>2, <1>3, <1>4 DEF FeedOK, FeedType, buf

-----------------------------------------------------------------------------
(* Packets: the next l bytes of section sec, and stuffing. *)

(* Packet bytes are l bytes of section sec from off on, then stuffing. *)
Run(bytes, sec, off, l) ==
  /\ l \in 0..Len(bytes)
  /\ \A i \in 1..l : bytes[i] = <<sec, off + i - 1>>
  /\ \A i \in (l + 1)..Len(bytes) : bytes[i] = STUFF

(* The broadcast goes on: what was in order is in order. *)
LEMMA OrderedLater ==
  ASSUME NEW buf \in Seq(Byte), NEW ln, NEW lm, NEW s0 \in Nat, NEW o0 \in Nat, NEW s1 \in Nat, NEW o1 \in Nat,
         Ordered(buf, ln, s0, o0), \A s \in 1..s0 : lm[s] = ln[s],
         s0 <= s1, s0 = s1 => o0 <= o1
  PROVE  Ordered(buf, lm, s1, o1)
<1>1. ASSUME NEW i \in 1..Len(buf), buf[i][1] > 0
      PROVE  /\ buf[i][1] <= s1 /\ buf[i][2] < lm[buf[i][1]]
             /\ buf[i][1] = s1 => buf[i][2] < o1
  <2>1. buf[i] \in Byte /\ buf[i][1] \in Nat /\ buf[i][2] \in Nat
    BY <1>1, Sizes DEF Byte, STUFF
  <2>2. /\ buf[i][1] <= s0 /\ buf[i][2] < ln[buf[i][1]]
        /\ buf[i][1] = s0 => buf[i][2] < o0
    BY <1>1 DEF Ordered, Sent
  <2>3. buf[i][1] \in 1..s0
    BY <1>1, <2>1, <2>2
  <2>4. QED
    BY <2>1, <2>2, <2>3
<1>2. QED
  BY <1>1 DEF Ordered, Sent

(* A byte of a buffer. *)
LEMMA ByteIs ==
  ASSUME NEW b \in Byte
  PROVE  b[1] \in Nat /\ b[2] \in Nat /\ b[1] <= MaxSections /\ b = <<b[1], b[2]>>
  BY Sizes DEF Byte, STUFF

(* The place of the k-th of the next l bytes of a section. *)
LEMMA NextByte ==
  ASSUME NEW off \in Nat, NEW l \in Nat, NEW n \in Nat, NEW k \in 1..l, off + l <= n
  PROVE  off + k - 1 < off + l /\ off + k - 1 < n /\ off <= off + k - 1
  OBVIOUS

(* The next bytes of the broadcast keep the buffer in order. *)
LEMMA OrderedAppend ==
  ASSUME NEW buf \in Seq(Byte), NEW bytes \in Seq(Byte), Len(buf) <= MAXSEC + PACKET,
         NEW ln \in Seq(Lens), NEW sec \in 0..Len(ln), NEW off \in Nat, NEW l,
         Ordered(buf, ln, sec, off), Run(bytes, sec, off, l),
         l > 0 => sec > 0 /\ off + l <= ln[sec]
  PROVE  Ordered(Grown(buf, bytes), ln, sec, off + l)
<1> DEFINE n == Taken(buf, bytes)
           b == Grown(buf, bytes)
<1>0. /\ n \in 0..Len(bytes) /\ Len(b) = Len(buf) + n /\ b \in Seq(Byte)
      /\ \A i \in 1..Len(buf) : b[i] = buf[i]
      /\ \A i \in 1..n : b[Len(buf) + i] = bytes[i]
      /\ Len(buf) \in Nat /\ Len(bytes) \in Nat
  BY GrownIs
<1> HIDE DEF n, b
<1>1. l \in 0..Len(bytes) /\ l \in Nat
  BY <1>0 DEF Run
<1>2. ASSUME NEW i \in 1..Len(b), i > Len(buf), b[i][1] > 0
      PROVE  /\ sec > 0 /\ off + l <= ln[sec] /\ i - Len(buf) \in 1..l
             /\ b[i] = <<sec, off + (i - Len(buf)) - 1>>
  <2>1. i - Len(buf) \in 1..n /\ Len(buf) + (i - Len(buf)) = i
    BY <1>0, <1>2
  <2>2. b[i] = bytes[i - Len(buf)] /\ i - Len(buf) \in 1..Len(bytes)
    <3>1. b[Len(buf) + (i - Len(buf))] = bytes[i - Len(buf)]
      BY <1>0, <2>1
    <3>2. QED
      BY <1>0, <2>1, <3>1
  <2>3. i - Len(buf) <= l
    <3>1. ASSUME i - Len(buf) > l PROVE FALSE
      <4>1. i - Len(buf) \in (l + 1)..Len(bytes)
        BY <1>0, <1>1, <2>2, <3>1
      <4>2. b[i] = STUFF
        BY <2>2, <4>1 DEF Run
      <4>3. QED
        BY <1>2, <4>2 DEF STUFF
    <3>2. QED
      BY <1>0, <1>1, <2>1, <3>1
  <2>4. i - Len(buf) \in 1..l
    BY <1>1, <2>2, <2>3
  <2>5. l > 0
    BY <1>1, <2>4
  <2>6. QED
    BY <2>2, <2>4, <2>5 DEF Run
<1>3. ASSUME NEW i \in 1..Len(b), b[i][1] > 0
      PROVE  /\ b[i][1] <= sec /\ b[i][2] < ln[b[i][1]] /\ (b[i][1] = sec => b[i][2] < off + l)
             /\ i <= Len(buf) /\ b[i][1] = sec => b[i][2] < off
  <2>1. CASE i <= Len(buf)
    <3>1. i \in 1..Len(buf) /\ b[i] = buf[i] /\ b[i] \in Byte
      BY <1>0, <2>1
    <3>2. /\ b[i][1] <= sec /\ b[i][2] < ln[b[i][1]] /\ (b[i][1] = sec => b[i][2] < off)
      BY <1>3, <3>1 DEF Ordered, Sent
    <3>3. b[i][2] \in Nat
      BY <3>1, ByteIs
    <3>4. QED
      BY <1>1, <3>2, <3>3
  <2>2. CASE i > Len(buf)
    <3>1. /\ sec > 0 /\ off + l <= ln[sec] /\ i - Len(buf) \in 1..l
          /\ b[i] = <<sec, off + (i - Len(buf)) - 1>>
      BY <1>2, <1>3, <2>2
    <3>2. b[i][1] = sec /\ b[i][2] = off + (i - Len(buf)) - 1
      BY <3>1
    <3>3. ln[sec] \in Nat
      BY <3>1, LenRange
    <3> DEFINE k == i - Len(buf)
    <3>4. k \in 1..l /\ b[i][2] = off + k - 1 /\ l \in Nat /\ off + l <= ln[sec]
      BY <1>1, <3>1, <3>2
    <3> HIDE DEF k
    <3>5. off + k - 1 < off + l /\ off + k - 1 < ln[sec]
      BY <3>3, <3>4, NextByte
    <3>6. ~ (i <= Len(buf))
      BY <1>0, <2>2
    <3>7. b[i][2] < off + l /\ b[i][2] < ln[b[i][1]]
      BY <3>2, <3>4, <3>5
    <3>8. b[i][1] <= sec
      <4>1. sec \in Nat /\ sec <= sec
        OBVIOUS
      <4>2. QED
        BY <3>2, <4>1
    <3>9. QED
      BY <3>6, <3>7, <3>8
  <2>3. QED
    BY <1>0, <2>1, <2>2
<1>4. ASSUME NEW i \in 1..Len(b), NEW j \in 1..Len(b), i < j, b[i][1] > 0, b[j][1] > 0
      PROVE  Before(b[i], b[j])
  <2>0. b[i] \in Byte /\ b[j] \in Byte
    BY <1>0
  <2>1. /\ b[i][1] \in Nat /\ b[i][2] \in Nat /\ b[j][1] \in Nat /\ b[j][2] \in Nat
    BY <2>0, ByteIs
  <2>2. CASE j <= Len(buf)
    <3>1. i \in 1..Len(buf) /\ j \in 1..Len(buf) /\ b[i] = buf[i] /\ b[j] = buf[j]
      BY <1>0, <1>4, <2>2
    <3>2. QED
      BY <1>4, <3>1 DEF Ordered
  <2>3. CASE j > Len(buf) /\ i <= Len(buf)
    <3>1. b[j] = <<sec, off + (j - Len(buf)) - 1>> /\ j - Len(buf) \in 1..l
      BY <1>2, <1>4, <2>3
    <3>2. b[j][1] = sec /\ b[j][2] = off + (j - Len(buf)) - 1
      BY <3>1
    <3>3. b[i][1] <= sec /\ (b[i][1] = sec => b[i][2] < off)
      BY <1>3, <1>4, <2>3
    <3> DEFINE k == j - Len(buf)
    <3>4. k \in 1..l /\ b[j][2] = off + k - 1 /\ l \in Nat
      BY <1>1, <3>1, <3>2
    <3> HIDE DEF k
    <3>5. off <= b[j][2]
      <4>1. off + l \in Nat /\ off + l <= off + l
        BY <3>4
      <4>2. off <= off + k - 1
        BY <3>4, <4>1, NextByte
      <4>3. QED
        BY <3>4, <4>2
    <3>6. b[i][1] < b[j][1] \/ (b[i][1] = b[j][1] /\ b[i][2] < b[j][2])
      <4> DEFINE x == b[i][2]
                 y == b[j][2]
                 t == b[i][1]
      <4>1. /\ x \in Nat /\ y \in Nat /\ t \in Nat /\ sec \in Nat /\ off <= y /\ b[j][1] = sec
            /\ t <= sec /\ (t = sec => x < off)
        BY <2>1, <3>2, <3>3, <3>5
      <4> HIDE DEF x, y, t
      <4>2. t < sec \/ (t = sec /\ x < y)
        BY <4>1
      <4>3. QED
        BY <4>1, <4>2 DEF x, y, t
    <3>7. QED
      BY <3>6 DEF Before
  <2>4. CASE j > Len(buf) /\ i > Len(buf)
    <3>1. b[j] = <<sec, off + (j - Len(buf)) - 1>> /\ b[i] = <<sec, off + (i - Len(buf)) - 1>>
      BY <1>2, <1>4, <2>4
    <3>2. /\ b[j][1] = sec /\ b[j][2] = off + (j - Len(buf)) - 1
          /\ b[i][1] = sec /\ b[i][2] = off + (i - Len(buf)) - 1
      BY <3>1
    <3>3. QED
      BY <1>0, <1>4, <2>4, <3>2 DEF Before
  <2>5. QED
    BY <1>0, <2>2, <2>3, <2>4
<1>5. QED
  BY <1>3, <1>4 DEF Ordered, Sent, b

-----------------------------------------------------------------------------
(* A buffer that starts with a section. *)

(* The buffer holds sections a to b, off bytes of b, and then stuffing if b *)
(* is complete; section s starts at at[s].                                  *)
Layout(buf, ln, a, b, off, at) ==
  /\ a \in 1..b /\ b \in 1..Len(ln) /\ off \in 0..ln[b]
  /\ at \in [a..(b + 1) -> Nat] /\ at[a] = 0
  /\ \A s \in a..b : at[s + 1] = at[s] + ln[s]
  /\ at[b] <= PACKET /\ at[b] + off <= Len(buf)
  /\ \A s \in a..b : \A k \in 0..(ln[s] - 1) :
       at[s] + k < at[b] + off => buf[at[s] + k + 1] = <<s, k>>
  /\ \A i \in (at[b] + off + 1)..Len(buf) : buf[i] = STUFF
  /\ at[b] + off < Len(buf) => off = ln[b]

(* secbufp is where a section starts or the last one ends. *)
Boundary(ln, a, b, off, at, p) ==
  \E s \in a..(b + 1) : p = at[s] /\ (s = b + 1 => off = ln[b])

(* The types in a layout. *)
LEMMA LayoutTypes ==
  ASSUME NEW ln \in Seq(Lens), NEW buf \in Seq(Byte), NEW a, NEW b, NEW off, NEW at,
         Layout(buf, ln, a, b, off, at)
  PROVE  /\ a \in Nat /\ b \in Nat /\ off \in Nat /\ a <= b /\ a >= 1 /\ off <= ln[b]
         /\ b <= Len(ln) /\ Len(buf) \in Nat
         /\ \A s \in a..b : /\ ln[s] \in Nat /\ ln[s] >= 3 /\ ln[s] <= MAXSEC
                            /\ at[s] \in Nat /\ at[s + 1] \in Nat /\ at[s + 1] = at[s] + ln[s]
         /\ at[b] \in Nat /\ at[b + 1] \in Nat /\ at[b + 1] = at[b] + ln[b] /\ at[b] <= PACKET
         /\ ln[b] \in Nat /\ ln[b] >= 3 /\ ln[b] <= MAXSEC
<1>1. /\ a \in 1..b /\ b \in 1..Len(ln) /\ off \in 0..ln[b] /\ at \in [a..(b + 1) -> Nat]
      /\ at[b] <= PACKET
  BY DEF Layout
<1>2. a \in Nat /\ b \in Nat /\ a <= b /\ a >= 1 /\ b <= Len(ln) /\ Len(ln) \in Nat
  BY <1>1
<1>3. ASSUME NEW s \in a..b
      PROVE  /\ ln[s] \in Nat /\ ln[s] >= 3 /\ ln[s] <= MAXSEC
             /\ at[s] \in Nat /\ at[s + 1] \in Nat /\ at[s + 1] = at[s] + ln[s]
  <2>1. s \in 1..Len(ln) /\ s \in a..(b + 1) /\ s + 1 \in a..(b + 1)
    BY <1>2
  <2>2. at[s + 1] = at[s] + ln[s]
    BY DEF Layout
  <2>3. QED
    BY <1>1, <2>1, <2>2, LenRange
<1>4. b \in a..b
  BY <1>2
<1>5. /\ ln[b] \in Nat /\ ln[b] >= 3 /\ ln[b] <= MAXSEC
      /\ at[b] \in Nat /\ at[b + 1] \in Nat /\ at[b + 1] = at[b] + ln[b]
  BY <1>3, <1>4
<1>6. off \in Nat /\ off <= ln[b]
  BY <1>1, <1>5
<1>7. QED
  BY <1>1, <1>2, <1>3, <1>5, <1>6

(* Sections start in their order. *)
LEMMA LayoutRises ==
  ASSUME NEW ln \in Seq(Lens), NEW buf \in Seq(Byte), NEW a, NEW b, NEW off, NEW at,
         Layout(buf, ln, a, b, off, at), NEW s \in a..(b + 1), NEW t \in s..(b + 1)
  PROVE  at[s] <= at[t] /\ (s < t => at[s] + ln[s] <= at[t])
<1>0. /\ a \in Nat /\ b \in Nat /\ at[b + 1] \in Nat
      /\ \A x \in a..b : /\ ln[x] \in Nat /\ at[x] \in Nat /\ at[x + 1] \in Nat
                         /\ at[x + 1] = at[x] + ln[x]
  BY LayoutTypes
<1> DEFINE R(x) == at[s] <= at[x] /\ (s < x => at[s] + ln[s] <= at[x])
           T == {x \in s..(b + 1) : ~ R(x)}
<1>1. SUFFICES ASSUME T # {} PROVE FALSE
  OBVIOUS
<1>2. T \subseteq Nat
  BY <1>0
<1>3. PICK x \in T : \A y \in T : x <= y
  BY <1>1, <1>2, LeastElement
<1>4. x \in s..(b + 1) /\ ~ R(x) /\ s \in Nat /\ s >= a /\ x \in Nat
  BY <1>0, <1>3
<1>5. at[s] \in Nat
  <2>1. s \in a..b \/ s = b + 1
    BY <1>0, <1>4
  <2>2. QED
    BY <1>0, <2>1
<1>6. x # s
  BY <1>4, <1>5
<1>7. x - 1 \in s..b /\ x - 1 \in a..b /\ s \in a..b /\ (x - 1) + 1 = x
  BY <1>0, <1>4, <1>6
<1>8. R(x - 1)
  <2>1. x - 1 \in s..(b + 1) /\ x - 1 < x
    BY <1>0, <1>4, <1>7
  <2>2. ~ (x - 1 \in T)
    BY <1>3, <1>4, <2>1
  <2>3. QED
    BY <2>1, <2>2
<1> DEFINE y == x - 1
<1>9. /\ at[y + 1] = at[y] + ln[y] /\ at[y] \in Nat /\ ln[y] \in Nat /\ ln[s] \in Nat
      /\ at[s] <= at[y] /\ (s < y => at[s] + ln[s] <= at[y])
  BY <1>0, <1>7, <1>8
<1>10. y \in Nat /\ s <= y /\ y + 1 = x
  BY <1>0, <1>4, <1>7
<1> HIDE DEF y
<1>11. at[s] <= at[y + 1] /\ at[s] + ln[s] <= at[y + 1]
  <2>1. CASE y = s
    BY <1>5, <1>9, <2>1
  <2>2. CASE s < y
    BY <1>5, <1>9, <2>2
  <2>3. QED
    BY <1>4, <1>10, <2>1, <2>2
<1>12. R(x)
  BY <1>10, <1>11
<1>13. QED
  BY <1>4, <1>12

(* Byte i of a buffer that has n bytes more is one of them. *)
LEMMA BehindRun ==
  ASSUME NEW m \in Nat, NEW c \in Nat, NEW l \in Nat, NEW n \in Nat, NEW k \in Nat,
         l <= n, n <= k, c = m + l, NEW i \in (c + 1)..(m + n)
  PROVE  /\ i - m \in (l + 1)..n /\ i - m \in 1..n /\ i - m \in (l + 1)..k
         /\ m + (i - m) = i
  OBVIOUS

(* The bytes that end an incomplete section are the last ones. *)
LEMMA EndsAt ==
  ASSUME NEW m \in Nat, NEW c \in Nat, NEW o \in Nat, NEW n \in Nat,
         o < n, c + o <= m, c + o < m => o = n
  PROVE  m = c + o
  OBVIOUS

(* What is behind the new bytes of a section is not its own. *)
LEMMA EndsBehind ==
  ASSUME NEW m \in Nat, NEW c \in Nat, NEW o \in Nat, NEW l \in Nat, NEW n \in Nat, NEW k \in Nat,
         m = c + o, l <= n, n <= k
  PROVE  /\ c + (o + l) = m + l /\ c + (o + l) \in Nat /\ c + (o + l) <= m + n
         /\ c + (o + l) < m + n => l < k
  OBVIOUS

(* The next bytes of section b go behind the ones that are there. *)
LEMMA LayoutAppend ==
  ASSUME NEW ln \in Seq(Lens), NEW buf \in Seq(Byte), NEW bytes \in Seq(Byte),
         Len(buf) <= MAXSEC + PACKET, NEW a, NEW b, NEW off, NEW at,
         Layout(buf, ln, a, b, off, at), off < ln[b],
         NEW l, Run(bytes, b, off, l), off + l <= ln[b], l < Len(bytes) => off + l = ln[b]
  PROVE  /\ Layout(Grown(buf, bytes), ln, a, b, off + l, at)
         /\ \A p : Boundary(ln, a, b, off, at, p) => Boundary(ln, a, b, off + l, at, p)
<1> DEFINE n == Taken(buf, bytes)
           q == Grown(buf, bytes)
<1>0. /\ n \in 0..Len(bytes) /\ Len(q) = Len(buf) + n /\ q \in Seq(Byte)
      /\ n < Len(bytes) => Len(buf) + n = MAXSEC + PACKET
      /\ \A i \in 1..Len(buf) : q[i] = buf[i]
      /\ \A i \in 1..n : q[Len(buf) + i] = bytes[i]
      /\ Len(buf) \in Nat /\ Len(bytes) \in Nat /\ Len(q) \in Nat
  BY GrownIs
<1> HIDE DEF n, q
<1>1. /\ a \in Nat /\ b \in Nat /\ off \in Nat /\ a <= b /\ a >= 1 /\ off <= ln[b]
      /\ at[b] \in Nat /\ at[b] <= PACKET /\ ln[b] \in Nat /\ ln[b] <= MAXSEC
  BY LayoutTypes
<1>2. Len(buf) = at[b] + off
  <2>1. at[b] + off <= Len(buf) /\ (at[b] + off < Len(buf) => off = ln[b])
    BY DEF Layout
  <2> DEFINE m == Len(buf)
             c == at[b]
             k == ln[b]
  <2>2. /\ m \in Nat /\ c \in Nat /\ off \in Nat /\ k \in Nat /\ off < k /\ c + off <= m
        /\ c + off < m => off = k
    BY <1>0, <1>1, <2>1
  <2> HIDE DEF m, c, k
  <2>3. m = c + off
    BY <2>2, EndsAt
  <2>4. QED
    BY <2>3 DEF m, c
<1>3. l \in Nat /\ l <= Len(bytes) /\ l <= n
  <2>1. l \in 0..Len(bytes)
    BY DEF Run
  <2>2. Len(buf) + l <= MAXSEC + PACKET
    BY <1>1, <1>2, <2>1, Sizes, SMTT(60)
  <2>3. QED
    BY <1>0, <2>1, <2>2, Sizes
<1>31. /\ at[b] + (off + l) = Len(buf) + l /\ at[b] + (off + l) \in Nat
       /\ at[b] + (off + l) <= Len(q)
       /\ at[b] + (off + l) < Len(q) => l < Len(bytes)
  <2> DEFINE m == Len(buf)
             c == at[b]
             k == Len(bytes)
  <2>1. /\ m \in Nat /\ c \in Nat /\ off \in Nat /\ l \in Nat /\ n \in Nat /\ k \in Nat
        /\ m = c + off /\ l <= n /\ n <= k /\ Len(q) = m + n
    BY <1>0, <1>1, <1>2, <1>3
  <2> HIDE DEF m, c, k
  <2>2. /\ c + (off + l) = m + l /\ c + (off + l) \in Nat /\ c + (off + l) <= m + n
        /\ c + (off + l) < m + n => l < k
    BY <2>1, EndsBehind
  <2>3. QED
    BY <2>1, <2>2 DEF m, c, k
<1>4. ASSUME NEW s \in a..b, NEW k \in 0..(ln[s] - 1), at[s] + k < at[b] + (off + l)
      PROVE  q[at[s] + k + 1] = <<s, k>>
  <2>0. at[s] \in Nat /\ ln[s] \in Nat /\ k \in Nat
    BY LayoutTypes
  <2>1. CASE at[s] + k < at[b] + off
    <3>1. buf[at[s] + k + 1] = <<s, k>>
      BY <1>4, <2>1 DEF Layout
    <3>2. at[s] + k + 1 \in 1..Len(buf)
      BY <1>0, <1>2, <2>0, <2>1, SMTT(60)
    <3>3. QED
      BY <1>0, <3>1, <3>2
  <2>2. CASE at[s] + k >= at[b] + off
    <3>1. s = b
      <4>1. ASSUME s < b PROVE FALSE
        <5>1. s \in a..(b + 1) /\ b \in s..(b + 1)
          BY <1>1, <4>1
        <5>2. at[s] + ln[s] <= at[b]
          BY <4>1, <5>1, LayoutRises
        <5>3. QED
          BY <1>1, <2>0, <2>2, <5>2, SMTT(60)
      <4>2. QED
        BY <1>1, <4>1
    <3> DEFINE i == (k - off) + 1
    <3>2. i \in 1..l /\ i \in 1..n /\ off + i - 1 = k /\ Len(buf) + i = at[s] + k + 1
      BY <1>0, <1>1, <1>2, <1>3, <1>4, <2>0, <2>2, <3>1, SMTT(60)
    <3> HIDE DEF i
    <3>3. bytes[i] = <<b, off + i - 1>>
      BY <3>2 DEF Run
    <3>4. q[Len(buf) + i] = bytes[i]
      BY <1>0, <3>2
    <3>5. QED
      BY <3>1, <3>2, <3>3, <3>4
  <2>3. QED
    BY <1>1, <2>0, <2>1, <2>2, SMTT(60)
<1>5. ASSUME NEW i \in (at[b] + (off + l) + 1)..Len(q) PROVE q[i] = STUFF
  <2> DEFINE j == i - Len(buf)
  <2>1. j \in (l + 1)..n /\ j \in 1..n /\ j \in (l + 1)..Len(bytes) /\ Len(buf) + j = i
    <3> DEFINE m == Len(buf)
               c == at[b] + (off + l)
               k == Len(bytes)
    <3>1. /\ m \in Nat /\ c \in Nat /\ l \in Nat /\ n \in Nat /\ k \in Nat /\ l <= n
          /\ n <= k /\ c = m + l /\ i \in (c + 1)..(m + n)
      <4>1. m \in Nat /\ l \in Nat /\ n \in Nat /\ k \in Nat /\ l <= n /\ n <= k
        BY <1>0, <1>3
      <4>2. c = m + l /\ c \in Nat
        BY <1>31
      <4>3. Len(q) = m + n
        BY <1>0
      <4> HIDE DEF m, c, k
      <4>4. i \in (c + 1)..(m + n)
        BY <4>3 DEF c
      <4>5. QED
        BY <4>1, <4>2, <4>4
    <3> HIDE DEF m, c, k
    <3>2. /\ i - m \in (l + 1)..n /\ i - m \in 1..n /\ i - m \in (l + 1)..k
          /\ m + (i - m) = i
      BY <3>1, BehindRun
    <3>3. QED
      BY <3>2 DEF m, k
  <2> HIDE DEF j
  <2>2. q[Len(buf) + j] = bytes[j] /\ bytes[j] = STUFF
    BY <1>0, <2>1 DEF Run
  <2>3. QED
    BY <2>1, <2>2
<1>6. at[b] + (off + l) <= Len(q) /\ (at[b] + (off + l) < Len(q) => off + l = ln[b])
  BY <1>31
<1>7. off + l \in 0..ln[b]
  BY <1>1, <1>3
<1>8. Layout(q, ln, a, b, off + l, at)
  BY <1>4, <1>5, <1>6, <1>7 DEF Layout
<1>9. ASSUME NEW p, Boundary(ln, a, b, off, at, p) PROVE Boundary(ln, a, b, off + l, at, p)
  <2>1. off # ln[b]
    BY <1>1
  <2>2. QED
    BY <1>9, <2>1 DEF Boundary
<1>10. QED
  BY <1>8, <1>9 DEF q

(* The header of section s. *)
HeaderAt(buf, p, s) == buf[p + 2] = <<s, 1>> /\ buf[p + 3] = <<s, 2>>

(* A header in the buffer is read for what it is. *)
LEMMA HeaderLength ==
  ASSUME NEW buf, NEW p, NEW ln, NEW g, NEW s \in Nat, s > 0, HeaderAt(buf, p, s)
  PROVE  SectionLength(buf, p, ln, g) = ln[s]
<1>1. <<s, 1>>[1] = s /\ <<s, 1>>[2] = 1
  OBVIOUS
<1>2. QED
  BY <1>1 DEF SectionLength, HeaderAt

(* Stuffing is no header. *)
LEMMA StuffingLength ==
  ASSUME NEW buf, NEW p, NEW ln, NEW g, buf[p + 2] = STUFF, buf[p + 3] = STUFF
  PROVE  SectionLength(buf, p, ln, g) = MAXSEC + 1
<1>1. STUFF[1] = 0
  BY DEF STUFF
<1>2. QED
  BY <1>1 DEF SectionLength

(* All of section s is in the buffer. *)
InBuffer(ln, a, b, off, at, s) == s \in a..b /\ at[s] + ln[s] <= at[b] + off
DumpedFrom(buf, ln, g, at, s) ==
  /\ Fits(buf, at[s], ln, g) /\ at[s] + SectionLength(buf, at[s], ln, g) = at[s + 1]
  /\ Identify(SubSeq(buf, at[s] + 1, at[s + 1]), ln) = s

(* A complete section of a layout is dumped. *)
LEMMA SectionAt ==
  ASSUME NEW ln \in Seq(Lens), NEW buf \in Seq(Byte), NEW a, NEW b, NEW off, NEW at, NEW g,
         Layout(buf, ln, a, b, off, at), NEW s, InBuffer(ln, a, b, off, at, s)
  PROVE  DumpedFrom(buf, ln, g, at, s)
<1>0. s \in a..b /\ at[s] + ln[s] <= at[b] + off
  BY DEF InBuffer
<1> DEFINE p == at[s]
           n == ln[s]
           e == at[b] + off
<1>1. /\ p \in Nat /\ n \in Nat /\ n >= 3 /\ n <= MAXSEC /\ at[s + 1] = p + n
      /\ e \in Nat /\ Len(buf) \in Nat /\ s \in Nat /\ s > 0
  <2>1. /\ a \in Nat /\ a >= 1 /\ b \in Nat /\ off \in Nat /\ at[b] \in Nat /\ Len(buf) \in Nat
        /\ \A x \in a..b : /\ ln[x] \in Nat /\ ln[x] >= 3 /\ ln[x] <= MAXSEC
                           /\ at[x] \in Nat /\ at[x + 1] = at[x] + ln[x]
    BY LayoutTypes
  <2>2. s \in Nat /\ s > 0
    BY <1>0, <2>1
  <2>3. e \in Nat
    BY <2>1
  <2>4. p \in Nat /\ n \in Nat /\ n >= 3 /\ n <= MAXSEC /\ at[s + 1] = p + n
    BY <1>0, <2>1
  <2>5. QED
    BY <2>1, <2>2, <2>3, <2>4
<1>2. e <= Len(buf) /\ p + n <= e
  BY <1>0 DEF Layout
<1>3. ASSUME NEW k \in 0..(n - 1) PROVE buf[p + k + 1] = <<s, k>>
  <2>1. p + k < e
    <3> HIDE DEF p, n, e
    <3>1. QED
      BY <1>1, <1>2
  <2>2. QED
    BY <1>0, <2>1 DEF Layout
<1> HIDE DEF p, n, e
<1>4. buf[p + 2] = <<s, 1>> /\ buf[p + 3] = <<s, 2>>
  <2>1. 1 \in 0..(n - 1) /\ 2 \in 0..(n - 1) /\ p + 1 + 1 = p + 2 /\ p + 2 + 1 = p + 3
    BY <1>1
  <2>2. QED
    BY <1>3, <2>1
<1>5. SectionLength(buf, p, ln, g) = n
  <2>1. s \in Nat /\ s > 0
    BY <1>1
  <2>2. HeaderAt(buf, p, s)
    BY <1>4 DEF HeaderAt
  <2>3. SectionLength(buf, p, ln, g) = ln[s]
    BY <2>1, <2>2, HeaderLength
  <2>4. QED
    BY <2>3 DEF n
<1>6. Fits(buf, p, ln, g)
  <2>1. p + 2 < Len(buf) /\ n \in 1..MAXSEC /\ n + p <= Len(buf)
    BY <1>1, <1>2, Sizes
  <2>2. QED
    BY <1>5, <2>1 DEF Fits
<1> DEFINE piece == SubSeq(buf, p + 1, p + n)
<1>7. /\ piece \in Seq(Byte) /\ Len(piece) = n
      /\ \A i \in 1..n : piece[i] = buf[p + i]
  <2>1. p + n \in 1..Len(buf) /\ p + 1 \in 1..Len(buf) /\ p + 1 <= p + n /\ (p + n) - (p + 1) + 1 = n
    BY <1>1, <1>2
  <2>2. \A i \in 1..n : (p + 1) + i - 1 = p + i
    BY <1>1
  <2>3. QED
    BY <1>1, <2>1, <2>2, SubSeqProperties
<1> HIDE DEF piece
<1>8. ASSUME NEW i \in 1..n PROVE piece[i] = <<s, i - 1>>
  <2>1. i - 1 \in 0..(n - 1) /\ p + (i - 1) + 1 = p + i
    BY <1>1
  <2>2. QED
    BY <1>3, <1>7, <2>1
<1>9. piece = Bytes(s, 0, n)
  <2>1. piece = [i \in 1..n |-> piece[i]]
    BY <1>1, <1>7
  <2>2. Bytes(s, 0, n) = [i \in 1..n |-> <<s, i - 1>>]
    BY <1>1 DEF Bytes
  <2>3. QED
    BY <1>8, <2>1, <2>2
<1>10. piece[1][1] = s
  <2>1. piece[1] = <<s, 0>>
    BY <1>1, <1>8
  <2>2. QED
    BY <2>1
<1>11. Identify(piece, ln) = s
  BY <1>1, <1>9, <1>10 DEF Identify, n
<1>12. QED
  BY <1>1, <1>5, <1>6, <1>11 DEF p, n, piece, DumpedFrom

(* The dump stops behind the last complete section. *)
LEMMA LastAt ==
  ASSUME NEW ln \in Seq(Lens), NEW buf \in Seq(Byte), NEW a, NEW b, NEW off, NEW at, NEW g,
         Layout(buf, ln, a, b, off, at)
  PROVE  /\ off < ln[b] => ~ Fits(buf, at[b], ln, g)
         /\ off = ln[b] => ~ Fits(buf, at[b + 1], ln, g)
<1>1. /\ at[b] \in Nat /\ ln[b] \in Nat /\ ln[b] >= 3 /\ off \in Nat /\ at[b + 1] = at[b] + ln[b]
      /\ Len(buf) \in Nat /\ b \in Nat /\ b > 0 /\ b \in a..b
  BY LayoutTypes
<1>2. at[b] + off <= Len(buf) /\ (at[b] + off < Len(buf) => off = ln[b])
  BY DEF Layout
<1>3. ASSUME off < ln[b], Fits(buf, at[b], ln, g) PROVE FALSE
  <2> DEFINE p == at[b]
             n == ln[b]
  <2>1. p + 2 < Len(buf) /\ SectionLength(buf, p, ln, g) + p <= Len(buf)
    BY <1>3 DEF Fits
  <2>2. \A k \in 0..(n - 1) : p + k < p + off => buf[p + k + 1] = <<b, k>>
    BY <1>1 DEF Layout
  <2> HIDE DEF p, n
  <2>3. p \in Nat /\ n \in Nat /\ n >= 3 /\ off < n /\ Len(buf) = p + off
    BY <1>1, <1>2, <1>3 DEF p, n
  <2>4. /\ 1 \in 0..(n - 1) /\ 2 \in 0..(n - 1) /\ p + 1 + 1 = p + 2 /\ p + 2 + 1 = p + 3
        /\ p + 1 < p + off /\ p + 2 < p + off
    BY <1>1, <2>1, <2>3
  <2>5. buf[p + 2] = <<b, 1>> /\ buf[p + 3] = <<b, 2>>
    BY <2>2, <2>4
  <2>6. SectionLength(buf, p, ln, g) = n
    <3>1. b \in Nat /\ b > 0
      BY <1>1
    <3>2. HeaderAt(buf, p, b)
      BY <2>5 DEF HeaderAt
    <3>3. SectionLength(buf, p, ln, g) = ln[b]
      BY <3>1, <3>2, HeaderLength
    <3>4. QED
      BY <3>3 DEF n
  <2>7. QED
    BY <1>1, <2>1, <2>3, <2>6
<1>4. ASSUME off = ln[b], Fits(buf, at[b + 1], ln, g) PROVE FALSE
  <2> DEFINE p == at[b + 1]
  <2>1. p + 2 < Len(buf) /\ SectionLength(buf, p, ln, g) \in 1..MAXSEC
    BY <1>4 DEF Fits
  <2>2. \A i \in (p + 1)..Len(buf) : buf[i] = STUFF
    BY <1>1, <1>4 DEF Layout
  <2>3. p \in Nat
    BY <1>1
  <2> HIDE DEF p
  <2>4. p + 2 \in (p + 1)..Len(buf) /\ p + 3 \in (p + 1)..Len(buf)
    BY <1>1, <2>1, <2>3
  <2>5. SectionLength(buf, p, ln, g) = MAXSEC + 1
    BY <2>2, <2>4, StuffingLength
  <2>6. QED
    BY <2>1, <2>5, Sizes
<1>5. QED
  BY <1>3, <1>4

(* Where the dump of a layout ends, and what it gives from section s on. *)
Stop(ln, b, off, at) == IF off = ln[b] THEN at[b + 1] ELSE at[b]
Complete(ln, b, off, s) == s < b \/ (s = b /\ off = ln[b])
GivesFrom(ln, b, off, s, out) ==
  /\ \A x \in 1..Len(out) : out[x] # 0
  /\ \A t \in s..b : Complete(ln, b, off, t) => \E x \in 1..Len(out) : out[x] = t

(* A complete section, and then those behind it. *)
LEMMA GivesOne ==
  ASSUME NEW ln, NEW b \in Nat, NEW off, NEW s \in 1..b, NEW rest, rest \in Seq(Nat),
         GivesFrom(ln, b, off, s + 1, rest)
  PROVE  GivesFrom(ln, b, off, s, <<s>> \o rest)
<1> DEFINE out == <<s>> \o rest
<1>1. /\ Len(rest) \in Nat /\ Len(out) = Len(rest) + 1 /\ out[1] = s
      /\ \A x \in 1..Len(rest) : out[x + 1] = rest[x]
      /\ \A x \in 2..Len(out) : out[x] = rest[x - 1] /\ x - 1 \in 1..Len(rest)
  OBVIOUS
<1> HIDE DEF out
<1>2. ASSUME NEW x \in 1..Len(out) PROVE out[x] # 0
  <2>1. CASE x = 1
    BY <1>1, <2>1
  <2>2. CASE x # 1
    <3>1. x \in 2..Len(out)
      BY <1>1, <2>2
    <3>2. QED
      BY <1>1, <3>1 DEF GivesFrom
  <2>3. QED
    BY <2>1, <2>2
<1>3. ASSUME NEW t \in s..b, Complete(ln, b, off, t) PROVE \E x \in 1..Len(out) : out[x] = t
  <2>1. CASE t = s
    <3>1. 1 \in 1..Len(out)
      BY <1>1
    <3>2. QED
      BY <1>1, <2>1, <3>1
  <2>2. CASE t # s
    <3>1. t \in (s + 1)..b
      BY <2>2
    <3>2. PICK x \in 1..Len(rest) : rest[x] = t
      BY <1>3, <3>1 DEF GivesFrom
    <3>3. x + 1 \in 1..Len(out) /\ out[x + 1] = t
      BY <1>1, <3>2
    <3>4. QED
      BY <3>3
  <2>3. QED
    BY <2>1, <2>2
<1>4. QED
  BY <1>2, <1>3 DEF GivesFrom, out

(* The dump of a layout gives the complete sections and nothing else. *)
LEMMA DumpLayout ==
  ASSUME NEW ln \in Seq(Lens), NEW buf \in Seq(Byte), NEW a, NEW b, NEW off, NEW at,
         Layout(buf, ln, a, b, off, at), NEW g, NEW indic,
         NEW s \in a..(b + 1), s = b + 1 => off = ln[b]
  PROVE  LET d == Dump(buf, ln, g, indic)[at[s]]
         IN /\ d.end = Stop(ln, b, off, at) /\ d.out \in Seq(Nat)
            /\ GivesFrom(ln, b, off, s, d.out)
<1> DEFINE D == Dump(buf, ln, g, indic)
           G(x) == /\ D[at[x]].end = Stop(ln, b, off, at) /\ D[at[x]].out \in Seq(Nat)
                   /\ GivesFrom(ln, b, off, x, D[at[x]].out)
           T == {x \in a..(b + 1) : (x = b + 1 => off = ln[b]) /\ ~ G(x)}
<1>0. /\ a \in Nat /\ b \in Nat /\ off \in Nat /\ a <= b /\ a >= 1 /\ off <= ln[b]
      /\ b <= Len(ln) /\ Len(buf) \in Nat
      /\ at[b] \in Nat /\ at[b + 1] \in Nat /\ at[b + 1] = at[b] + ln[b] /\ ln[b] \in Nat
      /\ at[b] + off <= Len(buf)
  <2>1. at[b] + off <= Len(buf)
    BY DEF Layout
  <2>2. QED
    BY <2>1, LayoutTypes
<1>1. SUFFICES ASSUME T # {} PROVE FALSE
  OBVIOUS
<1>2. T \subseteq 0..(b + 1) /\ b + 1 \in Nat
  BY <1>0
<1>3. PICK x \in T : \A y \in T : y <= x
  <2> HIDE DEF T
  <2>1. QED
    BY <1>1, <1>2, GreatestElement
<1>4. x \in a..(b + 1) /\ (x = b + 1 => off = ln[b]) /\ ~ G(x)
  BY <1>3
<1>5. ASSUME x <= b, x + 1 = b + 1 => off = ln[b] PROVE G(x + 1)
  <2>1. x + 1 \in a..(b + 1) /\ ~ (x + 1 <= x)
    BY <1>0, <1>4, <1>5
  <2>2. ~ (x + 1 \in T)
    BY <1>3, <2>1
  <2>3. QED
    BY <1>5, <2>1, <2>2
<1>6. at[x] \in 0..Len(buf)
  <2>1. CASE x = b + 1
    BY <1>0, <1>4, <2>1
  <2>2. CASE x # b + 1
    <3>1. x \in a..b /\ b \in x..(b + 1)
      BY <1>0, <1>4, <2>2
    <3>2. at[x] \in Nat /\ at[x] <= at[b]
      BY <1>4, <3>1, LayoutTypes, LayoutRises
    <3>3. QED
      BY <1>0, <3>2
  <2>3. QED
    BY <2>1, <2>2
<1>7. D[at[x]] = DumpStep(buf, ln, g, indic, D, at[x])
  BY <1>0, <1>6, DumpIs
<1> HIDE DEF D, T
<1>8. ASSUME ~ Fits(buf, at[x], ln, g), at[x] = Stop(ln, b, off, at),
             \A t \in x..b : ~ Complete(ln, b, off, t)
      PROVE  G(x)
  <2>1. D[at[x]].end = at[x] /\ D[at[x]].out = <<>>
    BY <1>7, <1>8 DEF DumpStep
  <2>2. GivesFrom(ln, b, off, x, <<>>)
    BY <1>8 DEF GivesFrom
  <2>3. QED
    BY <1>8, <2>1, <2>2
<1>9. CASE x = b + 1
  <2>1. ~ Fits(buf, at[x], ln, g)
    BY <1>4, <1>9, LastAt
  <2>2. at[x] = Stop(ln, b, off, at) /\ x..b = {}
    BY <1>0, <1>4, <1>9 DEF Stop
  <2>3. QED
    BY <1>4, <1>8, <2>1, <2>2
<1>10. CASE x = b /\ off # ln[b]
  <2>1. ~ Fits(buf, at[x], ln, g)
    <3>1. off < ln[b]
      BY <1>0, <1>10
    <3>2. ~ Fits(buf, at[b], ln, g)
      BY <3>1, LastAt
    <3>3. QED
      BY <1>10, <3>2
  <2>2. at[x] = Stop(ln, b, off, at) /\ \A t \in x..b : ~ Complete(ln, b, off, t)
    <3>1. \A t \in x..b : t = b
      BY <1>0, <1>10
    <3>2. \A t \in x..b : ~ (t < b)
      BY <1>0, <1>10
    <3>3. QED
      BY <1>10, <3>1, <3>2 DEF Stop, Complete
  <2>3. QED
    BY <1>4, <1>8, <2>1, <2>2
<1>11. CASE x <= b /\ ~ (x = b /\ off # ln[b])
  <2>1. x \in a..b /\ (x + 1 = b + 1 => off = ln[b]) /\ x \in 1..b
    BY <1>0, <1>4, <1>11
  <2>2. G(x + 1)
    BY <1>5, <1>11, <2>1
  <2>3. at[x] + ln[x] <= at[b] + off
    <3>1. CASE x = b
      BY <1>0, <1>11, <3>1
    <3>2. CASE x < b
      <4>1. b \in x..(b + 1)
        BY <1>0, <2>1, <3>2
      <4>2. at[x] + ln[x] <= at[b] /\ at[x] \in Nat /\ ln[x] \in Nat
        BY <1>4, <2>1, <3>2, <4>1, LayoutTypes, LayoutRises
      <4>3. QED
        BY <1>0, <4>2
    <3>3. QED
      BY <1>0, <2>1, <3>1, <3>2
  <2>4. /\ Fits(buf, at[x], ln, g) /\ at[x] + SectionLength(buf, at[x], ln, g) = at[x + 1]
        /\ Identify(SubSeq(buf, at[x] + 1, at[x + 1]), ln) = x
    <3>1. InBuffer(ln, a, b, off, at, x)
      BY <2>1, <2>3 DEF InBuffer
    <3>2. DumpedFrom(buf, ln, g, at, x)
      BY <3>1, SectionAt
    <3>3. QED
      BY <3>2 DEF DumpedFrom
  <2>5. D[at[x]] = [end |-> D[at[x + 1]].end,
                    out |-> SectionFeed(SubSeq(buf, at[x] + 1, at[x + 1]), ln, indic)
                            \o D[at[x + 1]].out]
    BY <1>7, <2>4 DEF DumpStep
  <2>6. SectionFeed(SubSeq(buf, at[x] + 1, at[x + 1]), ln, indic) = <<x>>
    <3>1. x # 0
      BY <1>0, <2>1
    <3>2. QED
      BY <2>4, <3>1 DEF SectionFeed
  <2>7. D[at[x]].end = D[at[x + 1]].end /\ D[at[x]].out = <<x>> \o D[at[x + 1]].out
    <3> DEFINE h == SectionFeed(SubSeq(buf, at[x] + 1, at[x + 1]), ln, indic)
               r == D[at[x + 1]]
    <3>1. D[at[x]] = [end |-> r.end, out |-> h \o r.out] /\ h = <<x>>
      BY <2>5, <2>6
    <3> HIDE DEF h, r
    <3>2. D[at[x]].end = r.end /\ D[at[x]].out = h \o r.out
      BY <3>1
    <3>3. QED
      BY <3>1, <3>2 DEF r
  <2>8. GivesFrom(ln, b, off, x, <<x>> \o D[at[x + 1]].out)
    BY <1>0, <2>1, <2>2, GivesOne
  <2>9. <<x>> \o D[at[x + 1]].out \in Seq(Nat)
    <3>1. <<x>> \in Seq(Nat)
      BY <2>1, <1>0
    <3>2. QED
      BY <2>2, <3>1
  <2>10. QED
    BY <1>4, <2>2, <2>7, <2>8, <2>9
<1>12. QED
  BY <1>0, <1>4, <1>9, <1>10, <1>11

-----------------------------------------------------------------------------
(* The packets of the sender. *)

(* The bytes of part of a section. *)
LEMMA BytesIs ==
  ASSUME NEW s \in 1..MaxSections, NEW from \in Nat, NEW to \in Nat, from <= to, to <= MAXSEC
  PROVE  /\ Bytes(s, from, to) \in Seq(Byte) /\ Len(Bytes(s, from, to)) = to - from
         /\ \A i \in 1..(to - from) : Bytes(s, from, to)[i] = <<s, from + i - 1>>
<1>1. to - from \in Nat
  OBVIOUS
<1>2. ASSUME NEW i \in 1..(to - from) PROVE <<s, from + i - 1>> \in Byte
  <2>1. from + i - 1 \in 0..(MAXSEC - 1)
    BY Sizes
  <2>2. QED
    BY <2>1 DEF Byte
<1>3. Bytes(s, from, to) = [i \in 1..(to - from) |-> <<s, from + i - 1>>]
  BY DEF Bytes
<1>4. Bytes(s, from, to) \in [1..(to - from) -> Byte]
  BY <1>2, <1>3
<1> DEFINE n == to - from
           q == Bytes(s, from, to)
<1>5. n \in Nat /\ q \in [1..n -> Byte] /\ \A i \in 1..n : q[i] = <<s, from + i - 1>>
  BY <1>1, <1>3, <1>4
<1> HIDE DEF n, q
<1>6. q \in Seq(Byte) /\ Len(q) = n
  BY <1>5
<1>7. QED
  BY <1>5, <1>6 DEF n, q

(* The bytes of stuffing. *)
LEMMA StuffingIs ==
  ASSUME NEW n \in Nat
  PROVE  /\ Stuffing(n) \in Seq(Byte) /\ Len(Stuffing(n)) = n
         /\ \A i \in 1..n : Stuffing(n)[i] = STUFF
<1>1. Stuffing(n) = [i \in 1..n |-> STUFF] /\ STUFF \in Byte
  BY DEF Stuffing, Byte
<1> HIDE DEF STUFF
<1>2. Stuffing(n) \in [1..n -> Byte]
  BY <1>1
<1>3. QED
  BY <1>1, <1>2

(* Upto satisfies its recursion. *)
LEMMA UptoIs ==
  ASSUME NEW ls \in Seq(Lens), Len(ls) \in 1..3
  PROVE  /\ Upto(ls)[0] = 0
         /\ \A i \in 1..Len(ls) : /\ Upto(ls)[i] = Upto(ls)[i - 1] + ls[i]
                                  /\ Upto(ls)[i] \in Nat /\ Upto(ls)[i - 1] \in Nat
<1> DEFINE n == Len(ls)
           U(f) == f = [i \in 0..n |-> IF i = 0 THEN 0 ELSE f[i - 1] + ls[i]]
           w == [i \in 0..n |-> IF i = 0 THEN 0 ELSE IF i = 1 THEN ls[1]
                                ELSE IF i = 2 THEN ls[1] + ls[2] ELSE (ls[1] + ls[2]) + ls[3]]
<1>1. \A i \in 1..n : ls[i] \in Nat
  BY LenRange
<1>2. n \in 1..3
  OBVIOUS
<1>3. U(w)
  <2> HIDE DEF n
  <2>1. ASSUME NEW i \in 0..n PROVE w[i] = IF i = 0 THEN 0 ELSE w[i - 1] + ls[i]
    <3>1. i \in 0..3
      BY <1>2
    <3>2. CASE i = 0
      BY <1>2, <3>2
    <3>3. CASE i = 1
      <4>1. w[1] = ls[1] /\ w[0] = 0 /\ ls[1] \in Nat
        BY <1>1, <1>2, <3>3
      <4>2. QED
        BY <3>3, <4>1
    <3>4. CASE i = 2
      <4>1. w[2] = ls[1] + ls[2] /\ w[1] = ls[1]
        BY <1>2, <3>4
      <4>2. QED
        BY <3>4, <4>1
    <3>5. CASE i = 3
      <4>1. w[3] = (ls[1] + ls[2]) + ls[3] /\ w[2] = ls[1] + ls[2]
        BY <1>2, <3>5
      <4>2. QED
        BY <3>5, <4>1
    <3>6. QED
      BY <3>1, <3>2, <3>3, <3>4, <3>5
  <2>2. w = [i \in 0..n |-> w[i]]
    OBVIOUS
  <2> HIDE DEF w
  <2>3. QED
    BY <2>1, <2>2
<1>4. Upto(ls) = CHOOSE f : U(f)
  BY DEF Upto
<1>5. U(Upto(ls))
  <2> HIDE DEF U
  <2>1. QED
    BY <1>3, <1>4
<1> DEFINE u == Upto(ls)
<1> HIDE DEF n, w
<1>6. u[0] = 0 /\ \A i \in 1..n : u[i] = u[i - 1] + ls[i]
  <2>1. \A i \in 0..n : u[i] = IF i = 0 THEN 0 ELSE u[i - 1] + ls[i]
    BY <1>5
  <2>2. 0 \in 0..n /\ \A i \in 1..n : i \in 0..n /\ i # 0
    BY <1>2
  <2> HIDE DEF u
  <2>3. QED
    BY <2>1, <2>2
<1> HIDE DEF u
<1>7. ASSUME NEW i \in 1..n PROVE u[i] \in Nat /\ u[i - 1] \in Nat
  <2>1. u[0] \in Nat /\ u[1] \in Nat
    <3>1. 1 \in 1..n /\ 1 - 1 = 0
      BY <1>2
    <3>2. u[1] = u[0] + ls[1]
      BY <1>6, <3>1
    <3>3. QED
      BY <1>1, <1>6, <3>1, <3>2
  <2>2. n >= 2 => u[2] \in Nat
    <3>1. ASSUME n >= 2 PROVE u[2] = u[1] + ls[2] /\ ls[2] \in Nat
      <4>1. 2 \in 1..n /\ 2 - 1 = 1
        BY <1>2, <3>1
      <4>2. QED
        BY <1>1, <1>6, <4>1
    <3>2. QED
      BY <2>1, <3>1
  <2>3. n >= 3 => u[3] \in Nat
    <3>1. ASSUME n >= 3 PROVE u[3] = u[2] + ls[3] /\ ls[3] \in Nat
      <4>1. 3 \in 1..n /\ 3 - 1 = 2
        BY <1>2, <3>1
      <4>2. QED
        BY <1>1, <1>6, <4>1
    <3>2. QED
      BY <1>2, <2>2, <3>1
  <2>4. (i = 1 /\ i - 1 = 0) \/ (i = 2 /\ i - 1 = 1 /\ n >= 2) \/ (i = 3 /\ i - 1 = 2 /\ n >= 3 /\ n >= 2)
    BY <1>2
  <2>5. QED
    BY <2>1, <2>2, <2>3, <2>4
<1>8. QED
  BY <1>6, <1>7 DEF u, n

(* The sections of lengths ls behind section s, up to the i-th, are the bytes q. *)
Consecutive(q, s, ls, i) ==
  /\ q \in Seq(Byte) /\ Len(q) = Upto(ls)[i]
  /\ \A j \in 1..i : \A k \in 0..(ls[j] - 1) : /\ Upto(ls)[j - 1] + k + 1 \in 1..Len(q)
                                               /\ q[Upto(ls)[j - 1] + k + 1] = <<s + j, k>>

(* All bytes of a section. *)
LEMMA WholeBytes ==
  ASSUME NEW s \in 1..MaxSections, NEW n \in Nat, n <= MAXSEC
  PROVE  /\ Bytes(s, 0, n) \in Seq(Byte) /\ Len(Bytes(s, 0, n)) = n
         /\ \A k \in 0..(n - 1) : Bytes(s, 0, n)[k + 1] = <<s, k>>
<1> DEFINE b == Bytes(s, 0, n)
<1>1. b \in Seq(Byte) /\ Len(b) = n - 0 /\ \A i \in 1..(n - 0) : b[i] = <<s, 0 + i - 1>>
  <2>1. 0 \in Nat /\ 0 <= n
    OBVIOUS
  <2>2. QED
    BY <2>1, BytesIs
<1> HIDE DEF b
<1>2. ASSUME NEW k \in 0..(n - 1) PROVE b[k + 1] = <<s, k>>
  <2>1. k + 1 \in 1..(n - 0) /\ 0 + (k + 1) - 1 = k
    OBVIOUS
  <2>2. QED
    BY <1>1, <2>1
<1>3. QED
  BY <1>1, <1>2 DEF b

(* One section more. *)
LEMMA BodyStep ==
  ASSUME NEW ls \in Seq(Lens), Len(ls) \in 1..3, NEW s \in Nat, s + Len(ls) <= MaxSections,
         NEW i \in 1..Len(ls), NEW q, Consecutive(q, s, ls, i - 1)
  PROVE  Consecutive(q \o Bytes(s + i, 0, ls[i]), s, ls, i)
<1> DEFINE u == Upto(ls)
           n == ls[i]
           b == Bytes(s + i, 0, n)
           r == q \o b
<1>1. i \in Nat /\ i >= 1 /\ i <= Len(ls) /\ n \in Nat /\ n >= 3 /\ n <= MAXSEC
  BY LenRange
<1>2. u[i] = u[i - 1] + n /\ u[i] \in Nat /\ u[i - 1] \in Nat
  BY UptoIs
<1>3. s + i \in 1..MaxSections
  BY <1>1, Sizes
<1>4. b \in Seq(Byte) /\ Len(b) = n /\ \A k \in 0..(n - 1) : b[k + 1] = <<s + i, k>>
  <2> HIDE DEF n
  <2>1. QED
    BY <1>1, <1>3, WholeBytes
<1>5. q \in Seq(Byte) /\ Len(q) = u[i - 1]
  BY DEF Consecutive
<1> HIDE DEF b
<1>6. /\ r \in Seq(Byte) /\ Len(r) = Len(q) + n
      /\ \A k \in 1..Len(q) : r[k] = q[k]
      /\ \A k \in 1..n : r[Len(q) + k] = b[k]
  <2> HIDE DEF n
  <2>1. /\ r \in Seq(Byte) /\ Len(r) = Len(q) + Len(b)
        /\ \A k \in 1..Len(q) : r[k] = q[k]
        /\ \A k \in 1..Len(b) : r[Len(q) + k] = b[k]
    BY <1>4, <1>5, ConcatIs
  <2>2. QED
    BY <1>4, <2>1
<1> HIDE DEF r
<1>7. ASSUME NEW j \in 1..i, NEW k \in 0..(ls[j] - 1)
      PROVE  u[j - 1] + k + 1 \in 1..Len(r) /\ r[u[j - 1] + k + 1] = <<s + j, k>>
  <2>1. CASE j = i
    <3>1. k \in 0..(n - 1) /\ k + 1 \in 1..n /\ k \in Nat
      BY <1>1, <2>1
    <3>2. b[k + 1] = <<s + i, k>>
      BY <1>4, <3>1
    <3>3. u[j - 1] + k + 1 = Len(q) + (k + 1) /\ u[j - 1] + k + 1 \in 1..Len(r)
      <4> DEFINE m == u[j - 1]
      <4>1. m \in Nat /\ m = Len(q) /\ n \in Nat /\ Len(r) = m + n
        BY <1>1, <1>2, <1>5, <1>6, <2>1
      <4> HIDE DEF m, n
      <4>2. m + k + 1 = m + (k + 1) /\ m + k + 1 \in 1..(m + n)
        BY <3>1, <4>1
      <4>3. QED
        BY <4>1, <4>2 DEF m
    <3>4. r[Len(q) + (k + 1)] = b[k + 1]
      BY <1>6, <3>1
    <3>5. QED
      BY <2>1, <3>2, <3>3, <3>4
  <2>2. CASE j # i
    <3>1. j \in 1..(i - 1)
      BY <1>1, <2>2
    <3>2. u[j - 1] + k + 1 \in 1..Len(q) /\ q[u[j - 1] + k + 1] = <<s + j, k>>
      BY <3>1 DEF Consecutive
    <3> DEFINE x == u[j - 1] + k + 1
    <3> HIDE DEF x
    <3>3. x \in 1..Len(q) /\ q[x] = <<s + j, k>>
      BY <3>2 DEF x
    <3>4. r[x] = q[x]
      BY <1>6, <3>3
    <3>6. x \in 1..Len(r)
      <4> HIDE DEF n
      <4>1. Len(q) \in Nat /\ n \in Nat
        BY <1>1, <1>5
      <4>2. x \in 1..(Len(q) + n)
        BY <3>3, <4>1, IndexJoin
      <4>3. QED
        BY <1>6, <4>2
    <3>7. QED
      BY <3>3, <3>4, <3>6 DEF x
  <2>3. QED
    BY <2>1, <2>2
<1>8. Len(r) = u[i]
  BY <1>2, <1>5, <1>6
<1>9. QED
  BY <1>6, <1>7, <1>8 DEF Consecutive, r, b

(* Body satisfies its recursion. *)
LEMMA BodyIs ==
  ASSUME NEW ls \in Seq(Lens), Len(ls) \in 1..3, NEW s \in Nat, s + Len(ls) <= MaxSections
  PROVE  Consecutive(Body(s, ls), s, ls, Len(ls))
<1> DEFINE n == Len(ls)
           B(i) == Bytes(s + i, 0, ls[i])
           U(f) == f = [i \in 0..n |-> IF i = 0 THEN <<>> ELSE f[i - 1] \o B(i)]
           w == [i \in 0..n |-> IF i = 0 THEN <<>> ELSE IF i = 1 THEN <<>> \o B(1)
                                ELSE IF i = 2 THEN (<<>> \o B(1)) \o B(2)
                                ELSE ((<<>> \o B(1)) \o B(2)) \o B(3)]
           f == CHOOSE f : U(f)
<1>1. n \in 1..3
  OBVIOUS
<1>2. Body(s, ls) = f[n]
  BY DEF Body
<1> HIDE DEF n, B
<1>3. U(w)
  <2>1. ASSUME NEW i \in 0..n PROVE w[i] = IF i = 0 THEN <<>> ELSE w[i - 1] \o B(i)
    <3>1. i \in 0..3
      BY <1>1
    <3>2. CASE i = 0
      BY <1>1, <3>2
    <3>3. CASE i = 1
      <4>1. w[1] = <<>> \o B(1) /\ w[0] = <<>>
        BY <1>1, <3>3
      <4> HIDE DEF w
      <4>2. i - 1 = 0 /\ i # 0
        BY <3>3
      <4>3. w[1] = w[0] \o B(1)
        BY <4>1
      <4>4. QED
        BY <3>3, <4>2, <4>3
    <3>4. CASE i = 2
      <4>1. w[2] = (<<>> \o B(1)) \o B(2) /\ w[1] = <<>> \o B(1)
        BY <1>1, <3>4
      <4> HIDE DEF w
      <4>2. i - 1 = 1 /\ i # 0
        BY <3>4
      <4>3. w[2] = w[1] \o B(2)
        BY <4>1
      <4>4. QED
        BY <3>4, <4>2, <4>3
    <3>5. CASE i = 3
      <4>1. w[3] = ((<<>> \o B(1)) \o B(2)) \o B(3) /\ w[2] = (<<>> \o B(1)) \o B(2)
        BY <1>1, <3>5
      <4> HIDE DEF w
      <4>2. i - 1 = 2 /\ i # 0
        BY <3>5
      <4>3. w[3] = w[2] \o B(3)
        BY <4>1
      <4>4. QED
        BY <3>5, <4>2, <4>3
    <3>6. QED
      BY <3>1, <3>2, <3>3, <3>4, <3>5
  <2>2. w = [i \in 0..n |-> w[i]]
    OBVIOUS
  <2> HIDE DEF w
  <2>3. QED
    BY <2>1, <2>2
<1>4. U(f)
  <2> HIDE DEF U
  <2>1. QED
    BY <1>3
<1> HIDE DEF f, w
<1>5. f[0] = <<>> /\ \A i \in 1..n : f[i] = f[i - 1] \o B(i)
  <2>1. \A i \in 0..n : f[i] = IF i = 0 THEN <<>> ELSE f[i - 1] \o B(i)
    BY <1>4
  <2>2. 0 \in 0..n /\ \A i \in 1..n : i \in 0..n /\ i # 0
    BY <1>1
  <2>3. QED
    BY <2>1, <2>2
<1>6. Consecutive(f[0], s, ls, 0)
  <2>1. <<>> \in Seq(Byte) /\ Len(<<>>) = 0 /\ 1..0 = {}
    OBVIOUS
  <2>2. QED
    BY <1>5, <2>1, UptoIs DEF Consecutive
<1>7. ASSUME NEW i \in 1..n, Consecutive(f[i - 1], s, ls, i - 1)
      PROVE  Consecutive(f[i], s, ls, i)
  <2>1. Consecutive(f[i - 1] \o Bytes(s + i, 0, ls[i]), s, ls, i)
    BY <1>7, BodyStep DEF n
  <2>2. QED
    BY <1>5, <2>1 DEF B
<1>8. Consecutive(f[1], s, ls, 1)
  <2>1. 1 \in 1..n /\ 1 - 1 = 0
    BY <1>1
  <2>2. QED
    BY <1>6, <1>7, <2>1
<1>9. ASSUME n >= 2 PROVE Consecutive(f[2], s, ls, 2)
  <2>1. 2 \in 1..n /\ 2 - 1 = 1
    BY <1>1, <1>9
  <2>2. QED
    BY <1>7, <1>8, <2>1
<1>10. ASSUME n >= 3 PROVE Consecutive(f[3], s, ls, 3)
  <2>1. 3 \in 1..n /\ 3 - 1 = 2 /\ n >= 2
    BY <1>1, <1>10
  <2>2. QED
    BY <1>7, <1>9, <2>1
<1>11. n = 1 \/ (n = 2 /\ n >= 2) \/ (n = 3 /\ n >= 3)
  BY <1>1
<1>12. Consecutive(f[n], s, ls, n)
  BY <1>8, <1>9, <1>10, <1>11
<1>13. QED
  BY <1>2, <1>12 DEF n

(* The sender is at byte off of section sec, the last one begun. *)
SenderOK ==
  /\ snd \in [sec : 0..MaxSections, off : 0..MAXSEC, cc : 0..(CCMOD - 1)]
  /\ len \in Seq(Lens) /\ Len(len) = snd.sec
  /\ snd.sec > 0 => snd.off <= len[snd.sec]

(* m is a packet with l bytes more of the current section. *)
Continues(m, l) ==
  /\ ~ m.pkt.pusi /\ m.len = len
  /\ m.snd = [sec |-> snd.sec, off |-> snd.off + l, cc |-> (snd.cc + 1) % CCMOD]
  /\ m.pkt.bytes \in Seq(Byte) /\ Run(m.pkt.bytes, snd.sec, snd.off, l)
  /\ snd.sec > 0 /\ snd.off < len[snd.sec] /\ snd.off + l <= len[snd.sec]
  /\ l < Len(m.pkt.bytes) => snd.off + l = len[snd.sec]

(* The bytes of a packet in front of where its pointer field points, and behind. *)
Front(m) == SubSeq(m.pkt.bytes, 1, m.pkt.ptr)
Behind(m) == SubSeq(m.pkt.bytes, m.pkt.ptr + 1, Len(m.pkt.bytes))

(* m is a packet with the last l bytes of the current section and then others. *)
Begins(m, l, at) ==
  /\ m.pkt.pusi /\ m.pkt.count > 1
  /\ m.len \in Seq(Lens) /\ Len(m.len) = m.snd.sec /\ \A s \in 1..snd.sec : m.len[s] = len[s]
  /\ m.snd.sec \in (snd.sec + 1)..MaxSections /\ m.snd.off \in 0..m.len[m.snd.sec]
  /\ m.snd = [sec |-> m.snd.sec, off |-> m.snd.off, cc |-> (snd.cc + 1) % CCMOD]
  /\ Front(m) \in Seq(Byte) /\ Run(Front(m), snd.sec, snd.off, l)
  /\ l > 0 => snd.sec > 0 /\ snd.off + l <= len[snd.sec]
  /\ snd.sec > 0 => snd.off + l = len[snd.sec]
  /\ l = Len(Front(m))
  /\ Behind(m) \in Seq(Byte) /\ Len(Behind(m)) <= PACKET /\ Len(Behind(m)) > 0
  /\ Layout(Behind(m), m.len, snd.sec + 1, m.snd.sec, m.snd.off, at)

(* A payload has at least a byte and fits in a packet. *)
LEMMA CountRange ==
  ASSUME NEW c \in Counts
  PROVE  c \in Nat /\ c >= 1 /\ c <= PACKET
<1>1. c \in 1..(PACKET - 4)
  BY SectionsAssumption
<1>2. QED
  BY <1>1, Sizes

(* What is left of the current section. *)
LEMMA RestRange ==
  ASSUME SenderOK
  PROVE  /\ snd.sec \in Nat /\ snd.off \in Nat /\ Len(len) = snd.sec
         /\ Rest \in Nat /\ Rest = IF snd.sec = 0 THEN 0 ELSE len[snd.sec] - snd.off
         /\ snd.sec > 0 => snd.off + Rest = len[snd.sec] /\ len[snd.sec] \in Nat
                           /\ len[snd.sec] <= MAXSEC /\ snd.sec \in 1..MaxSections
<1>1. snd.sec \in Nat /\ snd.off \in Nat /\ snd.sec <= MaxSections
  BY Sizes DEF SenderOK
<1>2. ASSUME snd.sec > 0 PROVE len[snd.sec] \in Nat /\ len[snd.sec] <= MAXSEC
  <2>1. snd.sec \in 1..Len(len)
    BY <1>1, <1>2 DEF SenderOK
  <2>2. QED
    BY <2>1, LenRange DEF SenderOK
<1>3. Rest = IF snd.sec = 0 THEN 0 ELSE len[snd.sec] - snd.off
  BY DEF Rest
<1>4. CASE snd.sec = 0
  BY <1>1, <1>3, <1>4 DEF SenderOK
<1>5. CASE snd.sec > 0
  <2>1. snd.off <= len[snd.sec] /\ Len(len) = snd.sec
    BY <1>5 DEF SenderOK
  <2>2. QED
    BY <1>1, <1>2, <1>3, <1>5, <2>1, Sizes
<1>6. QED
  BY <1>1, <1>4, <1>5

(* The next n bytes of a section. *)
LEMMA NextBytes ==
  ASSUME NEW s \in 1..MaxSections, NEW from \in Nat, NEW n \in Nat, from + n <= MAXSEC
  PROVE  /\ Bytes(s, from, from + n) \in Seq(Byte) /\ Len(Bytes(s, from, from + n)) = n
         /\ \A i \in 1..n : Bytes(s, from, from + n)[i] = <<s, from + i - 1>>
<1> DEFINE to == from + n
<1>1. to \in Nat /\ from <= to /\ to <= MAXSEC /\ to - from = n
  OBVIOUS
<1> HIDE DEF to
<1>2. /\ Bytes(s, from, to) \in Seq(Byte) /\ Len(Bytes(s, from, to)) = to - from
      /\ \A i \in 1..(to - from) : Bytes(s, from, to)[i] = <<s, from + i - 1>>
  BY <1>1, BytesIs
<1>3. QED
  BY <1>1, <1>2 DEF to

(* The bytes of a packet in which no section starts. *)
LEMMA ContinuingIs ==
  ASSUME SenderOK, NEW c \in Counts, Rest > 0
  PROVE  Continues(Continuing(c), Left(c))
<1> DEFINE l == Left(c)
           m == Continuing(c)
           p == Bytes(snd.sec, snd.off, snd.off + l)
           q == Stuffing(c - l)
<1>1. c \in Nat /\ c >= 1
  BY CountRange
<1>2. /\ Rest \in Nat /\ snd.sec \in Nat /\ snd.sec > 0 /\ snd.off \in Nat
      /\ snd.off + Rest = len[snd.sec] /\ len[snd.sec] \in Nat /\ len[snd.sec] <= MAXSEC
      /\ snd.sec \in 1..MaxSections
  BY RestRange
<1>3. l \in Nat /\ l <= c /\ l <= Rest /\ (l < c => l = Rest) /\ l > 0
  BY <1>1, <1>2 DEF Left
<1> HIDE DEF l
<1>4. snd.off < len[snd.sec] /\ snd.off + l <= len[snd.sec] /\ (l < c => snd.off + l = len[snd.sec])
  BY <1>2, <1>3
<1>5. p \in Seq(Byte) /\ Len(p) = l /\ \A i \in 1..l : p[i] = <<snd.sec, snd.off + i - 1>>
  <2>1. snd.off + l <= MAXSEC
    BY <1>2, <1>3, <1>4, Sizes
  <2>2. QED
    BY <1>2, <1>3, <2>1, NextBytes
<1>6. c - l \in Nat
  BY <1>1, <1>3
<1>7. q \in Seq(Byte) /\ Len(q) = c - l /\ \A i \in 1..(c - l) : q[i] = STUFF
  BY <1>6, StuffingIs
<1> DEFINE b == m.pkt.bytes
<1>8. /\ ~ m.pkt.pusi /\ m.len = len /\ b = p \o q
      /\ m.snd = [sec |-> snd.sec, off |-> snd.off + l, cc |-> (snd.cc + 1) % CCMOD]
  <2>1. m.snd = [snd EXCEPT !.off = @ + l, !.cc = (@ + 1) % CCMOD]
    BY DEF Continuing, l
  <2>2. m.snd = [sec |-> snd.sec, off |-> snd.off + l, cc |-> (snd.cc + 1) % CCMOD]
    BY <2>1 DEF SenderOK
  <2>3. QED
    BY <2>2 DEF Continuing, l
<1> HIDE DEF p, q, m, b
<1>9. /\ b \in Seq(Byte) /\ Len(b) = Len(p) + Len(q)
      /\ \A i \in 1..Len(p) : b[i] = p[i]
      /\ \A i \in 1..Len(q) : b[Len(p) + i] = q[i]
  BY <1>5, <1>7, <1>8, ConcatIs
<1>10. Len(b) = c
  BY <1>1, <1>3, <1>5, <1>7, <1>9
<1>11. Run(b, snd.sec, snd.off, l)
  <2>1. l \in 0..Len(b)
    BY <1>1, <1>3, <1>10
  <2>2. \A i \in 1..l : b[i] = <<snd.sec, snd.off + i - 1>>
    BY <1>5, <1>9
  <2>3. ASSUME NEW i \in (l + 1)..Len(b) PROVE b[i] = STUFF
    <3>1. i - l \in 1..(c - l) /\ l + (i - l) = i
      BY <1>1, <1>3, <1>10
    <3>2. b[l + (i - l)] = q[i - l]
      BY <1>5, <1>7, <1>9, <3>1
    <3>3. QED
      BY <1>7, <3>1, <3>2
  <2>4. QED
    BY <2>1, <2>2, <2>3 DEF Run
<1>12. QED
  BY <1>2, <1>4, <1>8, <1>9, <1>10, <1>11 DEF Continues, m, l, b

(* The last section that starts in a packet has a byte of it. *)
LEMMA StartsFacts ==
  ASSUME NEW room \in Nat, room > 0, NEW ls \in Starts(room)
  PROVE  /\ ls \in Seq(Lens) /\ Len(ls) \in 1..3
         /\ Upto(ls)[Len(ls) - 1] < room
<1>1. CASE \E l \in Lens : ls = <<l>>
  <2>1. ls \in Seq(Lens) /\ Len(ls) = 1 /\ Len(ls) \in 1..3 /\ Len(ls) - 1 = 0
    BY <1>1
  <2>2. Upto(ls)[0] = 0
    BY <2>1, UptoIs
  <2>3. QED
    BY <2>1, <2>2
<1>2. CASE \E l \in {x \in Lens : x < room}, m \in Lens : ls = <<l, m>>
  <2>1. PICK l \in {x \in Lens : x < room}, m \in Lens : ls = <<l, m>>
    BY <1>2
  <2>2. /\ ls \in Seq(Lens) /\ Len(ls) = 2 /\ Len(ls) \in 1..3 /\ Len(ls) - 1 = 1
        /\ ls[1] = l /\ l < room /\ 1 \in 1..Len(ls)
    BY <2>1
  <2>3. Upto(ls)[0] = 0 /\ Upto(ls)[1] = Upto(ls)[1 - 1] + ls[1]
    BY <2>2, UptoIs
  <2>4. ls[1] \in Nat
    BY <2>2, LenRange
  <2>5. Upto(ls)[1] = l
    <3>1. Upto(ls)[1 - 1] = 0
      BY <2>3
    <3>2. QED
      BY <2>2, <2>3, <2>4, <3>1
  <2>6. QED
    BY <2>2, <2>5
<1>3. CASE \E q \in {y \in Lens \X Lens : y[1] + y[2] < room}, m \in Lens : ls = <<q[1], q[2], m>>
  <2>1. PICK q \in {y \in Lens \X Lens : y[1] + y[2] < room}, m \in Lens : ls = <<q[1], q[2], m>>
    BY <1>3
  <2>2. q[1] \in Lens /\ q[2] \in Lens /\ q[1] + q[2] < room
    BY <2>1
  <2>3. /\ ls \in Seq(Lens) /\ Len(ls) = 3 /\ Len(ls) \in 1..3 /\ Len(ls) - 1 = 2
        /\ ls[1] = q[1] /\ ls[2] = q[2] /\ 1 \in 1..Len(ls) /\ 2 \in 1..Len(ls)
    BY <2>1, <2>2
  <2>4. /\ Upto(ls)[0] = 0 /\ Upto(ls)[1] = Upto(ls)[1 - 1] + ls[1]
        /\ Upto(ls)[2] = Upto(ls)[2 - 1] + ls[2]
    BY <2>3, UptoIs
  <2>5. ls[1] \in Nat /\ ls[2] \in Nat
    BY <2>3, LenRange
  <2>6. Upto(ls)[2] = q[1] + q[2]
    <3>1. Upto(ls)[1 - 1] = 0 /\ Upto(ls)[2 - 1] = Upto(ls)[1]
      BY <2>4
    <3>2. Upto(ls)[1] = ls[1]
      BY <2>4, <2>5, <3>1
    <3>3. QED
      BY <2>3, <2>4, <3>1, <3>2
  <2>7. QED
    BY <2>2, <2>3, <2>6
<1>4. QED
  BY <1>1, <1>2, <1>3 DEF Starts

(* The lengths ln end in ls, that of section s + 1 first. *)
Follows(ln, ls, s) ==
  /\ ln \in Seq(Lens) /\ Len(ln) = s + Len(ls)
  /\ \A i \in 1..Len(ls) : ln[s + i] = ls[i]

(* The last section starts at v and has length l; this much of it is sent. *)
SentOff(v, l, room) == l - (IF v + l < room THEN 0 ELSE (v + l) - room)
(* It is no more than the section, nor than the room in the packet. *)
LEMMA SentOfLast ==
  ASSUME NEW v \in Nat, NEW l \in Nat, NEW room \in Nat, v < room
  PROVE  /\ SentOff(v, l, room) \in 0..l /\ SentOff(v, l, room) \in Nat
         /\ v + SentOff(v, l, room) <= room /\ v + SentOff(v, l, room) <= v + l
         /\ v + SentOff(v, l, room) < room => SentOff(v, l, room) = l
         /\ v + SentOff(v, l, room) < v + l => v + SentOff(v, l, room) = room
  BY DEF SentOff

(* The first n of the bytes x. *)
LEMMA PrefixIs ==
  ASSUME NEW x, NEW n \in Nat, \A i \in 1..n : x[i] \in Byte
  PROVE  /\ SubSeq(x, 1, n) \in Seq(Byte) /\ Len(SubSeq(x, 1, n)) = n
         /\ \A i \in 1..n : SubSeq(x, 1, n)[i] = x[i]
<1>1. /\ SubSeq(x, 1, n) \in Seq(Byte)
      /\ Len(SubSeq(x, 1, n)) = IF 1 <= n THEN n - 1 + 1 ELSE 0
      /\ \A i \in 1..(n - 1 + 1) : SubSeq(x, 1, n)[i] = x[1 + i - 1]
  BY SubSeqProperties
<1>2. n - 1 + 1 = n /\ (IF 1 <= n THEN n ELSE 0) = n /\ \A i \in 1..n : 1 + i - 1 = i
  OBVIOUS
<1>3. QED
  BY <1>1, <1>2

(* The part of a packet behind the pointer: sections of lengths ls behind    *)
(* section s, cut or filled up to room bytes.                               *)
Cut(ls, s, room, ln, q, off) ==
  /\ ls \in Seq(Lens) /\ Len(ls) \in 1..3 /\ s \in Nat /\ s + Len(ls) <= MaxSections
  /\ room \in Nat /\ room > 0 /\ Upto(ls)[Len(ls) - 1] < room /\ room <= PACKET
  /\ Follows(ln, ls, s) /\ q = SubSeq(Body(s, ls) \o Stuffing(room), 1, room)
  /\ off = SentOff(Upto(ls)[Len(ls) - 1], ls[Len(ls)], room)

(* A byte that is sent is in the packet. *)
LEMMA SentIsInRoom ==
  ASSUME NEW v \in Nat, NEW k \in Nat, NEW w \in Nat, NEW o \in Nat, NEW room \in Nat,
         v + k < w + o, w + o <= room
  PROVE  v + k + 1 \in 1..room
  OBVIOUS

(* Such bytes are a layout of the sections that start in the packet. *)
LEMMA BehindIs ==
  ASSUME NEW ls, NEW s, NEW room, NEW ln, NEW q, NEW off, Cut(ls, s, room, ln, q, off)
  PROVE  /\ q \in Seq(Byte) /\ Len(q) = room /\ off \in 0..ls[Len(ls)]
         /\ \E at : Layout(q, ln, s + 1, s + Len(ls), off, at)
<1> DEFINE n == Len(ls)
           u == Upto(ls)
           body == Body(s, ls)
           all == u[n]
           b == s + n
           at == [t \in (s + 1)..(b + 1) |-> u[(t - s) - 1]]
<1>0. /\ ls \in Seq(Lens) /\ n \in 1..3 /\ s \in Nat /\ s + n <= MaxSections
      /\ room \in Nat /\ room > 0 /\ u[n - 1] < room /\ room <= PACKET
  BY DEF Cut
<1>1. n \in 1..3 /\ n \in Nat /\ s \in Nat /\ room \in Nat
  BY <1>0
<1>2. /\ u[0] = 0
      /\ \A i \in 1..n : u[i] = u[i - 1] + ls[i] /\ u[i] \in Nat /\ u[i - 1] \in Nat
  BY <1>0, UptoIs
<1>3. \A i \in 1..n : ls[i] \in Nat /\ ls[i] >= 3
  BY <1>0, LenRange
<1>4. /\ body \in Seq(Byte) /\ Len(body) = all
      /\ \A j \in 1..n : \A k \in 0..(ls[j] - 1) : /\ u[j - 1] + k + 1 \in 1..Len(body)
                                                   /\ body[u[j - 1] + k + 1] = <<s + j, k>>
  BY <1>0, BodyIs DEF Consecutive
<1> HIDE DEF u, body, n
<1>5. /\ all \in Nat /\ all = u[n - 1] + ls[n] /\ u[n - 1] \in Nat /\ ls[n] \in Nat
  <2>1. n \in 1..n
    BY <1>1
  <2>2. QED
    BY <1>2, <1>3, <2>1
<1> HIDE DEF all
<1>6. /\ q \in Seq(Byte) /\ Len(q) = room
      /\ \A i \in 1..room : i <= all => q[i] = body[i]
      /\ \A i \in 1..room : i > all => q[i] = STUFF
  <2> DEFINE x == body \o Stuffing(room)
  <2>1. Stuffing(room) \in Seq(Byte) /\ Len(Stuffing(room)) = room
        /\ \A i \in 1..room : Stuffing(room)[i] = STUFF
    BY <1>1, StuffingIs
  <2>2. /\ x \in Seq(Byte) /\ Len(x) = all + room
        /\ \A i \in 1..all : x[i] = body[i]
        /\ \A i \in 1..room : x[all + i] = STUFF
    <3> DEFINE y == Stuffing(room)
    <3>1. /\ x \in Seq(Byte) /\ Len(x) = Len(body) + Len(y)
          /\ \A i \in 1..Len(body) : x[i] = body[i]
          /\ \A i \in 1..Len(y) : x[Len(body) + i] = y[i]
      BY <1>4, <2>1, ConcatIs
    <3> HIDE DEF x, y
    <3>2. Len(body) = all /\ Len(y) = room /\ \A i \in 1..room : y[i] = STUFF
      BY <1>4, <2>1 DEF y
    <3>3. QED
      BY <3>1, <3>2
  <2>3. q = SubSeq(x, 1, room)
    BY DEF body, Cut
  <2> HIDE DEF x
  <2>4. q \in Seq(Byte) /\ Len(q) = room /\ \A i \in 1..room : q[i] = x[i]
    <3>1. all + room \in Nat /\ \A i \in 1..room : i \in 1..(all + room)
      BY <1>1, <1>5
    <3>2. \A i \in 1..room : x[i] \in Byte
      BY <2>2, <3>1
    <3>3. QED
      BY <1>1, <2>3, <3>2, PrefixIs
  <2>5. ASSUME NEW i \in 1..room, i > all PROVE q[i] = STUFF
    <3>1. i - all \in 1..room /\ all + (i - all) = i
      BY <1>1, <1>5, <2>5
    <3>2. x[all + (i - all)] = STUFF
      BY <2>2, <3>1
    <3>3. QED
      BY <2>4, <3>1, <3>2
  <2>6. ASSUME NEW i \in 1..room, i <= all PROVE q[i] = body[i]
    <3>1. i \in 1..all
      BY <1>1, <1>5, <2>6
    <3>2. QED
      BY <2>2, <2>4, <3>1
  <2>7. QED
    BY <2>4, <2>5, <2>6
<1>7. /\ off \in 0..ls[n] /\ off \in Nat
      /\ u[n - 1] + off <= room /\ u[n - 1] + off <= all
      /\ u[n - 1] + off < room => off = ls[n]
      /\ u[n - 1] + off < all => u[n - 1] + off = room
  <2> DEFINE v == u[n - 1]
             l == ls[n]
  <2>1. v < room /\ off = SentOff(v, l, room) /\ all = v + l /\ v \in Nat /\ l \in Nat
    BY <1>0, <1>5 DEF u, n, Cut
  <2> HIDE DEF v, l
  <2>2. /\ off \in 0..l /\ off \in Nat /\ v + off <= room /\ v + off <= v + l
        /\ v + off < room => off = l
        /\ v + off < v + l => v + off = room
    BY <1>1, <2>1, SentOfLast
  <2>3. QED
    BY <2>1, <2>2 DEF v, l
<1>8. /\ b \in Nat /\ s + 1 \in 1..b /\ b \in 1..Len(ln) /\ ln[b] = ls[n]
  <2>1. n \in 1..n /\ Len(ln) = s + n
    <3>1. n \in 1..n
      BY <1>1
    <3>2. Len(ln) = s + n
      BY DEF n, Follows, Cut
    <3>3. QED
      BY <3>1, <3>2
  <2>2. ln[s + n] = ls[n]
    BY <2>1 DEF n, Follows, Cut
  <2>3. QED
    BY <1>1, <2>1, <2>2
<1>9. at \in [(s + 1)..(b + 1) -> Nat] /\ at[s + 1] = 0
  <2>1. ASSUME NEW t \in (s + 1)..(b + 1) PROVE u[(t - s) - 1] \in Nat
    <3>1. t - s \in 1..(n + 1)
      BY <1>1
    <3>2. CASE t - s = 1
      BY <1>2, <3>2
    <3>3. CASE t - s # 1
      <4>1. (t - s) - 1 \in 1..n
        BY <1>1, <3>1, <3>3
      <4>2. QED
        BY <1>2, <4>1
    <3>4. QED
      BY <3>2, <3>3
  <2>2. s + 1 \in (s + 1)..(b + 1) /\ ((s + 1) - s) - 1 = 0
    BY <1>1
  <2>3. at[s + 1] = u[((s + 1) - s) - 1]
    BY <2>2
  <2>4. at[s + 1] = 0
    <3> HIDE DEF at
    <3>1. QED
      BY <1>2, <2>2, <2>3
  <2>5. QED
    BY <2>1, <2>4
<1>10. ASSUME NEW t \in (s + 1)..b
       PROVE  /\ t - s \in 1..n /\ at[t] = u[(t - s) - 1] /\ ln[t] = ls[t - s]
              /\ at[t + 1] = at[t] + ln[t] /\ s + (t - s) = t
  <2>1. t - s \in 1..n /\ s + (t - s) = t
    BY <1>1
  <2>2. t \in (s + 1)..(b + 1) /\ t + 1 \in (s + 1)..(b + 1) /\ ((t + 1) - s) - 1 = t - s
    BY <1>1
  <2>3. at[t] = u[(t - s) - 1] /\ at[t + 1] = u[t - s]
    <3>1. at[t] = u[(t - s) - 1] /\ at[t + 1] = u[((t + 1) - s) - 1]
      BY <2>2
    <3> HIDE DEF at
    <3>2. QED
      BY <2>2, <3>1
  <2>4. ln[s + (t - s)] = ls[t - s]
    BY <2>1 DEF n, Follows, Cut
  <2>5. u[t - s] = u[(t - s) - 1] + ls[t - s]
    BY <1>2, <2>1
  <2>6. QED
    BY <2>1, <2>3, <2>4, <2>5
<1>11. at[b] = u[n - 1]
  <2>1. b \in (s + 1)..b /\ (b - s) - 1 = n - 1
    BY <1>1, <1>8
  <2>2. QED
    BY <1>10, <2>1
<1> HIDE DEF at
<1>12. at[b] <= PACKET /\ at[b] + off <= Len(q)
  <2>1. u[n - 1] < room /\ room <= PACKET
    BY <1>0
  <2>2. QED
    BY <1>1, <1>5, <1>6, <1>7, <1>11, <2>1, Sizes
<1>13. ASSUME NEW t \in (s + 1)..b, NEW k \in 0..(ln[t] - 1), at[t] + k < at[b] + off
       PROVE  q[at[t] + k + 1] = <<t, k>>
  <2> DEFINE j == t - s
             x == u[j - 1] + k + 1
  <2>1. j \in 1..n /\ at[t] = u[j - 1] /\ ln[t] = ls[j] /\ s + j = t
    BY <1>10
  <2> HIDE DEF j
  <2>2. k \in 0..(ls[j] - 1) /\ k \in Nat /\ u[j - 1] \in Nat
    BY <1>2, <1>3, <2>1
  <2>3. body[x] = <<t, k>> /\ x \in 1..all
    <3>1. x \in 1..all /\ body[x] = <<s + j, k>>
      BY <1>4, <2>1, <2>2
    <3>2. QED
      BY <2>1, <3>1
  <2>4. x \in 1..room
    <3> DEFINE v == u[j - 1]
               w == u[n - 1]
    <3>1. v \in Nat /\ k \in Nat /\ room \in Nat
      BY <1>1, <2>2
    <3>2. w \in Nat /\ off \in Nat /\ w + off <= room
      BY <1>5, <1>7
    <3>3. v + k < w + off
      BY <1>11, <1>13, <2>1
    <3> HIDE DEF v, w
    <3>4. v + k + 1 \in 1..room
      BY <3>1, <3>2, <3>3, SentIsInRoom
    <3>5. QED
      BY <3>4 DEF v
  <2> HIDE DEF x
  <2>5. q[x] = body[x]
    BY <1>1, <1>5, <1>6, <2>3, <2>4
  <2>6. QED
    BY <2>1, <2>3, <2>5 DEF x
<1>14. ASSUME NEW i \in (at[b] + off + 1)..Len(q) PROVE q[i] = STUFF
  <2>1. i \in 1..room /\ i > all
    BY <1>1, <1>5, <1>6, <1>7, <1>11, SMTT(30)
  <2>2. QED
    BY <1>6, <2>1
<1>15. at[b] + off < Len(q) => off = ln[b]
  BY <1>1, <1>6, <1>7, <1>8, <1>11
<1>16. Layout(q, ln, s + 1, b, off, at)
  BY <1>7, <1>8, <1>9, <1>10, <1>12, <1>13, <1>14, <1>15 DEF Layout
<1>17. QED
  BY <1>6, <1>7, <1>16 DEF n

(* The two parts of a concatenation. *)
LEMMA SplitConcat ==
  ASSUME NEW p \in Seq(Byte), NEW q \in Seq(Byte)
  PROVE  /\ SubSeq(p \o q, 1, Len(p)) = p
         /\ SubSeq(p \o q, Len(p) + 1, Len(p \o q)) = q
<1> DEFINE x == p \o q
           n == Len(p)
           k == Len(q)
<1>1. n \in Nat /\ k \in Nat
  OBVIOUS
<1>2. /\ x \in Seq(Byte) /\ Len(x) = n + k
      /\ \A i \in 1..n : x[i] = p[i]
      /\ \A i \in 1..k : x[n + i] = q[i]
  BY ConcatIs
<1> HIDE DEF x, n, k
<1>3. SubSeq(x, 1, n) = p
  <2> DEFINE y == SubSeq(x, 1, n)
  <2>1. \A i \in 1..n : x[i] \in Byte
    BY <1>2 DEF n
  <2>2. y \in Seq(Byte) /\ Len(y) = n /\ \A i \in 1..n : y[i] = x[i]
    BY <1>1, <2>1, PrefixIs
  <2> HIDE DEF y
  <2>3. Len(y) = Len(p) /\ \A i \in 1..Len(y) : y[i] = p[i]
    BY <1>2, <2>2 DEF n
  <2>4. y = p
    BY <2>2, <2>3, SeqEqual
  <2>5. QED
    BY <2>4 DEF y
<1>4. SubSeq(x, n + 1, n + k) = q
  <2> DEFINE y == SubSeq(x, n + 1, n + k)
  <2>1. ASSUME NEW i \in (n + 1)..(n + k) PROVE x[i] \in Byte
    <3>1. i \in 1..Len(x)
      BY <1>1, <1>2
    <3>2. QED
      BY <1>2, <3>1
  <2>2. n + 1 \in Int /\ n + k \in Int
    BY <1>1
  <2>3. /\ y \in Seq(Byte)
        /\ Len(y) = IF n + 1 <= n + k THEN (n + k) - (n + 1) + 1 ELSE 0
        /\ \A i \in 1..((n + k) - (n + 1) + 1) : y[i] = x[(n + 1) + i - 1]
    BY <2>1, <2>2, SubSeqProperties
  <2> HIDE DEF y
  <2>4. /\ (n + k) - (n + 1) + 1 = k /\ (n + 1 <= n + k <=> k >= 1)
        /\ \A i \in 1..k : (n + 1) + i - 1 = n + i
    BY <1>1
  <2>5. Len(y) = k
    BY <1>1, <2>3, <2>4
  <2>6. ASSUME NEW i \in 1..k PROVE y[i] = q[i]
    BY <1>2, <2>3, <2>4
  <2>7. Len(y) = Len(q) /\ \A i \in 1..Len(y) : y[i] = q[i]
    BY <2>5, <2>6 DEF k
  <2>8. y = q
    BY <2>3, <2>7, SeqEqual
  <2>9. QED
    BY <2>8 DEF y
<1>5. QED
  BY <1>2, <1>3, <1>4 DEF x, n

(* The lengths of the sections that were begun, and more. *)
LEMMA ConcatLens ==
  ASSUME NEW p \in Seq(Lens), NEW q \in Seq(Lens)
  PROVE  /\ p \o q \in Seq(Lens) /\ Len(p \o q) = Len(p) + Len(q)
         /\ \A i \in 1..Len(p) : (p \o q)[i] = p[i]
         /\ \A i \in 1..Len(q) : (p \o q)[Len(p) + i] = q[i]
  OBVIOUS

(* The last of up to three positions is one. *)
LEMMA LastPosition ==
  ASSUME NEW n \in 1..3
  PROVE  n \in 1..n
  OBVIOUS

(* A packet in which sections start. *)
LEMMA StartingIs ==
  ASSUME SenderOK, NEW c \in Counts, Rest + 1 < c, NEW ls \in Starts(c - 1 - Rest),
         snd.sec + Len(ls) <= MaxSections
  PROVE  \E at : Begins(Starting(c, ls), Rest, at)
<1> DEFINE m == Starting(c, ls)
           l == Rest
           n == Len(ls)
           s == snd.sec
           room == c - 1 - l
           p == Bytes(s, snd.off, snd.off + l)
           q == SubSeq(Body(s, ls) \o Stuffing(room), 1, room)
           off == SentOff(Upto(ls)[n - 1], ls[n], room)
           ln == len \o ls
<1>1. c \in Nat /\ c <= PACKET
  BY CountRange
<1>2. /\ l \in Nat /\ s \in Nat /\ snd.off \in Nat /\ Len(len) = s
      /\ l = IF s = 0 THEN 0 ELSE len[s] - snd.off
      /\ s > 0 => snd.off + l = len[s] /\ len[s] \in Nat /\ len[s] <= MAXSEC /\ s \in 1..MaxSections
  BY RestRange
<1> HIDE DEF l
<1>3. room \in Nat /\ room > 0 /\ room <= PACKET /\ c > 1
  <2>1. l + 1 < c
    BY DEF l
  <2>2. QED
    BY <1>1, <1>2, <2>1, Sizes
<1>4. ls \in Seq(Lens) /\ n \in 1..3 /\ Upto(ls)[n - 1] < room
  <2>1. ls \in Starts(room)
    BY DEF l
  <2> HIDE DEF room
  <2>2. QED
    BY <1>3, <2>1, StartsFacts
<1>5. /\ ln \in Seq(Lens) /\ Len(ln) = s + n /\ \A i \in 1..s : ln[i] = len[i]
      /\ \A i \in 1..n : ln[s + i] = ls[i]
  <2>1. len \in Seq(Lens) /\ Len(len) = s
    BY <1>2 DEF SenderOK
  <2> HIDE DEF s, n
  <2>2. /\ ln \in Seq(Lens) /\ Len(ln) = Len(len) + Len(ls) /\ \A i \in 1..Len(len) : ln[i] = len[i]
        /\ \A i \in 1..Len(ls) : ln[Len(len) + i] = ls[i]
    BY <1>4, <2>1, ConcatLens
  <2> HIDE DEF ln
  <2>3. QED
    BY <2>1, <2>2 DEF n
<1>6. p \in Seq(Byte) /\ Len(p) = l /\ \A i \in 1..l : p[i] = <<s, snd.off + i - 1>>
  <2>1. CASE s = 0
    <3>1. l = 0 /\ snd.off + l = snd.off /\ snd.off - snd.off = 0 /\ 1..0 = {}
      BY <1>2, <2>1
    <3>2. p = [i \in 1..0 |-> <<s, snd.off + i - 1>>]
      BY <3>1 DEF Bytes
    <3> HIDE DEF p
    <3>3. p \in [1..0 -> Byte]
      BY <3>1, <3>2
    <3>4. p \in Seq(Byte) /\ Len(p) = 0
      BY <3>3
    <3>5. QED
      BY <3>1, <3>4
  <2>2. CASE s > 0
    <3>1. s \in 1..MaxSections /\ snd.off + l <= MAXSEC
      BY <1>2, <2>2
    <3> DEFINE from == snd.off
    <3>2. from \in Nat /\ l \in Nat /\ from + l <= MAXSEC
      BY <1>2, <3>1
    <3> HIDE DEF from, s
    <3>3. /\ Bytes(s, from, from + l) \in Seq(Byte) /\ Len(Bytes(s, from, from + l)) = l
          /\ \A i \in 1..l : Bytes(s, from, from + l)[i] = <<s, from + i - 1>>
      BY <3>1, <3>2, NextBytes
    <3>4. QED
      BY <3>3 DEF from, s
  <2>3. QED
    BY <1>2, <2>1, <2>2
<1> HIDE DEF p, ln
<1>7. Follows(ln, ls, s)
  BY <1>5 DEF Follows
<1>8. Cut(ls, s, room, ln, q, off)
  <2> HIDE DEF room, q, off
  <2>1. q = SubSeq(Body(s, ls) \o Stuffing(room), 1, room) /\ off = SentOff(Upto(ls)[n - 1], ls[n], room)
    BY DEF q, off
  <2>2. QED
    BY <1>2, <1>3, <1>4, <1>7, <2>1 DEF Cut
<1> HIDE DEF q, off, room
<1>9. /\ q \in Seq(Byte) /\ Len(q) = room /\ off \in 0..ls[n]
      /\ \E at : Layout(q, ln, s + 1, s + n, off, at)
  BY <1>8, BehindIs
<1>10. PICK at : Layout(q, ln, s + 1, s + n, off, at)
  BY <1>9
<1>11. /\ m.pkt.pusi /\ m.pkt.ptr = l /\ m.pkt.count = c /\ m.pkt.bytes = p \o q
       /\ m.snd = [sec |-> s + n, off |-> off, cc |-> (snd.cc + 1) % CCMOD]
       /\ m.len = ln
  <2>1. m = [pkt |-> [pusi |-> TRUE, ptr |-> l, count |-> c, bytes |-> p \o q],
             snd |-> [sec |-> s + n,
                      off |-> ls[n] - (IF Upto(ls)[n] < room THEN 0 ELSE Upto(ls)[n] - room),
                      cc |-> (snd.cc + 1) % CCMOD],
             len |-> ln]
    BY DEF Starting, l, p, q, ln, room
  <2>2. Upto(ls)[n] = Upto(ls)[n - 1] + ls[n]
    <3>1. n \in 1..n
      BY <1>4, LastPosition
    <3>2. ls \in Seq(Lens) /\ Len(ls) \in 1..3 /\ n \in 1..Len(ls)
      BY <1>4, <3>1
    <3> HIDE DEF n
    <3>3. QED
      BY <3>2, UptoIs
  <2>3. ls[n] - (IF Upto(ls)[n] < room THEN 0 ELSE Upto(ls)[n] - room) = off
    BY <2>2 DEF SentOff, off
  <2> HIDE DEF m
  <2>4. /\ m.pkt = [pusi |-> TRUE, ptr |-> l, count |-> c, bytes |-> p \o q] /\ m.len = ln
        /\ m.snd = [sec |-> s + n, off |-> off, cc |-> (snd.cc + 1) % CCMOD]
    BY <2>1, <2>3
  <2>5. QED
    BY <2>4
<1> HIDE DEF m
<1>12. Front(m) = p /\ Behind(m) = q
  <2>1. SubSeq(p \o q, 1, Len(p)) = p /\ SubSeq(p \o q, Len(p) + 1, Len(p \o q)) = q
    BY <1>6, <1>9, SplitConcat
  <2>2. m.pkt.bytes = p \o q /\ m.pkt.ptr = Len(p)
    BY <1>6, <1>11
  <2>3. QED
    BY <2>1, <2>2 DEF Front, Behind
<1>13. Run(p, s, snd.off, l)
  <2>1. l \in 0..Len(p) /\ (l + 1)..Len(p) = {}
    BY <1>2, <1>6
  <2>2. QED
    BY <1>6, <2>1 DEF Run
<1>14. /\ l > 0 => s > 0 /\ snd.off + l <= len[s]
       /\ s > 0 => snd.off + l = len[s]
  BY <1>2
<1>15. m.snd.sec = s + n /\ m.snd.off = off /\ ln[s + n] = ls[n]
  <2> HIDE DEF s, n
  <2>1. n \in 1..n
    BY <1>4, LastPosition
  <2>2. ln[s + n] = ls[n]
    BY <1>5, <2>1
  <2>3. QED
    BY <1>11, <2>2
<1>16. s + n \in (s + 1)..MaxSections
  <2>1. s + n <= MaxSections
    OBVIOUS
  <2> HIDE DEF s, n
  <2>2. QED
    BY <1>2, <1>4, <2>1, Sizes
<1> HIDE DEF s, n
<1>17. /\ m.pkt.pusi /\ m.pkt.count > 1 /\ m.len \in Seq(Lens) /\ Len(m.len) = m.snd.sec
       /\ m.snd.sec \in (s + 1)..MaxSections /\ m.snd.off \in 0..m.len[m.snd.sec]
       /\ m.snd = [sec |-> m.snd.sec, off |-> m.snd.off, cc |-> (snd.cc + 1) % CCMOD]
       /\ \A i \in 1..s : m.len[i] = len[i]
  BY <1>3, <1>5, <1>9, <1>11, <1>15, <1>16
<1>18. /\ Front(m) \in Seq(Byte) /\ Run(Front(m), s, snd.off, l) /\ l = Len(Front(m))
       /\ Behind(m) \in Seq(Byte) /\ Len(Behind(m)) <= PACKET /\ Len(Behind(m)) > 0
       /\ Layout(Behind(m), m.len, s + 1, m.snd.sec, m.snd.off, at)
  BY <1>3, <1>6, <1>9, <1>10, <1>11, <1>12, <1>13, <1>15
<1>19. Begins(m, l, at)
  BY <1>14, <1>17, <1>18 DEF Begins, s
<1>20. QED
  BY <1>19 DEF m, l

(* Every packet continues a section or begins others. *)
LEMMA SendableIs ==
  ASSUME SenderOK, NEW m \in Sendable
  PROVE  \E l \in Nat : Continues(m, l) \/ \E at : Begins(m, l, at)
<1>0. Rest \in Nat
  BY RestRange
<1>1. CASE \E c \in {x \in Counts : Rest > 0} : m = Continuing(c)
  <2>1. PICK c \in Counts : Rest > 0 /\ m = Continuing(c)
    BY <1>1
  <2>2. Left(c) \in Nat
    BY <1>0, CountRange DEF Left
  <2>3. QED
    BY <2>1, <2>2, ContinuingIs
<1>2. CASE \E c \in {x \in Counts : Rest + 1 < x} :
             \E ls \in {q \in Starts(c - 1 - Rest) : snd.sec + Len(q) <= MaxSections} :
               m = Starting(c, ls)
  <2>1. PICK c \in Counts : Rest + 1 < c /\
          \E ls \in {q \in Starts(c - 1 - Rest) : snd.sec + Len(q) <= MaxSections} :
            m = Starting(c, ls)
    BY <1>2
  <2>2. PICK ls \in Starts(c - 1 - Rest) : snd.sec + Len(ls) <= MaxSections /\ m = Starting(c, ls)
    BY <2>1
  <2>3. QED
    BY <1>0, <2>1, <2>2, StartingIs
<1>3. QED
  BY <1>1, <1>2 DEF Sendable

-----------------------------------------------------------------------------
(* What a dump gives, against what was given before. *)

(* No byte behind p is of a section in G or of an earlier one. *)
NotAgain(buf, p, G) ==
  \A i \in (p + 1)..Len(buf) : buf[i][1] > 0 => \A s \in G : s < buf[i][1]

(* The sections among the pieces that were given. *)
Whole(out) == {s \in {out[i] : i \in DOMAIN out} : s > 0}

(* Membership in Whole, by position. *)
LEMMA WholeIs ==
  ASSUME NEW n \in Nat, NEW out \in Seq(0..n), NEW s
  PROVE  s \in Whole(out) <=> \E x \in 1..Len(out) : out[x] = s /\ s > 0
<1>1. DOMAIN out = 1..Len(out)
  OBVIOUS
<1>2. QED
  BY <1>1 DEF Whole

(* Only sections that were sent to their end are given. *)
LEMMA GivenEnded ==
  ASSUME NEW ln \in Seq(Lens), NEW buf \in Seq(Byte), NEW sec \in 0..Len(ln), NEW off \in Nat,
         Ordered(buf, ln, sec, off), sec > 0 => off <= ln[sec],
         NEW a, NEW p \in 0..Len(buf), NEW e, Given(buf, ln, a, p, e), NEW s \in Whole(a)
  PROVE  s \in Ended(ln, sec, off)
<1>1. a \in Seq(0..Len(ln)) /\ e \in p..Len(buf)
  BY DEF Given
<1>2. PICK x \in 1..Len(a) : a[x] = s /\ s > 0
  BY <1>1, WholeIs
<1>3. Found(buf, ln, s, p, e)
  BY <1>2 DEF Given
<1>4. PICK j \in (p + 1)..e : buf[j] = <<s, ln[s] - 1>>
  BY <1>3 DEF Found
<1>5. j \in 1..Len(buf)
  BY <1>1
<1>6. s \in Nat /\ s > 0
  BY <1>1, <1>2
<1>7. buf[j][1] = s /\ buf[j][2] = ln[s] - 1
  BY <1>4
<1>8. s <= sec /\ (s = sec => ln[s] - 1 < off)
  BY <1>5, <1>6, <1>7 DEF Ordered, Sent
<1>9. s \in 1..sec /\ s \in 1..Len(ln)
  BY <1>6, <1>8
<1>10. ln[s] \in Nat
  BY <1>9, LenRange
<1>11. s < sec \/ off = ln[s]
  BY <1>6, <1>8, <1>9, <1>10
<1>12. QED
  BY <1>9, <1>11 DEF Ended

(* No number lies strictly between n - 1 and n. *)
LEMMA SandwichNat ==
  ASSUME NEW x \in Nat, NEW y \in Nat, x - 1 < y, y < x
  PROVE  FALSE
  OBVIOUS

(* Behind a dump there is no byte of a section that it gave. *)
LEMMA GivenNotAgain ==
  ASSUME NEW ln \in Seq(Lens), NEW buf \in Seq(Byte), NEW sec \in 0..Len(ln), NEW off \in Nat,
         Ordered(buf, ln, sec, off),
         NEW a, NEW p \in 0..Len(buf), NEW e, Given(buf, ln, a, p, e)
  PROVE  NotAgain(buf, e, Whole(a))
<1>1. a \in Seq(0..Len(ln)) /\ e \in p..Len(buf)
  BY DEF Given
<1>2. SUFFICES ASSUME NEW i \in (e + 1)..Len(buf), buf[i][1] > 0, NEW s \in Whole(a)
               PROVE  s < buf[i][1]
  BY DEF NotAgain
<1>3. PICK x \in 1..Len(a) : a[x] = s /\ s > 0
  BY <1>1, WholeIs
<1>4. Found(buf, ln, s, p, e)
  BY <1>3 DEF Given
<1>5. PICK j \in (p + 1)..e : buf[j] = <<s, ln[s] - 1>>
  BY <1>4 DEF Found
<1>6. j \in 1..Len(buf) /\ i \in 1..Len(buf) /\ j < i
  <2>1. Len(buf) \in Nat /\ p \in Nat /\ e \in Nat /\ e <= Len(buf)
    BY <1>1
  <2> DEFINE n == Len(buf)
  <2>2. i \in (e + 1)..n /\ n \in Nat /\ e <= n
    BY <2>1
  <2> HIDE DEF n
  <2>3. j \in Nat /\ j >= 1 /\ j <= e /\ i \in Nat /\ i >= e + 1 /\ i <= n
    BY <2>1, <2>2
  <2>4. j \in 1..n /\ i \in 1..n /\ j < i
    BY <2>1, <2>2, <2>3
  <2>5. QED
    BY <2>4 DEF n
<1>7. s \in Nat /\ s > 0 /\ buf[j][1] = s /\ buf[j][2] = ln[s] - 1
  <2>1. a[x] \in 0..Len(ln)
    BY <1>1
  <2>2. s \in Nat /\ s > 0
    BY <1>3, <2>1
  <2>3. buf[j][1] = s /\ buf[j][2] = ln[s] - 1
    BY <1>5
  <2>4. QED
    BY <2>2, <2>3
<1>8. Before(buf[j], buf[i])
  BY <1>2, <1>6, <1>7 DEF Ordered
<1>9. buf[i] \in Byte /\ buf[i][1] \in Nat /\ buf[i][2] \in Nat
  BY <1>6, ByteIs
<1>10. buf[i][2] < ln[buf[i][1]]
  <2>1. Sent(buf[i], ln, sec, off)
    BY <1>6 DEF Ordered
  <2>2. QED
    BY <1>2, <2>1 DEF Sent
<1>11. s \in 1..Len(ln)
  <2>1. a[x] \in 0..Len(ln) /\ Len(ln) \in Nat
    BY <1>1
  <2>2. s \in 0..Len(ln) /\ s # 0
    BY <1>3, <2>1
  <2>3. QED
    BY <2>1, <2>2
<1>12. ln[s] \in Nat
  BY <1>11, LenRange
<1>13. s < buf[i][1] \/ (s = buf[i][1] /\ ln[s] - 1 < buf[i][2])
  BY <1>7, <1>8 DEF Before
<1>14. QED
  <2>1. CASE s < buf[i][1]
    BY <2>1
  <2>2. CASE s = buf[i][1] /\ ln[s] - 1 < buf[i][2]
    <3>1. buf[i][2] < ln[s]
      BY <1>10, <2>2
    <3>2. QED
      BY <1>9, <1>12, <2>2, <3>1, SandwichNat
  <2>3. QED
    BY <1>13, <2>1, <2>2

(* A dump gives sections behind those of which no byte is left. *)
LEMMA GivenAfter ==
  ASSUME NEW ln \in Seq(Lens), NEW buf \in Seq(Byte), NEW a, NEW p \in 0..Len(buf), NEW e,
         Given(buf, ln, a, p, e), NEW G, NotAgain(buf, p, G), NEW s \in Whole(a), NEW t \in G
  PROVE  t < s
<1>1. a \in Seq(0..Len(ln)) /\ e \in p..Len(buf)
  BY DEF Given
<1>2. PICK x \in 1..Len(a) : a[x] = s /\ s > 0
  BY <1>1, WholeIs
<1>3. Found(buf, ln, s, p, e)
  BY <1>2 DEF Given
<1>4. PICK j \in (p + 1)..e : buf[j] = <<s, 0>>
  BY <1>3 DEF Found
<1>5. j \in (p + 1)..Len(buf)
  BY <1>1
<1>6. buf[j][1] = s
  BY <1>4
<1>7. QED
  BY <1>2, <1>5, <1>6 DEF NotAgain

(* Out is in the order of the broadcast and behind G. *)
Follow(out, G) ==
  /\ \A x, y \in 1..Len(out) : x < y /\ out[x] > 0 /\ out[y] > 0 => out[x] < out[y]
  /\ \A s \in Whole(out), t \in G : t < s

(* Two dumps, one behind the other. *)
LEMMA FollowConcat ==
  ASSUME NEW n \in Nat, NEW o \in Seq(0..n), NEW a \in Seq(0..n), NEW G,
         Follow(o, G), Follow(a, G \cup Whole(o))
  PROVE  /\ Follow(o \o a, G) /\ Whole(o \o a) = Whole(o) \cup Whole(a)
         /\ o \o a \in Seq(0..n)
<1> DEFINE b == o \o a
<1>1. Len(o) \in Nat /\ Len(a) \in Nat
  OBVIOUS
<1>2. /\ b \in Seq(0..n) /\ Len(b) = Len(o) + Len(a)
      /\ \A i \in 1..Len(o) : b[i] = o[i]
      /\ \A i \in 1..Len(a) : b[Len(o) + i] = a[i]
  OBVIOUS
<1> HIDE DEF b
<1>3. ASSUME NEW i \in 1..Len(b)
      PROVE  \/ i \in 1..Len(o) /\ b[i] = o[i]
             \/ i > Len(o) /\ i - Len(o) \in 1..Len(a) /\ b[i] = a[i - Len(o)]
  <2>1. CASE i <= Len(o)
    BY <1>1, <1>2, <2>1
  <2>2. CASE i > Len(o)
    <3>1. i - Len(o) \in 1..Len(a) /\ Len(o) + (i - Len(o)) = i
      BY <1>1, <1>2, <2>2
    <3>2. b[Len(o) + (i - Len(o))] = a[i - Len(o)]
      BY <1>2, <3>1
    <3>3. QED
      BY <2>2, <3>1, <3>2
  <2>3. QED
    BY <1>1, <1>2, <2>1, <2>2
<1>4. ASSUME NEW s PROVE s \in Whole(b) <=> s \in Whole(o) \/ s \in Whole(a)
  <2>1. ASSUME s \in Whole(b) PROVE s \in Whole(o) \/ s \in Whole(a)
    <3>1. PICK i \in 1..Len(b) : b[i] = s /\ s > 0
      BY <1>2, <2>1, WholeIs
    <3>2. QED
      BY <1>3, <3>1, WholeIs
  <2>2. ASSUME s \in Whole(o) PROVE s \in Whole(b)
    <3>1. PICK i \in 1..Len(o) : o[i] = s /\ s > 0
      BY <2>2, WholeIs
    <3>2. i \in 1..Len(b) /\ b[i] = s
      <4>1. i \in 1..(Len(o) + Len(a))
        BY <1>1, IndexJoin
      <4>2. QED
        BY <1>2, <3>1, <4>1
    <3>3. QED
      BY <1>2, <3>1, <3>2, WholeIs
  <2>3. ASSUME s \in Whole(a) PROVE s \in Whole(b)
    <3>1. PICK i \in 1..Len(a) : a[i] = s /\ s > 0
      BY <2>3, WholeIs
    <3>2. Len(o) + i \in 1..Len(b) /\ b[Len(o) + i] = s
      <4>1. Len(o) + i \in 1..(Len(o) + Len(a))
        BY <1>1, IndexJoin
      <4>2. QED
        BY <1>2, <3>1, <4>1
    <3>3. QED
      BY <1>2, <3>1, <3>2, WholeIs
  <2>4. QED
    BY <2>1, <2>2, <2>3
<1>5. Whole(b) = Whole(o) \cup Whole(a)
  BY <1>4
<1>6. ASSUME NEW x \in 1..Len(b), NEW y \in 1..Len(b), x < y, b[x] > 0, b[y] > 0
      PROVE  b[x] < b[y]
  <2>1. CASE y <= Len(o)
    <3>0. x \in 1..(Len(o) + Len(a)) /\ y \in 1..(Len(o) + Len(a))
      BY <1>2
    <3> DEFINE m == Len(o)
               k == Len(a)
    <3>3. m \in Nat /\ k \in Nat /\ x \in 1..(m + k) /\ y \in 1..(m + k) /\ x < y /\ y <= m
      BY <1>1, <1>6, <2>1, <3>0
    <3> HIDE DEF m, k
    <3>4. x \in 1..m /\ y \in 1..m
      BY <3>3
    <3>1. x \in 1..Len(o) /\ y \in 1..Len(o) /\ b[x] = o[x] /\ b[y] = o[y]
      BY <1>2, <3>4 DEF m
    <3>2. QED
      BY <1>6, <3>1 DEF Follow
  <2>2. CASE y > Len(o) /\ x <= Len(o)
    <3>0. x \in 1..Len(o) /\ b[x] = o[x]
      <4>1. x \in 1..(Len(o) + Len(a))
        BY <1>2
      <4>2. x \in 1..Len(o)
        BY <1>1, <2>2, <4>1, IndexSplit
      <4>3. QED
        BY <1>2, <4>2
    <3>5. y - Len(o) \in 1..Len(a) /\ b[y] = a[y - Len(o)]
      <4>1. ~ (y \in 1..Len(o))
        BY <1>1, <2>2
      <4>2. QED
        BY <1>3, <4>1
    <3>1. x \in 1..Len(o) /\ b[x] = o[x] /\ y - Len(o) \in 1..Len(a) /\ b[y] = a[y - Len(o)]
      BY <3>0, <3>5
    <3>2. b[x] \in Whole(o) /\ b[y] \in Whole(a)
      BY <1>6, <3>1, WholeIs
    <3>3. QED
      BY <3>2 DEF Follow
  <2>3. CASE y > Len(o) /\ x > Len(o)
    <3>1. /\ x - Len(o) \in 1..Len(a) /\ b[x] = a[x - Len(o)]
          /\ y - Len(o) \in 1..Len(a) /\ b[y] = a[y - Len(o)]
      BY <1>1, <1>3, <2>3
    <3>2. x - Len(o) < y - Len(o)
      BY <1>1, <1>6
    <3>3. QED
      BY <1>6, <3>1, <3>2 DEF Follow
  <2>4. QED
    BY <1>1, <2>1, <2>2, <2>3
<1>7. QED
  BY <1>2, <1>5, <1>6 DEF Follow, b

-----------------------------------------------------------------------------
(* A layout is in order. *)

(* Byte i of the buffer is byte k of section s. *)
Place(buf, ln, a, b, off, at, i, s, k) ==
  /\ s \in a..b /\ s \in Nat /\ k \in Nat /\ k < ln[s] /\ i = at[s] + k + 1
  /\ at[s] + k < at[b] + off /\ buf[i] = <<s, k>>

(* Byte i is byte k of a piece of n bytes from p on, not beyond c + o. *)
Offset(i, p, n, c, o, k) ==
  /\ i \in Nat /\ p \in Nat /\ n \in Nat /\ c \in Nat /\ o \in Nat
  /\ p < i /\ i <= p + n /\ i <= c + o /\ k = i - 1 - p

(* Byte i, counted from the start of its section. *)
LEMMA InPiece ==
  ASSUME NEW i, NEW p, NEW n, NEW c, NEW o, NEW k, Offset(i, p, n, c, o, k)
  PROVE  k \in Nat /\ k < n /\ i = p + k + 1 /\ p + k < c + o /\ k \in 0..(n - 1)
  BY DEF Offset

(* A byte of an earlier section is at an earlier position. *)
LEMMA PieceBehind ==
  ASSUME NEW p \in Nat, NEW k \in Nat, NEW q \in Nat, NEW m \in Nat, NEW n \in Nat,
         m < n, q + n <= p
  PROVE  q + m + 1 <= p + k + 1
  OBVIOUS

(* Every byte of a layout is stuffing or has its place in a section. *)
LEMMA LayoutWhere ==
  ASSUME NEW ln \in Seq(Lens), NEW buf \in Seq(Byte), NEW a, NEW b, NEW off, NEW at,
         Layout(buf, ln, a, b, off, at), NEW i \in 1..Len(buf)
  PROVE  buf[i] = STUFF \/ \E s, k : Place(buf, ln, a, b, off, at, i, s, k)
<1>0. /\ a \in Nat /\ b \in Nat /\ off \in Nat /\ a <= b /\ a >= 1 /\ off <= ln[b]
      /\ Len(buf) \in Nat /\ at[b] \in Nat /\ ln[b] \in Nat
  BY LayoutTypes
<1>1. CASE i > at[b] + off
  <2>1. i \in (at[b] + off + 1)..Len(buf)
    BY <1>0, <1>1
  <2>2. QED
    BY <2>1 DEF Layout
<1>2. CASE i <= at[b] + off
  <2> DEFINE T == {s \in a..b : at[s] < i}
  <2>1. a \in T
    <3>1. at[a] = 0 /\ a \in a..b
      BY <1>0 DEF Layout
    <3>2. QED
      BY <3>1
  <2>2. T \subseteq 0..b
    BY <1>0
  <2>3. PICK s \in T : \A y \in T : y <= s
    BY <1>0, <2>1, <2>2, GreatestElement
  <2>4. s \in a..b /\ at[s] < i /\ s \in Nat
    BY <1>0, <2>3
  <2>5. /\ ln[s] \in Nat /\ at[s] \in Nat /\ at[s + 1] \in Nat
        /\ at[s + 1] = at[s] + ln[s]
    BY <2>4, LayoutTypes
  <2>6. i <= at[s] + ln[s]
    <3>1. CASE s = b
      BY <1>0, <1>2, <3>1
    <3>2. CASE s # b
      <4>1. s + 1 \in a..b /\ ~ (s + 1 <= s)
        BY <1>0, <2>4, <3>2
      <4>2. ~ (at[s + 1] < i)
        BY <2>3, <4>1
      <4>3. QED
        BY <2>5, <4>2
    <3>3. QED
      BY <3>1, <3>2
  <2>k. PICK k : k = i - 1 - at[s]
    OBVIOUS
  <2>7. k \in Nat /\ k < ln[s] /\ i = at[s] + k + 1 /\ at[s] + k < at[b] + off /\ k \in 0..(ln[s] - 1)
    <3>1. i \in Nat
      OBVIOUS
    <3>2. at[s] \in Nat /\ ln[s] \in Nat /\ at[b] \in Nat /\ off \in Nat
      BY <1>0, <2>5
    <3>3. at[s] < i
      BY <2>4
    <3>4. Offset(i, at[s], ln[s], at[b], off, k)
      BY <1>2, <2>6, <2>k, <3>1, <3>2, <3>3 DEF Offset
    <3>5. QED
      BY <3>4, InPiece
  <2>8. buf[at[s] + k + 1] = <<s, k>>
    BY <2>4, <2>7 DEF Layout
  <2>9. Place(buf, ln, a, b, off, at, i, s, k)
    BY <2>4, <2>7, <2>8 DEF Place
  <2>10. QED
    BY <2>9
<1>3. QED
  BY <1>0, <1>1, <1>2

(* The places of two bytes are in the order of the bytes. *)
LEMMA PlaceBefore ==
  ASSUME NEW ln \in Seq(Lens), NEW buf \in Seq(Byte), NEW a, NEW b, NEW off, NEW at,
         Layout(buf, ln, a, b, off, at), NEW i \in 1..Len(buf), NEW j \in 1..Len(buf), i < j,
         NEW s, NEW k, Place(buf, ln, a, b, off, at, i, s, k),
         NEW t, NEW m, Place(buf, ln, a, b, off, at, j, t, m)
  PROVE  s < t \/ (s = t /\ k < m)
<1>0. /\ s \in a..b /\ t \in a..b /\ s \in Nat /\ t \in Nat /\ k \in Nat /\ m \in Nat
      /\ k < ln[s] /\ m < ln[t] /\ i = at[s] + k + 1 /\ j = at[t] + m + 1
  BY DEF Place
<1>1. at[s] \in Nat /\ at[t] \in Nat /\ ln[t] \in Nat /\ ln[s] \in Nat /\ a \in Nat /\ b \in Nat
  BY <1>0, LayoutTypes
<1>2. CASE t < s
  <2>1. t \in a..(b + 1) /\ s \in t..(b + 1)
    BY <1>0, <1>1, <1>2
  <2>2. at[t] + ln[t] <= at[s]
    BY <1>2, <2>1, LayoutRises
  <2>3. j <= i
    <3> DEFINE p == at[s]
               q == at[t]
               n == ln[t]
    <3>1. /\ p \in Nat /\ k \in Nat /\ q \in Nat /\ m \in Nat /\ n \in Nat /\ m < n /\ q + n <= p
          /\ i = p + k + 1 /\ j = q + m + 1
      BY <1>0, <1>1, <2>2
    <3> HIDE DEF p, q, n
    <3>2. q + m + 1 <= p + k + 1
      BY <3>1, PieceBehind
    <3>3. QED
      BY <3>1, <3>2
  <2>4. QED
    BY <2>3
<1>3. CASE s = t
  <2>1. at[s] + k + 1 < at[s] + m + 1
    BY <1>0, <1>3
  <2>2. k < m
    BY <1>0, <1>1, <2>1, SMTT(30)
  <2>3. QED
    BY <1>3, <2>2
<1>4. QED
  BY <1>0, <1>2, <1>3

(* The bytes of a layout are in order, from section a on. *)
LEMMA LayoutOrdered ==
  ASSUME NEW ln \in Seq(Lens), NEW buf \in Seq(Byte), NEW a, NEW b, NEW off, NEW at,
         Layout(buf, ln, a, b, off, at)
  PROVE  /\ Ordered(buf, ln, b, off)
         /\ \A i \in 1..Len(buf) : buf[i][1] > 0 => buf[i][1] >= a
<1>0. /\ a \in Nat /\ b \in Nat /\ off \in Nat /\ a <= b /\ a >= 1 /\ off <= ln[b]
      /\ Len(buf) \in Nat /\ at[b] \in Nat /\ ln[b] \in Nat
  BY LayoutTypes
<1>1. ~ (STUFF[1] > 0)
  BY DEF STUFF
<1>2. ASSUME NEW i \in 1..Len(buf), buf[i][1] > 0
      PROVE  Sent(buf[i], ln, b, off) /\ buf[i][1] >= a
  <2>1. PICK s, k : Place(buf, ln, a, b, off, at, i, s, k)
    BY <1>1, <1>2, LayoutWhere
  <2>2. /\ s \in a..b /\ s \in Nat /\ k \in Nat /\ k < ln[s] /\ at[s] + k < at[b] + off
        /\ buf[i][1] = s /\ buf[i][2] = k
    BY <2>1 DEF Place
  <2>3. s = b => k < off
    BY <1>0, <2>2
  <2>4. s <= b /\ s >= a
    BY <1>0, <2>2
  <2>5. QED
    BY <2>2, <2>3, <2>4 DEF Sent
<1>3. ASSUME NEW i \in 1..Len(buf), NEW j \in 1..Len(buf), i < j, buf[i][1] > 0, buf[j][1] > 0
      PROVE  Before(buf[i], buf[j])
  <2>1. PICK s, k : Place(buf, ln, a, b, off, at, i, s, k)
    BY <1>1, <1>3, LayoutWhere
  <2>2. PICK t, m : Place(buf, ln, a, b, off, at, j, t, m)
    BY <1>1, <1>3, LayoutWhere
  <2>3. s < t \/ (s = t /\ k < m)
    BY <1>3, <2>1, <2>2, PlaceBefore
  <2>4. buf[i] = <<s, k>> /\ buf[j] = <<t, m>>
    BY <2>1, <2>2 DEF Place
  <2>5. buf[i][1] = s /\ buf[i][2] = k /\ buf[j][1] = t /\ buf[j][2] = m
    BY <2>4
  <2>6. QED
    BY <2>3, <2>5 DEF Before
<1>4. \A i \in 1..Len(buf) : Sent(buf[i], ln, b, off)
  BY <1>2 DEF Sent
<1>5. QED
  BY <1>2, <1>3, <1>4 DEF Ordered

(* Sections begun later do not change a layout. *)
LEMMA LayoutLens ==
  ASSUME NEW ln \in Seq(Lens), NEW lm \in Seq(Lens), NEW buf \in Seq(Byte),
         NEW a, NEW b, NEW off, NEW at, Layout(buf, ln, a, b, off, at),
         b <= Len(lm), \A s \in 1..b : lm[s] = ln[s]
  PROVE  /\ Layout(buf, lm, a, b, off, at)
         /\ \A p : Boundary(ln, a, b, off, at, p) => Boundary(lm, a, b, off, at, p)
<1>1. /\ a \in Nat /\ b \in Nat /\ a >= 1 /\ a <= b /\ Len(lm) \in Nat
  BY LayoutTypes
<1>2. \A s \in a..b : lm[s] = ln[s]
  BY <1>1
<1>3. lm[b] = ln[b] /\ b \in 1..Len(lm)
  BY <1>1, <1>2
<1>4. /\ a \in 1..b /\ off \in 0..lm[b]
      /\ at \in [a..(b + 1) -> Nat] /\ at[a] = 0
      /\ at[b] <= PACKET /\ at[b] + off <= Len(buf)
      /\ \A i \in (at[b] + off + 1)..Len(buf) : buf[i] = STUFF
      /\ at[b] + off < Len(buf) => off = lm[b]
  BY <1>3 DEF Layout
<1>5. \A s \in a..b : at[s + 1] = at[s] + lm[s]
  BY <1>2 DEF Layout
<1>6. \A s \in a..b : \A k \in 0..(lm[s] - 1) :
        at[s] + k < at[b] + off => buf[at[s] + k + 1] = <<s, k>>
  BY <1>2 DEF Layout
<1>7. Layout(buf, lm, a, b, off, at)
  BY <1>3, <1>4, <1>5, <1>6 DEF Layout
<1>8. ASSUME NEW p, Boundary(ln, a, b, off, at, p) PROVE Boundary(lm, a, b, off, at, p)
  BY <1>3, <1>8 DEF Boundary
<1>9. QED
  BY <1>7, <1>8

(* f2 is feed f after bytes were copied, and a what the callback was given. *)
Copy(f, bytes, ln, sec, off, g, indic, f2, a) ==
  LET buf == Grown(f.buf, bytes)
      d == Dump(buf, ln, g, indic)[f.secbufp]
  IN /\ FeedOK(f2) /\ f2.cc = f.cc /\ f2.pusi_seen = f.pusi_seen
     /\ f2.filtering = f.filtering /\ f2.buf = buf
     /\ a \in Seq(0..Len(ln)) /\ Whole(a) \subseteq Ended(ln, sec, off) /\ Follow(a, {})
     /\ ~ f.pusi_seen => a = <<>>
     /\ \A G : NotAgain(buf, f.secbufp, G) =>
                 Follow(a, G) /\ NotAgain(buf, f2.secbufp, G \cup Whole(a))
     /\ \/ Taken(f.buf, bytes) = 0 /\ a = <<>> /\ f2.secbufp = f.secbufp
        \/ /\ Taken(f.buf, bytes) # 0 /\ f2.secbufp = d.end
           /\ f.pusi_seen => a = d.out

(* Nothing was given. *)
LEMMA WholeEmpty == Whole(<<>>) = {}
  BY DEF Whole

(* What a dump gives follows what was given before. *)
LEMMA GivenFollow ==
  ASSUME NEW ln \in Seq(Lens), NEW buf \in Seq(Byte), NEW sec \in 0..Len(ln), NEW off \in Nat,
         Ordered(buf, ln, sec, off), sec > 0 => off <= ln[sec],
         NEW a, NEW p \in 0..Len(buf), NEW e, Given(buf, ln, a, p, e), NEW G, NotAgain(buf, p, G)
  PROVE  Follow(a, G) /\ NotAgain(buf, e, G \cup Whole(a)) /\ NotAgain(buf, e, G)
<1>1. \A x, y \in 1..Len(a) : x < y /\ a[x] > 0 /\ a[y] > 0 => a[x] < a[y]
  BY DEF Given
<1>2. \A s \in Whole(a), t \in G : t < s
  BY GivenAfter
<1>3. NotAgain(buf, e, G)
  <2>1. e \in Nat /\ e >= p /\ p \in Nat /\ Len(buf) \in Nat
    BY DEF Given
  <2>2. \A i \in (e + 1)..Len(buf) : i \in (p + 1)..Len(buf)
    BY <2>1
  <2>3. QED
    BY <2>2 DEF NotAgain
<1>4. NotAgain(buf, e, Whole(a))
  BY GivenNotAgain
<1>5. QED
  BY <1>1, <1>2, <1>3, <1>4 DEF Follow, NotAgain

(* The bytes are copied, and what is dumped goes behind o. *)
CopyTo(f, o, bytes, ln, g, indic, res) ==
  o \in Seq(Nat) /\ res = CopyDump([fd |-> f, out |-> o], bytes, ln, g, indic)

(* What that does. *)
CopiedTo(f, o, bytes, ln, sec, off, g, indic, res) ==
  \E a : /\ res = [fd |-> res.fd, out |-> o \o a]
         /\ Copy(f, bytes, ln, sec, off, g, indic, res.fd, a)

(* The position of the sender. *)
Sender(ln, sec, off) == off \in Nat /\ (sec > 0 => off <= ln[sec])

(* Copying bytes that leave the buffer in order. *)
LEMMA CopyOrdered ==
  ASSUME NEW f, NEW o, NEW bytes, NEW g, NEW indic, NEW ln, NEW sec, NEW off, NEW r,
         Sender(ln, sec, off),
         Copyable(f, o, bytes, ln, sec, off, r), NEW res, CopyTo(f, o, bytes, ln, g, indic, res)
  PROVE  CopiedTo(f, o, bytes, ln, sec, off, g, indic, res)
<1> DEFINE buf == Grown(f.buf, bytes)
           p == f.secbufp
<1>0. /\ FeedOK(f) /\ o \in Seq(Nat) /\ bytes \in Seq(Byte) /\ ln \in Seq(Lens)
      /\ sec \in 0..Len(ln) /\ off \in Nat /\ (sec > 0 => off <= ln[sec])
      /\ Ordered(Grown(f.buf, bytes), ln, sec, off) /\ r = [fd |-> f, out |-> o]
      /\ res = CopyDump(r, bytes, ln, g, indic)
  BY DEF Copyable, CopyTo, Sender
<1>1. /\ res = [fd |-> res.fd, out |-> res.out]
      /\ \E a, e : Copied(r, bytes, ln, g, indic, res, a, e)
  <2>1. /\ CopyDump(r, bytes, ln, g, indic) = [fd  |-> CopyDump(r, bytes, ln, g, indic).fd,
                                                out |-> CopyDump(r, bytes, ln, g, indic).out]
        /\ \E a, e : Copied(r, bytes, ln, g, indic, CopyDump(r, bytes, ln, g, indic), a, e)
    BY CopyDumps
  <2>2. QED
    BY <1>0, <2>1
<1>2. PICK a, e : Copied(r, bytes, ln, g, indic, res, a, e)
  BY <1>1
<1>3. /\ FeedOK(res.fd) /\ res.fd.cc = f.cc /\ res.fd.pusi_seen = f.pusi_seen
      /\ res.fd.filtering = f.filtering /\ res.fd.buf = buf
      /\ res.fd.secbufp = e
  BY <1>0, <1>2, CopiedOK
<1>4. r.fd = f /\ r.out = o
  BY <1>0
<1>5. /\ res.out = IF f.pusi_seen THEN o \o a ELSE o
      /\ Given(buf, ln, a, p, e)
      /\ \/ Taken(f.buf, bytes) = 0 /\ a = <<>> /\ e = p
         \/ /\ Taken(f.buf, bytes) # 0
            /\ a = Dump(buf, ln, g, indic)[p].out
            /\ e = Dump(buf, ln, g, indic)[p].end
  BY <1>2, <1>4 DEF Copied
<1>6. buf \in Seq(Byte) /\ p \in 0..Len(buf) /\ f.pusi_seen \in BOOLEAN
  <2>1. /\ f \in FeedType /\ f.buf \in Seq(Byte) /\ Len(f.buf) <= MAXSEC + PACKET
        /\ f.secbufp \in Nat /\ f.secbufp <= Len(f.buf) /\ f.pusi_seen \in BOOLEAN
    BY <1>0 DEF FeedOK, FeedType
  <2>2. buf \in Seq(Byte) /\ Len(buf) = Len(f.buf) + Taken(f.buf, bytes)
        /\ Taken(f.buf, bytes) \in Nat
    BY <1>0, <2>1, GrownIs
  <2> HIDE DEF buf
  <2>3. QED
    BY <2>1, <2>2
<1>7. Ordered(buf, ln, sec, off)
  BY <1>0
<1> HIDE DEF buf, p
<1>8. /\ a \in Seq(0..Len(ln)) /\ Whole(a) \subseteq Ended(ln, sec, off)
  BY <1>0, <1>5, <1>6, <1>7, GivenEnded DEF Given
<1>9. ASSUME NEW G, NotAgain(buf, p, G)
      PROVE  Follow(a, G) /\ NotAgain(buf, e, G \cup Whole(a)) /\ NotAgain(buf, e, G)
  BY <1>0, <1>5, <1>6, <1>7, <1>9, GivenFollow
<1>10. NotAgain(buf, p, {})
  BY DEF NotAgain
<1>11. CASE f.pusi_seen
  <2>1. res = [fd |-> res.fd, out |-> o \o a]
    BY <1>1, <1>5, <1>11
  <2>2. Copy(f, bytes, ln, sec, off, g, indic, res.fd, a)
    BY <1>3, <1>5, <1>8, <1>9, <1>10, <1>11 DEF Copy, buf, p
  <2>3. QED
    BY <2>1, <2>2 DEF CopiedTo
<1>12. CASE ~ f.pusi_seen
  <2>1. res = [fd |-> res.fd, out |-> o \o <<>>]
    <3>1. o \o <<>> = o
      BY <1>0
    <3>2. QED
      BY <1>1, <1>5, <1>12, <3>1
  <2>2. <<>> \in Seq(0..Len(ln)) /\ Whole(<<>>) \subseteq Ended(ln, sec, off)
    BY WholeEmpty
  <2>3. ASSUME NEW G PROVE Follow(<<>>, G)
    BY WholeEmpty DEF Follow
  <2>4. ASSUME NEW G, NotAgain(buf, p, G) PROVE NotAgain(buf, e, G \cup Whole(<<>>))
    <3>1. G \cup Whole(<<>>) = G
      BY WholeEmpty
    <3>2. QED
      BY <1>9, <2>4, <3>1
  <2>5. Copy(f, bytes, ln, sec, off, g, indic, res.fd, <<>>)
    BY <1>3, <1>5, <1>12, <2>2, <2>3, <2>4 DEF Copy, buf, p
  <2>6. QED
    BY <2>1, <2>5 DEF CopiedTo
<1>13. QED
  BY <1>6, <1>11, <1>12

(* The buffer starts with a section, and secbufp is where one starts. *)
Aligned(f, ln, b, off) ==
  \E a, at : Layout(f.buf, ln, a, b, off, at) /\ Boundary(ln, a, b, off, at, f.secbufp)

(* No section of G has a byte among the next ones. *)
LEMMA NotAgainAppend ==
  ASSUME NEW buf \in Seq(Byte), NEW bytes \in Seq(Byte), Len(buf) <= MAXSEC + PACKET,
         NEW p \in 0..Len(buf), NEW G, NotAgain(buf, p, G),
         NEW ln \in Seq(Lens), NEW sec \in 0..Len(ln), NEW off \in Nat, NEW l,
         Run(bytes, sec, off, l), l > 0 => sec > 0 /\ off + l <= ln[sec],
         G \subseteq Ended(ln, sec, off)
  PROVE  NotAgain(Grown(buf, bytes), p, G)
<1> DEFINE new == Grown(buf, bytes)
           n == Taken(buf, bytes)
           L == Len(buf)
<1>1. /\ n \in 0..Len(bytes) /\ Len(new) = L + n /\ new \in Seq(Byte)
      /\ \A i \in 1..L : new[i] = buf[i]
      /\ \A i \in 1..n : new[L + i] = bytes[i]
  BY GrownIs
<1>2. L \in Nat /\ Len(bytes) \in Nat /\ l \in Nat /\ l <= Len(bytes) /\ p \in Nat /\ p <= L
  BY DEF Run
<1>0. NotAgain(buf, p, G) <=> \A i \in (p + 1)..L : buf[i][1] > 0 => \A s \in G : s < buf[i][1]
  BY DEF NotAgain
<1>01. NotAgain(new, p, G) <=>
         \A i \in (p + 1)..Len(new) : new[i][1] > 0 => \A s \in G : s < new[i][1]
  BY DEF NotAgain
<1> HIDE DEF new, n, L
<1>3. ASSUME NEW i \in (p + 1)..Len(new), new[i][1] > 0, NEW s \in G
      PROVE  s < new[i][1]
  <2>1. CASE i <= L
    <3>1. i \in 1..L /\ i \in (p + 1)..L
      BY <1>2, <2>1
    <3>2. new[i] = buf[i]
      BY <1>1, <3>1
    <3>3. QED
      BY <1>0, <1>3, <3>1, <3>2
  <2>2. CASE i > L
    <3>1. PICK j \in 1..n : i = L + j
      <4>1. n \in Nat /\ i - L \in 1..n /\ i = L + (i - L)
        BY <1>1, <1>2, <2>2
      <4>2. QED
        BY <4>1
    <3>2. new[i] = bytes[j] /\ j \in 1..Len(bytes)
      BY <1>1, <1>2, <3>1
    <3>3. j <= l
      <4>1. SUFFICES ASSUME j > l PROVE FALSE
        BY <1>2
      <4>2. j \in (l + 1)..Len(bytes)
        BY <1>2, <3>2, <4>1
      <4>3. bytes[j] = STUFF /\ ~ (STUFF[1] > 0)
        BY <4>2 DEF Run, STUFF
      <4>4. QED
        BY <1>3, <3>2, <4>3
    <3>4. bytes[j] = <<sec, off + j - 1>> /\ l > 0
      <4>1. j \in 1..l
        BY <1>2, <3>2, <3>3
      <4>2. l > 0
        BY <1>2, <4>1
      <4>3. QED
        BY <4>1, <4>2 DEF Run
    <3>5. new[i][1] = sec
      BY <3>2, <3>4
    <3>6. sec > 0 /\ off + l <= ln[sec]
      BY <3>4
    <3>7. sec \in 1..Len(ln) /\ sec \in Nat
      BY <3>6
    <3>8. ln[sec] \in Nat
      BY <3>7, LenRange
    <3>9. s \in 1..sec /\ (s < sec \/ off = ln[s])
      BY DEF Ended
    <3>10. off # ln[sec]
      BY <1>2, <3>4, <3>6, <3>8
    <3>11. QED
      BY <3>5, <3>7, <3>9, <3>10
  <2>3. QED
    BY <1>2, <2>1, <2>2
<1>4. NotAgain(new, p, G)
  BY <1>01, <1>3
<1>5. QED
  BY <1>4 DEF new

(* What copying does to a buffer that starts with a section. *)
LEMMA CopyLayout ==
  ASSUME NEW f, FeedOK(f), NEW bytes \in Seq(Byte), NEW ln \in Seq(Lens), NEW b, NEW off,
         NEW g, NEW indic, NEW f2, NEW out, Copy(f, bytes, ln, b, off, g, indic, f2, out),
         NEW a, NEW at, Layout(Grown(f.buf, bytes), ln, a, b, off, at),
         NEW s \in a..(b + 1), s = b + 1 => off = ln[b], f.secbufp = at[s]
  PROVE  /\ Aligned(f2, ln, b, off)
         /\ \A x \in 1..Len(out) : out[x] # 0
         /\ f.pusi_seen /\ Taken(f.buf, bytes) # 0 => GivesFrom(ln, b, off, s, out)
<1> DEFINE buf == Grown(f.buf, bytes)
           d == Dump(buf, ln, g, indic)[at[s]]
<1>1. /\ f2.buf = buf /\ f2 \in FeedType
      /\ ~ f.pusi_seen => out = <<>>
      /\ \/ Taken(f.buf, bytes) = 0 /\ out = <<>> /\ f2.secbufp = at[s]
         \/ /\ Taken(f.buf, bytes) # 0 /\ f2.secbufp = d.end
            /\ f.pusi_seen => out = d.out
  BY DEF Copy, FeedOK
<1>2. buf \in Seq(Byte)
  BY <1>1 DEF FeedType
<1>3. /\ d.end = Stop(ln, b, off, at) /\ d.out \in Seq(Nat)
      /\ GivesFrom(ln, b, off, s, d.out)
  BY <1>2, DumpLayout
<1>4. /\ a \in Nat /\ b \in Nat /\ a <= b
  BY <1>2, LayoutTypes
<1>5. Boundary(ln, a, b, off, at, Stop(ln, b, off, at))
  <2>1. b \in a..(b + 1) /\ b + 1 \in a..(b + 1) /\ b # b + 1
    BY <1>4
  <2>2. QED
    BY <2>1 DEF Boundary, Stop
<1>6. Boundary(ln, a, b, off, at, at[s])
  BY DEF Boundary
<1>7. Boundary(ln, a, b, off, at, f2.secbufp)
  BY <1>1, <1>3, <1>5, <1>6
<1>8. Aligned(f2, ln, b, off)
  BY <1>1, <1>7 DEF Aligned
<1>9. \A x \in 1..Len(out) : out[x] # 0
  <2>1. CASE out = <<>>
    BY <2>1
  <2>2. CASE out = d.out
    BY <1>3, <2>2 DEF GivesFrom
  <2>3. QED
    BY <1>1, <2>1, <2>2
<1>10. QED
  BY <1>1, <1>3, <1>8, <1>9

-----------------------------------------------------------------------------
(* The two ways bytes are copied: the next ones of a section, and those that *)
(* start a buffer.                                                           *)

(* The next l bytes of section sec are copied to the buffer of f. *)
Runs(f, bytes, ln, sec, off, l) ==
  /\ FeedOK(f) /\ bytes \in Seq(Byte) /\ ln \in Seq(Lens) /\ sec \in 0..Len(ln) /\ off \in Nat
  /\ Ordered(f.buf, ln, sec, off) /\ Run(bytes, sec, off, l)
  /\ l > 0 => sec > 0
  /\ sec > 0 => off + l <= ln[sec]

(* The packet ends with the section or is part of it. *)
Tight(bytes, ln, sec, off, l) ==
  \/ bytes = <<>>
  \/ off < ln[sec] /\ (l < Len(bytes) => off + l = ln[sec])

(* What that does. *)
Ran(f, bytes, ln, sec, off, l, f2, out) ==
  /\ FeedOK(f2) /\ f2.cc = f.cc /\ f2.pusi_seen = f.pusi_seen /\ f2.filtering = f.filtering
  /\ Ordered(f2.buf, ln, sec, off + l)
  /\ out \in Seq(0..Len(ln)) /\ Whole(out) \subseteq Ended(ln, sec, off + l) /\ Follow(out, {})
  /\ ~ f.pusi_seen => out = <<>>
  /\ \A G : G \subseteq Ended(ln, sec, off) /\ NotAgain(f.buf, f.secbufp, G) =>
              Follow(out, G) /\ NotAgain(f2.buf, f2.secbufp, G \cup Whole(out))
  /\ Aligned(f, ln, sec, off) /\ Tight(bytes, ln, sec, off, l) =>
       /\ Aligned(f2, ln, sec, off + l)
       /\ \A x \in 1..Len(out) : out[x] # 0
       /\ f.pusi_seen /\ off < ln[sec] /\ off + l = ln[sec] => sec \in Whole(out)

(* A section that is not complete leaves room in the buffer. *)
LEMMA RoomLeft ==
  ASSUME NEW buf \in Seq(Byte), NEW bytes \in Seq(Byte), NEW ln \in Seq(Lens),
         NEW a, NEW b, NEW off, NEW at, Layout(buf, ln, a, b, off, at), off < ln[b],
         Len(bytes) > 0
  PROVE  Taken(buf, bytes) # 0
<1>1. /\ off \in Nat /\ at[b] \in Nat /\ at[b] <= PACKET /\ ln[b] \in Nat /\ ln[b] <= MAXSEC
      /\ Len(buf) \in Nat
  BY LayoutTypes
<1>2. at[b] + off <= Len(buf) /\ (at[b] + off < Len(buf) => off = ln[b])
  BY DEF Layout
<1>3. Len(buf) = at[b] + off
  BY <1>1, <1>2
<1>4. Len(buf) < MAXSEC + PACKET /\ Len(bytes) \in Nat
  BY <1>1, <1>3, Sizes
<1>5. (MAXSEC + PACKET) - Len(buf) # 0
  BY <1>1, <1>4, Sizes
<1>6. QED
  BY <1>4, <1>5 DEF Taken

(* The next bytes of a section, copied to a buffer that starts with one. *)
LEMMA RanAligned ==
  ASSUME NEW f, NEW bytes, NEW ln, NEW sec, NEW off, NEW l, Runs(f, bytes, ln, sec, off, l),
         NEW g, NEW indic, NEW f2, NEW out, Copy(f, bytes, ln, sec, off + l, g, indic, f2, out),
         Aligned(f, ln, sec, off), Tight(bytes, ln, sec, off, l)
  PROVE  /\ Aligned(f2, ln, sec, off + l)
         /\ \A x \in 1..Len(out) : out[x] # 0
         /\ f.pusi_seen /\ off < ln[sec] /\ off + l = ln[sec] => sec \in Whole(out)
<1>1. /\ f \in FeedType /\ f.buf \in Seq(Byte) /\ Len(f.buf) <= MAXSEC + PACKET
      /\ Len(f.buf) \in Nat /\ FeedOK(f)
      /\ bytes \in Seq(Byte) /\ ln \in Seq(Lens) /\ off \in Nat /\ sec \in 0..Len(ln)
  BY DEF Runs, FeedOK, FeedType
<1>2. l \in 0..Len(bytes) /\ Len(bytes) \in Nat /\ l \in Nat
  BY <1>1 DEF Runs, Run
<1>3. PICK a, at : Layout(f.buf, ln, a, sec, off, at) /\ Boundary(ln, a, sec, off, at, f.secbufp)
  BY DEF Aligned
<1>4. /\ ln[sec] \in Nat /\ sec \in Nat /\ a \in Nat /\ a >= 1 /\ a <= sec /\ off <= ln[sec]
  BY <1>1, <1>3, LayoutTypes
<1>5. CASE bytes = <<>>
  <2>1. l = 0 /\ off + l = off
    BY <1>1, <1>2, <1>5
  <2>2. Taken(f.buf, bytes) = 0
    <3>1. Taken(f.buf, bytes) \in 0..Len(bytes)
      BY <1>1, GrownIs
    <3>2. QED
      BY <1>5, <3>1
  <2>3. Grown(f.buf, bytes) = f.buf
    BY <1>1, <2>2, GrownIs
  <2>4. f2.buf = f.buf /\ out = <<>> /\ f2.secbufp = f.secbufp
    BY <2>2, <2>3 DEF Copy
  <2>5. Aligned(f2, ln, sec, off + l)
    BY <1>3, <2>1, <2>4 DEF Aligned
  <2>6. ~ (off < ln[sec] /\ off + l = ln[sec])
    BY <1>4, <2>1
  <2>7. QED
    BY <2>4, <2>5, <2>6
<1>6. CASE off < ln[sec] /\ (l < Len(bytes) => off + l = ln[sec])
  <2>1. off + l <= ln[sec] /\ Run(bytes, sec, off, l)
    BY <1>4 DEF Runs
  <2>2. Layout(Grown(f.buf, bytes), ln, a, sec, off + l, at)
    BY <1>1, <1>3, <1>6, <2>1, LayoutAppend
  <2>3. PICK s \in a..(sec + 1) : f.secbufp = at[s] /\ (s = sec + 1 => off = ln[sec])
    BY <1>3 DEF Boundary
  <2>4. s # sec + 1 /\ s \in a..sec
    BY <1>1, <1>4, <1>6, <2>3
  <2>5. /\ Aligned(f2, ln, sec, off + l)
        /\ \A x \in 1..Len(out) : out[x] # 0
        /\ f.pusi_seen /\ Taken(f.buf, bytes) # 0 => GivesFrom(ln, sec, off + l, s, out)
    BY <1>1, <2>2, <2>3, <2>4, CopyLayout
  <2>6. ASSUME f.pusi_seen, off + l = ln[sec] PROVE sec \in Whole(out)
    <3>1. Len(bytes) > 0
      BY <1>1, <1>2, <1>4, <1>6, <2>6
    <3>2. Taken(f.buf, bytes) # 0
      BY <1>1, <1>3, <1>6, <3>1, RoomLeft
    <3>3. GivesFrom(ln, sec, off + l, s, out)
      BY <2>5, <2>6, <3>2
    <3>4. sec \in s..sec /\ Complete(ln, sec, off + l, sec)
      BY <1>4, <2>4, <2>6 DEF Complete
    <3>5. PICK x \in 1..Len(out) : out[x] = sec
      BY <3>3, <3>4 DEF GivesFrom
    <3>6. out \in Seq(0..Len(ln)) /\ Len(ln) \in Nat /\ sec > 0
      BY <1>1, <1>4 DEF Copy
    <3>7. QED
      BY <3>5, <3>6, WholeIs
  <2>7. QED
    BY <2>5, <2>6
<1>7. QED
  BY <1>5, <1>6 DEF Tight

(* The next bytes of a section, copied to any buffer that is in order. *)
LEMMA CopyRun ==
  ASSUME NEW f, NEW bytes, NEW ln, NEW sec, NEW off, NEW l, Runs(f, bytes, ln, sec, off, l),
         NEW g, NEW indic, NEW res, res = CopyDump([fd |-> f, out |-> <<>>], bytes, ln, g, indic)
  PROVE  res = [fd |-> res.fd, out |-> res.out] /\ Ran(f, bytes, ln, sec, off, l, res.fd, res.out)
<1>1. /\ f \in FeedType /\ f.buf \in Seq(Byte) /\ Len(f.buf) <= MAXSEC + PACKET
      /\ Len(f.buf) \in Nat /\ FeedOK(f) /\ f.secbufp \in 0..Len(f.buf)
      /\ bytes \in Seq(Byte) /\ ln \in Seq(Lens) /\ off \in Nat /\ sec \in 0..Len(ln)
      /\ Ordered(f.buf, ln, sec, off) /\ Run(bytes, sec, off, l)
      /\ l > 0 => sec > 0
      /\ sec > 0 => off + l <= ln[sec]
  BY DEF Runs, FeedOK, FeedType
<1>2. l \in Nat /\ off + l \in Nat
  BY <1>1 DEF Run
<1>3. l > 0 => sec > 0 /\ off + l <= ln[sec]
  BY <1>1
<1>4. Ordered(Grown(f.buf, bytes), ln, sec, off + l)
  BY <1>1, <1>3, OrderedAppend
<1>5. <<>> \in Seq(Nat)
  OBVIOUS
<1>6. PICK out : /\ res = [fd |-> res.fd, out |-> <<>> \o out]
                 /\ Copy(f, bytes, ln, sec, off + l, g, indic, res.fd, out)
  <2> DEFINE r == [fd |-> f, out |-> <<>>]
             k == off + l
             o == <<>>
  <2>1. Copyable(f, o, bytes, ln, sec, k, r)
    BY <1>1, <1>2, <1>4, <1>5 DEF Copyable
  <2>2. CopyTo(f, o, bytes, ln, g, indic, res)
    BY <1>5 DEF CopyTo
  <2>3. Sender(ln, sec, k)
    BY <1>1, <1>2 DEF Sender
  <2> HIDE DEF r, k, o
  <2>4. CopiedTo(f, o, bytes, ln, sec, k, g, indic, res)
    BY <2>1, <2>2, <2>3, CopyOrdered
  <2>5. QED
    BY <2>4 DEF CopiedTo, o, k
<1>7. /\ out \in Seq(0..Len(ln))
      /\ FeedOK(res.fd) /\ res.fd.cc = f.cc /\ res.fd.pusi_seen = f.pusi_seen
      /\ res.fd.filtering = f.filtering /\ res.fd.buf = Grown(f.buf, bytes)
      /\ Whole(out) \subseteq Ended(ln, sec, off + l) /\ Follow(out, {})
      /\ ~ f.pusi_seen => out = <<>>
  BY <1>6 DEF Copy
<1>8. <<>> \o out = out
  BY <1>7
<1>9. res = [fd |-> res.fd, out |-> res.out] /\ res.out = out
  BY <1>6, <1>8
<1>10. ASSUME NEW G, G \subseteq Ended(ln, sec, off), NotAgain(f.buf, f.secbufp, G)
       PROVE  Follow(out, G) /\ NotAgain(res.fd.buf, res.fd.secbufp, G \cup Whole(out))
  <2>1. NotAgain(Grown(f.buf, bytes), f.secbufp, G)
    BY <1>1, <1>3, <1>10, NotAgainAppend
  <2>2. QED
    BY <1>6, <2>1 DEF Copy
<1>11. ASSUME Aligned(f, ln, sec, off), Tight(bytes, ln, sec, off, l)
       PROVE  /\ Aligned(res.fd, ln, sec, off + l)
              /\ \A x \in 1..Len(out) : out[x] # 0
              /\ f.pusi_seen /\ off < ln[sec] /\ off + l = ln[sec] => sec \in Whole(out)
  BY <1>6, <1>11, RanAligned
<1>12. Ran(f, bytes, ln, sec, off, l, res.fd, out)
  BY <1>4, <1>7, <1>10, <1>11 DEF Ran
<1>13. QED
  BY <1>9, <1>12

(* The bytes behind the pointer are copied to an empty buffer. *)
Opens(f, bytes, ln, a, b, off, at) ==
  /\ FeedOK(f) /\ f.buf = <<>> /\ f.secbufp = 0 /\ f.pusi_seen = TRUE
  /\ bytes \in Seq(Byte) /\ Len(bytes) <= PACKET /\ Len(bytes) > 0
  /\ ln \in Seq(Lens) /\ Layout(bytes, ln, a, b, off, at)

(* What that does. *)
Opened(f, ln, a, b, off, f2, out) ==
  /\ FeedOK(f2) /\ f2.cc = f.cc /\ f2.pusi_seen = TRUE /\ f2.filtering = f.filtering
  /\ Ordered(f2.buf, ln, b, off)
  /\ out \in Seq(0..Len(ln)) /\ Whole(out) \subseteq Ended(ln, b, off)
  /\ \A G : G \subseteq 1..(a - 1) =>
              Follow(out, G) /\ NotAgain(f2.buf, f2.secbufp, G \cup Whole(out))
  /\ Aligned(f2, ln, b, off)
  /\ \A x \in 1..Len(out) : out[x] # 0
  /\ \A t \in a..b : Complete(ln, b, off, t) => t \in Whole(out)

(* A packet fits in an empty buffer. *)
LEMMA GrownFromEmpty ==
  ASSUME NEW bytes \in Seq(Byte), Len(bytes) <= PACKET
  PROVE  Taken(<<>>, bytes) = Len(bytes) /\ Grown(<<>>, bytes) = bytes
<1>1. Len(<<>>) = 0 /\ Len(bytes) \in Nat
  OBVIOUS
<1>2. Taken(<<>>, bytes) = Len(bytes)
  <2>1. Taken(<<>>, bytes) = IF Len(bytes) < (MAXSEC + PACKET) - 0
                             THEN Len(bytes) ELSE (MAXSEC + PACKET) - 0
    BY <1>1 DEF Taken
  <2>2. QED
    BY <1>1, <2>1, Sizes
<1>3. Grown(<<>>, bytes) = <<>> \o SubSeq(bytes, 1, Len(bytes))
  BY <1>2 DEF Grown
<1>4. /\ SubSeq(bytes, 1, Len(bytes)) \in Seq(Byte)
      /\ Len(SubSeq(bytes, 1, Len(bytes))) = Len(bytes)
      /\ \A i \in 1..Len(bytes) : SubSeq(bytes, 1, Len(bytes))[i] = bytes[i]
  <2>1. \A i \in 1..Len(bytes) : bytes[i] \in Byte
    OBVIOUS
  <2>2. QED
    BY <1>1, <2>1, PrefixIs
<1>5. SubSeq(bytes, 1, Len(bytes)) = bytes
  BY <1>4, SeqEqual
<1>6. <<>> \o bytes = bytes
  OBVIOUS
<1>7. QED
  BY <1>2, <1>3, <1>5, <1>6

(* The same with what was given before, o. *)
OpenedTo(f, o, ln, a, b, off, res) ==
  \E out : res.out = o \o out /\ Opened(f, ln, a, b, off, res.fd, out)

(* The bytes behind the pointer, copied to an empty buffer. *)
LEMMA CopyOpens ==
  ASSUME NEW f, NEW bytes, NEW ln, NEW a, NEW b, NEW off, NEW at, Opens(f, bytes, ln, a, b, off, at),
         NEW o, NEW g, NEW indic, NEW res, CopyTo(f, o, bytes, ln, g, indic, res)
  PROVE  OpenedTo(f, o, ln, a, b, off, res)
<1>1. /\ FeedOK(f) /\ f.buf = <<>> /\ f.secbufp = 0 /\ f.pusi_seen = TRUE
      /\ bytes \in Seq(Byte) /\ Len(bytes) <= PACKET /\ Len(bytes) > 0
      /\ ln \in Seq(Lens) /\ Layout(bytes, ln, a, b, off, at)
  BY DEF Opens
<1>2. Grown(f.buf, bytes) = bytes /\ Taken(f.buf, bytes) # 0
  BY <1>1, GrownFromEmpty
<1>3. /\ a \in Nat /\ b \in Nat /\ off \in Nat /\ a <= b /\ a >= 1 /\ off <= ln[b] /\ b <= Len(ln)
      /\ Len(ln) \in Nat /\ b \in 0..Len(ln)
  BY <1>1, LayoutTypes
<1>4. /\ Ordered(bytes, ln, b, off)
      /\ \A i \in 1..Len(bytes) : bytes[i][1] > 0 => bytes[i][1] >= a
  BY <1>1, LayoutOrdered
<1>5. Ordered(Grown(f.buf, bytes), ln, b, off)
  BY <1>2, <1>4
<1>6. PICK out : /\ res = [fd |-> res.fd, out |-> o \o out]
                 /\ Copy(f, bytes, ln, b, off, g, indic, res.fd, out)
  <2> DEFINE r == [fd |-> f, out |-> o]
  <2>1. Copyable(f, o, bytes, ln, b, off, r)
    BY <1>1, <1>3, <1>5 DEF Copyable, CopyTo
  <2>2. Sender(ln, b, off)
    BY <1>3 DEF Sender
  <2> HIDE DEF r
  <2>3. CopiedTo(f, o, bytes, ln, b, off, g, indic, res)
    BY <2>1, <2>2, CopyOrdered
  <2>4. QED
    BY <2>3 DEF CopiedTo
<1>7. /\ out \in Seq(0..Len(ln))
      /\ FeedOK(res.fd) /\ res.fd.cc = f.cc /\ res.fd.pusi_seen = TRUE
      /\ res.fd.filtering = f.filtering /\ res.fd.buf = bytes
      /\ Whole(out) \subseteq Ended(ln, b, off)
  BY <1>1, <1>2, <1>6 DEF Copy
<1>8. ASSUME NEW G, G \subseteq 1..(a - 1)
      PROVE  Follow(out, G) /\ NotAgain(res.fd.buf, res.fd.secbufp, G \cup Whole(out))
  <2>1. ASSUME NEW i \in 1..Len(bytes), bytes[i][1] > 0, NEW s \in G PROVE s < bytes[i][1]
    <3>1. bytes[i][1] \in Nat /\ bytes[i][1] >= a
      BY <1>1, <1>4, <2>1, ByteIs
    <3>2. s \in 1..(a - 1)
      BY <1>8
    <3>3. QED
      BY <1>3, <3>1, <3>2
  <2>2. NotAgain(bytes, 0, G)
    <3>1. \A i \in (0 + 1)..Len(bytes) : i \in 1..Len(bytes)
      OBVIOUS
    <3>2. QED
      BY <2>1, <3>1 DEF NotAgain
  <2>3. NotAgain(Grown(f.buf, bytes), f.secbufp, G)
    BY <1>1, <1>2, <2>2
  <2>4. QED
    BY <1>6, <1>7, <1>2, <2>3 DEF Copy
<1>9. Layout(Grown(f.buf, bytes), ln, a, b, off, at)
  BY <1>1, <1>2
<1>10. a \in a..(b + 1) /\ a # b + 1 /\ f.secbufp = at[a]
  BY <1>1, <1>3 DEF Layout
<1>11. /\ Aligned(res.fd, ln, b, off)
       /\ \A x \in 1..Len(out) : out[x] # 0
       /\ f.pusi_seen /\ Taken(f.buf, bytes) # 0 => GivesFrom(ln, b, off, a, out)
  BY <1>1, <1>6, <1>9, <1>10, CopyLayout
<1>12. ASSUME NEW t \in a..b, Complete(ln, b, off, t) PROVE t \in Whole(out)
  <2>1. GivesFrom(ln, b, off, a, out)
    BY <1>1, <1>2, <1>11
  <2>2. PICK x \in 1..Len(out) : out[x] = t
    BY <1>12, <2>1 DEF GivesFrom
  <2>3. t > 0
    BY <1>3
  <2>4. QED
    BY <1>3, <1>7, <2>2, <2>3, WholeIs
<1>13. Ordered(res.fd.buf, ln, b, off)
  BY <1>4, <1>7
<1>14. Opened(f, ln, a, b, off, res.fd, out)
  BY <1>7, <1>8, <1>11, <1>12, <1>13 DEF Opened
<1>15. res.out = o \o out
  BY <1>6
<1>16. QED
  BY <1>14, <1>15 DEF OpenedTo

-----------------------------------------------------------------------------
(* The inductive invariant. *)

(* The history variables: every section that is due has been given. *)
HistoryOK ==
  /\ got \in Seq(0..MaxSections) /\ due \subseteq given
  /\ suspect \in BOOLEAN /\ repeats \in BOOLEAN /\ clean \in BOOLEAN
  /\ missed \in 0..(CCMOD - 1)

(* Unless it is suspect, the counter shows how many packets the feed has missed. *)
InStep == feed.filtering /\ ~ suspect => snd.cc = (feed.cc + 1 + missed) % CCMOD

(* Its buffer starts with a section as long as none is missed. *)
StartsWithSection ==
  feed.filtering /\ ~ suspect /\ feed.pusi_seen /\ missed = 0 =>
    Aligned(feed, len, snd.sec, snd.off)

(* A section of which every byte was seen is being collected, or was given. *)
CleanIsSeen ==
  feed.filtering /\ clean =>
    /\ feed.pusi_seen /\ ~ suspect /\ missed = 0 /\ snd.sec > 0
    /\ snd.off = len[snd.sec] => snd.sec \in due

(* What holds in every state. *)
IInv ==
  /\ SenderOK /\ FeedOK(feed) /\ HistoryOK
  /\ given \subseteq Ended(len, snd.sec, snd.off)
  /\ Ordered(feed.buf, len, snd.sec, snd.off)
  /\ ~ repeats => NotAgain(feed.buf, feed.secbufp, given)
  /\ InStep /\ StartsWithSection /\ CleanIsSeen

(* The modulus of the continuity counter. *)
LEMMA CcMod == CCMOD \in Nat /\ CCMOD > 1 /\ CCMOD > 0
  BY SectionsAssumption

(* The sender after a packet. *)
Advances(m) ==
  /\ m.snd \in [sec : 0..MaxSections, off : 0..MAXSEC, cc : 0..(CCMOD - 1)]
  /\ m.len \in Seq(Lens) /\ Len(m.len) = m.snd.sec
  /\ m.snd.sec > 0 /\ m.snd.off <= m.len[m.snd.sec]
  /\ m.snd.cc = (snd.cc + 1) % CCMOD
  /\ \A s \in 1..snd.sec : m.len[s] = len[s]
  /\ snd.sec <= m.snd.sec /\ (snd.sec = m.snd.sec => snd.off <= m.snd.off)
  /\ Ended(len, snd.sec, snd.off) \subseteq Ended(m.len, m.snd.sec, m.snd.off)

(* The sender after a packet in which no section starts. *)
LEMMA ContinuesAdvances ==
  ASSUME SenderOK, NEW m, NEW l \in Nat, Continues(m, l)
  PROVE  Advances(m)
<1>1. /\ snd.sec \in Nat /\ snd.off \in Nat /\ Len(len) = snd.sec /\ len \in Seq(Lens)
      /\ snd.sec \in 0..MaxSections /\ snd.cc \in 0..(CCMOD - 1)
  BY Sizes DEF SenderOK
<1>2. /\ m.snd = [sec |-> snd.sec, off |-> snd.off + l, cc |-> (snd.cc + 1) % CCMOD]
      /\ m.len = len /\ snd.sec > 0 /\ snd.off + l <= len[snd.sec]
  BY DEF Continues
<1>3. len[snd.sec] \in Nat /\ len[snd.sec] <= MAXSEC
  <2>1. snd.sec \in 1..Len(len)
    BY <1>1, <1>2
  <2>2. QED
    BY <1>1, <2>1, LenRange
<1>4. snd.off + l \in 0..MAXSEC /\ snd.off <= snd.off + l /\ snd.off + l \in Nat
  BY <1>1, <1>2, <1>3, Sizes
<1>5. (snd.cc + 1) % CCMOD \in 0..(CCMOD - 1)
  BY <1>1, CcMod, ModInRange
<1>6. /\ m.snd.sec = snd.sec /\ m.snd.off = snd.off + l /\ m.snd.cc = (snd.cc + 1) % CCMOD
  BY <1>2
<1>7. m.snd \in [sec : 0..MaxSections, off : 0..MAXSEC, cc : 0..(CCMOD - 1)]
  BY <1>1, <1>2, <1>4, <1>5
<1>8. Ended(len, snd.sec, snd.off) \subseteq Ended(len, snd.sec, snd.off + l)
  <2> DEFINE s == snd.sec
             o == snd.off
             n == len[s]
  <2>1. s \in Nat /\ o \in Nat /\ l \in Nat /\ n \in Nat /\ o + l <= n
    BY <1>1, <1>2, <1>3
  <2>2. ASSUME NEW t \in 1..s, t < s \/ o = len[t] PROVE t < s \/ o + l = len[t]
    <3>1. CASE t = s
      <4>1. o = n
        BY <2>1, <2>2, <3>1
      <4> HIDE DEF o, n
      <4>2. o + l = n
        BY <2>1, <4>1
      <4>3. QED
        BY <3>1, <4>2 DEF o, n
    <3>2. CASE t < s
      BY <3>2
    <3>3. QED
      BY <2>1, <3>1, <3>2
  <2>3. QED
    BY <2>2 DEF Ended
<1>9. QED
  BY <1>1, <1>2, <1>4, <1>6, <1>7, <1>8 DEF Advances

(* The sender after a packet in which sections start. *)
LEMMA BeginsAdvances ==
  ASSUME SenderOK, NEW m, NEW l \in Nat, NEW at, Begins(m, l, at)
  PROVE  Advances(m)
<1>1. /\ snd.sec \in Nat /\ snd.off \in Nat /\ Len(len) = snd.sec /\ len \in Seq(Lens)
      /\ snd.sec \in 0..MaxSections /\ snd.cc \in 0..(CCMOD - 1)
  BY Sizes DEF SenderOK
<1>2. /\ m.len \in Seq(Lens) /\ Len(m.len) = m.snd.sec /\ \A s \in 1..snd.sec : m.len[s] = len[s]
      /\ m.snd.sec \in (snd.sec + 1)..MaxSections /\ m.snd.off \in 0..m.len[m.snd.sec]
      /\ m.snd = [sec |-> m.snd.sec, off |-> m.snd.off, cc |-> (snd.cc + 1) % CCMOD]
  BY DEF Begins
<1>3. m.snd.sec \in Nat /\ m.snd.sec > 0 /\ snd.sec < m.snd.sec /\ m.snd.sec \in 0..MaxSections
  BY <1>1, <1>2, Sizes
<1>4. m.len[m.snd.sec] \in Nat /\ m.len[m.snd.sec] <= MAXSEC
  <2>1. m.snd.sec \in 1..Len(m.len)
    BY <1>2, <1>3
  <2>2. QED
    BY <1>2, <2>1, LenRange
<1>5. m.snd.off \in Nat /\ m.snd.off \in 0..MAXSEC /\ m.snd.off <= m.len[m.snd.sec]
  BY <1>2, <1>4, Sizes
<1>6. (snd.cc + 1) % CCMOD \in 0..(CCMOD - 1) /\ m.snd.cc = (snd.cc + 1) % CCMOD
  <2>1. (snd.cc + 1) % CCMOD \in 0..(CCMOD - 1)
    BY <1>1, CcMod, ModInRange
  <2>2. QED
    BY <1>2, <2>1
<1>7. m.snd \in [sec : 0..MaxSections, off : 0..MAXSEC, cc : 0..(CCMOD - 1)]
  BY <1>2, <1>3, <1>5, <1>6
<1>8. snd.sec # m.snd.sec /\ snd.sec <= m.snd.sec
  BY <1>1, <1>3
<1>9. Ended(len, snd.sec, snd.off) \subseteq Ended(m.len, m.snd.sec, m.snd.off)
  <2>1. \A s \in 1..snd.sec : s \in 1..m.snd.sec /\ s < m.snd.sec
    BY <1>1, <1>3
  <2>2. QED
    BY <2>1 DEF Ended
<1>10. QED
  BY <1>2, <1>3, <1>5, <1>6, <1>7, <1>8, <1>9 DEF Advances

(* The sender after any packet. *)
LEMMA SendableAdvances ==
  ASSUME SenderOK, NEW m \in Sendable
  PROVE  Advances(m)
<1>1. PICK l \in Nat : Continues(m, l) \/ \E at : Begins(m, l, at)
  BY SendableIs
<1>2. QED
  BY <1>1, ContinuesAdvances, BeginsAdvances

-----------------------------------------------------------------------------
(* A packet with payload. *)

(* The packet is taken for the next one. *)
InSeq(dc) == CcOk(snd.cc) /\ ~ dc

(* The feed after its continuity check. *)
Checked(dc) ==
  IF InSeq(dc) THEN [feed EXCEPT !.cc = snd.cc]
  ELSE SectionNew([[feed EXCEPT !.cc = snd.cc] EXCEPT !.pusi_seen = FALSE])

(* A feed that is in sequence has missed nothing, unless it is suspect. *)
LEMMA NoneMissed ==
  ASSUME IInv, feed.filtering, ~ suspect, CcOk(snd.cc)
  PROVE  missed = 0
<1>1. /\ feed.cc \in Nat /\ missed \in Nat /\ missed < CCMOD /\ CCMOD \in Nat /\ CCMOD > 0
  BY CcMod DEF IInv, HistoryOK, FeedOK, FeedType
<1>2. (feed.cc + 1) % CCMOD = (feed.cc + 1 + missed) % CCMOD
  BY DEF IInv, InStep, CcOk
<1>3. SUFFICES ASSUME missed > 0 PROVE FALSE
  BY <1>1
<1>4. /\ feed.cc + 1 \in Int /\ feed.cc + 1 + missed \in Int
      /\ feed.cc + 1 < feed.cc + 1 + missed /\ feed.cc + 1 + missed < feed.cc + 1 + CCMOD
  BY <1>1, <1>3
<1>5. (feed.cc + 1) % CCMOD # (feed.cc + 1 + missed) % CCMOD
  BY <1>1, <1>4, ModDistinct
<1>6. QED
  BY <1>2, <1>5

(* What holds of the feed after the check. *)
Passed(f, dc) ==
  /\ FeedOK(f) /\ f.cc = snd.cc /\ f.filtering = feed.filtering
  /\ Ordered(f.buf, len, snd.sec, snd.off)
  /\ ~ repeats \/ ~ InSeq(dc) => NotAgain(f.buf, f.secbufp, given)
  /\ ~ repeats => NotAgain(f.buf, f.secbufp, given)
  /\ ~ InSeq(dc) => ~ f.pusi_seen
  /\ ~ suspect /\ f.pusi_seen => Aligned(f, len, snd.sec, snd.off)
  /\ clean /\ InSeq(dc) => f.pusi_seen /\ ~ suspect

(* The continuity check leaves a feed in order, and aligned if it still collects. *)
LEMMA CheckedIs ==
  ASSUME IInv, feed.filtering, NEW dc \in BOOLEAN
  PROVE  Passed(Checked(dc), dc)
<1> DEFINE f == Checked(dc)
<1>1. feed \in FeedType /\ snd.cc \in 0..(CCMOD - 1) /\ Len(feed.buf) <= MAXSEC + PACKET
      /\ feed.secbufp <= Len(feed.buf)
  BY DEF IInv, FeedOK, SenderOK
<1>2. CASE InSeq(dc)
  <2>1. f = [feed EXCEPT !.cc = snd.cc]
    BY <1>2 DEF Checked
  <2> HIDE DEF f
  <2>2. /\ f \in FeedType /\ f.cc = snd.cc /\ f.filtering = feed.filtering /\ f.buf = feed.buf
        /\ f.secbufp = feed.secbufp /\ f.pusi_seen = feed.pusi_seen
    BY <1>1, <2>1 DEF FeedType
  <2>3. FeedOK(f)
    BY <1>1, <2>2 DEF FeedOK
  <2>4. /\ Ordered(f.buf, len, snd.sec, snd.off)
        /\ ~ repeats => NotAgain(f.buf, f.secbufp, given)
    BY <2>2 DEF IInv
  <2>5. ~ suspect => missed = 0
    BY <1>2, NoneMissed DEF InSeq
  <2>6. ~ suspect /\ f.pusi_seen => Aligned(f, len, snd.sec, snd.off)
    BY <2>2, <2>5 DEF IInv, StartsWithSection, Aligned
  <2>7. clean => f.pusi_seen /\ ~ suspect
    BY <2>2 DEF IInv, CleanIsSeen
  <2>8. QED
    BY <1>2, <2>2, <2>3, <2>4, <2>6, <2>7 DEF Passed, f
<1>3. CASE ~ InSeq(dc)
  <2>1. f = SectionNew([[feed EXCEPT !.cc = snd.cc] EXCEPT !.pusi_seen = FALSE])
    BY <1>3 DEF Checked
  <2> HIDE DEF f
  <2>2. /\ f \in FeedType /\ f.cc = snd.cc /\ f.filtering = feed.filtering /\ f.buf = <<>>
        /\ f.secbufp = 0 /\ f.pusi_seen = FALSE
    <3>1. f = [feed EXCEPT !.cc = snd.cc, !.pusi_seen = FALSE, !.buf = <<>>, !.secbufp = 0]
      BY <2>1 DEF SectionNew
    <3>2. <<>> \in Seq(Byte)
      OBVIOUS
    <3>3. QED
      BY <1>1, <3>1, <3>2 DEF FeedType
  <2>3. Len(f.buf) = 0
    BY <2>2
  <2>4. FeedOK(f)
    BY <2>2, <2>3, Sizes DEF FeedOK
  <2>5. Ordered(f.buf, len, snd.sec, snd.off)
    BY <2>3 DEF Ordered
  <2>6. NotAgain(f.buf, f.secbufp, given)
    BY <2>2, <2>3 DEF NotAgain
  <2>7. QED
    BY <1>3, <2>2, <2>4, <2>5, <2>6 DEF Passed, f
<1>4. QED
  BY <1>2, <1>3

(* The sections of which the feed has now seen every byte sent. *)
All(m, dc) == {s \in {snd.sec} : s > 0 /\ clean /\ InSeq(dc)} \cup {s \in 1..m.snd.sec : s > snd.sec}

(* What a packet does to the feed, and what the callback is given. *)
Outcome(m, dc, bad, fd, out) ==
  /\ FeedOK(fd) /\ fd.cc = snd.cc /\ fd.filtering = feed.filtering
  /\ out \in Seq(0..MaxSections) /\ Whole(out) \subseteq Ended(m.len, m.snd.sec, m.snd.off)
  /\ Ordered(fd.buf, m.len, m.snd.sec, m.snd.off)
  /\ ~ repeats => Follow(out, given)
  /\ ~ (repeats /\ InSeq(dc) /\ (bad \/ ~ m.pkt.pusi)) =>
       NotAgain(fd.buf, fd.secbufp, given \cup Whole(out))
  /\ ~ suspect => \A x \in 1..Len(out) : out[x] # 0
  /\ ~ bad /\ ~ (suspect /\ InSeq(dc) /\ ~ m.pkt.pusi) /\ fd.pusi_seen =>
       Aligned(fd, m.len, m.snd.sec, m.snd.off)
  /\ ~ bad /\ m.snd.sec \in All(m, dc) =>
       fd.pusi_seen /\ ~ (suspect /\ InSeq(dc) /\ ~ m.pkt.pusi)
  /\ ~ bad => \A s \in All(m, dc) : s < m.snd.sec \/ m.snd.off = m.len[s] =>
                s \in given \cup Whole(out)

(* The sender went on from byte o0 of section s0 to byte o1 of section s1. *)
Later(ln, lm, s0, o0, s1, o1) ==
  /\ s0 \in Nat /\ o0 \in Nat /\ s1 \in Nat /\ o1 \in Nat
  /\ \A s \in 1..s0 : lm[s] = ln[s]
  /\ s0 <= s1 /\ (s0 = s1 => o0 <= o1)

(* OrderedLater, for a sender that went on. *)
LEMMA OrderedOn ==
  ASSUME NEW buf \in Seq(Byte), NEW ln, NEW lm, NEW s0, NEW o0, NEW s1, NEW o1,
         Later(ln, lm, s0, o0, s1, o1), Ordered(buf, ln, s0, o0)
  PROVE  Ordered(buf, lm, s1, o1)
  BY OrderedLater DEF Later

(* A damaged pointer field: nothing is copied. *)
LEMMA OutcomeBad ==
  ASSUME IInv, feed.filtering, NEW dc \in BOOLEAN, NEW m, Advances(m)
  PROVE  Outcome(m, dc, TRUE, Checked(dc), <<>>)
<1> DEFINE f == Checked(dc)
<1>1. Passed(f, dc)
  BY CheckedIs
<1> HIDE DEF f
<1>2. Whole(<<>>) = {} /\ given \cup Whole(<<>>) = given
  BY WholeEmpty
<1>3. Ordered(f.buf, m.len, m.snd.sec, m.snd.off)
  <2>1. f.buf \in Seq(Byte) /\ Ordered(f.buf, len, snd.sec, snd.off)
    BY <1>1 DEF Passed, FeedOK, FeedType
  <2>2. /\ snd.sec \in Nat /\ snd.off \in Nat /\ m.snd.sec \in Nat /\ m.snd.off \in Nat
        /\ \A s \in 1..snd.sec : m.len[s] = len[s]
        /\ snd.sec <= m.snd.sec /\ (snd.sec = m.snd.sec => snd.off <= m.snd.off)
    <3>1. snd \in [sec : 0..MaxSections, off : 0..MAXSEC, cc : 0..(CCMOD - 1)]
      BY DEF IInv, SenderOK
    <3>2. m.snd \in [sec : 0..MaxSections, off : 0..MAXSEC, cc : 0..(CCMOD - 1)]
      BY DEF Advances
    <3>3. /\ \A s \in 1..snd.sec : m.len[s] = len[s]
          /\ snd.sec <= m.snd.sec /\ (snd.sec = m.snd.sec => snd.off <= m.snd.off)
      BY DEF Advances
    <3>4. snd.sec \in Nat /\ snd.off \in Nat
      BY <3>1
    <3>5. m.snd.sec \in Nat /\ m.snd.off \in Nat
      BY <3>2
    <3>6. QED
      BY <3>3, <3>4, <3>5
  <2>3. Later(len, m.len, snd.sec, snd.off, m.snd.sec, m.snd.off)
    BY <2>2 DEF Later
  <2>4. QED
    BY <2>1, <2>3, OrderedOn
<1>4. Follow(<<>>, given)
  BY <1>2 DEF Follow
<1>5. <<>> \in Seq(0..MaxSections) /\ \A x \in 1..Len(<<>>) : <<>>[x] # 0
  OBVIOUS
<1>6. ~ (repeats /\ InSeq(dc)) => NotAgain(f.buf, f.secbufp, given)
  BY <1>1 DEF Passed
<1>7. QED
  BY <1>1, <1>2, <1>3, <1>4, <1>5, <1>6 DEF Passed, Outcome, f

(* Pieces of fewer sections are pieces of more. *)
LEMMA SeqWider ==
  ASSUME NEW n \in Nat, NEW k \in Nat, n <= k, NEW q \in Seq(0..n)
  PROVE  q \in Seq(0..k)
<1>1. 0..n \subseteq 0..k
  OBVIOUS
<1>2. Len(q) \in Nat /\ q = [i \in 1..Len(q) |-> q[i]] /\ \A i \in 1..Len(q) : q[i] \in 0..n
  OBVIOUS
<1>3. q \in [1..Len(q) -> 0..k]
  BY <1>1, <1>2
<1>4. QED
  BY <1>2, <1>3, SeqDef

(* A packet in which no section starts. *)
LEMMA OutcomeContinues ==
  ASSUME IInv, feed.filtering, NEW dc \in BOOLEAN, NEW m, NEW l \in Nat, Continues(m, l),
         NEW fd, NEW out, Ran(Checked(dc), m.pkt.bytes, len, snd.sec, snd.off, l, fd, out)
  PROVE  Outcome(m, dc, FALSE, fd, out)
<1> DEFINE f == Checked(dc)
<1>1. Passed(f, dc)
  BY CheckedIs
<1>2. m.len = len /\ m.snd.sec = snd.sec /\ m.snd.off = snd.off + l
  BY DEF Continues
<1>3. /\ snd.sec > 0 /\ snd.off < len[snd.sec]
      /\ l < Len(m.pkt.bytes) => snd.off + l = len[snd.sec]
      /\ ~ m.pkt.pusi
  BY DEF Continues
<1>4. Tight(m.pkt.bytes, len, snd.sec, snd.off, l)
  BY <1>3 DEF Tight
<1>5. /\ FeedOK(fd) /\ fd.cc = f.cc /\ fd.pusi_seen = f.pusi_seen /\ fd.filtering = f.filtering
      /\ Ordered(fd.buf, len, snd.sec, snd.off + l)
      /\ out \in Seq(0..Len(len)) /\ Whole(out) \subseteq Ended(len, snd.sec, snd.off + l)
      /\ ~ f.pusi_seen => out = <<>>
  BY DEF Ran
<1>6. NotAgain(f.buf, f.secbufp, given) =>
        Follow(out, given) /\ NotAgain(fd.buf, fd.secbufp, given \cup Whole(out))
  BY DEF Ran, IInv
<1>7. Aligned(f, len, snd.sec, snd.off) =>
        /\ Aligned(fd, len, snd.sec, snd.off + l)
        /\ \A x \in 1..Len(out) : out[x] # 0
        /\ f.pusi_seen /\ snd.off + l = len[snd.sec] => snd.sec \in Whole(out)
  BY <1>3, <1>4 DEF Ran
<1> HIDE DEF f
<1>8. out \in Seq(0..MaxSections)
  <2>1. Len(len) = snd.sec /\ snd.sec \in 0..MaxSections
    BY DEF IInv, SenderOK
  <2>2. Len(len) \in Nat /\ Len(len) <= MaxSections
    BY <2>1, Sizes
  <2>3. QED
    BY <1>5, <2>2, Sizes, SeqWider
<1>9. ~ suspect => \A x \in 1..Len(out) : out[x] # 0
  <2>1. CASE f.pusi_seen
    BY <1>1, <1>7, <2>1 DEF Passed
  <2>2. CASE ~ f.pusi_seen
    <3>1. out = <<>>
      BY <1>5, <2>2
    <3>2. QED
      BY <3>1
  <2>3. QED
    BY <2>1, <2>2
<1>10. /\ ~ repeats => Follow(out, given)
       /\ ~ (repeats /\ InSeq(dc)) => NotAgain(fd.buf, fd.secbufp, given \cup Whole(out))
  BY <1>1, <1>6 DEF Passed
<1>11. ~ (suspect /\ InSeq(dc)) /\ fd.pusi_seen => Aligned(fd, len, snd.sec, snd.off + l)
  BY <1>1, <1>5, <1>7 DEF Passed
<1>12. ASSUME NEW s \in All(m, dc)
       PROVE  s = snd.sec /\ clean /\ InSeq(dc)
  <2>1. snd.sec \in Nat
    BY Sizes DEF IInv, SenderOK
  <2>2. QED
    BY <1>2, <2>1 DEF All
<1>13. ASSUME m.snd.sec \in All(m, dc)
       PROVE  fd.pusi_seen /\ ~ (suspect /\ InSeq(dc))
  BY <1>1, <1>5, <1>12, <1>13 DEF Passed
<1>14. ASSUME NEW s \in All(m, dc), s < m.snd.sec \/ m.snd.off = m.len[s]
       PROVE  s \in given \cup Whole(out)
  <2>1. s = snd.sec /\ f.pusi_seen /\ ~ suspect
    BY <1>1, <1>12 DEF Passed
  <2>2. snd.off + l = len[snd.sec]
    <3>1. snd.sec \in Nat
      BY Sizes DEF IInv, SenderOK
    <3>2. ~ (s < m.snd.sec)
      BY <1>2, <2>1, <3>1
    <3>3. QED
      BY <1>2, <1>14, <2>1, <3>2
  <2>3. QED
    BY <1>1, <1>7, <2>1, <2>2 DEF Passed
<1>15. fd.cc = snd.cc /\ fd.filtering = feed.filtering
  BY <1>1, <1>5 DEF Passed
<1>16. QED
  BY <1>2, <1>3, <1>5, <1>8, <1>9, <1>10, <1>11, <1>13, <1>14, <1>15 DEF Outcome

(* Sections that have ended were begun. *)
LEMMA EndedUpTo ==
  ASSUME NEW ln, NEW sec, NEW off
  PROVE  Ended(ln, sec, off) \subseteq 1..sec
  BY DEF Ended

(* Every section before the last one begun has ended. *)
LEMMA EndedBefore ==
  ASSUME NEW ln, NEW sec \in Nat, NEW off, NEW s \in Nat, s < sec
  PROVE  1..s \subseteq Ended(ln, sec, off)
<1>1. \A t \in 1..s : t \in 1..sec /\ t < sec
  OBVIOUS
<1>2. QED
  BY <1>1 DEF Ended

(* A layout, with the lengths of sections begun later. *)
LEMMA AlignedLens ==
  ASSUME NEW f, FeedOK(f), NEW ln \in Seq(Lens), NEW lm \in Seq(Lens), NEW b \in Nat, NEW off,
         Aligned(f, ln, b, off), b <= Len(lm), \A s \in 1..b : lm[s] = ln[s]
  PROVE  Aligned(f, lm, b, off)
<1>1. f.buf \in Seq(Byte)
  BY DEF FeedOK, FeedType
<1>2. PICK a, at : Layout(f.buf, ln, a, b, off, at) /\ Boundary(ln, a, b, off, at, f.secbufp)
  BY DEF Aligned
<1>3. Layout(f.buf, lm, a, b, off, at) /\ Boundary(lm, a, b, off, at, f.secbufp)
  BY <1>1, <1>2, LayoutLens
<1>4. QED
  BY <1>3 DEF Aligned

(* The pieces of two dumps. *)
LEMMA NoZeroConcat ==
  ASSUME NEW n \in Nat, NEW o \in Seq(0..n), NEW a \in Seq(0..n),
         \A x \in 1..Len(o) : o[x] # 0, \A x \in 1..Len(a) : a[x] # 0
  PROVE  \A x \in 1..Len(o \o a) : (o \o a)[x] # 0
<1> DEFINE b == o \o a
<1>1. /\ Len(o) \in Nat /\ Len(a) \in Nat /\ Len(b) = Len(o) + Len(a)
      /\ \A i \in 1..Len(o) : b[i] = o[i]
      /\ \A i \in 1..Len(a) : b[Len(o) + i] = a[i]
  OBVIOUS
<1> HIDE DEF b
<1>2. ASSUME NEW x \in 1..Len(b) PROVE b[x] # 0
  <2>1. CASE x <= Len(o)
    <3>1. x \in 1..Len(o)
      BY <1>1, <2>1
    <3>2. QED
      BY <1>1, <3>1
  <2>2. CASE x > Len(o)
    <3>1. x - Len(o) \in 1..Len(a) /\ Len(o) + (x - Len(o)) = x
      BY <1>1, <2>2
    <3>2. b[Len(o) + (x - Len(o))] = a[x - Len(o)]
      BY <1>1, <3>1
    <3>3. QED
      BY <3>1, <3>2
  <2>3. QED
    BY <1>1, <2>1, <2>2
<1>3. QED
  BY <1>2 DEF b

(* A packet in which sections start: o1 is given for its first part, o2 for the rest. *)
Begun(m, dc, l, at, f1, o1, f2, fd, o2) ==
  /\ Begins(m, l, at) /\ l \in Nat
  /\ Ran(Checked(dc), Front(m), m.len, snd.sec, snd.off, l, f1, o1)
  /\ f2.cc = f1.cc /\ f2.filtering = f1.filtering
  /\ Opened(f2, m.len, snd.sec + 1, m.snd.sec, m.snd.off, fd, o2)

(* The first part. *)
LEMMA FrontOutcome ==
  ASSUME IInv, feed.filtering, NEW dc \in BOOLEAN, NEW m, NEW l, NEW at, NEW f1, NEW o1, NEW f2,
         NEW fd, NEW o2, Begun(m, dc, l, at, f1, o1, f2, fd, o2)
  PROVE  /\ FeedOK(f1) /\ f1.cc = snd.cc /\ f1.filtering = feed.filtering
         /\ o1 \in Seq(0..Len(m.len)) /\ Whole(o1) \subseteq 1..snd.sec
         /\ Follow(o1, {}) /\ (~ repeats => Follow(o1, given))
         /\ ~ suspect => \A x \in 1..Len(o1) : o1[x] # 0
         /\ snd.sec > 0 /\ clean /\ InSeq(dc) => snd.sec \in given \cup Whole(o1)
<1> DEFINE f == Checked(dc)
<1>1. Passed(f, dc)
  BY CheckedIs
<1>2. Ran(f, Front(m), m.len, snd.sec, snd.off, l, f1, o1)
  BY DEF Begun
<1> HIDE DEF f
<1>3. /\ m.len \in Seq(Lens) /\ Len(m.len) = m.snd.sec /\ \A s \in 1..snd.sec : m.len[s] = len[s]
      /\ m.snd.sec \in (snd.sec + 1)..MaxSections
      /\ l > 0 => snd.sec > 0
      /\ snd.sec > 0 => snd.off + l = len[snd.sec]
      /\ l = Len(Front(m)) /\ Front(m) \in Seq(Byte) /\ l \in Nat
  BY DEF Begun, Begins
<1>4. /\ snd.sec \in Nat /\ snd.off \in Nat /\ len \in Seq(Lens) /\ Len(len) = snd.sec
  BY Sizes DEF IInv, SenderOK
<1>5. ASSUME snd.sec > 0 PROVE len[snd.sec] \in Nat /\ m.len[snd.sec] = len[snd.sec]
  <2>1. snd.sec \in 1..Len(len) /\ snd.sec \in 1..snd.sec
    BY <1>4, <1>5
  <2>2. QED
    BY <1>3, <1>4, <2>1, LenRange
<1>6. /\ FeedOK(f1) /\ f1.cc = snd.cc /\ f1.filtering = feed.filtering
      /\ o1 \in Seq(0..Len(m.len)) /\ Follow(o1, {})
      /\ ~ f.pusi_seen => o1 = <<>>
      /\ Whole(o1) \subseteq Ended(m.len, snd.sec, snd.off + l)
  BY <1>1, <1>2 DEF Ran, Passed
<1>7. Whole(o1) \subseteq 1..snd.sec
  BY <1>6, EndedUpTo
<1>8. ~ repeats => Follow(o1, given)
  <2>1. given \subseteq Ended(m.len, snd.sec, snd.off)
    <3>1. \A s \in 1..snd.sec : m.len[s] = len[s]
      BY <1>3
    <3>2. Ended(m.len, snd.sec, snd.off) = Ended(len, snd.sec, snd.off)
      BY <1>4, <3>1 DEF Ended
    <3>3. QED
      BY <3>2 DEF IInv
  <2>2. NotAgain(f.buf, f.secbufp, given) => Follow(o1, given)
    BY <1>2, <2>1 DEF Ran
  <2>3. QED
    BY <1>1, <2>2 DEF Passed
<1>9. Tight(Front(m), m.len, snd.sec, snd.off, l)
  <2>1. CASE l = 0
    <3>1. Front(m) = <<>>
      BY <1>3, <2>1, EmptySeq
    <3>2. QED
      BY <3>1 DEF Tight
  <2>2. CASE l > 0
    <3>1. snd.off < m.len[snd.sec] /\ ~ (l < Len(Front(m)))
      BY <1>3, <1>4, <1>5, <2>2
    <3>2. QED
      BY <3>1 DEF Tight
  <2>3. QED
    BY <1>3, <2>1, <2>2
<1>10. ASSUME ~ suspect, f.pusi_seen PROVE Aligned(f, m.len, snd.sec, snd.off)
  <2>1. Aligned(f, len, snd.sec, snd.off) /\ FeedOK(f)
    BY <1>1, <1>10 DEF Passed
  <2>2. snd.sec <= Len(m.len)
    BY <1>3, <1>4
  <2>3. QED
    BY <1>3, <1>4, <2>1, <2>2, AlignedLens
<1>11. ~ suspect => \A x \in 1..Len(o1) : o1[x] # 0
  <2>1. CASE f.pusi_seen
    BY <1>2, <1>9, <1>10, <2>1 DEF Ran
  <2>2. CASE ~ f.pusi_seen
    <3>1. o1 = <<>>
      BY <1>6, <2>2
    <3>2. QED
      BY <3>1
  <2>3. QED
    BY <2>1, <2>2
<1>12. ASSUME snd.sec > 0, clean, InSeq(dc) PROVE snd.sec \in given \cup Whole(o1)
  <2>1. f.pusi_seen /\ ~ suspect
    BY <1>1, <1>12 DEF Passed
  <2>2. snd.off <= len[snd.sec] /\ snd.off + l = len[snd.sec]
    BY <1>3, <1>12 DEF IInv, SenderOK
  <2>3. CASE snd.off = len[snd.sec]
    BY <1>12, <2>3 DEF IInv, CleanIsSeen, HistoryOK
  <2>4. CASE snd.off < len[snd.sec]
    <3>1. snd.off < m.len[snd.sec] /\ snd.off + l = m.len[snd.sec]
      BY <1>5, <1>12, <2>2, <2>4
    <3>2. Aligned(f, m.len, snd.sec, snd.off)
      BY <1>10, <2>1
    <3>3. snd.sec \in Whole(o1)
      BY <1>2, <1>9, <2>1, <3>1, <3>2 DEF Ran
    <3>4. QED
      BY <3>3
  <2>5. QED
    BY <1>4, <1>5, <1>12, <2>2, <2>3, <2>4
<1>13. QED
  BY <1>6, <1>7, <1>8, <1>11, <1>12

(* A packet in which sections start. *)
LEMMA OutcomeBegins ==
  ASSUME IInv, feed.filtering, NEW dc \in BOOLEAN, NEW m, NEW l, NEW at, NEW f1, NEW o1, NEW f2,
         NEW fd, NEW o2, Begun(m, dc, l, at, f1, o1, f2, fd, o2)
  PROVE  Outcome(m, dc, FALSE, fd, o1 \o o2)
<1> DEFINE n == Len(m.len)
           out == o1 \o o2
           G == given \cup Whole(o1)
<1>1. /\ FeedOK(f1) /\ f1.cc = snd.cc /\ f1.filtering = feed.filtering
      /\ o1 \in Seq(0..n) /\ Whole(o1) \subseteq 1..snd.sec
      /\ Follow(o1, {}) /\ (~ repeats => Follow(o1, given))
      /\ ~ suspect => \A x \in 1..Len(o1) : o1[x] # 0
      /\ snd.sec > 0 /\ clean /\ InSeq(dc) => snd.sec \in given \cup Whole(o1)
  BY FrontOutcome
<1>2. /\ f2.cc = f1.cc /\ f2.filtering = f1.filtering
      /\ Opened(f2, m.len, snd.sec + 1, m.snd.sec, m.snd.off, fd, o2)
      /\ m.pkt.pusi /\ m.len \in Seq(Lens) /\ n = m.snd.sec
      /\ m.snd.sec \in (snd.sec + 1)..MaxSections
  BY DEF Begun, Begins
<1>3. /\ snd.sec \in Nat /\ m.snd.sec \in Nat /\ snd.sec < m.snd.sec /\ m.snd.sec <= MaxSections
      /\ n \in Nat /\ n <= MaxSections /\ (snd.sec + 1) - 1 = snd.sec
  <2>1. snd.sec \in Nat
    BY Sizes DEF IInv, SenderOK
  <2>2. QED
    BY <1>2, <2>1, Sizes
<1>4. G \subseteq 1..snd.sec
  <2>1. given \subseteq 1..snd.sec
    BY EndedUpTo DEF IInv
  <2>2. QED
    BY <1>1, <2>1
<1>5. /\ FeedOK(fd) /\ fd.cc = f2.cc /\ fd.pusi_seen = TRUE /\ fd.filtering = f2.filtering
      /\ Ordered(fd.buf, m.len, m.snd.sec, m.snd.off)
      /\ o2 \in Seq(0..n) /\ Whole(o2) \subseteq Ended(m.len, m.snd.sec, m.snd.off)
      /\ Aligned(fd, m.len, m.snd.sec, m.snd.off)
      /\ \A x \in 1..Len(o2) : o2[x] # 0
      /\ \A t \in (snd.sec + 1)..m.snd.sec : Complete(m.len, m.snd.sec, m.snd.off, t) => t \in Whole(o2)
  BY <1>2 DEF Opened
<1>6. Follow(o2, G) /\ NotAgain(fd.buf, fd.secbufp, G \cup Whole(o2))
  <2>1. G \subseteq 1..((snd.sec + 1) - 1)
    BY <1>3, <1>4
  <2> HIDE DEF G
  <2>2. QED
    BY <1>2, <2>1 DEF Opened
<1>7. Follow(o2, {} \cup Whole(o1))
  BY <1>6 DEF Follow
<1> HIDE DEF n
<1>8. Whole(out) = Whole(o1) \cup Whole(o2) /\ out \in Seq(0..n)
  BY <1>1, <1>3, <1>5, <1>7, FollowConcat
<1>9. ~ repeats => Follow(out, given)
  BY <1>1, <1>3, <1>5, <1>6, FollowConcat
<1>10. NotAgain(fd.buf, fd.secbufp, given \cup Whole(out))
  <2>1. given \cup Whole(out) = G \cup Whole(o2)
    BY <1>8
  <2>2. QED
    BY <1>6, <2>1
<1>11. ~ suspect => \A x \in 1..Len(out) : out[x] # 0
  BY <1>1, <1>3, <1>5, NoZeroConcat
<1>12. out \in Seq(0..MaxSections)
  BY <1>3, <1>8, Sizes, SeqWider
<1>13. Whole(out) \subseteq Ended(m.len, m.snd.sec, m.snd.off)
  <2>1. 1..snd.sec \subseteq Ended(m.len, m.snd.sec, m.snd.off)
    BY <1>3, EndedBefore
  <2>2. QED
    BY <1>1, <1>5, <1>8, <2>1
<1> HIDE DEF out
<1>14. ASSUME NEW s \in All(m, dc), s < m.snd.sec \/ m.snd.off = m.len[s]
       PROVE  s \in given \cup Whole(out)
  <2>1. CASE s = snd.sec /\ s > 0 /\ clean /\ InSeq(dc)
    BY <1>1, <1>8, <2>1
  <2>2. CASE s \in 1..m.snd.sec /\ s > snd.sec
    <3>1. s \in (snd.sec + 1)..m.snd.sec
      BY <1>3, <2>2
    <3>2. Complete(m.len, m.snd.sec, m.snd.off, s)
      <4>1. CASE s < m.snd.sec
        BY <4>1 DEF Complete
      <4>2. CASE ~ (s < m.snd.sec)
        <5>1. s = m.snd.sec /\ m.snd.off = m.len[m.snd.sec]
          BY <1>3, <1>14, <2>2, <4>2
        <5>2. QED
          BY <5>1 DEF Complete
      <4>3. QED
        BY <4>1, <4>2
    <3>3. QED
      BY <1>5, <1>8, <3>1, <3>2
  <2>3. QED
    BY <2>1, <2>2 DEF All
<1>15. fd.cc = snd.cc /\ fd.filtering = feed.filtering
  BY <1>1, <1>2, <1>5
<1>16. Outcome(m, dc, FALSE, fd, out)
  BY <1>2, <1>5, <1>9, <1>10, <1>11, <1>12, <1>13, <1>14, <1>15 DEF Outcome
<1>17. QED
  BY <1>16 DEF out

(* r is the result of packet m for the feed c. *)
Result(m, dc, bad, g, indic, c, r) ==
  /\ c = [fd |-> Checked(dc), out |-> <<>>]
  /\ r = SectionPacket(m.pkt, snd.cc, dc, bad, m.len, g, indic)

(* The three paths of section_packet. *)
LEMMA PacketIs ==
  ASSUME NEW m, NEW dc, NEW bad, NEW g, NEW indic, NEW c, NEW r,
         Result(m, dc, bad, g, indic, c, r)
  PROVE  /\ ~ m.pkt.pusi => r = CopyDump(c, m.pkt.bytes, m.len, g, indic)
         /\ m.pkt.pusi /\ bad => r = c
         /\ m.pkt.pusi /\ m.pkt.count > 1 /\ ~ bad =>
              LET before == CopyDump(c, Front(m), m.len, g, indic)
              IN r = CopyDump([before EXCEPT !.fd = SectionNew([@ EXCEPT !.pusi_seen = TRUE])],
                              Behind(m), m.len, g, indic)
<1>1. c = [fd |-> IF CcOk(snd.cc) /\ ~ dc THEN [feed EXCEPT !.cc = snd.cc]
                  ELSE SectionNew([[feed EXCEPT !.cc = snd.cc] EXCEPT !.pusi_seen = FALSE]),
           out |-> <<>>]
  BY DEF Checked, InSeq, Result
<1>2. QED
  BY <1>1 DEF SectionPacket, Front, Behind, Result

(* Every packet has its outcome, whichever path it takes. *)
LEMMA PacketOutcome ==
  ASSUME IInv, feed.filtering, NEW m \in Sendable, NEW dc \in BOOLEAN, NEW bad \in BOOLEAN,
         bad => m.pkt.pusi, NEW g, NEW indic,
         NEW r, r = SectionPacket(m.pkt, snd.cc, dc, bad, m.len, g, indic)
  PROVE  Outcome(m, dc, bad, r.fd, r.out)
<1> DEFINE f == Checked(dc)
           c == [fd |-> f, out |-> <<>>]
<1>0. SenderOK /\ Advances(m)
  BY SendableAdvances DEF IInv
<1>1. Passed(f, dc)
  BY CheckedIs
<1>2. PICK l \in Nat : Continues(m, l) \/ \E at : Begins(m, l, at)
  BY <1>0, SendableIs
<1>3. /\ ~ m.pkt.pusi => r = CopyDump(c, m.pkt.bytes, m.len, g, indic)
      /\ m.pkt.pusi /\ bad => r = c
      /\ m.pkt.pusi /\ m.pkt.count > 1 /\ ~ bad =>
           LET before == CopyDump(c, Front(m), m.len, g, indic)
           IN r = CopyDump([before EXCEPT !.fd = SectionNew([@ EXCEPT !.pusi_seen = TRUE])],
                           Behind(m), m.len, g, indic)
  <2>1. Result(m, dc, bad, g, indic, c, r)
    BY DEF Result
  <2> HIDE DEF c
  <2>2. QED
    BY <2>1, PacketIs
<1>4. /\ FeedOK(f) /\ Ordered(f.buf, len, snd.sec, snd.off) /\ f.buf \in Seq(Byte)
  BY <1>1 DEF Passed, FeedOK, FeedType
<1>5. /\ snd.sec \in Nat /\ snd.off \in Nat /\ len \in Seq(Lens) /\ Len(len) = snd.sec
      /\ snd.sec \in 0..Len(len)
  BY Sizes DEF IInv, SenderOK
<1>6. CASE bad
  <2>0. r = c
    BY <1>3, <1>6
  <2>1. r.fd = f /\ r.out = <<>>
    BY <2>0
  <2>2. Outcome(m, dc, TRUE, f, <<>>)
    BY <1>0, OutcomeBad
  <2>3. QED
    BY <1>6, <2>1, <2>2
<1>7. CASE ~ bad /\ Continues(m, l)
  <2>1. r = CopyDump([fd |-> f, out |-> <<>>], m.pkt.bytes, len, g, indic)
    BY <1>3, <1>7 DEF Continues
  <2> HIDE DEF f, c
  <2>2. Runs(f, m.pkt.bytes, len, snd.sec, snd.off, l)
    BY <1>4, <1>5, <1>7 DEF Runs, Continues
  <2>3. Ran(f, m.pkt.bytes, len, snd.sec, snd.off, l, r.fd, r.out)
    BY <2>1, <2>2, CopyRun
  <2>4. Outcome(m, dc, FALSE, r.fd, r.out)
    BY <1>7, <2>3, OutcomeContinues DEF f
  <2>5. QED
    BY <1>7, <2>4
<1>8. CASE ~ bad /\ \E at : Begins(m, l, at)
  <2>1. PICK at : Begins(m, l, at)
    BY <1>8
  <2>2. /\ m.pkt.pusi /\ m.pkt.count > 1
        /\ m.len \in Seq(Lens) /\ Len(m.len) = m.snd.sec /\ \A s \in 1..snd.sec : m.len[s] = len[s]
        /\ m.snd.sec \in (snd.sec + 1)..MaxSections
        /\ Front(m) \in Seq(Byte) /\ Run(Front(m), snd.sec, snd.off, l)
        /\ l > 0 => snd.sec > 0
        /\ snd.sec > 0 => snd.off + l = len[snd.sec]
        /\ Behind(m) \in Seq(Byte) /\ Len(Behind(m)) <= PACKET /\ Len(Behind(m)) > 0
        /\ Layout(Behind(m), m.len, snd.sec + 1, m.snd.sec, m.snd.off, at)
    BY <2>1 DEF Begins
  <2>3. snd.sec \in 0..Len(m.len) /\ Len(m.len) \in Nat
    BY <1>5, <2>2
  <2>4. snd.sec > 0 => snd.off + l <= m.len[snd.sec]
    <3>1. SUFFICES ASSUME snd.sec > 0 PROVE snd.off + l <= m.len[snd.sec]
      OBVIOUS
    <3>2. snd.sec \in 1..snd.sec
      BY <1>5, <3>1
    <3>3. m.len[snd.sec] = snd.off + l
      BY <2>2, <3>1, <3>2
    <3>4. QED
      BY <1>5, <3>3
  <2>5. Ordered(f.buf, m.len, snd.sec, snd.off)
    <3>1. Later(len, m.len, snd.sec, snd.off, snd.sec, snd.off)
      BY <1>5, <2>2 DEF Later
    <3>2. QED
      BY <1>4, <3>1, OrderedOn
  <2> HIDE DEF f
  <2>6. Runs(f, Front(m), m.len, snd.sec, snd.off, l)
    BY <1>4, <1>5, <2>2, <2>3, <2>4, <2>5 DEF Runs
  <2> DEFINE before == CopyDump(c, Front(m), m.len, g, indic)
  <2>7. /\ before = [fd |-> before.fd, out |-> before.out]
        /\ Ran(f, Front(m), m.len, snd.sec, snd.off, l, before.fd, before.out)
    BY <2>6, CopyRun
  <2>8. r = CopyDump([before EXCEPT !.fd = SectionNew([@ EXCEPT !.pusi_seen = TRUE])],
                     Behind(m), m.len, g, indic)
    BY <1>3, <1>8, <2>2
  <2> HIDE DEF before, c
  <2> DEFINE f1 == before.fd
             o1 == before.out
             f2 == SectionNew([f1 EXCEPT !.pusi_seen = TRUE])
  <2>9. [before EXCEPT !.fd = SectionNew([@ EXCEPT !.pusi_seen = TRUE])] = [fd |-> f2, out |-> o1]
    BY <2>7
  <2>10. r = CopyDump([fd |-> f2, out |-> o1], Behind(m), m.len, g, indic)
    BY <2>8, <2>9
  <2>11. FeedOK(f1) /\ f1 \in FeedType /\ o1 \in Seq(0..Len(m.len))
    BY <2>7 DEF Ran, FeedOK
  <2>12. o1 \in Seq(Nat)
    BY <2>11
  <2> HIDE DEF f1, o1
  <2>13. /\ f2.buf = <<>> /\ f2.secbufp = 0 /\ f2.pusi_seen = TRUE /\ f2 \in FeedType
         /\ f2.cc = f1.cc /\ f2.filtering = f1.filtering
    <3>1. f2 = [f1 EXCEPT !.pusi_seen = TRUE, !.buf = <<>>, !.secbufp = 0]
      BY <2>11 DEF SectionNew, FeedType
    <3> HIDE DEF f2
    <3>2. <<>> \in Seq(Byte)
      OBVIOUS
    <3>3. QED
      BY <2>11, <3>1, <3>2 DEF FeedType
  <2> HIDE DEF f2
  <2>14. FeedOK(f2)
    <3>1. Len(f2.buf) = 0
      BY <2>13
    <3>2. QED
      BY <2>13, <3>1, Sizes DEF FeedOK
  <2>15. Opens(f2, Behind(m), m.len, snd.sec + 1, m.snd.sec, m.snd.off, at)
    BY <2>2, <2>13, <2>14 DEF Opens
  <2>16. PICK o2 : /\ r.out = o1 \o o2
                   /\ Opened(f2, m.len, snd.sec + 1, m.snd.sec, m.snd.off, r.fd, o2)
    <3>1. CopyTo(f2, o1, Behind(m), m.len, g, indic, r)
      BY <2>10, <2>12 DEF CopyTo
    <3>2. OpenedTo(f2, o1, m.len, snd.sec + 1, m.snd.sec, m.snd.off, r)
      BY <2>15, <3>1, CopyOpens
    <3>3. QED
      BY <3>2 DEF OpenedTo
  <2>17. Begun(m, dc, l, at, f1, o1, f2, r.fd, o2)
    BY <2>1, <2>7, <2>13, <2>16 DEF Begun, f, f1, o1
  <2>18. Outcome(m, dc, FALSE, r.fd, o1 \o o2)
    BY <2>17, OutcomeBegins
  <2>19. r.out = o1 \o o2
    BY <2>16
  <2>20. QED
    BY <1>8, <2>18, <2>19
<1>9. QED
  BY <1>2, <1>6, <1>7, <1>8

-----------------------------------------------------------------------------
(* The steps. *)

(* The invariant holds initially. *)
LEMMA InitInv == Init => IInv
<1> SUFFICES ASSUME Init PROVE IInv
  OBVIOUS
<1>1. PICK c \in 0..(CCMOD - 1), p \in BOOLEAN :
        feed = [cc |-> c, pusi_seen |-> p, buf |-> <<>>, secbufp |-> 0, filtering |-> FALSE]
  BY DEF Init
<1>2. /\ feed.buf = <<>> /\ feed.secbufp = 0 /\ feed.filtering = FALSE /\ feed \in FeedType
      /\ Len(feed.buf) = 0
  <2>1. <<>> \in Seq(Byte) /\ Len(<<>>) = 0
    OBVIOUS
  <2>2. QED
    BY <1>1, <2>1 DEF FeedType
<1>3. FeedOK(feed)
  BY <1>2, Sizes DEF FeedOK
<1>4. SenderOK
  <2>1. 0 \in 0..MaxSections /\ 0 \in 0..MAXSEC /\ 0 \in 0..(CCMOD - 1)
    BY Sizes, CcMod
  <2>2. snd = [sec |-> 0, off |-> 0, cc |-> 0] /\ len = <<>>
    BY DEF Init
  <2>3. QED
    BY <2>1, <2>2 DEF SenderOK
<1>5. HistoryOK
  <2>1. 0 \in 0..(CCMOD - 1)
    BY CcMod
  <2>2. /\ got = <<>> /\ given = {} /\ due = {}
        /\ suspect = FALSE /\ repeats = FALSE /\ clean = FALSE /\ missed = 0
    BY DEF Init
  <2>3. <<>> \in Seq(0..MaxSections)
    OBVIOUS
  <2>4. QED
    BY <2>1, <2>2, <2>3 DEF HistoryOK
<1>6. given = {} /\ Ordered(feed.buf, len, snd.sec, snd.off) /\ NotAgain(feed.buf, feed.secbufp, given)
  BY <1>2 DEF Init, Ordered, NotAgain
<1>7. InStep /\ StartsWithSection /\ CleanIsSeen
  BY <1>2 DEF InStep, StartsWithSection, CleanIsSeen
<1>8. QED
  BY <1>3, <1>4, <1>5, <1>6, <1>7 DEF IInv

(* start_filtering keeps the invariant: the feed is suspect until a section starts. *)
LEMMA StartInv == IInv /\ StartFiltering => IInv'
<1> SUFFICES ASSUME IInv, StartFiltering PROVE IInv'
  OBVIOUS
<1>1. /\ feed' = [feed EXCEPT !.buf = <<>>, !.secbufp = 0, !.filtering = TRUE]
      /\ suspect' = TRUE /\ repeats' = FALSE /\ clean' = FALSE /\ missed' = 0 /\ got' = <<>>
      /\ snd' = snd /\ len' = len /\ given' = given /\ due' = due
  BY DEF StartFiltering, SectionNew
<1>2. feed' \in FeedType /\ feed'.buf = <<>> /\ feed'.secbufp = 0
  <2>1. <<>> \in Seq(Byte)
    OBVIOUS
  <2>2. feed \in FeedType
    BY DEF IInv, FeedOK
  <2>3. QED
    BY <1>1, <2>1, <2>2 DEF FeedType
<1>3. Len(feed'.buf) = 0
  BY <1>2
<1>4. FeedOK(feed')
  BY <1>2, <1>3, Sizes DEF FeedOK
<1>5. SenderOK'
  BY <1>1 DEF IInv, SenderOK
<1>6. HistoryOK'
  <2>1. 0 \in 0..(CCMOD - 1) /\ <<>> \in Seq(0..MaxSections)
    BY CcMod
  <2>2. QED
    BY <1>1, <2>1 DEF IInv, HistoryOK
<1>7. Ordered(feed'.buf, len', snd'.sec, snd'.off) /\ NotAgain(feed'.buf, feed'.secbufp, given')
  BY <1>2, <1>3 DEF Ordered, NotAgain
<1>8. given' \subseteq Ended(len', snd'.sec, snd'.off)
  BY <1>1 DEF IInv
<1>9. InStep' /\ StartsWithSection' /\ CleanIsSeen'
  BY <1>1 DEF InStep, StartsWithSection, CleanIsSeen
<1>10. QED
  BY <1>4, <1>5, <1>6, <1>7, <1>8, <1>9 DEF IInv

(* stop_filtering keeps the invariant: a stopped feed promises nothing. *)
LEMMA StopInv == IInv /\ StopFiltering => IInv'
<1> SUFFICES ASSUME IInv, StopFiltering PROVE IInv'
  OBVIOUS
<1>1. /\ feed' = [feed EXCEPT !.filtering = FALSE]
      /\ suspect' = suspect /\ repeats' = repeats /\ clean' = clean /\ missed' = missed /\ got' = <<>>
      /\ snd' = snd /\ len' = len /\ given' = given /\ due' = due
  BY DEF StopFiltering
<1>2. /\ feed' \in FeedType /\ feed'.buf = feed.buf /\ feed'.secbufp = feed.secbufp
      /\ feed'.filtering = FALSE
  <2>1. feed \in FeedType
    BY DEF IInv, FeedOK
  <2>2. QED
    BY <1>1, <2>1 DEF FeedType
<1>3. FeedOK(feed')
  BY <1>2 DEF IInv, FeedOK
<1>4. SenderOK'
  BY <1>1 DEF IInv, SenderOK
<1>5. HistoryOK'
  <2>1. <<>> \in Seq(0..MaxSections)
    OBVIOUS
  <2>2. QED
    BY <1>1, <2>1 DEF IInv, HistoryOK
<1>6. /\ Ordered(feed'.buf, len', snd'.sec, snd'.off)
      /\ ~ repeats' => NotAgain(feed'.buf, feed'.secbufp, given')
      /\ given' \subseteq Ended(len', snd'.sec, snd'.off)
  BY <1>1, <1>2 DEF IInv
<1>7. InStep' /\ StartsWithSection' /\ CleanIsSeen'
  BY <1>2 DEF InStep, StartsWithSection, CleanIsSeen
<1>8. QED
  BY <1>3, <1>4, <1>5, <1>6, <1>7 DEF IInv

(* A packet without payload keeps it: secbufp goes back to the first section. *)
LEMMA NoPayloadInv == IInv /\ NoPayload => IInv'
<1> SUFFICES ASSUME IInv, NoPayload PROVE IInv'
  OBVIOUS
<1>1. /\ feed' = [feed EXCEPT !.secbufp = 0]
      /\ suspect' = suspect /\ repeats' = TRUE /\ clean' = clean /\ missed' = missed /\ got' = <<>>
      /\ snd' = snd /\ len' = len /\ given' = given /\ due' = due
  BY DEF NoPayload
<1>2. /\ feed' \in FeedType /\ feed'.buf = feed.buf /\ feed'.secbufp = 0
      /\ feed'.filtering = feed.filtering /\ feed'.pusi_seen = feed.pusi_seen /\ feed'.cc = feed.cc
      /\ Len(feed.buf) \in Nat /\ Len(feed.buf) <= MAXSEC + PACKET /\ feed.buf \in Seq(Byte)
  <2>1. feed \in FeedType /\ Len(feed.buf) <= MAXSEC + PACKET
    BY DEF IInv, FeedOK
  <2>2. QED
    BY <1>1, <2>1 DEF FeedType
<1>3. FeedOK(feed')
  BY <1>2 DEF FeedOK
<1>4. SenderOK'
  BY <1>1 DEF IInv, SenderOK
<1>5. HistoryOK'
  <2>1. <<>> \in Seq(0..MaxSections)
    OBVIOUS
  <2>2. QED
    BY <1>1, <2>1 DEF IInv, HistoryOK
<1>6. /\ Ordered(feed'.buf, len', snd'.sec, snd'.off)
      /\ given' \subseteq Ended(len', snd'.sec, snd'.off)
  BY <1>1, <1>2 DEF IInv
<1>7. InStep' /\ CleanIsSeen'
  BY <1>1, <1>2 DEF IInv, InStep, CleanIsSeen
<1>8. StartsWithSection'
  <2>1. SUFFICES ASSUME Aligned(feed, len, snd.sec, snd.off)
                 PROVE  Aligned(feed', len', snd'.sec, snd'.off)
    BY <1>1, <1>2 DEF IInv, StartsWithSection
  <2>2. PICK a, at : Layout(feed.buf, len, a, snd.sec, snd.off, at)
    BY <2>1 DEF Aligned
  <2>3. at[a] = 0 /\ a \in a..(snd.sec + 1) /\ a # snd.sec + 1
    <3>1. a \in Nat /\ snd.sec \in Nat /\ a <= snd.sec
      BY <1>2, <2>2, LayoutTypes DEF IInv, SenderOK
    <3>2. QED
      BY <2>2, <3>1 DEF Layout
  <2>4. Boundary(len, a, snd.sec, snd.off, at, 0)
    BY <2>3 DEF Boundary
  <2>5. QED
    BY <1>1, <1>2, <2>2, <2>4 DEF Aligned
<1>9. QED
  BY <1>1, <1>3, <1>4, <1>5, <1>6, <1>7, <1>8 DEF IInv

(* The sender after a packet is well formed. *)
LEMMA SenderLater ==
  ASSUME IInv, NEW m, Advances(m), snd' = m.snd, len' = m.len
  PROVE  /\ SenderOK' /\ Later(len, len', snd.sec, snd.off, snd'.sec, snd'.off)
         /\ Ended(len, snd.sec, snd.off) \subseteq Ended(len', snd'.sec, snd'.off)
         /\ snd'.cc = (snd.cc + 1) % CCMOD /\ snd'.sec > 0
<1>1. /\ m.snd \in [sec : 0..MaxSections, off : 0..MAXSEC, cc : 0..(CCMOD - 1)]
      /\ m.len \in Seq(Lens) /\ Len(m.len) = m.snd.sec
      /\ m.snd.sec > 0 /\ m.snd.off <= m.len[m.snd.sec]
      /\ m.snd.cc = (snd.cc + 1) % CCMOD
      /\ \A s \in 1..snd.sec : m.len[s] = len[s]
      /\ snd.sec <= m.snd.sec /\ (snd.sec = m.snd.sec => snd.off <= m.snd.off)
      /\ Ended(len, snd.sec, snd.off) \subseteq Ended(m.len, m.snd.sec, m.snd.off)
  BY DEF Advances
<1>2. SenderOK'
  BY <1>1 DEF SenderOK
<1>3. m.snd.sec \in Nat /\ m.snd.off \in Nat
  BY <1>1
<1>4. snd.sec \in Nat /\ snd.off \in Nat
  BY DEF IInv, SenderOK
<1>5. Later(len, len', snd.sec, snd.off, snd'.sec, snd'.off)
  BY <1>1, <1>3, <1>4 DEF Later
<1>6. QED
  BY <1>1, <1>2, <1>5

(* A lost packet keeps it: the counter of the next one will tell, and where it
   cannot the feed is suspect. *)
LEMMA MissInv == IInv /\ Miss => IInv'
<1> SUFFICES ASSUME IInv, Miss PROVE IInv'
  OBVIOUS
<1>1. PICK m \in Sendable :
        /\ snd' = m.snd /\ len' = m.len
        /\ missed' = IF feed.filtering THEN (missed + 1) % CCMOD ELSE 0
        /\ suspect' = (suspect \/ (feed.filtering /\ missed = CCMOD - 1))
        /\ clean' = FALSE /\ got' = <<>>
        /\ feed' = feed /\ given' = given /\ due' = due /\ repeats' = repeats
  BY DEF Miss
<1>2. Advances(m)
  BY SendableAdvances DEF IInv
<1>3. /\ SenderOK' /\ Later(len, len', snd.sec, snd.off, snd'.sec, snd'.off)
      /\ Ended(len, snd.sec, snd.off) \subseteq Ended(len', snd'.sec, snd'.off)
      /\ snd'.cc = (snd.cc + 1) % CCMOD
  BY <1>1, <1>2, SenderLater
<1>4. feed.buf \in Seq(Byte) /\ feed.cc \in Nat /\ missed \in 0..(CCMOD - 1) /\ missed \in Nat
  BY DEF IInv, FeedOK, FeedType, HistoryOK
<1>5. Ordered(feed.buf, len', snd'.sec, snd'.off)
  BY <1>3, <1>4, OrderedOn DEF IInv
<1>0. /\ missed + 1 < CCMOD => (missed + 1) % CCMOD = missed + 1
      /\ (missed + 1) % CCMOD \in 0..(CCMOD - 1)
  BY <1>4, CcMod, ModSmall, ModInRange
<1>6. HistoryOK'
  <2>1. <<>> \in Seq(0..MaxSections)
    OBVIOUS
  <2>2. missed' \in 0..(CCMOD - 1)
    BY <1>0, <1>1, <1>4, CcMod
  <2>3. suspect' \in BOOLEAN
    BY <1>1 DEF IInv, HistoryOK
  <2>4. QED
    BY <1>1, <2>1, <2>2, <2>3 DEF IInv, HistoryOK
<1>7. InStep'
  <2>1. SUFFICES ASSUME feed.filtering, ~ suspect, missed + 1 < CCMOD
                 PROVE  snd'.cc = (feed.cc + 1 + (missed + 1)) % CCMOD
    <3>1. SUFFICES ASSUME feed'.filtering, ~ suspect'
                   PROVE  snd'.cc = (feed'.cc + 1 + missed') % CCMOD
      BY DEF InStep
    <3>2. feed.filtering /\ ~ suspect /\ missed # CCMOD - 1 /\ feed' = feed
      BY <1>1, <3>1
    <3>3. missed + 1 < CCMOD
      BY <1>4, <3>2, CcMod
    <3>4. missed' = missed + 1
      BY <1>0, <1>1, <3>2, <3>3
    <3>5. QED
      BY <2>1, <3>2, <3>3, <3>4
  <2>2. snd.cc = (feed.cc + 1 + missed) % CCMOD
    BY <2>1 DEF IInv, InStep
  <2>3. feed.cc + 1 + missed \in Nat /\ feed.cc + 1 + (missed + 1) = (feed.cc + 1 + missed) + 1
    BY <1>4
  <2>4. (((feed.cc + 1 + missed) % CCMOD) + 1) % CCMOD = ((feed.cc + 1 + missed) + 1) % CCMOD
    BY <2>3, CcMod, ModStep
  <2>5. QED
    BY <1>3, <2>2, <2>3, <2>4
<1>8. StartsWithSection' /\ CleanIsSeen'
  <2>1. ASSUME feed.filtering, ~ suspect' PROVE missed' # 0
    <3>1. missed # CCMOD - 1
      BY <1>1, <2>1
    <3>2. missed + 1 < CCMOD
      BY <1>4, <3>1, CcMod
    <3>3. missed' = missed + 1
      BY <1>0, <1>1, <2>1, <3>2
    <3>4. QED
      BY <1>4, <3>3
  <2>2. QED
    BY <1>1, <2>1 DEF StartsWithSection, CleanIsSeen
<1>9. /\ FeedOK(feed') /\ given' \subseteq Ended(len', snd'.sec, snd'.off)
      /\ ~ repeats' => NotAgain(feed'.buf, feed'.secbufp, given')
      /\ Ordered(feed'.buf, len', snd'.sec, snd'.off)
  BY <1>1, <1>3, <1>5 DEF IInv
<1>10. QED
  BY <1>3, <1>6, <1>7, <1>8, <1>9 DEF IInv

(* A step in which a packet is received. *)
Received(m, dc, bad) ==
  /\ feed.filtering /\ Advances(m) /\ Outcome(m, dc, bad, feed', got')
  /\ given' = given \cup Whole(got')
  /\ due' = due \cup (IF bad THEN {}
                      ELSE {s \in All(m, dc) : s < m.snd.sec \/ m.snd.off = m.len[s]})
  /\ clean' = (~ bad /\ m.snd.sec \in All(m, dc))
  /\ suspect' = IF bad THEN TRUE ELSE suspect /\ InSeq(dc) /\ ~ m.pkt.pusi
  /\ repeats' = (repeats /\ InSeq(dc) /\ (bad \/ ~ m.pkt.pusi))
  /\ snd' = m.snd /\ len' = m.len /\ missed' = 0

(* Receive, by the outcome of the packet. *)
LEMMA ReceiveIs ==
  ASSUME IInv, Receive
  PROVE  \E m : \E dc, bad \in BOOLEAN : Received(m, dc, bad)
<1>1. PICK m \in Sendable, dc \in BOOLEAN, bad \in BOOLEAN, indic \in BOOLEAN, g \in Guesses :
        /\ feed.filtering
        /\ bad => m.pkt.pusi
        /\ LET res   == SectionPacket(m.pkt, snd.cc, dc, bad, m.len, g, indic)
               inseq == CcOk(snd.cc) /\ ~ dc
               old   == {s \in {snd.sec} : s > 0 /\ clean /\ inseq}
               all   == old \cup {s \in 1..m.snd.sec : s > snd.sec}
           IN /\ feed' = res.fd
              /\ got' = res.out
              /\ given' = given \cup {s \in {res.out[i] : i \in DOMAIN res.out} : s > 0}
              /\ due' = due \cup (IF bad THEN {}
                                  ELSE {s \in all : s < m.snd.sec \/ m.snd.off = m.len[s]})
              /\ clean' = (~ bad /\ m.snd.sec \in all)
              /\ suspect' = IF bad THEN TRUE ELSE suspect /\ inseq /\ ~ m.pkt.pusi
              /\ repeats' = (repeats /\ inseq /\ (bad \/ ~ m.pkt.pusi))
        /\ snd' = m.snd /\ len' = m.len
        /\ missed' = 0
  BY DEF Receive
<1> DEFINE res == SectionPacket(m.pkt, snd.cc, dc, bad, m.len, g, indic)
<1>2. Advances(m)
  BY SendableAdvances DEF IInv
<1>3. Outcome(m, dc, bad, res.fd, res.out)
  BY <1>1, PacketOutcome
<1>4. /\ feed' = res.fd /\ got' = res.out
      /\ given' = given \cup {s \in {res.out[i] : i \in DOMAIN res.out} : s > 0}
  BY <1>1
<1> HIDE DEF res
<1>5. given' = given \cup Whole(got')
  BY <1>4 DEF Whole
<1>6. /\ due' = due \cup (IF bad THEN {}
                          ELSE {s \in All(m, dc) : s < m.snd.sec \/ m.snd.off = m.len[s]})
      /\ clean' = (~ bad /\ m.snd.sec \in All(m, dc))
      /\ suspect' = IF bad THEN TRUE ELSE suspect /\ InSeq(dc) /\ ~ m.pkt.pusi
      /\ repeats' = (repeats /\ InSeq(dc) /\ (bad \/ ~ m.pkt.pusi))
  BY <1>1 DEF All, InSeq
<1>7. Received(m, dc, bad)
  BY <1>1, <1>2, <1>3, <1>4, <1>5, <1>6 DEF Received
<1>8. QED
  BY <1>7

(* A packet with payload keeps the invariant. *)
LEMMA ReceiveInv == IInv /\ Receive => IInv'
<1> SUFFICES ASSUME IInv, Receive PROVE IInv'
  OBVIOUS
<1>0. PICK m : \E dc, bad \in BOOLEAN : Received(m, dc, bad)
  BY ReceiveIs
<1>1. PICK dc \in BOOLEAN, bad \in BOOLEAN : Received(m, dc, bad)
  BY <1>0
<1>2. /\ feed.filtering /\ Advances(m) /\ snd' = m.snd /\ len' = m.len /\ missed' = 0
      /\ given' = given \cup Whole(got')
      /\ due' = due \cup (IF bad THEN {}
                          ELSE {s \in All(m, dc) : s < m.snd.sec \/ m.snd.off = m.len[s]})
      /\ clean' = (~ bad /\ m.snd.sec \in All(m, dc))
      /\ suspect' = IF bad THEN TRUE ELSE suspect /\ InSeq(dc) /\ ~ m.pkt.pusi
      /\ repeats' = (repeats /\ InSeq(dc) /\ (bad \/ ~ m.pkt.pusi))
  BY <1>1 DEF Received
<1>3. /\ FeedOK(feed') /\ feed'.cc = snd.cc /\ feed'.filtering = feed.filtering
      /\ got' \in Seq(0..MaxSections) /\ Whole(got') \subseteq Ended(m.len, m.snd.sec, m.snd.off)
      /\ Ordered(feed'.buf, m.len, m.snd.sec, m.snd.off)
      /\ ~ (repeats /\ InSeq(dc) /\ (bad \/ ~ m.pkt.pusi)) =>
           NotAgain(feed'.buf, feed'.secbufp, given \cup Whole(got'))
      /\ ~ bad /\ ~ (suspect /\ InSeq(dc) /\ ~ m.pkt.pusi) /\ feed'.pusi_seen =>
           Aligned(feed', m.len, m.snd.sec, m.snd.off)
      /\ ~ bad /\ m.snd.sec \in All(m, dc) =>
           feed'.pusi_seen /\ ~ (suspect /\ InSeq(dc) /\ ~ m.pkt.pusi)
      /\ ~ bad => \A s \in All(m, dc) : s < m.snd.sec \/ m.snd.off = m.len[s] =>
                    s \in given \cup Whole(got')
  BY <1>1 DEF Received, Outcome
<1>4. /\ SenderOK' /\ Ended(len, snd.sec, snd.off) \subseteq Ended(len', snd'.sec, snd'.off)
      /\ snd'.cc = (snd.cc + 1) % CCMOD /\ snd'.sec > 0
  BY <1>2, SenderLater
<1>5. due' \subseteq given'
  <2>1. due \subseteq given
    BY DEF IInv, HistoryOK
  <2>2. CASE bad
    BY <1>2, <2>1, <2>2
  <2>3. CASE ~ bad
    BY <1>2, <1>3, <2>1, <2>3
  <2>4. QED
    BY <2>2, <2>3
<1>6. HistoryOK'
  <2>1. suspect' \in BOOLEAN /\ repeats' \in BOOLEAN /\ clean' \in BOOLEAN
    BY <1>2
  <2>2. missed' \in 0..(CCMOD - 1)
    BY <1>2, CcMod
  <2>3. QED
    BY <1>3, <1>5, <2>1, <2>2 DEF HistoryOK
<1>7. given' \subseteq Ended(len', snd'.sec, snd'.off)
  BY <1>2, <1>3, <1>4 DEF IInv
<1>8. /\ Ordered(feed'.buf, len', snd'.sec, snd'.off)
      /\ ~ repeats' => NotAgain(feed'.buf, feed'.secbufp, given')
  BY <1>2, <1>3
<1>9. InStep'
  <2>1. snd.cc \in Nat
    BY DEF IInv, SenderOK
  <2>2. feed'.cc + 1 + missed' = snd.cc + 1
    BY <1>2, <1>3, <2>1
  <2>3. QED
    BY <1>4, <2>2 DEF InStep
<1>10. StartsWithSection'
  <2>1. SUFFICES ASSUME ~ suspect', feed'.pusi_seen PROVE Aligned(feed', m.len, m.snd.sec, m.snd.off)
    BY <1>2 DEF StartsWithSection
  <2>2. ~ bad /\ ~ (suspect /\ InSeq(dc) /\ ~ m.pkt.pusi)
    BY <1>2, <2>1
  <2>3. QED
    BY <1>3, <2>1, <2>2
<1>11. CleanIsSeen'
  <2>1. SUFFICES ASSUME clean'
                 PROVE  /\ feed'.pusi_seen /\ ~ suspect' /\ missed' = 0 /\ snd'.sec > 0
                        /\ snd'.off = len'[snd'.sec] => snd'.sec \in due'
    BY DEF CleanIsSeen
  <2>2. ~ bad /\ m.snd.sec \in All(m, dc)
    BY <1>2, <2>1
  <2>3. feed'.pusi_seen /\ ~ suspect'
    BY <1>2, <1>3, <2>2
  <2>4. snd'.off = len'[snd'.sec] => snd'.sec \in due'
    BY <1>2, <2>2
  <2>5. QED
    BY <1>2, <1>4, <2>3, <2>4
<1>12. QED
  BY <1>3, <1>4, <1>6, <1>7, <1>8, <1>9, <1>10, <1>11 DEF IInv

(* Every step keeps the invariant. *)
LEMMA StepInv == IInv /\ [Next]_vars => IInv'
<1> SUFFICES ASSUME IInv, [Next]_vars PROVE IInv'
  OBVIOUS
<1>1. CASE StartFiltering
  BY <1>1, StartInv
<1>2. CASE StopFiltering
  BY <1>2, StopInv
<1>3. CASE Miss
  BY <1>3, MissInv
<1>4. CASE NoPayload
  BY <1>4, NoPayloadInv
<1>5. CASE Receive
  BY <1>5, ReceiveInv
<1>6. CASE UNCHANGED vars
  BY <1>6 DEF vars, IInv, SenderOK, HistoryOK, InStep, StartsWithSection, CleanIsSeen
<1>7. QED
  BY <1>1, <1>2, <1>3, <1>4, <1>5, <1>6 DEF Next

(* IInv is an invariant: whatever packets are lost, damaged or marked
   discontinuous, dvb_dmx_swfilter_section_packet keeps the order of the buffer,
   and its alignment while no packet is missed. *)
THEOREM Invariant == Spec => []IInv
  BY InitInv, StepInv, PTL DEF Spec

(* The type invariant follows. *)
LEMMA TypeOKFrom == IInv => TypeOK
<1> SUFFICES ASSUME IInv PROVE TypeOK
  OBVIOUS
<1>1. /\ snd \in [sec : 0..MaxSections, off : 0..MAXSEC, cc : 0..(CCMOD - 1)]
      /\ len \in Seq(Lens) /\ Len(len) = snd.sec
  BY DEF IInv, SenderOK
<1>2. /\ feed.cc \in 0..(CCMOD - 1)
      /\ feed.pusi_seen \in BOOLEAN /\ feed.filtering \in BOOLEAN
      /\ feed.buf \in Seq(Byte) /\ Len(feed.buf) <= MAXSEC + PACKET
      /\ feed.secbufp \in Nat /\ feed.secbufp <= Len(feed.buf) /\ Len(feed.buf) \in Nat
  BY DEF IInv, FeedOK, FeedType
<1>3. feed.secbufp \in 0..Len(feed.buf)
  BY <1>2
<1>4. given \subseteq 1..MaxSections
  <2>1. given \subseteq 1..snd.sec
    BY EndedUpTo DEF IInv
  <2>2. 1..snd.sec \subseteq 1..MaxSections
    BY <1>1, Sizes
  <2>3. QED
    BY <2>1, <2>2
<1>5. /\ got \in Seq(0..MaxSections) /\ due \subseteq given
      /\ suspect \in BOOLEAN /\ repeats \in BOOLEAN /\ clean \in BOOLEAN
      /\ missed \in 0..(CCMOD - 1)
  BY DEF IInv, HistoryOK
<1>6. QED
  BY <1>1, <1>2, <1>3, <1>4, <1>5 DEF TypeOK

(* The type invariant: copy_dump never writes past secbuf_base, and secbufp
   never passes tsfeedp. *)
THEOREM TypeCorrect == Spec => []TypeOK
  BY Invariant, TypeOKFrom, PTL

(* Every section all of whose bytes reached the filtering feed in sequence is
   given to the callback of dvb_dmx_swfilter_section_feed. *)
THEOREM IntactGiven == Spec => []IntactIsGiven
<1>1. IInv => IntactIsGiven
  BY DEF IInv, HistoryOK, IntactIsGiven
<1>2. QED
  BY <1>1, Invariant, PTL

(* A step gives a piece that is no section only if the feed is suspect. *)
LEMMA GarbageStep ==
  ASSUME IInv, [Next]_vars
  PROVE  [(\E i \in DOMAIN got' : got'[i] = 0) => suspect]_vars
<1>1. CASE Receive
  <2>0. PICK m : \E dc, bad \in BOOLEAN : Received(m, dc, bad)
    BY <1>1, ReceiveIs
  <2>1. PICK dc \in BOOLEAN, bad \in BOOLEAN : Received(m, dc, bad)
    BY <2>0
  <2>2. got' \in Seq(0..MaxSections) /\ (~ suspect => \A x \in 1..Len(got') : got'[x] # 0)
    BY <2>1 DEF Received, Outcome
  <2>3. DOMAIN got' = 1..Len(got')
    BY <2>2
  <2>4. QED
    BY <2>2, <2>3
<1>2. CASE StartFiltering \/ StopFiltering \/ Miss \/ NoPayload
  <2>1. got' = <<>>
    BY <1>2 DEF StartFiltering, StopFiltering, Miss, NoPayload
  <2>2. DOMAIN got' = {}
    BY <2>1
  <2>3. QED
    BY <2>2
<1>3. CASE UNCHANGED vars
  BY <1>3
<1>4. QED
  BY <1>1, <1>2, <1>3 DEF Next

(* A piece that is not one section reaches the callback only between a restart
   of the feed, a pointer field past the payload or a loss of CCMOD packets in
   a row, and the next section start or detected discontinuity. *)
THEOREM GarbageSuspect == Spec => GarbageOnlyWhenSuspect
<1>1. IInv /\ [Next]_vars => [(\E i \in DOMAIN got' : got'[i] = 0) => suspect]_vars
  BY GarbageStep
<1>2. QED
  BY <1>1, Invariant, PTL DEF Spec, GarbageOnlyWhenSuspect

(* A piece that was given is a number. *)
LEMMA PieceIs ==
  ASSUME NEW n \in Nat, NEW q \in Seq(0..n), NEW j \in 1..Len(q)
  PROVE  q[j] \in Nat
<1>1. q[j] \in 0..n
  OBVIOUS
<1>2. QED
  BY <1>1

(* A step gives sections in their order and behind those given before. *)
LEMMA OrderStep ==
  ASSUME IInv, [Next]_vars
  PROVE  [repeats \/ \A i \in DOMAIN got' : got'[i] > 0 =>
            /\ \A s \in given : s < got'[i]
            /\ \A j \in 1..(i - 1) : got'[j] < got'[i]]_vars
<1>1. CASE Receive
  <2>0. PICK m : \E dc, bad \in BOOLEAN : Received(m, dc, bad)
    BY <1>1, ReceiveIs
  <2>1. PICK dc \in BOOLEAN, bad \in BOOLEAN : Received(m, dc, bad)
    BY <2>0
  <2>2. got' \in Seq(0..MaxSections) /\ (~ repeats => Follow(got', given))
    BY <2>1 DEF Received, Outcome
  <2>3. DOMAIN got' = 1..Len(got') /\ Len(got') \in Nat
    BY <2>2
  <2>4. ASSUME ~ repeats, NEW i \in 1..Len(got'), got'[i] > 0
        PROVE  /\ \A s \in given : s < got'[i]
               /\ \A j \in 1..(i - 1) : got'[j] < got'[i]
    <3>1. Follow(got', given)
      BY <2>2, <2>4
    <3>2. got'[i] \in Whole(got')
      BY <2>2, <2>4, WholeIs, Sizes
    <3>3. \A s \in given : s < got'[i]
      BY <3>1, <3>2 DEF Follow
    <3>4. ASSUME NEW j \in 1..(i - 1) PROVE got'[j] < got'[i]
      <4>1. j \in 1..Len(got') /\ j < i
        BY <2>3
      <4>2. got'[j] \in Nat
        BY <2>2, <4>1, Sizes, PieceIs
      <4>3. CASE got'[j] > 0
        BY <2>4, <3>1, <4>1, <4>3 DEF Follow
      <4>4. CASE got'[j] = 0
        BY <2>4, <4>4
      <4>5. QED
        BY <4>2, <4>3, <4>4
    <3>5. QED
      BY <3>3, <3>4
  <2>5. QED
    BY <2>3, <2>4
<1>2. CASE StartFiltering \/ StopFiltering \/ Miss \/ NoPayload
  <2>1. got' = <<>>
    BY <1>2 DEF StartFiltering, StopFiltering, Miss, NoPayload
  <2>2. DOMAIN got' = {}
    BY <2>1
  <2>3. QED
    BY <2>2
<1>3. CASE UNCHANGED vars
  BY <1>3
<1>4. QED
  BY <1>1, <1>2, <1>3 DEF Next

(* The callback is given sections in the order of the broadcast and each once,
   unless a packet without payload made copy_dump start over. *)
THEOREM SectionsInOrder == Spec => InOrderOnce
<1>1. IInv /\ [Next]_vars =>
        [repeats \/ \A i \in DOMAIN got' : got'[i] > 0 =>
           /\ \A s \in given : s < got'[i]
           /\ \A j \in 1..(i - 1) : got'[j] < got'[i]]_vars
  BY OrderStep
<1>2. QED
  BY <1>1, Invariant, PTL DEF Spec, InOrderOnce

=============================================================================
