-------------------------- MODULE FrameReaderProofs --------------------------
(***************************************************************************)
(* FrameReader for every header, frame length, checksum and byte stream.   *)
(***************************************************************************)
EXTENDS FrameReader, NaturalsInduction, WellFoundedInduction, TLAPS

(***************************************************************************)
(* Least-number principle, stated for a set.                               *)
(***************************************************************************)
LEMMA LeastNatural ==
  ASSUME NEW T \in SUBSET Nat, T # {}
  PROVE  \E m \in T : \A n \in T : m <= n
<1> DEFINE less == OpToRel(<, Nat)
<1>1. \A n, m \in Nat : n < m => <<n, m>> \in less
  BY DEF OpToRel
<1>2. IsWellFoundedOn(less, Nat)
  BY NatLessThanWellFounded
<1> HIDE DEF less
<1>3. PICK m \in T : \A n \in T : ~(<<n, m>> \in less)
  BY <1>2, WFMin
<1>4. \A n \in T : ~(n < m)
  BY <1>1, <1>3
<1> QED BY <1>4

(***************************************************************************)
(* The inductive invariant: the counters need the buffer's type, and what  *)
(* is left behind needs nothing more.                                      *)
(***************************************************************************)
Inv ==
  /\ buffer \in Seq(Bytes) /\ draining \in BOOLEAN
  /\ frames_ok \in Nat /\ bytes_skipped \in Nat /\ bytes_read \in Nat
  /\ EveryByteCounted
  /\ HoldsLessThanAFrame

(***************************************************************************)
(* find_header returns a position inside the buffer.                       *)
(***************************************************************************)
LEMMA HeaderInside ==
  ASSUME NEW bytes \in Seq(Bytes)
  PROVE  /\ BeforeHeader(bytes) \in Nat /\ BeforeHeader(bytes) <= Len(bytes)
         /\ HasHeader(bytes) =>
              BeforeHeader(bytes) < Len(bytes) /\ HeaderAt(bytes, BeforeHeader(bytes) + 1)
<1> DEFINE found == {i \in DOMAIN bytes : HeaderAt(bytes, i)}
           first == CHOOSE i \in found : \A j \in found : i <= j
<1>1. DOMAIN bytes = 1..Len(bytes) /\ Len(bytes) \in Nat
  OBVIOUS
<1>2. CASE found = {}
  <2>1. BeforeHeader(bytes) = Len(bytes) /\ ~HasHeader(bytes)
    BY <1>2 DEF BeforeHeader, HasHeader
  <2> QED BY <1>1, <2>1
<1>3. CASE found # {}
  <2>1. found \in SUBSET Nat
    BY <1>1
  <2>2. \E i \in found : \A j \in found : i <= j
    <3> HIDE DEF found
    <3> QED BY <1>3, <2>1, LeastNatural
  <2>3. first \in found
    <3> HIDE DEF found
    <3> QED BY <2>2
  <2>4. BeforeHeader(bytes) = first - 1
    BY <1>3 DEF BeforeHeader
  <2>5. first \in 1..Len(bytes) /\ HeaderAt(bytes, first)
    BY <1>1, <2>3
  <2> HIDE DEF first, found
  <2>6. (first - 1) + 1 = first
    BY <2>5, <1>1
  <2> QED BY <1>1, <2>4, <2>5, <2>6
<1> QED BY <1>2, <1>3

(***************************************************************************)
(* Vec::drain of the front.                                                *)
(***************************************************************************)
LEMMA Drains ==
  ASSUME NEW s \in Seq(Bytes), NEW n \in Nat, n <= Len(s)
  PROVE  SubSeq(s, n + 1, Len(s)) \in Seq(Bytes) /\ Len(SubSeq(s, n + 1, Len(s))) = Len(s) - n
  OBVIOUS

(***************************************************************************)
(* What a chunk is appended to stays in front of it.                       *)
(***************************************************************************)
LEMMA Joined ==
  ASSUME NEW s \in Seq(Bytes), NEW t \in Seq(Bytes)
  PROVE  /\ s \o t \in Seq(Bytes) /\ Len(s \o t) = Len(s) + Len(t)
         /\ \A j \in 1..Len(s) : (s \o t)[j] = s[j]
         /\ \A j \in 1..Len(t) : (s \o t)[Len(s) + j] = t[j]
  OBVIOUS

(***************************************************************************)
(* What the counters add up to, as arithmetic: bytes in frames, bytes      *)
(* skipped, bytes held.                                                    *)
(***************************************************************************)
LEMMA Moves ==
  ASSUME NEW framed \in Nat, NEW skipped \in Nat, NEW held \in Nat, NEW n \in Nat
  PROVE  /\ framed + skipped + held + n = framed + skipped + (held + n)
         /\ framed + skipped + held = framed + (skipped + n) + (held - n)
         /\ framed + skipped + held = (framed + n) + skipped + (held - n)
  OBVIOUS

(***************************************************************************)
(* FrameReader::new.                                                       *)
(***************************************************************************)
LEMMA InitInv == ReaderInit => Inv
<1> SUFFICES ASSUME ReaderInit PROVE Inv
  OBVIOUS
<1>1. buffer \in Seq(Bytes) /\ Len(buffer) = 0
  BY DEF ReaderInit
<1>2. EveryByteCounted
  BY <1>1, LengthAssumption DEF ReaderInit, EveryByteCounted
<1>3. HoldsLessThanAFrame
  BY <1>1, LengthAssumption, HeaderAssumption DEF HoldsLessThanAFrame
<1> QED BY <1>1, <1>2, <1>3 DEF ReaderInit, Inv

(***************************************************************************)
(* Every step of feed and next_frame moves bytes from one place to the     *)
(* next and loses none.                                                    *)
(***************************************************************************)
LEMMA NextInv == Inv /\ [ReaderNext]_reader_vars => Inv'
<1> SUFFICES ASSUME Inv, [ReaderNext]_reader_vars PROVE Inv'
  OBVIOUS
<1>0. /\ buffer \in Seq(Bytes) /\ Len(buffer) \in Nat /\ FRAME_LEN \in Nat
      /\ Len(HEADER) \in Nat \ {0} /\ Len(HEADER) < FRAME_LEN
      /\ frames_ok \in Nat /\ bytes_skipped \in Nat /\ bytes_read \in Nat
  BY LengthAssumption, HeaderAssumption DEF Inv
<1> DEFINE framed == FRAME_LEN * frames_ok
<1>a. framed \in Nat /\ FRAME_LEN * (frames_ok + 1) = framed + FRAME_LEN
  BY <1>0
<1>b. bytes_read = framed + bytes_skipped + Len(buffer)
  BY DEF Inv, EveryByteCounted
<1>c. ASSUME frames_ok' = frames_ok
      PROVE  EveryByteCounted' <=> bytes_read' = framed + bytes_skipped' + Len(buffer')
  BY <1>c DEF EveryByteCounted
<1>1. CASE feed
  <2>1. PICK n \in 1..(MaxStream - Len(stream)) : \E chunk \in [1..n -> Bytes] :
          buffer' = buffer \o chunk /\ bytes_read' = bytes_read + n
    BY <1>1 DEF feed
  <2>2. PICK chunk \in [1..n -> Bytes] : buffer' = buffer \o chunk /\ bytes_read' = bytes_read + n
    BY <2>1
  <2>3. n \in Nat /\ chunk \in Seq(Bytes) /\ Len(chunk) = n
    <3>1. n \in Nat
      BY <2>1
    <3> QED BY <3>1
  <2>4. buffer' \in Seq(Bytes) /\ Len(buffer') = Len(buffer) + n
    BY <1>0, <2>2, <2>3, Joined
  <2>5. draining' = TRUE /\ frames_ok' = frames_ok /\ bytes_skipped' = bytes_skipped
    BY <1>1 DEF feed
  <2>6. EveryByteCounted'
    <3> HIDE DEF framed
    <3>1. bytes_read + n = framed + bytes_skipped + (Len(buffer) + n)
      BY <1>0, <1>a, <1>b, <2>3, Moves
    <3> QED BY <1>c, <2>2, <2>4, <2>5, <3>1
  <2> QED BY <1>0, <2>2, <2>3, <2>4, <2>5, <2>6 DEF Inv, HoldsLessThanAFrame
<1>2. CASE Skip
  <2> DEFINE n == Skippable(buffer)
  <2>1. n \in Nat /\ n <= Len(buffer)
    <3>1. n \in Int /\ n <= Len(buffer)
      BY <1>0, HeaderInside DEF Skippable
    <3>2. n > 0
      BY <1>2 DEF Skip
    <3> HIDE DEF n
    <3> QED BY <3>1, <3>2
  <2>2. /\ buffer' = SubSeq(buffer, n + 1, Len(buffer)) /\ bytes_skipped' = bytes_skipped + n
        /\ draining' = draining /\ draining /\ frames_ok' = frames_ok /\ bytes_read' = bytes_read
    BY <1>2 DEF Skip, drain
  <2> HIDE DEF n
  <2>3. buffer' \in Seq(Bytes) /\ Len(buffer') = Len(buffer) - n
    BY <1>0, <2>1, <2>2, Drains
  <2>4. EveryByteCounted'
    <3> HIDE DEF framed
    <3>1. bytes_read = framed + (bytes_skipped + n) + (Len(buffer) - n)
      BY <1>0, <1>a, <1>b, <2>1, Moves
    <3> QED BY <1>c, <2>2, <2>3, <3>1
  <2> QED BY <1>0, <2>1, <2>2, <2>3, <2>4 DEF Inv, HoldsLessThanAFrame
<1>3. CASE Found
  <2>1. /\ buffer' = SubSeq(buffer, FRAME_LEN + 1, Len(buffer)) /\ frames_ok' = frames_ok + 1
        /\ draining' = draining /\ draining /\ bytes_skipped' = bytes_skipped
        /\ bytes_read' = bytes_read /\ Len(buffer) >= FRAME_LEN
    BY <1>3 DEF Found, drain, Whole
  <2>2. buffer' \in Seq(Bytes) /\ Len(buffer') = Len(buffer) - FRAME_LEN
    BY <1>0, <2>1, Drains
  <2>3. EveryByteCounted'
    <3>1. EveryByteCounted' <=> bytes_read' = (framed + FRAME_LEN) + bytes_skipped' + Len(buffer')
      BY <1>a, <2>1 DEF EveryByteCounted
    <3> HIDE DEF framed
    <3>2. bytes_read = (framed + FRAME_LEN) + bytes_skipped + (Len(buffer) - FRAME_LEN)
      BY <1>0, <1>a, <1>b, Moves
    <3> QED BY <2>1, <2>2, <3>1, <3>2
  <2> QED BY <1>0, <2>1, <2>2, <2>3 DEF Inv, HoldsLessThanAFrame
<1>4. CASE BadChecksum
  <2>1. /\ buffer' = SubSeq(buffer, 1 + 1, Len(buffer)) /\ bytes_skipped' = bytes_skipped + 1
        /\ draining' = draining /\ draining /\ frames_ok' = frames_ok
        /\ bytes_read' = bytes_read /\ Len(buffer) >= FRAME_LEN
    BY <1>4 DEF BadChecksum, drain, Whole
  <2>2. buffer' \in Seq(Bytes) /\ Len(buffer') = Len(buffer) - 1
    BY <1>0, <2>1, Drains
  <2>3. EveryByteCounted'
    <3> HIDE DEF framed
    <3>1. bytes_read = framed + (bytes_skipped + 1) + (Len(buffer) - 1)
      BY <1>0, <1>a, <1>b, Moves
    <3> QED BY <1>c, <2>1, <2>2, <3>1
  <2> QED BY <1>0, <2>1, <2>2, <2>3 DEF Inv, HoldsLessThanAFrame
<1>5. CASE Drained
  <2>1. /\ buffer' = buffer /\ bytes_skipped' = bytes_skipped /\ draining' = FALSE
        /\ frames_ok' = frames_ok /\ bytes_read' = bytes_read /\ Incomplete(buffer)
    BY <1>5 DEF Drained
  <2>2. Len(buffer) < FRAME_LEN
    <3>1. CASE HasHeader(buffer)
      <4>1. BeforeHeader(buffer) = 0
        BY <1>0, <2>1, <3>1, HeaderInside DEF Incomplete, Skippable
      <4>2. HeaderAt(buffer, 1)
        <5>1. HeaderAt(buffer, BeforeHeader(buffer) + 1)
          BY <1>0, <3>1, HeaderInside
        <5> QED BY <4>1, <5>1
      <4> QED BY <1>0, <2>1, <4>2 DEF Incomplete, Whole
    <3>2. CASE ~HasHeader(buffer)
      BY <1>0, <2>1, <3>2 DEF Incomplete, Skippable
    <3> QED BY <3>1, <3>2
  <2> QED BY <1>0, <2>1, <2>2 DEF Inv, EveryByteCounted, HoldsLessThanAFrame
<1>6. CASE UNCHANGED reader_vars
  BY <1>6 DEF reader_vars, Inv, EveryByteCounted, HoldsLessThanAFrame
<1> QED BY <1>1, <1>2, <1>3, <1>4, <1>5, <1>6 DEF ReaderNext, next_frame

(***************************************************************************)
(* So it always holds.                                                     *)
(***************************************************************************)
LEMMA InvAlways == ReaderSpec => []Inv
  BY InitInv, NextInv, PTL DEF ReaderSpec

(***************************************************************************)
(* The counters of frame.rs account for every byte, for any frame length   *)
(* and any traffic.                                                        *)
(***************************************************************************)
THEOREM BytesAreConserved == ReaderSpec => []EveryByteCounted
<1>1. Inv => EveryByteCounted
  BY DEF Inv
<1> QED BY <1>1, InvAlways, PTL

(***************************************************************************)
(* The buffer never keeps a frame's worth of bytes between two reads, so   *)
(* it is bounded by a frame and a chunk for any traffic.                   *)
(***************************************************************************)
THEOREM BufferIsBounded == ReaderSpec => []HoldsLessThanAFrame
<1>1. Inv => HoldsLessThanAFrame
  BY DEF Inv
<1> QED BY <1>1, InvAlways, PTL
-----------------------------------------------------------------------------
(***************************************************************************)
(* Which frames are delivered.  The buffer is the end of the stream, and   *)
(* every position before it is settled: no sound frame starts there        *)
(* whatever else arrives, or a delivered frame covers it.                  *)
(***************************************************************************)
consumed == Len(stream) - Len(buffer)

Settled(i) ==
  \/ i + Len(HEADER) - 1 <= Len(stream) /\ ~HeaderAt(stream, i)
  \/ WholeAt(stream, i) /\ ~SoundAt(stream, i)

Accounted(starts) ==
  /\ starts \in [1..Len(delivered) -> 1..Len(stream)]
  /\ \A k \in 1..Len(delivered) :
       /\ starts[k] + FRAME_LEN - 1 <= consumed
       /\ SoundAt(stream, starts[k]) /\ delivered[k] = FrameAt(stream, starts[k])
  /\ \A k, l \in 1..Len(delivered) : k < l => starts[k] + FRAME_LEN <= starts[l]
  /\ \A i \in 1..consumed : Settled(i) \/ \E k \in 1..Len(delivered) : Covers(starts[k], i)

StreamInv ==
  /\ stream \in Seq(Bytes) /\ buffer \in Seq(Bytes) /\ delivered \in Seq(Seq(Bytes))
  /\ Len(buffer) <= Len(stream)
  /\ \A j \in 1..Len(buffer) : buffer[j] = stream[consumed + j]
  /\ \E starts : Accounted(starts)

(***************************************************************************)
(* The wire constants.                                                     *)
(***************************************************************************)
LEMMA Lengths ==
  /\ HEADER \in Seq(Bytes) /\ Len(HEADER) \in Nat /\ Len(HEADER) > 0
  /\ FRAME_LEN \in Nat /\ FRAME_LEN > Len(HEADER)
  BY HeaderAssumption, LengthAssumption

(***************************************************************************)
(* A header and a frame look the same in a sequence and in a longer one    *)
(* that holds it.                                                          *)
(***************************************************************************)
LEMMA Shifted ==
  ASSUME NEW s \in Seq(Bytes), NEW t \in Seq(Bytes), NEW d \in Nat, d + Len(s) <= Len(t),
         \A j \in 1..Len(s) : s[j] = t[d + j], NEW i \in Nat, i > 0
  PROVE  /\ i + Len(HEADER) - 1 <= Len(s) => (HeaderAt(s, i) <=> HeaderAt(t, d + i))
         /\ WholeAt(s, i) => /\ WholeAt(t, d + i) /\ FrameAt(s, i) = FrameAt(t, d + i)
                             /\ SoundAt(s, i) <=> SoundAt(t, d + i)
<1>0. Len(s) \in Nat /\ Len(t) \in Nat /\ DOMAIN HEADER = 1..Len(HEADER)
  BY Lengths
<1>1. ASSUME i + Len(HEADER) - 1 <= Len(s) PROVE HeaderAt(s, i) <=> HeaderAt(t, d + i)
  <2>1. ASSUME NEW j \in 1..Len(HEADER) PROVE s[i + j - 1] = t[d + i + j - 1]
    <3>1. i + j - 1 \in 1..Len(s) /\ d + (i + j - 1) = d + i + j - 1
      BY <1>0, <1>1, <2>1, Lengths
    <3> QED BY <3>1
  <2>2. d + i + Len(HEADER) - 1 <= Len(t)
    BY <1>0, <1>1, Lengths
  <2> QED BY <1>0, <1>1, <2>1, <2>2 DEF HeaderAt
<1>2. ASSUME WholeAt(s, i)
      PROVE  /\ WholeAt(t, d + i) /\ FrameAt(s, i) = FrameAt(t, d + i)
             /\ SoundAt(s, i) <=> SoundAt(t, d + i)
  <2>0. i + FRAME_LEN - 1 <= Len(s) /\ d + i + FRAME_LEN - 1 <= Len(t)
    BY <1>0, <1>2, Lengths DEF WholeAt
  <2>1. FrameAt(s, i) = FrameAt(t, d + i)
    <3>1. /\ FrameAt(s, i) = [j \in 1..FRAME_LEN |-> s[i + j - 1]]
          /\ FrameAt(t, d + i) = [j \in 1..FRAME_LEN |-> t[d + i + j - 1]]
      BY <1>0, <2>0, Lengths DEF FrameAt
    <3>2. ASSUME NEW j \in 1..FRAME_LEN PROVE s[i + j - 1] = t[d + i + j - 1]
      <4>1. i + j - 1 \in 1..Len(s) /\ d + (i + j - 1) = d + i + j - 1
        BY <1>0, <2>0, <3>2, Lengths
      <4> QED BY <4>1
    <3> QED BY <3>1, <3>2
  <2>2. s[i + FRAME_LEN - 1] = t[d + i + FRAME_LEN - 1]
    <3>1. i + FRAME_LEN - 1 \in 1..Len(s) /\ d + (i + FRAME_LEN - 1) = d + i + FRAME_LEN - 1
      BY <1>0, <2>0, Lengths
    <3> QED BY <3>1
  <2>3. HeaderAt(s, i) <=> HeaderAt(t, d + i)
    <3>1. i + Len(HEADER) - 1 <= Len(s)
      BY <1>0, <2>0, Lengths
    <3> QED BY <1>1, <3>1
  <2> QED BY <2>0, <2>1, <2>2, <2>3 DEF WholeAt, SoundAt
<1> QED BY <1>1, <1>2

(***************************************************************************)
(* What Step::Skip throws away holds whole headers' worth of bytes and no  *)
(* header.                                                                 *)
(***************************************************************************)
LEMMA SkipsNoHeader ==
  ASSUME NEW bytes \in Seq(Bytes), Skippable(bytes) > 0
  PROVE  /\ Skippable(bytes) \in Nat /\ Skippable(bytes) <= Len(bytes)
         /\ \A j \in 1..Skippable(bytes) :
              j + Len(HEADER) - 1 <= Len(bytes) /\ ~HeaderAt(bytes, j)
<1>0. Len(bytes) \in Nat /\ DOMAIN bytes = 1..Len(bytes)
  OBVIOUS
<1>1. CASE HasHeader(bytes)
  <2> DEFINE found == {i \in DOMAIN bytes : HeaderAt(bytes, i)}
             first == CHOOSE i \in found : \A j \in found : i <= j
  <2>1. found \in SUBSET Nat /\ found # {}
    BY <1>0, <1>1 DEF HasHeader
  <2>2. first \in found /\ \A j \in found : first <= j
    <3>1. \E i \in found : \A j \in found : i <= j
      <4> HIDE DEF found
      <4> QED BY <2>1, LeastNatural
    <3> HIDE DEF found
    <3> QED BY <3>1
  <2>3. Skippable(bytes) = first - 1
    BY <1>1, <2>1 DEF Skippable, BeforeHeader
  <2>4. first \in 1..Len(bytes) /\ first + Len(HEADER) - 1 <= Len(bytes)
    <3>1. first \in 1..Len(bytes) /\ HeaderAt(bytes, first)
      BY <1>0, <2>2
    <3> HIDE DEF first
    <3> QED BY <3>1 DEF HeaderAt
  <2>5. \A j \in 1..Len(bytes) : HeaderAt(bytes, j) => first <= j
    BY <1>0, <2>2
  <2> HIDE DEF first
  <2> QED BY <1>0, <2>3, <2>4, <2>5, Lengths
<1>2. CASE ~HasHeader(bytes)
  <2>1. Skippable(bytes) = Len(bytes) - (Len(HEADER) - 1)
    BY <1>2 DEF Skippable
  <2>2. \A j \in 1..Len(bytes) : ~HeaderAt(bytes, j)
    BY <1>0, <1>2 DEF HasHeader
  <2> QED BY <1>0, <2>1, <2>2, Lengths
<1> QED BY <1>1, <1>2
(***************************************************************************)
(* drain moves the front of the buffer along the stream.                   *)
(***************************************************************************)
LEMMA Consumes ==
  ASSUME StreamInv, NEW n \in Nat, n <= Len(buffer), drain(n), stream' = stream
  PROVE  /\ buffer' \in Seq(Bytes) /\ Len(buffer') \in Nat /\ Len(buffer') <= Len(stream')
         /\ consumed' = consumed + n /\ consumed \in Nat /\ consumed + n <= Len(stream)
         /\ \A j \in 1..Len(buffer') : buffer'[j] = stream'[consumed' + j]
<1>1. /\ stream \in Seq(Bytes) /\ buffer \in Seq(Bytes) /\ Len(stream) \in Nat
      /\ Len(buffer) \in Nat /\ Len(buffer) <= Len(stream)
  BY DEF StreamInv
<1>2. /\ buffer' \in Seq(Bytes) /\ Len(buffer') = Len(buffer) - n
      /\ \A j \in 1..Len(buffer') : buffer'[j] = buffer[n + j]
  BY <1>1 DEF drain
<1>3. consumed' = consumed + n /\ consumed \in Nat /\ consumed + n <= Len(stream)
  BY <1>1, <1>2 DEF consumed
<1>4. ASSUME NEW j \in 1..Len(buffer') PROVE buffer'[j] = stream'[consumed' + j]
  <2>1. n + j \in 1..Len(buffer) /\ consumed + (n + j) = consumed' + j
    BY <1>1, <1>2, <1>3
  <2>2. buffer[n + j] = stream[consumed + (n + j)]
    BY <2>1 DEF StreamInv
  <2> QED BY <1>2, <2>1, <2>2
<1> QED BY <1>1, <1>2, <1>3, <1>4

(***************************************************************************)
(* The buffer in the stream.                                               *)
(***************************************************************************)
LEMMA BufferInStream ==
  ASSUME StreamInv, NEW i \in Nat, i > 0
  PROVE  /\ i + Len(HEADER) - 1 <= Len(buffer) =>
              /\ consumed + i + Len(HEADER) - 1 <= Len(stream)
              /\ HeaderAt(buffer, i) <=> HeaderAt(stream, consumed + i)
         /\ WholeAt(buffer, i) => /\ WholeAt(stream, consumed + i)
                                  /\ FrameAt(buffer, i) = FrameAt(stream, consumed + i)
                                  /\ SoundAt(buffer, i) <=> SoundAt(stream, consumed + i)
<1>1. /\ stream \in Seq(Bytes) /\ buffer \in Seq(Bytes) /\ Len(stream) \in Nat
      /\ Len(buffer) \in Nat /\ Len(buffer) <= Len(stream)
      /\ \A j \in 1..Len(buffer) : buffer[j] = stream[consumed + j]
  BY DEF StreamInv
<1>2. consumed \in Nat /\ consumed + Len(buffer) = Len(stream)
  BY <1>1 DEF consumed
<1>3. consumed + Len(buffer) <= Len(stream)
  BY <1>1, <1>2
<1>4. i + Len(HEADER) - 1 <= Len(buffer) => consumed + i + Len(HEADER) - 1 <= Len(stream)
  BY <1>1, <1>2, Lengths
<1> HIDE DEF consumed
<1> QED BY <1>1, <1>2, <1>3, <1>4, Shifted

(***************************************************************************)
(* Step::Skip and Step::BadChecksum: what is passed over is settled.       *)
(***************************************************************************)
LEMMA PassesOver ==
  ASSUME StreamInv, NEW n \in Nat, n <= Len(buffer), drain(n), UNCHANGED <<stream, delivered>>,
         \A j \in 1..n : Settled(consumed + j)
  PROVE  StreamInv'
<1>1. /\ buffer' \in Seq(Bytes) /\ Len(buffer') <= Len(stream')
      /\ consumed' = consumed + n /\ consumed \in Nat /\ consumed + n <= Len(stream)
      /\ \A j \in 1..Len(buffer') : buffer'[j] = stream'[consumed' + j]
  BY Consumes
<1>2. PICK starts : Accounted(starts)
  BY DEF StreamInv
<1>l. Len(delivered) \in Nat
  BY DEF StreamInv
<1>3. Accounted(starts)'
  <2>1. /\ starts \in [1..Len(delivered) -> 1..Len(stream)]
        /\ \A k, l \in 1..Len(delivered) : k < l => starts[k] + FRAME_LEN <= starts[l]
        /\ \A k \in 1..Len(delivered) :
             /\ starts[k] + FRAME_LEN - 1 <= consumed
             /\ SoundAt(stream, starts[k]) /\ delivered[k] = FrameAt(stream, starts[k])
    BY <1>2 DEF Accounted
  <2>2. \A k \in 1..Len(delivered) : starts[k] + FRAME_LEN - 1 <= consumed + n
    <3> TAKE k \in 1..Len(delivered)
    <3>1. starts[k] \in Nat
      BY <2>1
    <3> QED BY <1>1, <2>1, <3>1, Lengths
  <2>3. ASSUME NEW i \in 1..(consumed + n)
        PROVE  Settled(i) \/ \E k \in 1..Len(delivered) : Covers(starts[k], i)
    <3>1. CASE i <= consumed
      <4>1. i \in 1..consumed
        BY <1>1, <3>1
      <4> QED BY <1>2, <4>1 DEF Accounted
    <3>2. CASE i > consumed
      <4>1. i - consumed \in 1..n /\ consumed + (i - consumed) = i
        BY <1>1, <3>2
      <4> QED BY <4>1
    <3> QED BY <1>1, <3>1, <3>2
  <2>4. \A i \in 1..consumed' :
          Settled(i)' \/ \E k \in 1..Len(delivered') : Covers(starts[k], i)
    BY <1>1, <2>3 DEF Settled
  <2>5. \A k \in 1..Len(delivered') : /\ starts[k] + FRAME_LEN - 1 <= consumed'
                                      /\ SoundAt(stream', starts[k])
                                      /\ delivered'[k] = FrameAt(stream', starts[k])
    BY <1>1, <2>1, <2>2
  <2> QED BY <2>1, <2>4, <2>5 DEF Accounted
<1> QED BY <1>1, <1>3 DEF StreamInv
(***************************************************************************)
(* Step::Found: the frame at the front is the next from the left, and the  *)
(* positions inside it are covered by it.                                  *)
(***************************************************************************)
LEMMA FoundStep == StreamInv /\ Found => StreamInv'
<1> SUFFICES ASSUME StreamInv, Found PROVE StreamInv'
  OBVIOUS
<1>0. /\ HeaderAt(buffer, 1) /\ Len(buffer) >= FRAME_LEN /\ Sound(buffer)
      /\ drain(FRAME_LEN) /\ stream' = stream
      /\ delivered' = Append(delivered, FrameAt(buffer, 1))
  BY DEF Found, Whole
<1>l. /\ Len(delivered) \in Nat /\ delivered \in Seq(Seq(Bytes)) /\ buffer \in Seq(Bytes)
      /\ Len(buffer) \in Nat /\ Len(stream) \in Nat
  BY DEF StreamInv
<1>1. /\ buffer' \in Seq(Bytes) /\ Len(buffer') <= Len(stream')
      /\ consumed' = consumed + FRAME_LEN /\ consumed \in Nat /\ consumed + FRAME_LEN <= Len(stream)
      /\ \A j \in 1..Len(buffer') : buffer'[j] = stream'[consumed' + j]
  BY <1>0, <1>l, Lengths, Consumes
<1>2. /\ SoundAt(stream, consumed + 1) /\ FrameAt(buffer, 1) = FrameAt(stream, consumed + 1)
  <2>1. WholeAt(buffer, 1) /\ 1 + FRAME_LEN - 1 = FRAME_LEN
    BY <1>0, <1>l, Lengths DEF WholeAt
  <2>2. SoundAt(buffer, 1)
    BY <1>0, <2>1 DEF SoundAt, Sound
  <2> QED BY <2>1, <2>2, BufferInStream
<1>3. FrameAt(buffer, 1) \in Seq(Bytes)
  BY <1>0, <1>l, Lengths DEF FrameAt
<1>4. PICK starts : Accounted(starts)
  BY DEF StreamInv
<1> DEFINE m == Len(delivered)
<1>x. PICK more : more = [k \in 1..(m + 1) |-> IF k = m + 1 THEN consumed + 1 ELSE starts[k]]
  OBVIOUS
<1>5. /\ delivered' \in Seq(Seq(Bytes)) /\ Len(delivered') = m + 1
      /\ delivered'[m + 1] = FrameAt(buffer, 1)
      /\ \A k \in 1..m : delivered'[k] = delivered[k]
  BY <1>0, <1>3, <1>l
<1>6. /\ starts \in [1..m -> 1..Len(stream)]
      /\ \A k, l \in 1..m : k < l => starts[k] + FRAME_LEN <= starts[l]
      /\ \A k \in 1..m :
           /\ starts[k] + FRAME_LEN - 1 <= consumed
           /\ SoundAt(stream, starts[k]) /\ delivered[k] = FrameAt(stream, starts[k])
      /\ \A i \in 1..consumed : Settled(i) \/ \E k \in 1..m : Covers(starts[k], i)
  BY <1>4 DEF Accounted
<1>7. /\ more[m + 1] = consumed + 1 /\ \A k \in 1..m : more[k] = starts[k]
      /\ m \in Nat /\ \A k \in 1..(m + 1) : k \in 1..m \/ k = m + 1
      /\ m + 1 \in 1..(m + 1) /\ \A k \in 1..m : k \in 1..(m + 1) /\ k # m + 1
  BY <1>l, <1>x
<1>8. more \in [1..(m + 1) -> 1..Len(stream)]
  <2>1. consumed + 1 \in 1..Len(stream)
    BY <1>1, <1>l, Lengths
  <2> QED BY <1>6, <1>7, <1>x, <2>1
<1> HIDE DEF m
<1>9. Accounted(more)'
  <2>1. more \in [1..Len(delivered') -> 1..Len(stream')]
    BY <1>0, <1>5, <1>8
  <2>2. ASSUME NEW k \in 1..Len(delivered')
        PROVE  /\ more[k] + FRAME_LEN - 1 <= consumed'
               /\ SoundAt(stream', more[k]) /\ delivered'[k] = FrameAt(stream', more[k])
    <3>1. CASE k \in 1..m
      <4>1. starts[k] \in Nat /\ starts[k] + FRAME_LEN - 1 <= consumed
        BY <1>6, <3>1
      <4>2. starts[k] + FRAME_LEN - 1 <= consumed + FRAME_LEN
        BY <1>1, <4>1, Lengths
      <4>3. SoundAt(stream, starts[k]) /\ delivered'[k] = FrameAt(stream, starts[k])
        BY <1>5, <1>6, <3>1
      <4> QED BY <1>0, <1>1, <1>7, <3>1, <4>2, <4>3
    <3>2. CASE k = m + 1
      <4>1. consumed + 1 + FRAME_LEN - 1 <= consumed + FRAME_LEN
        BY <1>1, Lengths
      <4> QED BY <1>0, <1>1, <1>2, <1>5, <1>7, <3>2, <4>1
    <3> QED BY <1>5, <1>7, <3>1, <3>2
  <2>3. ASSUME NEW k \in 1..Len(delivered'), NEW l \in 1..Len(delivered'), k < l
        PROVE  more[k] + FRAME_LEN <= more[l]
    <3>1. k \in 1..m
      BY <1>5, <1>7, <2>3
    <3>2. starts[k] \in Nat /\ starts[k] + FRAME_LEN - 1 <= consumed
      BY <1>6, <3>1
    <3>3. CASE l \in 1..m
      BY <1>6, <1>7, <2>3, <3>1, <3>3
    <3>4. CASE l = m + 1
      <4>1. starts[k] + FRAME_LEN <= consumed + 1
        BY <1>1, <3>2, Lengths
      <4> QED BY <1>7, <3>1, <3>4, <4>1
    <3> QED BY <1>5, <1>7, <3>3, <3>4
  <2>4. ASSUME NEW i \in 1..consumed'
        PROVE  Settled(i)' \/ \E k \in 1..Len(delivered') : Covers(more[k], i)
    <3>1. CASE i <= consumed
      <4>1. i \in 1..consumed
        BY <1>1, <3>1
      <4>2. Settled(i) \/ \E k \in 1..m : Covers(starts[k], i)
        BY <1>6, <4>1
      <4>3. Settled(i) => Settled(i)'
        BY <1>0 DEF Settled
      <4>4. ASSUME NEW k \in 1..m, Covers(starts[k], i)
            PROVE  \E l \in 1..Len(delivered') : Covers(more[l], i)
        BY <1>5, <1>7, <4>4
      <4> QED BY <4>2, <4>3, <4>4
    <3>2. CASE i > consumed
      <4>1. Covers(consumed + 1, i)
        BY <1>1, <3>2, Lengths DEF Covers
      <4> QED BY <1>5, <1>7, <4>1
    <3> QED BY <1>1, <3>1, <3>2
  <2> QED BY <2>1, <2>2, <2>3, <2>4 DEF Accounted
<1> QED BY <1>1, <1>5, <1>9, <1>0 DEF StreamInv

(***************************************************************************)
(* A chunk arrives: what was settled stays settled.                        *)
(***************************************************************************)
LEMMA FeedStep == StreamInv /\ feed => StreamInv'
<1> SUFFICES ASSUME StreamInv, feed PROVE StreamInv'
  OBVIOUS
<1>1. PICK n \in 1..(MaxStream - Len(stream)) : \E chunk \in [1..n -> Bytes] :
        stream' = stream \o chunk /\ buffer' = buffer \o chunk
  BY DEF feed
<1>2. PICK chunk \in [1..n -> Bytes] : stream' = stream \o chunk /\ buffer' = buffer \o chunk
  BY <1>1
<1>3. n \in Nat /\ chunk \in Seq(Bytes) /\ Len(chunk) = n
  <2>1. n \in Nat
    BY <1>1
  <2> QED BY <2>1
<1>4. /\ stream \in Seq(Bytes) /\ buffer \in Seq(Bytes) /\ Len(stream) \in Nat
      /\ Len(buffer) \in Nat /\ Len(buffer) <= Len(stream) /\ Len(delivered) \in Nat
      /\ \A j \in 1..Len(buffer) : buffer[j] = stream[consumed + j]
  BY DEF StreamInv
<1>5. /\ stream' \in Seq(Bytes) /\ Len(stream') = Len(stream) + n
      /\ \A j \in 1..Len(stream) : stream'[j] = stream[j]
      /\ \A j \in 1..n : stream'[Len(stream) + j] = chunk[j]
  BY <1>2, <1>3, <1>4, Joined
<1>6. /\ buffer' \in Seq(Bytes) /\ Len(buffer') = Len(buffer) + n
      /\ \A j \in 1..Len(buffer) : buffer'[j] = buffer[j]
      /\ \A j \in 1..n : buffer'[Len(buffer) + j] = chunk[j]
  BY <1>2, <1>3, <1>4, Joined
<1>7. consumed' = consumed /\ consumed \in Nat /\ consumed + Len(buffer) = Len(stream)
      /\ delivered' = delivered
  BY <1>3, <1>4, <1>5, <1>6 DEF consumed, feed
<1>8. ASSUME NEW j \in 1..Len(buffer') PROVE buffer'[j] = stream'[consumed' + j]
  <2>1. CASE j \in 1..Len(buffer)
    <3>1. consumed + j \in 1..Len(stream)
      BY <1>4, <1>7, <2>1
    <3> QED BY <1>4, <1>5, <1>6, <1>7, <2>1, <3>1
  <2>2. CASE ~(j \in 1..Len(buffer))
    <3>1. j - Len(buffer) \in 1..n /\ Len(buffer) + (j - Len(buffer)) = j
          /\ Len(stream) + (j - Len(buffer)) = consumed + j
      BY <1>3, <1>4, <1>6, <1>7, <2>2
    <3> QED BY <1>5, <1>6, <1>7, <3>1
  <2> QED BY <2>1, <2>2
<1>9. ASSUME NEW i \in Nat, i > 0
      PROVE  /\ i + Len(HEADER) - 1 <= Len(stream) => (HeaderAt(stream, i) <=> HeaderAt(stream', i))
             /\ WholeAt(stream, i) => /\ WholeAt(stream', i) /\ FrameAt(stream, i) = FrameAt(stream', i)
                                      /\ SoundAt(stream, i) <=> SoundAt(stream', i)
  <2>1. /\ 0 \in Nat /\ 0 + Len(stream) <= Len(stream') /\ 0 + i = i
        /\ \A j \in 1..Len(stream) : stream[j] = stream'[0 + j]
    BY <1>3, <1>4, <1>5, <1>9
  <2>2. /\ i + Len(HEADER) - 1 <= Len(stream) =>
             (HeaderAt(stream, i) <=> HeaderAt(stream', 0 + i))
        /\ WholeAt(stream, i) => /\ WholeAt(stream', 0 + i)
                                 /\ FrameAt(stream, i) = FrameAt(stream', 0 + i)
                                 /\ SoundAt(stream, i) <=> SoundAt(stream', 0 + i)
    BY <1>4, <1>5, <1>9, <2>1, Shifted
  <2> QED BY <2>1, <2>2
<1>10. PICK starts : Accounted(starts)
  BY DEF StreamInv
<1>11. Accounted(starts)'
  <2>1. starts \in [1..Len(delivered) -> 1..Len(stream)]
    BY <1>10 DEF Accounted
  <2>2. starts \in [1..Len(delivered') -> 1..Len(stream')]
    BY <1>3, <1>4, <1>5, <1>7, <2>1
  <2>3. ASSUME NEW k \in 1..Len(delivered')
        PROVE  /\ starts[k] + FRAME_LEN - 1 <= consumed'
               /\ SoundAt(stream', starts[k]) /\ delivered'[k] = FrameAt(stream', starts[k])
    <3>1. /\ starts[k] + FRAME_LEN - 1 <= consumed
          /\ SoundAt(stream, starts[k]) /\ delivered[k] = FrameAt(stream, starts[k])
      BY <1>7, <1>10 DEF Accounted
    <3>2. starts[k] \in Nat /\ starts[k] > 0
      <4>1. k \in 1..Len(delivered)
        BY <1>7
      <4>2. starts[k] \in 1..Len(stream)
        BY <2>1, <4>1
      <4> QED BY <1>4, <4>2
    <3>3. WholeAt(stream, starts[k])
      BY <1>4, <1>7, <3>1, <3>2, Lengths DEF WholeAt
    <3> QED BY <1>7, <1>9, <3>1, <3>2, <3>3
  <2>4. ASSUME NEW i \in 1..consumed'
        PROVE  Settled(i)' \/ \E k \in 1..Len(delivered') : Covers(starts[k], i)
    <3>1. Settled(i) \/ \E k \in 1..Len(delivered) : Covers(starts[k], i)
      BY <1>7, <1>10 DEF Accounted
    <3>2. ASSUME Settled(i) PROVE Settled(i)'
      <4>1. i \in Nat /\ i > 0
        BY <1>7
      <4>2. i + Len(HEADER) - 1 <= Len(stream) => i + Len(HEADER) - 1 <= Len(stream')
        BY <1>3, <1>4, <1>5, <4>1, Lengths
      <4> QED BY <1>9, <3>2, <4>1, <4>2 DEF Settled
    <3> QED BY <1>7, <3>1, <3>2
  <2>5. \A k, l \in 1..Len(delivered') : k < l => starts[k] + FRAME_LEN <= starts[l]
    BY <1>7, <1>10 DEF Accounted
  <2> QED BY <2>2, <2>3, <2>4, <2>5 DEF Accounted
<1>12. delivered' \in Seq(Seq(Bytes)) /\ Len(buffer') <= Len(stream')
  BY <1>3, <1>4, <1>5, <1>6, <1>7 DEF StreamInv
<1> QED BY <1>5, <1>6, <1>8, <1>11, <1>12 DEF StreamInv
(***************************************************************************)
(* Step::Skip passes over positions without a header, and BadChecksum over *)
(* one whose frame is whole and not sound.                                 *)
(***************************************************************************)
LEMMA SkipStep == StreamInv /\ (Skip \/ BadChecksum) => StreamInv'
<1> SUFFICES ASSUME StreamInv, Skip \/ BadChecksum PROVE StreamInv'
  OBVIOUS
<1>0. buffer \in Seq(Bytes) /\ Len(buffer) \in Nat
  BY DEF StreamInv
<1>1. CASE Skip
  <2> DEFINE n == Skippable(buffer)
  <2>1. n > 0 /\ drain(n) /\ UNCHANGED <<stream, delivered>>
    BY <1>1 DEF Skip
  <2>2. /\ n \in Nat /\ n <= Len(buffer)
        /\ \A j \in 1..n : j + Len(HEADER) - 1 <= Len(buffer) /\ ~HeaderAt(buffer, j)
    BY <1>0, <2>1, SkipsNoHeader
  <2> HIDE DEF n
  <2>3. ASSUME NEW j \in 1..n PROVE Settled(consumed + j)
    <3>1. j \in Nat /\ j > 0 /\ j + Len(HEADER) - 1 <= Len(buffer) /\ ~HeaderAt(buffer, j)
      BY <2>2
    <3> QED BY <3>1, BufferInStream DEF Settled
  <2> QED BY <2>1, <2>2, <2>3, PassesOver
<1>2. CASE BadChecksum
  <2>1. /\ drain(1) /\ UNCHANGED <<stream, delivered>>
        /\ Len(buffer) >= FRAME_LEN /\ ~Sound(buffer)
    BY <1>2 DEF BadChecksum, Whole
  <2>2. WholeAt(buffer, 1) /\ ~SoundAt(buffer, 1) /\ 1 <= Len(buffer)
    <3>1. 1 + FRAME_LEN - 1 = FRAME_LEN /\ 1 <= Len(buffer)
      BY <1>0, <2>1, Lengths
    <3> QED BY <2>1, <3>1 DEF WholeAt, SoundAt, Sound
  <2>3. Settled(consumed + 1)
    BY <2>2, BufferInStream DEF Settled
  <2>4. \A j \in 1..1 : Settled(consumed + j)
    <3> TAKE j \in 1..1
    <3>1. j = 1
      OBVIOUS
    <3> QED BY <2>3, <3>1
  <2> QED BY <2>1, <2>2, <2>4, PassesOver
<1> QED BY <1>1, <1>2

(***************************************************************************)
(* Nothing has been read at the start, and every step keeps every position *)
(* of the stream accounted for.                                            *)
(***************************************************************************)
LEMMA StreamInvHolds == /\ ReaderInit => StreamInv
                        /\ StreamInv /\ [ReaderNext]_reader_vars => StreamInv'
<1>1. ASSUME ReaderInit PROVE StreamInv
  <2>1. /\ stream = <<>> /\ buffer = <<>> /\ delivered = <<>>
        /\ Len(stream) = 0 /\ Len(buffer) = 0 /\ Len(delivered) = 0 /\ consumed = 0
    BY <1>1 DEF ReaderInit, consumed
  <2>2. Accounted(<<>>)
    <3>1. <<>> \in [1..Len(delivered) -> 1..Len(stream)]
      BY <2>1
    <3> QED BY <2>1, <3>1 DEF Accounted
  <2>3. stream \in Seq(Bytes) /\ buffer \in Seq(Bytes) /\ delivered \in Seq(Seq(Bytes))
    BY <2>1
  <2> QED BY <2>1, <2>2, <2>3 DEF StreamInv
<1>2. ASSUME StreamInv, [ReaderNext]_reader_vars PROVE StreamInv'
  <2>1. CASE Skip \/ BadChecksum
    BY <1>2, <2>1, SkipStep
  <2>2. CASE Found
    BY <1>2, <2>2, FoundStep
  <2>3. CASE feed
    BY <1>2, <2>3, FeedStep
  <2>4. CASE Drained \/ UNCHANGED reader_vars
    <3>1. stream' = stream /\ buffer' = buffer /\ delivered' = delivered
      BY <2>4 DEF Drained, reader_vars
    <3> QED BY <1>2, <3>1 DEF StreamInv, consumed, Accounted, Settled
  <2> QED BY <1>2, <2>1, <2>2, <2>3, <2>4 DEF ReaderNext, next_frame
<1> QED BY <1>1, <1>2

(***************************************************************************)
(* For every header, frame length, checksum and stream, wherever the reads *)
(* cut it: whenever next_frame returns None, what it has delivered is the  *)
(* stream's sound frames from the left (frame.rs).                         *)
(***************************************************************************)
THEOREM NoSoundFrameIsLost == ReaderSpec => []ChunksDoNotMatter
<1>1. Inv /\ StreamInv => ChunksDoNotMatter
  <2> SUFFICES ASSUME Inv, StreamInv, ~draining
               PROVE  \E starts \in [1..Len(delivered) -> 1..Len(stream)] :
                        /\ LeftmostFrames(starts, stream)
                        /\ \A k \in 1..Len(delivered) : delivered[k] = FrameAt(stream, starts[k])
    BY DEF ChunksDoNotMatter
  <2>1. /\ Len(buffer) < FRAME_LEN /\ Len(buffer) \in Nat /\ Len(stream) \in Nat
        /\ Len(buffer) <= Len(stream)
    BY DEF Inv, HoldsLessThanAFrame, StreamInv
  <2>2. PICK starts : Accounted(starts)
    BY DEF StreamInv
  <2>3. /\ starts \in [1..Len(delivered) -> 1..Len(stream)] /\ DOMAIN starts = 1..Len(delivered)
        /\ \A k \in 1..Len(delivered) : delivered[k] = FrameAt(stream, starts[k])
        /\ \A k, l \in 1..Len(delivered) : k < l => starts[k] + FRAME_LEN <= starts[l]
    BY <2>2 DEF Accounted
  <2>4. ASSUME NEW k \in 1..Len(delivered)
        PROVE  WholeAt(stream, starts[k]) /\ SoundAt(stream, starts[k])
    <3>1. /\ starts[k] + FRAME_LEN - 1 <= consumed /\ SoundAt(stream, starts[k])
      BY <2>2 DEF Accounted
    <3>2. starts[k] \in 1..Len(stream)
      BY <2>3
    <3> QED BY <2>1, <3>1, <3>2, Lengths DEF WholeAt, consumed
  <2>5. ASSUME NEW i \in 1..Len(stream), WholeAt(stream, i), SoundAt(stream, i)
        PROVE  \E k \in 1..Len(delivered) : Covers(starts[k], i)
    <3>1. i \in 1..consumed
      BY <2>1, <2>5, Lengths DEF WholeAt, consumed
    <3>2. ~Settled(i)
      BY <2>5 DEF Settled, SoundAt
    <3> QED BY <2>2, <3>1, <3>2 DEF Accounted
  <2>6. LeftmostFrames(starts, stream)
    BY <2>3, <2>4, <2>5 DEF LeftmostFrames
  <2> QED BY <2>3, <2>6
<1> QED BY InvAlways, StreamInvHolds, <1>1, PTL DEF ReaderSpec
=============================================================================
