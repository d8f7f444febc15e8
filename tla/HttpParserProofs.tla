-------------------------- MODULE HttpParserProofs --------------------------
(***************************************************************************)
(* Proofs about HttpParser for every buffer size, length limit and input.  *)
(***************************************************************************)
EXTENDS HttpParser, SequenceTheorems, FiniteSetTheorems, TLAPS

(* A piece is a sequence of at most BufferSize bytes.                      *)
LEMMA PieceLemma ==
  ASSUME NEW piece \in BoundedSeq(Chars, BufferSize)
  PROVE  piece \in Seq(Chars) /\ Len(piece) \in 0..BufferSize
         /\ (piece # <<>> => Len(piece) # 0)
         /\ \A i \in 1..Len(piece) : piece[i] \in Chars
<1> USE ParserAssumption
<1>1. PICK m \in 0..BufferSize : piece \in [1..m -> Chars]
  BY DEF BoundedSeq, SeqOf
<1> HIDE DEF Chars
<1>2. piece \in Seq(Chars) /\ Len(piece) = m
  BY <1>1
<1>3. QED BY <1>1, <1>2, EmptySeq, ElementOfSeq

(* What ParseByte does to its own state, whatever the byte.                *)
LEMMA ParseByteTypes ==
  ASSUME NEW c, ParseByte(c), n_total_read_ \in Nat
  PROVE  /\ parsed' = Append(parsed, c)
         /\ n_total_read_' \in {n_total_read_, n_total_read_ + 1}
         /\ n_total_read_ >= MaxMsgLength => state_' = "ERR"
         /\ state_' \in {"METHOD", "URL", "VERSION", "HEADERS"} \cup Final
<1>1. CASE c = "nonascii" \/ n_total_read_ >= MaxMsgLength
  BY <1>1 DEF ParseByte, Error, Final
<1>2. CASE ~(c = "nonascii" \/ n_total_read_ >= MaxMsgLength)
  BY <1>2 DEF ParseByte, StateByte, WordByte, VersionByte, HeaderByte, EndOfLine, Field, Push, Skip,
              Error, Final
<1>3. QED BY <1>1, <1>2

(* The parser keeps its types, and no request grows beyond the limit       *)
(* without an error.                                                       *)
THEOREM ParserTypeCorrect == ParserSpec => []ParserTypeOK
<1> USE ParserAssumption
<1>1. ParserInit => ParserTypeOK
  BY DEF ParserInit, ParserTypeOK, Chars
<1>2. ParserTypeOK /\ [ParserNext]_parserVars => ParserTypeOK'
  <2> SUFFICES ASSUME ParserTypeOK, [ParserNext]_parserVars PROVE ParserTypeOK'
    OBVIOUS
  <2>1. CASE NextByte
    <3>1. PICK c : ParseByte(c)
      BY <2>1 DEF NextByte
    <3>2. /\ state_' \in {"METHOD", "URL", "VERSION", "HEADERS"} \cup Final
          /\ n_total_read_' \in 0..(MaxMsgLength + 1)
          /\ n_total_read_' > MaxMsgLength => state_' = "ERR"
      <4>1. n_total_read_ \in 0..MaxMsgLength
        BY <2>1 DEF NextByte, ParserTypeOK, Final
      <4>2. QED BY <3>1, <4>1, ParseByteTypes
    <3>3. CASE cur_buf_idx_ # end_buf_idx_ /\ UNCHANGED readVars /\ cur_buf_idx_' = cur_buf_idx_ + 1
      BY <2>1, <3>2, <3>3 DEF NextByte, ParserTypeOK, readVars
    <3>4. ASSUME NEW piece \in BoundedSeq(Chars, BufferSize), Read(piece),
                 cur_buf_idx_' = 1
          PROVE  ParserTypeOK'
      <4>1. Len(piece) \in 0..BufferSize /\ \A i \in 1..Len(piece) : piece[i] \in Chars
        BY PieceLemma
      <4>2. io_buffer_' \in [Indices -> Chars]
        <5>1. \A i \in Indices : i < Len(piece) => i + 1 \in 1..Len(piece)
          BY <4>1 DEF Indices
        <5>2. QED BY <3>4, <4>1, <5>1 DEF Read, ParserTypeOK
      <4>3. end_buf_idx_' \in 0..BufferSize /\ fin_' \in BOOLEAN
        BY <3>4, <4>1 DEF Read, ParserTypeOK
      <4>4. QED BY <2>1, <3>2, <3>4, <4>2, <4>3 DEF NextByte, ParserTypeOK
    <3>5. QED BY <2>1, <3>3, <3>4 DEF NextByte
  <2>2. CASE Return \/ CallAgain \/ UNCHANGED parserVars
    BY <2>2 DEF Return, CallAgain, ParserTypeOK, parserVars, readVars, parseVars
  <2>3. QED BY <2>1, <2>2 DEF ParserNext
<1>3. QED BY <1>1, <1>2, PTL DEF ParserSpec

-----------------------------------------------------------------------------

(* The inductive strengthening of BytesInOrder: as long as no read went    *)
(* unnoticed, io_buffer_ holds between the two indexes the bytes that were *)
(* delivered and not yet parsed.  A socket's end_buf_idx_ is BufferSize at *)
(* all times.                                                              *)
OrderInv ==
  /\ delivered \in Seq(Chars) /\ parsed \in Seq(Chars)
  /\ short \in BOOLEAN
  /\ source = "socket" => end_buf_idx_ = BufferSize
  /\ ~short =>
       /\ cur_buf_idx_ <= end_buf_idx_
       /\ Len(parsed) + (end_buf_idx_ - cur_buf_idx_) = Len(delivered)
       /\ \A i \in 1..Len(parsed) : parsed[i] = delivered[i]
       /\ \A i \in cur_buf_idx_..(end_buf_idx_ - 1) :
            io_buffer_[i] = delivered[Len(parsed) + (i - cur_buf_idx_) + 1]

(* ParseByte is given bytes of the source, or whatever lies behind the     *)
(* buffer: bytes in any case.                                              *)
LEMMA ByteLemma ==
  ASSUME ParserTypeOK, NEW at \in Nat, NEW c \in ByteAt(at, io_buffer_)
  PROVE  c \in Chars /\ (at < BufferSize => c = io_buffer_[at])
  BY ParserAssumption DEF ParserTypeOK, ByteAt, Indices

(* One byte more of d: a prefix of d stays one.                            *)
LEMMA OrderStep ==
  ASSUME NEW d \in Seq(Chars), NEW p \in Seq(Chars), Len(p) < Len(d),
         \A i \in 1..Len(p) : p[i] = d[i]
  PROVE  LET q == Append(p, d[Len(p) + 1])
         IN  /\ q \in Seq(Chars) /\ Len(q) = Len(p) + 1
             /\ \A i \in 1..Len(q) : q[i] = d[i]
<1> DEFINE c == d[Len(p) + 1]
           q == Append(p, c)
<1> HIDE DEF Chars
<1>1. Len(p) \in Nat /\ Len(d) \in Nat
  BY LenProperties
<1>2. c \in Chars
  BY <1>1, ElementOfSeq
<1> HIDE DEF c
<1>3. /\ q \in Seq(Chars) /\ Len(q) = Len(p) + 1
      /\ \A i \in 1..Len(p) : q[i] = p[i]
      /\ q[Len(p) + 1] = c
  BY <1>2, AppendProperties
<1>4. \A i \in 1..Len(q) : q[i] = d[i]
  BY <1>1, <1>3 DEF c
<1>5. QED BY <1>3, <1>4 DEF c

(* Parsing never repeats, skips or reorders a byte, whatever the pieces,   *)
(* as long as every short read is noticed.                                 *)
THEOREM OrderInvariant == ParserSpec => []OrderInv
<1> USE ParserAssumption
<1>1. ParserInit => OrderInv
  <2> SUFFICES ASSUME ParserInit PROVE OrderInv
    OBVIOUS
  <2>1. delivered = <<>> /\ parsed = <<>> /\ short = FALSE
    BY DEF ParserInit
  <2>2. delivered \in Seq(Chars) /\ parsed \in Seq(Chars) /\ Len(parsed) = 0
        /\ Len(delivered) = 0
    BY <2>1, EmptySeq
  <2>3. /\ cur_buf_idx_ = BufferSize /\ end_buf_idx_ = BufferSize
        /\ 1..Len(parsed) = {} /\ cur_buf_idx_..(end_buf_idx_ - 1) = {}
        /\ Len(parsed) + (end_buf_idx_ - cur_buf_idx_) = Len(delivered)
    BY <2>2 DEF ParserInit
  <2>4. cur_buf_idx_ <= end_buf_idx_
    BY <2>3
  <2>5. /\ \A i \in 1..Len(parsed) : parsed[i] = delivered[i]
        /\ \A i \in cur_buf_idx_..(end_buf_idx_ - 1) :
             io_buffer_[i] = delivered[Len(parsed) + (i - cur_buf_idx_) + 1]
    BY <2>3
  <2> QED BY <2>1, <2>2, <2>3, <2>4, <2>5, Zenon DEF OrderInv
<1>2. ParserTypeOK /\ ParserTypeOK' /\ OrderInv /\ [ParserNext]_parserVars => OrderInv'
  <2> SUFFICES ASSUME ParserTypeOK, ParserTypeOK', OrderInv, [ParserNext]_parserVars
               PROVE  OrderInv'
    OBVIOUS
  <2>0. /\ Len(delivered) \in Nat /\ Len(parsed) \in Nat
        /\ cur_buf_idx_ \in Nat /\ end_buf_idx_ \in 0..BufferSize
    <3> HIDE DEF Chars
    <3>1. QED BY LenProperties DEF OrderInv, ParserTypeOK
  <2>1. CASE NextByte
    <3>1. PICK c \in ByteAt(cur_buf_idx_' - 1, io_buffer_') : ParseByte(c)
      BY <2>1 DEF NextByte
    <3>2. parsed' = Append(parsed, c) /\ source' = source
      BY <2>1, <3>1 DEF NextByte, ParseByte
    <3>3. CASE /\ cur_buf_idx_ # end_buf_idx_ /\ UNCHANGED readVars
               /\ cur_buf_idx_' = cur_buf_idx_ + 1
      <4>1. UNCHANGED <<io_buffer_, end_buf_idx_, delivered, short>>
        BY <3>3 DEF readVars
      <4>2. c \in Chars /\ (cur_buf_idx_ < BufferSize => c = io_buffer_[cur_buf_idx_])
        <5>1. c \in ByteAt(cur_buf_idx_, io_buffer_)
          BY <2>0, <3>1, <3>3, <4>1
        <5>2. QED BY <2>0, <5>1, ByteLemma
      <4>3. parsed' \in Seq(Chars)
        <5> HIDE DEF Chars
        <5>1. QED BY <3>2, <4>2, AppendProperties DEF OrderInv
      <4>4. CASE short
        BY <3>2, <4>1, <4>3, <4>4 DEF OrderInv
      <4>5. CASE ~short
        <5>1. cur_buf_idx_ < end_buf_idx_ /\ cur_buf_idx_ \in cur_buf_idx_..(end_buf_idx_ - 1)
          BY <2>0, <3>3, <4>5 DEF OrderInv
        <5>2. c = delivered[Len(parsed) + 1] /\ Len(parsed) < Len(delivered)
          <6>1. io_buffer_[cur_buf_idx_]
                  = delivered[Len(parsed) + (cur_buf_idx_ - cur_buf_idx_) + 1]
            BY <4>5, <5>1 DEF OrderInv
          <6>2. Len(parsed) + (cur_buf_idx_ - cur_buf_idx_) + 1 = Len(parsed) + 1
            BY <2>0
          <6>3. QED BY <2>0, <4>2, <4>5, <5>1, <6>1, <6>2 DEF OrderInv
        <5>3. Len(parsed') = Len(parsed) + 1 /\ \A i \in 1..Len(parsed') : parsed'[i] = delivered[i]
          BY <3>2, <4>5, <5>2, OrderStep DEF OrderInv
        <5>4. \A i \in cur_buf_idx_'..(end_buf_idx_' - 1) :
                io_buffer_'[i] = delivered'[Len(parsed') + (i - cur_buf_idx_') + 1]
          <6>1. \A i \in (cur_buf_idx_ + 1)..(end_buf_idx_ - 1) :
                  /\ i \in cur_buf_idx_..(end_buf_idx_ - 1)
                  /\ (Len(parsed) + 1) + (i - (cur_buf_idx_ + 1)) + 1
                       = Len(parsed) + (i - cur_buf_idx_) + 1
            BY <2>0
          <6>2. QED BY <3>3, <4>1, <4>5, <5>3, <6>1 DEF OrderInv
        <5>5. /\ cur_buf_idx_' <= end_buf_idx_'
              /\ Len(parsed') + (end_buf_idx_' - cur_buf_idx_') = Len(delivered')
          BY <2>0, <3>3, <4>1, <4>5, <5>1, <5>3 DEF OrderInv
        <5>6. QED BY <3>2, <4>1, <4>3, <4>5, <5>3, <5>4, <5>5 DEF OrderInv
      <4>6. QED BY <4>4, <4>5
    <3>4. ASSUME NEW piece \in BoundedSeq(Chars, BufferSize), Read(piece),
                 cur_buf_idx_ = end_buf_idx_, cur_buf_idx_' = 1
          PROVE  OrderInv'
      <4>1. piece \in Seq(Chars) /\ Len(piece) \in 0..BufferSize
            /\ (piece # <<>> => Len(piece) # 0)
        BY PieceLemma
      <4>2. /\ delivered' = delivered \o piece
            /\ short' = (short \/ piece = <<>> \/ (source = "socket" /\ Len(piece) < BufferSize))
            /\ end_buf_idx_' = IF source = "file" THEN Len(piece) ELSE end_buf_idx_
            /\ io_buffer_' = [i \in Indices |->
                                IF i < Len(piece) THEN piece[i + 1] ELSE io_buffer_[i]]
        BY <3>4 DEF Read
      <4>3. short' \in BOOLEAN /\ (source' = "socket" => end_buf_idx_' = BufferSize)
        BY <3>2, <4>2 DEF OrderInv
      <4>4. /\ delivered' \in Seq(Chars)
            /\ Len(delivered') = Len(delivered) + Len(piece)
            /\ \A i \in 1..Len(delivered) : delivered'[i] = delivered[i]
            /\ \A i \in 1..Len(piece) : delivered'[Len(delivered) + i] = piece[i]
        <5> HIDE DEF Chars
        <5>1. delivered \in Seq(Chars)
          BY DEF OrderInv
        <5>2. /\ delivered' \in Seq(Chars)
              /\ Len(delivered') = Len(delivered) + Len(piece)
              /\ \A i \in 1..(Len(delivered) + Len(piece)) :
                   delivered'[i] = IF i <= Len(delivered) THEN delivered[i]
                                   ELSE piece[i - Len(delivered)]
          BY <4>1, <4>2, <5>1, ConcatProperties
        <5>3. \A i \in 1..Len(delivered) : i \in 1..(Len(delivered) + Len(piece))
                                            /\ i <= Len(delivered)
          BY <2>0, <4>1
        <5>4. \A i \in 1..Len(piece) : /\ Len(delivered) + i \in 1..(Len(delivered) + Len(piece))
                                        /\ ~(Len(delivered) + i <= Len(delivered))
                                        /\ Len(delivered) + i - Len(delivered) = i
          BY <2>0, <4>1
        <5>5. QED BY <5>2, <5>3, <5>4
      <4>5. c \in Chars /\ c = io_buffer_'[0]
        <5>1. 0 \in Indices /\ 0 < BufferSize /\ io_buffer_' \in [Indices -> Chars]
          BY DEF Indices, ParserTypeOK
        <5>2. c \in ByteAt(0, io_buffer_')
          BY <3>1, <3>4
        <5>3. QED BY <5>1, <5>2 DEF ByteAt
      <4>6. parsed' \in Seq(Chars)
        <5> HIDE DEF Chars
        <5>1. QED BY <3>2, <4>5, AppendProperties DEF OrderInv
      <4>7. CASE short'
        BY <4>3, <4>4, <4>6, <4>7 DEF OrderInv
      <4>8. CASE ~short'
        <5>1. ~short /\ Len(piece) \in 1..BufferSize /\ end_buf_idx_' = Len(piece)
          <6>1. ~short /\ piece # <<>> /\ ~(source = "socket" /\ Len(piece) < BufferSize)
            BY <4>2, <4>8, Zenon
          <6>2. Len(piece) \in 1..BufferSize
            BY <4>1, <6>1
          <6>3. source \in {"file", "socket"} /\ (source = "socket" => end_buf_idx_ = BufferSize)
            BY DEF OrderInv, ParserTypeOK
          <6>4. QED BY <4>2, <6>1, <6>2, <6>3
        <5>2. Len(parsed) = Len(delivered)
          BY <2>0, <3>4, <5>1 DEF OrderInv
        <5>3. \A i \in 0..(Len(piece) - 1) :
                /\ i \in Indices /\ i < Len(piece)
                /\ i + 1 \in 1..Len(piece) /\ Len(delivered) + (i + 1) = Len(delivered) + i + 1
          BY <2>0, <5>1 DEF Indices
        <5>4. \A i \in 0..(Len(piece) - 1) :
                io_buffer_'[i] = delivered'[Len(delivered) + i + 1]
          BY <4>2, <4>4, <5>3
        <5>5. c = delivered'[Len(parsed) + 1] /\ Len(parsed) < Len(delivered')
          <6>1. 0 \in 0..(Len(piece) - 1) /\ Len(delivered) + 0 + 1 = Len(delivered) + 1
            BY <2>0, <5>1
          <6>2. io_buffer_'[0] = delivered'[Len(delivered) + 1]
            BY <5>4, <6>1
          <6>3. QED BY <2>0, <4>4, <4>5, <5>1, <5>2, <6>2
        <5>6. \A i \in 1..Len(parsed) : parsed[i] = delivered'[i]
          BY <4>4, <5>1, <5>2 DEF OrderInv
        <5>7. /\ Len(parsed') = Len(parsed) + 1
              /\ \A i \in 1..Len(parsed') : parsed'[i] = delivered'[i]
          BY <3>2, <4>4, <5>5, <5>6, OrderStep DEF OrderInv
        <5>8. \A i \in cur_buf_idx_'..(end_buf_idx_' - 1) :
                io_buffer_'[i] = delivered'[Len(parsed') + (i - cur_buf_idx_') + 1]
          <6>1. \A i \in 1..(Len(piece) - 1) :
                  i \in 0..(Len(piece) - 1)
                  /\ (Len(delivered) + 1) + (i - 1) + 1 = Len(delivered) + i + 1
            BY <2>0, <5>1
          <6>2. QED BY <3>4, <5>1, <5>2, <5>4, <5>7, <6>1
        <5>9. /\ cur_buf_idx_' <= end_buf_idx_'
              /\ Len(parsed') + (end_buf_idx_' - cur_buf_idx_') = Len(delivered')
          BY <2>0, <3>4, <4>4, <5>1, <5>2, <5>7
        <5>10. QED BY <4>3, <4>4, <4>6, <5>7, <5>8, <5>9 DEF OrderInv
      <4>9. QED BY <4>7, <4>8
    <3>5. QED BY <2>1, <3>3, <3>4 DEF NextByte
  <2>2. CASE Return \/ CallAgain \/ UNCHANGED parserVars
    BY <2>2 DEF Return, CallAgain, OrderInv, parserVars, readVars, parseVars
  <2>3. QED BY <2>1, <2>2 DEF ParserNext
<1>3. QED BY <1>1, <1>2, ParserTypeCorrect, PTL DEF ParserSpec

(* ParseByte sees the bytes of the source once each and in order, and      *)
(* io_buffer_ is not left.                                                 *)
THEOREM BytesAreInOrder == ParserSpec => []BytesInOrder
<1>1. ParserTypeOK /\ OrderInv => BytesInOrder
  <2> SUFFICES ASSUME ParserTypeOK, OrderInv, ~short
               PROVE  IsPrefix(parsed, delivered) /\ cur_buf_idx_ <= BufferSize
    BY DEF BytesInOrder
  <2> HIDE DEF Chars
  <2>1. cur_buf_idx_ <= BufferSize
    BY ParserAssumption DEF ParserTypeOK, OrderInv
  <2>2. Len(parsed) \in Nat /\ Len(delivered) \in Nat /\ Len(parsed) <= Len(delivered)
    <3>1. Len(parsed) \in Nat /\ Len(delivered) \in Nat
      BY LenProperties DEF OrderInv
    <3>2. QED BY <3>1, ParserAssumption DEF ParserTypeOK, OrderInv
  <2>3. SubSeq(parsed, 1, Len(parsed)) = SubSeq(delivered, 1, Len(parsed))
    <3> DEFINE n == Len(parsed)
               p == SubSeq(parsed, 1, n)
               d == SubSeq(delivered, 1, n)
    <3>1. \A i \in 1..n : parsed[i] \in Chars /\ delivered[i] = parsed[i]
      BY <2>2, ElementOfSeq DEF OrderInv
    <3>2. p \in Seq(Chars) /\ Len(p) = n /\ \A i \in 1..n : p[i] = parsed[i]
      BY <2>2, <3>1
    <3>3. d \in Seq(Chars) /\ Len(d) = n /\ \A i \in 1..n : d[i] = delivered[i]
      BY <2>2, <3>1
    <3> HIDE DEF p, d
    <3>4. p = d
      BY <3>1, <3>2, <3>3, SeqEqual
    <3>5. QED BY <3>4 DEF p, d
  <2>4. QED BY <2>1, <2>2, <2>3 DEF IsPrefix
<1>2. QED BY <1>1, ParserTypeCorrect, OrderInvariant, PTL

-----------------------------------------------------------------------------

(* A set of natural numbers that is not empty has a least element: of the  *)
(* intervals from 0 to one of its elements, one has none below it.  The    *)
(* inductions below take the least number a statement fails for.           *)
LEMMA LeastNat ==
  ASSUME NEW T, T \subseteq Nat, T # {}
  PROVE  \E x \in T : \A y \in T : x <= y
<1> DEFINE Downs == {0..n : n \in T}
<1>1. Downs \subseteq FiniteSubsetsOf(Nat) /\ Downs # {}
  <2>1. \A n \in T : IsFiniteSet(0..n) /\ 0..n \subseteq Nat
    BY FS_Interval
  <2>2. QED BY <2>1 DEF FiniteSubsetsOf
<1>2. IsWellFoundedOn(StrictSubsetOrdering(Nat), FiniteSubsetsOf(Nat))
  BY FS_StrictSubsetOrderingWellFounded
<1>3. PICK D \in Downs : \A E \in Downs : ~(<<E, D>> \in StrictSubsetOrdering(Nat))
  <2> HIDE DEF Downs
  <2>1. QED BY <1>1, <1>2, WFMin
<1>4. PICK x \in T : D = 0..x
  OBVIOUS
<1>5. ASSUME NEW y \in T, y < x PROVE FALSE
  <2>1. x \in 0..x /\ x \notin 0..y
    BY <1>5
  <2>2. 0..y \subseteq 0..x /\ 0..y # 0..x /\ 0..y \in SUBSET Nat /\ 0..x \in SUBSET Nat
    BY <1>5, <2>1
  <2>3. <<0..y, 0..x>> \in StrictSubsetOrdering(Nat)
    BY <2>2 DEF StrictSubsetOrdering
  <2>4. QED BY <1>3, <1>4, <2>3
<1>6. QED BY <1>5

(* One round of the loop in Without.                                       *)
Round(s, skipped, f, i) ==
  IF i = 0 THEN <<>>
  ELSE IF s[i] \in skipped THEN f[i - 1] ELSE Append(f[i - 1], s[i])

(* Without is computed by a function that follows its equation: one exists *)
(* up to every length.                                                     *)
LEMMA WithoutEquation ==
  ASSUME NEW S, NEW s \in Seq(S), NEW skipped
  PROVE  \E f : /\ Without(s, skipped) = f[Len(s)]
                /\ \A i \in 0..Len(s) : f[i] = Round(s, skipped, f, i)
<1> DEFINE N == Len(s)
           R(f, i) == Round(s, skipped, f, i)
           Upto(n) == \E f \in [0..n -> Seq(S)] : \A i \in 0..n : f[i] = R(f, i)
           Bad == {n \in 0..N : ~Upto(n)}
<1>1. N \in Nat /\ \A i \in 1..N : s[i] \in S
  BY LenProperties, ElementOfSeq
<1>2. ASSUME Bad # {} PROVE FALSE
  <2>1. PICK m \in Bad : \A n \in Bad : m <= n
    <3>1. Bad \subseteq Nat
      BY <1>1
    <3> HIDE DEF Bad
    <3>2. QED BY <1>2, <3>1, LeastNat
  <2>2. m \in 0..N /\ ~Upto(m)
    OBVIOUS
  <2>3. m # 0
    <3>1. SUFFICES ASSUME m = 0 PROVE Upto(m)
      BY <2>2
    <3> DEFINE f == [i \in 0..m |-> <<>>]
    <3>2. f \in [0..m -> Seq(S)]
      BY EmptySeq
    <3>3. \A i \in 0..m : f[i] = R(f, i)
      BY <3>1 DEF Round
    <3>4. QED BY <3>2, <3>3
  <2>4. m - 1 \in 0..N /\ ~(m <= m - 1) /\ m \in 1..N
    BY <1>1, <2>2, <2>3
  <2>5. Upto(m - 1)
    BY <2>1, <2>4
  <2>6. PICK f \in [0..(m - 1) -> Seq(S)] : \A i \in 0..(m - 1) : f[i] = R(f, i)
    BY <2>5
  <2> DEFINE g == [i \in 0..m |-> IF i = m THEN R(f, m) ELSE f[i]]
  <2>7. R(f, m) \in Seq(S)
    <3>1. f[m - 1] \in Seq(S) /\ s[m] \in S
      BY <1>1, <2>4
    <3>2. Append(f[m - 1], s[m]) \in Seq(S)
      BY <3>1, AppendProperties
    <3>3. QED BY <3>1, <3>2, <2>3 DEF Round
  <2>8. g \in [0..m -> Seq(S)]
    <3>1. \A i \in 0..m : i # m => i \in 0..(m - 1)
      BY <2>4
    <3> HIDE DEF R
    <3>2. QED BY <2>7, <3>1
  <2>9. ASSUME NEW i \in 0..m PROVE g[i] = R(g, i)
    <3>1. i # 0 => i - 1 \in 0..(m - 1) /\ i - 1 \in 0..m /\ i - 1 # m
      BY <2>4
    <3>2. i # 0 => g[i - 1] = f[i - 1]
      BY <3>1
    <3>3. R(g, i) = R(f, i)
      <4> HIDE DEF g
      <4>1. QED BY <3>2 DEF Round
    <3>4. i # m => i \in 0..(m - 1)
      BY <2>4
    <3>5. g[i] = R(f, i)
      <4> HIDE DEF R
      <4>1. QED BY <2>6, <3>4
    <3>6. QED BY <3>3, <3>5
  <2>10. Upto(m)
    <3> HIDE DEF g, R
    <3>1. QED BY <2>8, <2>9
  <2>11. QED BY <2>2, <2>10
<1>3. Upto(N)
  <2>1. N \in 0..N
    BY <1>1
  <2> HIDE DEF Upto
  <2>2. QED BY <1>2, <2>1
<1> DEFINE Def(f) == [i \in 0..N |-> R(f, i)]
           k == CHOOSE f : f = Def(f)
<1>4. \E f : f = Def(f)
  <2>1. PICK f \in [0..N -> Seq(S)] : \A i \in 0..N : f[i] = R(f, i)
    BY <1>3
  <2>2. f = Def(f)
    <3> HIDE DEF R
    <3>1. QED BY <2>1
  <2>3. QED BY <2>2
<1>5. Without(s, skipped) = k[N]
  BY Zenon DEF Without, Round
<1>6. k = Def(k)
  <2> HIDE DEF Def
  <2>1. QED BY <1>4, Zenon
<1>7. \A i \in 0..N : k[i] = R(k, i)
  <2> HIDE DEF k, R
  <2>1. QED BY <1>6
<1>8. QED BY <1>5, <1>7, Zenon

(* Without keeps bytes of s, and nothing of nothing.                       *)
LEMMA WithoutLemma ==
  ASSUME NEW S, NEW s \in Seq(S), NEW skipped
  PROVE  /\ Without(s, skipped) \in Seq(S)
         /\ s = <<>> => Without(s, skipped) = <<>>
<1> DEFINE N == Len(s)
<1>1. N \in Nat /\ \A i \in 1..N : s[i] \in S
  BY LenProperties, ElementOfSeq
<1>2. PICK f : /\ Without(s, skipped) = f[N]
               /\ \A i \in 0..N : f[i] = Round(s, skipped, f, i)
  BY WithoutEquation
<1> DEFINE Bad == {n \in 0..N : f[n] \notin Seq(S)}
<1>3. ASSUME Bad # {} PROVE FALSE
  <2>1. PICK m \in Bad : \A n \in Bad : m <= n
    <3>1. Bad \subseteq Nat
      BY <1>1
    <3> HIDE DEF Bad
    <3>2. QED BY <1>3, <3>1, LeastNat
  <2>2. m \in 0..N /\ f[m] \notin Seq(S)
    OBVIOUS
  <2>3. f[m] = Round(s, skipped, f, m)
    BY <1>2, <2>2
  <2>4. m # 0
    BY <2>2, <2>3, EmptySeq DEF Round
  <2>5. m - 1 \in 0..N /\ ~(m <= m - 1) /\ m \in 1..N
    BY <1>1, <2>2, <2>4
  <2>6. f[m - 1] \in Seq(S) /\ s[m] \in S
    BY <1>1, <2>1, <2>5
  <2>7. Append(f[m - 1], s[m]) \in Seq(S)
    BY <2>6, AppendProperties
  <2>8. QED BY <2>2, <2>3, <2>4, <2>6, <2>7 DEF Round
<1>4. Without(s, skipped) \in Seq(S)
  <2>1. N \in 0..N
    BY <1>1
  <2>2. QED BY <1>2, <1>3, <2>1
<1>5. ASSUME s = <<>> PROVE Without(s, skipped) = <<>>
  <2>1. N = 0 /\ 0 \in 0..N
    BY <1>5, EmptySeq
  <2>2. QED BY <1>2, <2>1 DEF Round
<1>6. QED BY <1>4, <1>5

(* One byte more is kept, or skipped.                                      *)
LEMMA WithoutAppend ==
  ASSUME NEW S, NEW s \in Seq(S), NEW c \in S, NEW skipped
  PROVE  Without(Append(s, c), skipped)
           = IF c \in skipped THEN Without(s, skipped) ELSE Append(Without(s, skipped), c)
<1> DEFINE N == Len(s)
           t == Append(s, c)
<1>1. /\ N \in Nat /\ t \in Seq(S) /\ Len(t) = N + 1
      /\ \A i \in 1..N : t[i] = s[i]
      /\ t[N + 1] = c
  BY LenProperties, AppendProperties
<1> HIDE DEF t
<1>2. PICK f : /\ Without(s, skipped) = f[N]
               /\ \A i \in 0..N : f[i] = Round(s, skipped, f, i)
  BY WithoutEquation
<1>3. PICK g : /\ Without(t, skipped) = g[N + 1]
               /\ \A i \in 0..(N + 1) : g[i] = Round(t, skipped, g, i)
  <2>1. \E g : /\ Without(t, skipped) = g[Len(t)]
               /\ \A i \in 0..Len(t) : g[i] = Round(t, skipped, g, i)
    BY <1>1, WithoutEquation
  <2>2. QED BY <1>1, <2>1
<1> DEFINE Bad == {n \in 0..N : f[n] # g[n]}
<1>4. ASSUME Bad # {} PROVE FALSE
  <2>1. PICK m \in Bad : \A n \in Bad : m <= n
    <3>1. Bad \subseteq Nat
      BY <1>1
    <3> HIDE DEF Bad
    <3>2. QED BY <1>4, <3>1, LeastNat
  <2>2. m \in 0..N /\ m \in 0..(N + 1) /\ f[m] # g[m]
    BY <1>1
  <2>3. f[m] = Round(s, skipped, f, m) /\ g[m] = Round(t, skipped, g, m)
    BY <1>2, <1>3, <2>2
  <2>4. m # 0
    BY <2>2, <2>3 DEF Round
  <2>5. m - 1 \in 0..N /\ ~(m <= m - 1) /\ m \in 1..N
    BY <1>1, <2>2, <2>4
  <2>6. f[m - 1] = g[m - 1] /\ s[m] = t[m]
    BY <1>1, <2>1, <2>5
  <2>7. QED BY <2>2, <2>3, <2>4, <2>6 DEF Round
<1>5. f[N] = g[N]
  <2>1. N \in 0..N
    BY <1>1
  <2>2. QED BY <1>4, <2>1
<1>6. g[N + 1] = IF c \in skipped THEN g[N] ELSE Append(g[N], c)
  <2>1. N + 1 \in 0..(N + 1) /\ N + 1 # 0 /\ (N + 1) - 1 = N
    BY <1>1
  <2>2. g[N + 1] = Round(t, skipped, g, N + 1)
    BY <1>3, <2>1
  <2>3. QED BY <1>1, <2>1, <2>2 DEF Round
<1>7. QED BY <1>2, <1>3, <1>5, <1>6 DEF t

(* A stretch of s that ends inside s is not changed by another byte, and   *)
(* one that reaches the end of s gets it.                                  *)
LEMMA BetweenAppend ==
  ASSUME NEW S, NEW s \in Seq(S), NEW c \in S, NEW i \in 0..Len(s)
  PROVE  /\ \A j \in 1..(Len(s) + 1) : Between(Append(s, c), i, j) = Between(s, i, j)
         /\ Between(Append(s, c), i, Len(s) + 1) = Between(s, i, Len(s) + 1)
         /\ Between(Append(s, c), i, Len(s) + 2) = Append(Between(s, i, Len(s) + 1), c)
         /\ Between(s, i, Len(s) + 1) \in Seq(S)
<1> DEFINE N == Len(s)
           t == Append(s, c)
<1>1. /\ N \in Nat /\ t \in Seq(S) /\ Len(t) = N + 1
      /\ \A k \in 1..N : t[k] = s[k]
      /\ t[N + 1] = c
      /\ \A k \in 1..N : s[k] \in S
  BY LenProperties, AppendProperties, ElementOfSeq
<1> HIDE DEF t
<1>2. ASSUME NEW j \in 1..(N + 1)
      PROVE  Between(t, i, j) = Between(s, i, j)
  <2> DEFINE u == SubSeq(s, i + 1, j - 1)
             v == SubSeq(t, i + 1, j - 1)
             n == IF i + 1 <= j - 1 THEN j - 1 - i ELSE 0
  <2>1. \A k \in 1..n : i + k \in 1..N
    BY <1>1
  <2>2. u \in Seq(S) /\ Len(u) = n /\ \A k \in 1..n : u[k] = s[i + k]
    BY <1>1, <2>1
  <2>3. v \in Seq(S) /\ Len(v) = n /\ \A k \in 1..n : v[k] = s[i + k]
    BY <1>1, <2>1
  <2> HIDE DEF u, v
  <2>4. u = v
    BY <2>2, <2>3, SeqEqual
  <2>5. QED BY <2>4 DEF u, v, Between
<1>3. /\ Between(t, i, N + 2) = Append(Between(s, i, N + 1), c)
      /\ Between(s, i, N + 1) \in Seq(S)
  <2> DEFINE u == SubSeq(s, i + 1, N)
             v == SubSeq(t, i + 1, N + 1)
             w == Append(u, c)
             n == N - i
  <2>1. u \in Seq(S) /\ Len(u) = n /\ \A k \in 1..n : u[k] = s[i + k]
    <3>1. \A k \in 1..n : i + k \in 1..N
      BY <1>1
    <3>2. QED BY <1>1, <3>1
  <2> HIDE DEF u
  <2>2. w \in Seq(S) /\ Len(w) = n + 1 /\ w[n + 1] = c /\ \A k \in 1..n : w[k] = s[i + k]
    BY <2>1, AppendProperties
  <2>3. \A k \in 1..(n + 1) : i + k \in 1..(N + 1)
    BY <1>1
  <2>4. \A k \in 1..(N + 1) : t[k] \in S
    BY <1>1, ElementOfSeq
  <2>5. v \in Seq(S) /\ Len(v) = n + 1 /\ \A k \in 1..(n + 1) : v[k] = t[i + k]
    BY <1>1, <2>3, <2>4
  <2>6. \A k \in 1..(n + 1) : w[k] = t[i + k]
    <3>1. \A k \in 1..(n + 1) : (k \in 1..n /\ i + k \in 1..N) \/ (k = n + 1 /\ i + k = N + 1)
      BY <1>1
    <3> HIDE DEF w
    <3>2. QED BY <1>1, <2>2, <3>1
  <2> HIDE DEF v, w
  <2>7. v = w
    BY <2>2, <2>5, <2>6, SeqEqual
  <2>8. (N + 1) - 1 = N /\ (N + 2) - 1 = N + 1
    BY <1>1
  <2>9. Between(s, i, N + 1) = u /\ Between(t, i, N + 2) = v
    BY <2>8, Zenon DEF u, v, Between
  <2>10. QED BY <2>1, <2>7, <2>9, Zenon DEF w
<1>4. \A j \in 1..(N + 1) : Between(t, i, j) = Between(s, i, j)
  BY <1>2, Zenon
<1>5. N + 1 \in 1..(N + 1)
  BY <1>1
<1>6. QED BY <1>3, <1>4, <1>5, Zenon DEF t

-----------------------------------------------------------------------------

(* What a header line may hold: its letters are in lower case.             *)
Bytes == Chars \cup {"x"}
Requests == [method : Seq(Bytes), url : Seq(Bytes), version : Seq(Bytes),
             headers : Seq([key : Seq(Bytes), val : Seq(Bytes)])]

(* No c lies between positions i and j of s.                               *)
NoneIn(s, i, j, c) == \A k \in (i + 1)..(j - 1) : s[k] # c

(* The first two spaces of s are at a and b, and what lies before them is  *)
(* the method and the url of r.                                            *)
Words(s, r, a, b) ==
  /\ a \in 1..Len(s) /\ b \in (a + 1)..Len(s)
  /\ s[a] = " " /\ s[b] = " "
  /\ NoneIn(s, 0, a, " ") /\ NoneIn(s, a, b, " ")
  /\ r.method = Between(s, 0, a) /\ r.url = Between(s, a, b)

(* The m lines of s behind b end at e[1], e[2], ... e[m].                  *)
EndsAt(s, b, e, m) ==
  /\ \A k \in 1..(m - 1) : e[k] < e[k + 1]
  /\ {i \in (b + 1)..Len(s) : s[i] = "LF"} = {e[k] : k \in 1..m}

(* The version and the n headers of r are the first n + 1 of these lines.  *)
HeadersAt(s, r, b, e, n) ==
  /\ r.version = Without(Between(s, b, e[1]), {"CR"})
  /\ \A k \in 1..n : IsHeader(r.headers[k], Line(Between(s, e[k], e[k + 1])))

MethodInv ==
  /\ request_.headers = <<>>
  /\ NoneIn(parsed, 0, Len(parsed) + 1, " ")
  /\ msg_buffer_ = parsed

UrlInv ==
  /\ request_.headers = <<>>
  /\ \E a \in 1..Len(parsed) :
       /\ parsed[a] = " " /\ NoneIn(parsed, 0, a, " ")
       /\ NoneIn(parsed, a, Len(parsed) + 1, " ")
       /\ request_.method = Between(parsed, 0, a)
       /\ msg_buffer_ = Between(parsed, a, Len(parsed) + 1)

VersionInv ==
  /\ request_.headers = <<>>
  /\ \E a, b \in 1..Len(parsed) :
       /\ Words(parsed, request_, a, b)
       /\ NoneIn(parsed, b, Len(parsed) + 1, "LF")
       /\ msg_buffer_ = Without(Between(parsed, b, Len(parsed) + 1), {"CR"})

HeadersInv ==
  LET n == Len(request_.headers) IN
  \E a, b \in 1..Len(parsed) :
    /\ Words(parsed, request_, a, b)
    /\ \E e \in [1..(n + 1) -> (b + 1)..Len(parsed)] :
         /\ EndsAt(parsed, b, e, n + 1)
         /\ HeadersAt(parsed, request_, b, e, n)
         /\ msg_buffer_ = Line(Between(parsed, e[n + 1], Len(parsed) + 1))

DoneInv ==
  LET n == Len(request_.headers) IN
  \E a, b \in 1..Len(parsed) :
    /\ Words(parsed, request_, a, b)
    /\ \E e \in [1..(n + 2) -> (b + 1)..Len(parsed)] :
         /\ EndsAt(parsed, b, e, n + 2)
         /\ HeadersAt(parsed, request_, b, e, n)
         /\ Line(Between(parsed, e[n + 1], e[n + 2])) = <<>> /\ e[n + 2] = Len(parsed)

(* The inductive strengthening of ParsedRequest: at every byte, the state  *)
(* says how much of the request is known and what msg_buffer_ holds.       *)
RequestInv ==
  /\ msg_buffer_ \in Seq(Bytes) /\ request_ \in Requests
  /\ state_ = "METHOD"  => MethodInv
  /\ state_ = "URL"     => UrlInv
  /\ state_ = "VERSION" => VersionInv
  /\ state_ = "HEADERS" => HeadersInv
  /\ state_ = "DONE"    => DoneInv

-----------------------------------------------------------------------------

(* What Without keeps is in lower case in a header line.                   *)
LEMMA LineLemma ==
  ASSUME NEW s \in Seq(Chars), NEW c \in Chars
  PROVE  /\ Line(s) \in Seq(Bytes)
         /\ s = <<>> => Line(s) = <<>>
         /\ Line(Append(s, c))
              = IF c \in {"CR", " "} THEN Line(s) ELSE Append(Line(s), Lower(c))
<1> DEFINE w == Without(s, {"CR", " "})
           x == Without(Append(s, c), {"CR", " "})
<1>1. \A d \in Chars : Lower(d) \in Bytes
  BY DEF Lower, Chars, Bytes
<1>2. w \in Seq(Chars) /\ (s = <<>> => w = <<>>)
  <2> HIDE DEF Chars
  <2>1. QED BY WithoutLemma
<1>3. x = IF c \in {"CR", " "} THEN w ELSE Append(w, c)
  <2> HIDE DEF Chars
  <2>1. \A skipped : Without(Append(s, c), skipped)
          = IF c \in skipped THEN Without(s, skipped) ELSE Append(Without(s, skipped), c)
    BY WithoutAppend
  <2>2. QED BY <2>1
<1> HIDE DEF w, x, Chars, Bytes, Lower
<1>4. /\ Len(w) \in Nat /\ \A k \in 1..Len(w) : w[k] \in Chars
  BY <1>2, LenProperties, ElementOfSeq
<1>5. Line(s) = [k \in 1..Len(w) |-> Lower(w[k])]
  BY DEF Line, w
<1>6. Line(Append(s, c)) = [k \in 1..Len(x) |-> Lower(x[k])]
  BY DEF Line, x
<1>7. /\ Line(s) \in Seq(Bytes) /\ Len(Line(s)) = Len(w)
      /\ \A k \in 1..Len(w) : Line(s)[k] = Lower(w[k])
  BY <1>1, <1>4, <1>5
<1>8. s = <<>> => Line(s) = <<>>
  BY <1>2, <1>7, EmptySeq
<1>9. ASSUME c \notin {"CR", " "} PROVE Line(Append(s, c)) = Append(Line(s), Lower(c))
  <2>1. x = Append(w, c)
    BY <1>3, <1>9
  <2>2. /\ Len(x) = Len(w) + 1 /\ x[Len(w) + 1] = c
        /\ \A k \in 1..Len(w) : x[k] = w[k]
    BY <1>2, <2>1, AppendProperties
  <2> DEFINE n == Len(w)
             u == [k \in 1..(n + 1) |-> Lower(x[k])]
             v == Append(Line(s), Lower(c))
  <2>3. Lower(c) \in Bytes
    BY <1>1
  <2>4. /\ v \in Seq(Bytes) /\ Len(v) = n + 1 /\ v[n + 1] = Lower(c)
        /\ \A k \in 1..n : v[k] = Line(s)[k]
    BY <1>7, <2>3, AppendProperties
  <2>5. \A k \in 1..(n + 1) : (k = n + 1 /\ x[k] = c) \/ (k \in 1..n /\ x[k] = w[k])
    BY <1>4, <2>2
  <2>6. \A k \in 1..(n + 1) : Lower(x[k]) \in Bytes
    BY <1>1, <1>4, <2>5
  <2>7. u \in Seq(Bytes) /\ Len(u) = n + 1 /\ \A k \in 1..(n + 1) : u[k] = Lower(x[k])
    BY <1>4, <2>6
  <2> HIDE DEF u, v
  <2>8. \A k \in 1..(n + 1) : u[k] = v[k]
    BY <1>7, <2>4, <2>5, <2>7
  <2>9. u = v
    BY <2>4, <2>7, <2>8, SeqEqual
  <2>10. QED BY <1>6, <2>2, <2>9 DEF u, v
<1>10. c \in {"CR", " "} => Line(Append(s, c)) = Line(s)
  BY <1>3, <1>5, <1>6
<1>11. QED BY <1>7, <1>8, <1>9, <1>10

(* The least of some numbers is one of them, and the only one that none is *)
(* below.                                                                  *)
LEMMA MinLemma ==
  ASSUME NEW T, T \subseteq Nat, T # {}
  PROVE  /\ Min(T) \in T /\ \A y \in T : Min(T) <= y
         /\ \A x \in T : (\A y \in T : x <= y) => Min(T) = x
<1>1. \E x \in T : \A y \in T : x <= y
  BY LeastNat
<1>2. Min(T) \in T /\ \A y \in T : Min(T) <= y
  BY <1>1, Zenon DEF Min
<1>3. ASSUME NEW x \in T, \A y \in T : x <= y PROVE Min(T) = x
  <2> HIDE DEF Min
  <2>1. x <= Min(T) /\ Min(T) <= x /\ x \in Nat /\ Min(T) \in Nat
    BY <1>2, <1>3
  <2>2. QED BY <2>1
<1>4. QED BY <1>2, <1>3, Zenon

(* A line cut at its first colon is a header with that line.               *)
LEMMA SplitLemma ==
  ASSUME NEW S, NEW m \in Seq(S), NEW p \in 1..Len(m), m[p] = ":",
         \A k \in 1..(p - 1) : m[k] # ":"
  PROVE  LET h == [key |-> SubSeq(m, 1, p - 1), val |-> SubSeq(m, p + 1, Len(m))]
         IN  h.key \in Seq(S) /\ h.val \in Seq(S) /\ IsHeader(h, m)
<1> DEFINE N == Len(m)
           key == SubSeq(m, 1, p - 1)
           val == SubSeq(m, p + 1, N)
           h == [key |-> key, val |-> val]
           t == key \o <<":">>
           u == t \o val
<1>1. N \in Nat /\ \A k \in 1..N : m[k] \in S
  BY LenProperties, ElementOfSeq
<1>2. key \in Seq(S) /\ Len(key) = p - 1 /\ \A k \in 1..(p - 1) : key[k] = m[k]
  <2>1. \A k \in 1..(p - 1) : k \in 1..N
    BY <1>1
  <2>2. QED BY <1>1, <2>1
<1>3. val \in Seq(S) /\ Len(val) = N - p /\ \A k \in 1..(N - p) : val[k] = m[p + k]
  <2>1. \A k \in 1..(N - p) : p + k \in 1..N /\ p + 1 + k - 1 = p + k
    BY <1>1
  <2>2. QED BY <1>1, <2>1
<1> HIDE DEF key, val
<1>4. <<":">> \in Seq(S) /\ Len(<<":">>) = 1 /\ <<":">>[1] = ":"
  BY <1>1
<1>5. /\ t \in Seq(S) /\ Len(t) = p /\ t[p] = ":"
      /\ \A k \in 1..(p - 1) : t[k] = m[k]
  <2>1. /\ t \in Seq(S) /\ Len(t) = (p - 1) + 1
        /\ \A k \in 1..((p - 1) + 1) : t[k] = IF k <= p - 1 THEN key[k] ELSE <<":">>[k - (p - 1)]
    BY <1>2, <1>4, ConcatProperties
  <2>2. (p - 1) + 1 = p /\ p \in 1..p /\ ~(p <= p - 1) /\ p - (p - 1) = 1
    BY <1>1
  <2>3. t[p] = ":"
    BY <1>4, <2>1, <2>2
  <2>4. \A k \in 1..(p - 1) : k \in 1..((p - 1) + 1) /\ k <= p - 1
    BY <1>1
  <2> HIDE DEF t
  <2>5. \A k \in 1..(p - 1) : t[k] = m[k]
    BY <1>2, <2>1, <2>4
  <2>6. QED BY <2>1, <2>2, <2>3, <2>5
<1> HIDE DEF t
<1>6. u \in Seq(S) /\ Len(u) = N /\ \A k \in 1..N : u[k] = m[k]
  <2>1. /\ u \in Seq(S) /\ Len(u) = p + (N - p)
        /\ \A k \in 1..(p + (N - p)) : u[k] = IF k <= p THEN t[k] ELSE val[k - p]
    <3>1. /\ u \in Seq(S) /\ Len(u) = Len(t) + Len(val)
          /\ \A k \in 1..(Len(t) + Len(val)) :
               u[k] = IF k <= Len(t) THEN t[k] ELSE val[k - Len(t)]
      <4>1. t \in Seq(S) /\ val \in Seq(S)
        BY <1>3, <1>5
      <4>2. QED BY <4>1, ConcatProperties, Zenon
    <3>2. Len(t) = p /\ Len(val) = N - p
      BY <1>3, <1>5
    <3> HIDE DEF u
    <3>3. QED BY <3>1, <3>2, Zenon
  <2>2. p + (N - p) = N
    BY <1>1
  <2> HIDE DEF u
  <2>3. \A k \in 1..N : \/ k \in 1..(p - 1) /\ k <= p
                        \/ k = p /\ k <= p
                        \/ ~(k <= p) /\ k - p \in 1..(N - p) /\ p + (k - p) = k
    BY <1>1
  <2>4. \A k \in 1..N : u[k] = m[k]
    BY <1>3, <1>5, <2>1, <2>2, <2>3
  <2>5. QED BY <2>1, <2>2, <2>4
<1>7. u = m
  <2> HIDE DEF u
  <2>1. QED BY <1>6, SeqEqual
<1>8. \A k \in 1..Len(h.key) : h.key[k] # ":"
  BY <1>2
<1>9. IsHeader(h, m)
  BY <1>7, <1>8 DEF IsHeader, t
<1>10. QED BY <1>2, <1>3, <1>9 DEF key, val

(* A byte that is not looked for, or comes later, changes nothing.         *)
LEMMA NoneAppend ==
  ASSUME NEW S, NEW s \in Seq(S), NEW c \in S, NEW d, NEW i \in Nat
  PROVE  /\ \A j \in 1..(Len(s) + 1) : NoneIn(s, i, j, d) => NoneIn(Append(s, c), i, j, d)
         /\ c # d /\ NoneIn(s, i, Len(s) + 1, d) => NoneIn(Append(s, c), i, Len(s) + 2, d)
<1> DEFINE N == Len(s)
           t == Append(s, c)
<1>1. /\ N \in Nat /\ t[N + 1] = c
      /\ \A k \in 1..N : t[k] = s[k]
  BY LenProperties, AppendProperties
<1> HIDE DEF t
<1>2. ASSUME NEW j \in 1..(N + 1), NoneIn(s, i, j, d) PROVE NoneIn(t, i, j, d)
  <2>1. \A k \in (i + 1)..(j - 1) : k \in 1..N
    BY <1>1
  <2>2. QED BY <1>1, <1>2, <2>1 DEF NoneIn
<1>3. ASSUME c # d, NoneIn(s, i, N + 1, d) PROVE NoneIn(t, i, N + 2, d)
  <2>1. \A k \in (i + 1)..(N + 2 - 1) : (k \in 1..N /\ k \in (i + 1)..(N + 1 - 1)) \/ k = N + 1
    BY <1>1
  <2>2. QED BY <1>1, <1>3, <2>1 DEF NoneIn
<1>4. QED BY <1>2, <1>3 DEF t

(* The words stay what they are.                                           *)
LEMMA WordsAppend ==
  ASSUME NEW S, NEW s \in Seq(S), NEW c \in S, NEW r, NEW q, NEW a, NEW b,
         Words(s, r, a, b), q.method = r.method, q.url = r.url
  PROVE  Words(Append(s, c), q, a, b)
<1> DEFINE N == Len(s)
           t == Append(s, c)
<1>1. N \in Nat /\ Len(t) = N + 1 /\ \A k \in 1..N : t[k] = s[k]
  BY LenProperties, AppendProperties
<1>2. a \in 1..N /\ b \in (a + 1)..N
  BY DEF Words
<1>3. /\ a \in 1..(N + 1) /\ b \in 1..(N + 1) /\ b \in 1..N /\ b \in (a + 1)..(N + 1)
      /\ 0 \in 0..N /\ a \in 0..N /\ a \in Nat
  BY <1>1, <1>2
<1>4. Between(t, 0, a) = Between(s, 0, a) /\ Between(t, a, b) = Between(s, a, b)
  BY <1>3, BetweenAppend
<1>5. NoneIn(t, 0, a, " ") /\ NoneIn(t, a, b, " ")
  <2>1. NoneIn(s, 0, a, " ") /\ NoneIn(s, a, b, " ")
    BY DEF Words
  <2>2. QED BY <1>3, <2>1, NoneAppend
<1> HIDE DEF t
<1>6. t[a] = " " /\ t[b] = " "
  BY <1>1, <1>2, <1>3 DEF Words
<1>7. q.method = Between(t, 0, a) /\ q.url = Between(t, a, b)
  BY <1>4 DEF Words
<1>8. Words(t, q, a, b)
  BY <1>1, <1>3, <1>5, <1>6, <1>7 DEF Words
<1>9. QED BY <1>8 DEF t

(* Another line ends where another line feed comes, and nowhere else.      *)
LEMMA EndsAppend ==
  ASSUME NEW S, NEW s \in Seq(S), NEW c \in S, NEW b \in Nat, b <= Len(s), NEW m \in Nat,
         NEW e \in [1..m -> (b + 1)..Len(s)], EndsAt(s, b, e, m)
  PROVE  /\ c # "LF" => EndsAt(Append(s, c), b, e, m)
         /\ c = "LF" =>
              LET f == [k \in 1..(m + 1) |-> IF k = m + 1 THEN Len(s) + 1 ELSE e[k]]
              IN  f \in [1..(m + 1) -> (b + 1)..(Len(s) + 1)] /\ EndsAt(Append(s, c), b, f, m + 1)
<1> DEFINE N == Len(s)
           t == Append(s, c)
           Ends == {i \in (b + 1)..N : s[i] = "LF"}
           EndsT == {i \in (b + 1)..Len(t) : t[i] = "LF"}
<1>1. N \in Nat /\ Len(t) = N + 1 /\ t[N + 1] = c /\ \A k \in 1..N : t[k] = s[k]
  BY LenProperties, AppendProperties
<1> HIDE DEF t
<1>2. \A i : i \in (b + 1)..(N + 1) <=> (i \in (b + 1)..N \/ i = N + 1)
  BY <1>1
<1>3. \A i \in (b + 1)..N : i \in 1..N
  BY <1>1
<1>4. \A i : i \in EndsT <=> i \in Ends \/ (i = N + 1 /\ c = "LF")
  <2>1. \A i \in (b + 1)..N : t[i] = s[i]
    BY <1>1, <1>3
  <2>2. N + 1 \notin (b + 1)..N
    BY <1>1
  <2>3. QED BY <1>1, <1>2, <2>1, <2>2
<1>5. (\A k \in 1..(m - 1) : e[k] < e[k + 1]) /\ Ends = {e[k] : k \in 1..m}
  BY DEF EndsAt
<1>6. ASSUME c # "LF" PROVE EndsAt(t, b, e, m)
  <2>1. EndsT = Ends
    <3> HIDE DEF Ends, EndsT
    <3>1. QED BY <1>4, <1>6
  <2>2. QED BY <1>5, <2>1 DEF EndsAt
<1>7. ASSUME c = "LF"
      PROVE  LET f == [k \in 1..(m + 1) |-> IF k = m + 1 THEN N + 1 ELSE e[k]]
             IN  f \in [1..(m + 1) -> (b + 1)..(N + 1)] /\ EndsAt(t, b, f, m + 1)
  <2> DEFINE f == [k \in 1..(m + 1) |-> IF k = m + 1 THEN N + 1 ELSE e[k]]
  <2>1. \A k : k \in 1..(m + 1) <=> (k \in 1..m \/ k = m + 1)
    OBVIOUS
  <2>2. m + 1 \notin 1..m
    OBVIOUS
  <2>3. (\A k \in 1..m : f[k] = e[k] /\ e[k] \in (b + 1)..N) /\ f[m + 1] = N + 1
    BY <2>1, <2>2
  <2>4. f \in [1..(m + 1) -> (b + 1)..(N + 1)]
    <3>1. \A k \in 1..(m + 1) : (IF k = m + 1 THEN N + 1 ELSE e[k]) \in (b + 1)..(N + 1)
      BY <1>1, <1>2, <2>1, <2>3
    <3>2. QED BY <3>1
  <2> HIDE DEF f
  <2>5. ASSUME NEW k \in 1..((m + 1) - 1) PROVE f[k] < f[k + 1]
    <3>1. k \in 1..m /\ (k = m \/ (k \in 1..(m - 1) /\ k + 1 \in 1..m))
      OBVIOUS
    <3>2. CASE k = m
      <4>1. f[k] = e[k] /\ e[k] \in (b + 1)..N /\ f[k + 1] = N + 1
        BY <2>3, <3>1, <3>2
      <4>2. QED BY <1>1, <4>1
    <3>3. CASE k \in 1..(m - 1) /\ k + 1 \in 1..m
      BY <1>5, <2>3, <3>1, <3>3
    <3>4. QED BY <3>1, <3>2, <3>3
  <2>6. EndsT = {f[k] : k \in 1..(m + 1)}
    <3>1. \A i : i \in Ends <=> \E k \in 1..m : i = e[k]
      BY <1>5
    <3>2. \A i : i \in EndsT <=> (\E k \in 1..m : i = f[k]) \/ i = f[m + 1]
      <4> HIDE DEF Ends, EndsT
      <4>1. QED BY <1>4, <1>7, <2>3, <3>1
    <3> HIDE DEF EndsT
    <3>3. \A i : i \in EndsT <=> \E k \in 1..(m + 1) : i = f[k]
      BY <2>1, <3>2
    <3>4. QED BY <3>3
  <2>7. EndsAt(t, b, f, m + 1)
    BY <2>5, <2>6 DEF EndsAt
  <2>8. QED BY <2>4, <2>7 DEF f
<1>8. QED BY <1>6, <1>7 DEF t

(* The lines that are complete stay what they are.                         *)
LEMMA HeadersAppend ==
  ASSUME NEW S, NEW s \in Seq(S), NEW c \in S, NEW r, NEW q, NEW b \in Nat, b <= Len(s),
         NEW n \in Nat, NEW e \in [1..(n + 1) -> (b + 1)..Len(s)], NEW f,
         HeadersAt(s, r, b, e, n), q.version = r.version,
         \A k \in 1..n : q.headers[k] = r.headers[k],
         \A k \in 1..(n + 1) : f[k] = e[k]
  PROVE  HeadersAt(Append(s, c), q, b, f, n)
<1> DEFINE N == Len(s)
           t == Append(s, c)
<1>1. N \in Nat
  BY LenProperties
<1>2. ASSUME NEW i \in 0..N, NEW j \in 1..N PROVE Between(t, i, j) = Between(s, i, j)
  <2>1. j \in 1..(N + 1)
    BY <1>1
  <2>2. \A k \in 1..(N + 1) : Between(t, i, k) = Between(s, i, k)
    BY BetweenAppend
  <2>3. QED BY <2>1, <2>2
<1> HIDE DEF t
<1>3. \A k \in 1..(n + 1) : e[k] \in 1..N /\ e[k] \in 0..N
  <2>1. \A x \in (b + 1)..N : x \in 1..N /\ x \in 0..N
    BY <1>1
  <2>2. QED BY <2>1
<1>4. q.version = Without(Between(t, b, f[1]), {"CR"})
  <2>1. b \in 0..N /\ 1 \in 1..(n + 1)
    BY <1>1
  <2>2. Between(t, b, f[1]) = Between(s, b, e[1])
    BY <1>2, <1>3, <2>1
  <2>3. QED BY <2>2 DEF HeadersAt
<1>5. ASSUME NEW k \in 1..n
      PROVE  IsHeader(q.headers[k], Line(Between(t, f[k], f[k + 1])))
  <2>1. k \in 1..(n + 1) /\ k + 1 \in 1..(n + 1)
    OBVIOUS
  <2>2. Between(t, f[k], f[k + 1]) = Between(s, e[k], e[k + 1])
    BY <1>2, <1>3, <2>1
  <2>3. QED BY <2>2 DEF HeadersAt
<1>6. QED BY <1>4, <1>5 DEF HeadersAt, t

(* All of s, and none of it.                                               *)
LEMMA BetweenEnds ==
  ASSUME NEW S, NEW s \in Seq(S)
  PROVE  Between(s, 0, Len(s) + 1) = s /\ Between(s, Len(s), Len(s) + 1) = <<>>
<1>1. Len(s) \in Nat
  BY LenProperties
<1>2. 0 + 1 = 1 /\ Len(s) + 1 - 1 = Len(s) /\ Len(s) + 1 > Len(s)
  BY <1>1
<1>3. SubSeq(s, 1, Len(s)) = s /\ SubSeq(s, Len(s) + 1, Len(s)) = <<>>
  <2>1. SubSeq(s, 1, Len(s)) = s
    BY SubSeqFull
  <2>2. QED BY <1>1, <2>1
<1>4. QED BY <1>2, <1>3 DEF Between

(* A byte of the method, or the space behind it, keeps the invariant.      *)
LEMMA MethodStep ==
  ASSUME parsed \in Seq(Chars), RequestInv, state_ = "METHOD",
         NEW c \in Chars, parsed' = Append(parsed, c), WordByte(c, "method", "URL")
  PROVE  RequestInv'
<1> DEFINE N == Len(parsed)
<1>1. /\ c \in Bytes /\ msg_buffer_ \in Seq(Bytes) /\ request_ \in Requests /\ MethodInv
  BY DEF RequestInv, Bytes
<1> HIDE DEF Chars, Bytes
<1>2. N \in Nat /\ parsed' \in Seq(Chars) /\ Len(parsed') = N + 1 /\ parsed'[N + 1] = c
  BY LenProperties, AppendProperties
<1>3. CASE c = " "
  <2>1. /\ request_' = [request_ EXCEPT !["method"] = msg_buffer_]
        /\ msg_buffer_' = <<>> /\ state_' = "URL"
    BY <1>3 DEF WordByte, Field
  <2>2. /\ request_' \in Requests /\ request_'.headers = <<>>
        /\ request_'.method = msg_buffer_
    BY <1>1, <2>1 DEF Requests, MethodInv
  <2>3. msg_buffer_' \in Seq(Bytes)
    BY <2>1, EmptySeq
  <2>4. UrlInv'
    <3>1. NoneIn(parsed', 0, N + 1, " ")
      <4>1. N + 1 \in 1..(N + 1)
        BY <1>2
      <4>2. QED BY <1>1, <4>1, NoneAppend DEF MethodInv
    <3>2. NoneIn(parsed', N + 1, N + 2, " ")
      <4>1. \A d : NoneIn(parsed', N + 1, N + 2, d)
        BY <1>2 DEF NoneIn
      <4>2. QED BY <4>1
    <3>3. Between(parsed', 0, N + 1) = parsed
      <4>1. N + 1 \in 1..(N + 1) /\ 0 \in 0..N
        BY <1>2
      <4>2. Between(parsed', 0, N + 1) = Between(parsed, 0, N + 1)
        BY <4>1, BetweenAppend
      <4>3. QED BY <4>2, BetweenEnds
    <3>4. Between(parsed', N + 1, N + 2) = <<>>
      <4>1. Between(parsed', Len(parsed'), Len(parsed') + 1) = <<>>
        BY <1>2, BetweenEnds
      <4>2. (N + 1) + 1 = N + 2
        BY <1>2
      <4>3. QED BY <1>2, <4>1, <4>2
    <3>5. N + 1 \in 1..(N + 1) /\ (N + 1) + 1 = N + 2
      BY <1>2
    <3>6. QED BY <1>1, <1>2, <1>3, <2>1, <2>2, <3>1, <3>2, <3>3, <3>4, <3>5 DEF UrlInv, MethodInv
  <2>5. QED BY <2>1, <2>2, <2>3, <2>4 DEF RequestInv
<1>4. CASE c # " "
  <2>1. /\ request_' = request_ /\ msg_buffer_' = Append(msg_buffer_, c)
        /\ state_' = "METHOD"
    BY <1>4 DEF WordByte, Push
  <2>2. msg_buffer_' \in Seq(Bytes)
    BY <1>1, <2>1, AppendProperties
  <2>3. MethodInv'
    <3>1. NoneIn(parsed', 0, N + 2, " ")
      BY <1>1, <1>4, NoneAppend DEF MethodInv
    <3>2. N + 2 = (N + 1) + 1
      BY <1>2
    <3>3. QED BY <1>1, <1>2, <2>1, <3>1, <3>2 DEF MethodInv
  <2>4. QED BY <1>1, <2>1, <2>2, <2>3 DEF RequestInv
<1>5. QED BY <1>3, <1>4

(* So does a byte of the url, or the space behind it.                      *)
LEMMA UrlStep ==
  ASSUME parsed \in Seq(Chars), RequestInv, state_ = "URL",
         NEW c \in Chars, parsed' = Append(parsed, c), WordByte(c, "url", "VERSION")
  PROVE  RequestInv'
<1> DEFINE N == Len(parsed)
<1>1. /\ c \in Bytes /\ msg_buffer_ \in Seq(Bytes) /\ request_ \in Requests /\ UrlInv
  BY DEF RequestInv, Bytes
<1> HIDE DEF Chars, Bytes
<1>2. /\ N \in Nat /\ parsed' \in Seq(Chars) /\ Len(parsed') = N + 1 /\ parsed'[N + 1] = c
      /\ \A k \in 1..N : parsed'[k] = parsed[k]
  BY LenProperties, AppendProperties
<1>3. PICK a \in 1..N :
        /\ parsed[a] = " " /\ NoneIn(parsed, 0, a, " ")
        /\ NoneIn(parsed, a, N + 1, " ")
        /\ request_.method = Between(parsed, 0, a)
        /\ msg_buffer_ = Between(parsed, a, N + 1)
  BY <1>1 DEF UrlInv
<1>4. /\ a \in 1..(N + 1) /\ a \in 0..N /\ a \in Nat /\ 0 \in 0..N
      /\ N + 1 \in 1..(N + 1) /\ N + 2 = (N + 1) + 1
  BY <1>2
<1>5. /\ Between(parsed', 0, a) = Between(parsed, 0, a)
      /\ Between(parsed', a, N + 1) = Between(parsed, a, N + 1)
      /\ Between(parsed', a, N + 2) = Append(Between(parsed, a, N + 1), c)
  BY <1>4, BetweenAppend
<1>6. /\ NoneIn(parsed', 0, a, " ") /\ NoneIn(parsed', a, N + 1, " ")
      /\ c # " " => NoneIn(parsed', a, N + 2, " ")
  BY <1>3, <1>4, NoneAppend
<1>7. parsed'[a] = " "
  BY <1>2, <1>3
<1>8. CASE c = " "
  <2>1. /\ request_' = [request_ EXCEPT !["url"] = msg_buffer_]
        /\ msg_buffer_' = <<>> /\ state_' = "VERSION"
    BY <1>8 DEF WordByte, Field
  <2>2. /\ request_' \in Requests /\ request_'.headers = <<>>
        /\ request_'.method = request_.method /\ request_'.url = msg_buffer_
    BY <1>1, <2>1 DEF Requests, UrlInv
  <2>3. msg_buffer_' \in Seq(Bytes)
    BY <2>1, EmptySeq
  <2>4. Words(parsed', request_', a, N + 1)
    <3>1. N + 1 \in (a + 1)..(N + 1)
      BY <1>2
    <3>2. QED BY <1>2, <1>3, <1>4, <1>5, <1>6, <1>7, <1>8, <2>2, <3>1 DEF Words
  <2>5. NoneIn(parsed', N + 1, N + 2, "LF")
    BY <1>2 DEF NoneIn
  <2>6. Without(Between(parsed', N + 1, N + 2), {"CR"}) = <<>>
    <3>1. Between(parsed', N + 1, N + 2) = <<>>
      <4>1. Between(parsed', Len(parsed'), Len(parsed') + 1) = <<>>
        BY <1>2, BetweenEnds
      <4>2. QED BY <1>2, <1>4, <4>1
    <3>2. <<>> \in Seq(Chars)
      BY EmptySeq
    <3>3. QED BY <3>1, <3>2, WithoutLemma
  <2>7. VersionInv'
    BY <1>2, <1>4, <2>1, <2>2, <2>4, <2>5, <2>6 DEF VersionInv
  <2>8. QED BY <2>1, <2>2, <2>3, <2>7 DEF RequestInv
<1>9. CASE c # " "
  <2>1. /\ request_' = request_ /\ msg_buffer_' = Append(msg_buffer_, c)
        /\ state_' = "URL"
    BY <1>9 DEF WordByte, Push
  <2>2. msg_buffer_' \in Seq(Bytes)
    BY <1>1, <2>1, AppendProperties
  <2>3. UrlInv'
    BY <1>1, <1>2, <1>3, <1>4, <1>5, <1>6, <1>7, <1>9, <2>1 DEF UrlInv
  <2>4. QED BY <1>1, <2>1, <2>2, <2>3 DEF RequestInv
<1>10. QED BY <1>8, <1>9

(* So does a byte of the version; its line feed ends the first line.       *)
LEMMA VersionStep ==
  ASSUME parsed \in Seq(Chars), RequestInv, state_ = "VERSION",
         NEW c \in Chars, parsed' = Append(parsed, c), VersionByte(c)
  PROVE  RequestInv'
<1> DEFINE N == Len(parsed)
<1>1. /\ c \in Bytes /\ msg_buffer_ \in Seq(Bytes) /\ request_ \in Requests /\ VersionInv
  BY DEF RequestInv, Bytes
<1> HIDE DEF Chars, Bytes
<1>2. /\ N \in Nat /\ parsed' \in Seq(Chars) /\ Len(parsed') = N + 1 /\ parsed'[N + 1] = c
      /\ \A k \in 1..N : parsed'[k] = parsed[k]
  BY LenProperties, AppendProperties
<1>3. PICK a \in 1..N, b \in 1..N :
        /\ Words(parsed, request_, a, b)
        /\ NoneIn(parsed, b, N + 1, "LF")
        /\ msg_buffer_ = Without(Between(parsed, b, N + 1), {"CR"})
  BY <1>1 DEF VersionInv
<1>4. /\ a \in 1..(N + 1) /\ b \in 1..(N + 1) /\ b \in 0..N /\ b \in Nat
      /\ N + 1 \in 1..(N + 1) /\ N + 2 = (N + 1) + 1
  BY <1>2
<1>5. /\ Between(parsed', b, N + 1) = Between(parsed, b, N + 1)
      /\ Between(parsed', b, N + 2) = Append(Between(parsed, b, N + 1), c)
      /\ Between(parsed, b, N + 1) \in Seq(Chars)
  BY <1>4, BetweenAppend
<1>6. CASE c = "LF"
  <2>1. /\ request_' = [request_ EXCEPT !["version"] = msg_buffer_]
        /\ msg_buffer_' = <<>> /\ state_' = "HEADERS"
    BY <1>6 DEF VersionByte, Field
  <2>2. /\ request_' \in Requests /\ request_'.headers = <<>>
        /\ request_'.method = request_.method /\ request_'.url = request_.url
        /\ request_'.version = msg_buffer_
    BY <1>1, <2>1 DEF Requests, VersionInv
  <2>3. msg_buffer_' \in Seq(Bytes)
    BY <2>1, EmptySeq
  <2>4. Words(parsed', request_', a, b)
    BY <1>3, <2>2, WordsAppend
  <2> DEFINE e == [k \in 1..(0 + 1) |-> N + 1]
  <2>5. e \in [1..(0 + 1) -> (b + 1)..(N + 1)] /\ e[1] = N + 1 /\ e[0 + 1] = N + 1
    BY <1>2
  <2> HIDE DEF e
  <2>6. EndsAt(parsed', b, e, 0 + 1)
    <3>1. \A k \in (b + 1)..N : parsed'[k] # "LF"
      <4>1. \A k \in (b + 1)..N : k \in (b + 1)..(N + 1 - 1) /\ k \in 1..N
        BY <1>2
      <4>2. QED BY <1>2, <1>3, <4>1 DEF NoneIn
    <3>2. \A k : k \in (b + 1)..(N + 1) <=> (k \in (b + 1)..N \/ k = N + 1)
      BY <1>2
    <3>3. {i \in (b + 1)..(N + 1) : parsed'[i] = "LF"} = {N + 1}
      BY <1>2, <1>6, <3>1, <3>2
    <3>4. {e[k] : k \in 1..(0 + 1)} = {N + 1}
      BY <2>5
    <3>5. 1..((0 + 1) - 1) = {}
      OBVIOUS
    <3>6. QED BY <1>2, <3>3, <3>4, <3>5 DEF EndsAt
  <2>7. HeadersAt(parsed', request_', b, e, 0)
    BY <1>3, <1>5, <2>2, <2>5 DEF HeadersAt
  <2>8. Line(Between(parsed', N + 1, (N + 1) + 1)) = <<>>
    <3>1. Between(parsed', N + 1, (N + 1) + 1) = <<>>
      BY <1>2, BetweenEnds
    <3>2. <<>> \in Seq(Chars)
      BY EmptySeq
    <3>3. QED BY <3>1, <3>2, LineLemma
  <2>9. HeadersInv'
    <3>1. Len(request_'.headers) = 0
      BY <2>2, EmptySeq
    <3>2. \E f \in [1..(0 + 1) -> (b + 1)..(N + 1)] :
            /\ EndsAt(parsed', b, f, 0 + 1)
            /\ HeadersAt(parsed', request_', b, f, 0)
            /\ msg_buffer_' = Line(Between(parsed', f[0 + 1], (N + 1) + 1))
      BY <2>1, <2>5, <2>6, <2>7, <2>8
    <3>3. \E f \in [1..(Len(request_'.headers) + 1) -> (b + 1)..Len(parsed')] :
            /\ EndsAt(parsed', b, f, Len(request_'.headers) + 1)
            /\ HeadersAt(parsed', request_', b, f, Len(request_'.headers))
            /\ msg_buffer_' = Line(Between(parsed', f[Len(request_'.headers) + 1],
                                           Len(parsed') + 1))
      BY <1>2, <3>1, <3>2
    <3>4. a \in 1..Len(parsed') /\ b \in 1..Len(parsed')
      BY <1>2, <1>4
    <3>5. QED BY <2>4, <3>3, <3>4, Zenon DEF HeadersInv
  <2>10. QED BY <2>1, <2>2, <2>3, <2>9 DEF RequestInv
<1>7. CASE c \notin {"LF", " "}
  <2>1. /\ request_' = request_ /\ state_' = "VERSION"
        /\ msg_buffer_' = IF c = "CR" THEN msg_buffer_ ELSE Append(msg_buffer_, c)
    BY <1>7 DEF VersionByte, Push, Skip
  <2>2. msg_buffer_' \in Seq(Bytes)
    <3>1. Append(msg_buffer_, c) \in Seq(Bytes)
      BY <1>1, AppendProperties
    <3>2. QED BY <1>1, <2>1, <3>1
  <2>3. msg_buffer_' = Without(Between(parsed', b, N + 2), {"CR"})
    <3> DEFINE d == Between(parsed, b, N + 1)
    <3>1. d \in Seq(Chars)
      BY <1>5
    <3>2. msg_buffer_ = Without(d, {"CR"}) /\ Between(parsed', b, N + 2) = Append(d, c)
      BY <1>3, <1>5
    <3> HIDE DEF d
    <3>3. \A K : Without(Append(d, c), K)
                   = IF c \in K THEN Without(d, K) ELSE Append(Without(d, K), c)
      BY <3>1, WithoutAppend
    <3>4. QED BY <2>1, <3>2, <3>3
  <2>4. NoneIn(parsed', b, N + 2, "LF")
    BY <1>3, <1>4, <1>7, NoneAppend
  <2>5. Words(parsed', request_', a, b)
    BY <1>3, <2>1, WordsAppend
  <2>6. VersionInv'
    BY <1>1, <1>2, <1>4, <2>1, <2>3, <2>4, <2>5 DEF VersionInv
  <2>7. QED BY <1>1, <2>1, <2>2, <2>6 DEF RequestInv
<1>8. CASE c = " "
  <2>1. state_' = "ERR" /\ UNCHANGED <<msg_buffer_, request_>>
    BY <1>8 DEF VersionByte, Error
  <2>2. QED BY <1>1, <2>1 DEF RequestInv
<1>9. QED BY <1>6, <1>7, <1>8

(* So does a byte of a header line; its line feed adds a header, ends the  *)
(* request or fails.                                                       *)
LEMMA HeaderStep ==
  ASSUME parsed \in Seq(Chars), RequestInv, state_ = "HEADERS",
         NEW c \in Chars, parsed' = Append(parsed, c), HeaderByte(c)
  PROVE  RequestInv'
<1> DEFINE N == Len(parsed)
           n == Len(request_.headers)
<1>1. /\ msg_buffer_ \in Seq(Bytes) /\ request_ \in Requests /\ HeadersInv
  BY DEF RequestInv
<1>2. Lower(c) \in Bytes
  BY DEF Lower, Chars, Bytes
<1> HIDE DEF Chars, Bytes, Lower
<1>3. /\ N \in Nat /\ parsed' \in Seq(Chars) /\ Len(parsed') = N + 1 /\ parsed'[N + 1] = c
      /\ \A k \in 1..N : parsed'[k] = parsed[k]
  BY LenProperties, AppendProperties
<1>4. request_.headers \in Seq([key : Seq(Bytes), val : Seq(Bytes)]) /\ n \in Nat
  BY <1>1, LenProperties DEF Requests
<1>5. PICK a \in 1..N, b \in 1..N :
        /\ Words(parsed, request_, a, b)
        /\ \E e \in [1..(n + 1) -> (b + 1)..N] :
             /\ EndsAt(parsed, b, e, n + 1)
             /\ HeadersAt(parsed, request_, b, e, n)
             /\ msg_buffer_ = Line(Between(parsed, e[n + 1], N + 1))
  BY <1>1, Zenon DEF HeadersInv
<1>6. PICK e \in [1..(n + 1) -> (b + 1)..N] :
        /\ EndsAt(parsed, b, e, n + 1)
        /\ HeadersAt(parsed, request_, b, e, n)
        /\ msg_buffer_ = Line(Between(parsed, e[n + 1], N + 1))
  BY <1>5
<1> HIDE DEF n
<1> DEFINE last == e[n + 1]
           d == Between(parsed, last, N + 1)
<1>7. /\ a \in 1..Len(parsed') /\ b \in 1..Len(parsed') /\ b \in Nat /\ b <= N
      /\ N + 2 = (N + 1) + 1 /\ N + 1 \in 1..(N + 1) /\ n + 1 \in Nat /\ n + 1 \in 1..(n + 1)
  BY <1>3, <1>4
<1>8. last \in (b + 1)..N /\ last \in 0..N
  <2>1. last \in (b + 1)..N
    BY <1>7
  <2> HIDE DEF last
  <2>2. QED BY <1>3, <2>1
<1>9. /\ Between(parsed', last, N + 1) = d
      /\ Between(parsed', last, N + 2) = Append(d, c)
      /\ d \in Seq(Chars)
  <2> HIDE DEF last
  <2>1. parsed' = Append(parsed, c) /\ last \in 0..Len(parsed)
    BY <1>8
  <2>2. QED BY <2>1, BetweenAppend
<1>10. msg_buffer_ = Line(d)
  BY <1>6
<1> HIDE DEF d
<1>11. ASSUME c # "LF" PROVE RequestInv'
  <2>1. /\ request_' = request_ /\ state_' = "HEADERS"
        /\ msg_buffer_' = IF c \in {"CR", " "} THEN msg_buffer_
                          ELSE Append(msg_buffer_, Lower(c))
    BY <1>11 DEF HeaderByte, Push, Skip
  <2>2. msg_buffer_' \in Seq(Bytes)
    <3>1. Append(msg_buffer_, Lower(c)) \in Seq(Bytes)
      BY <1>1, <1>2, AppendProperties
    <3>2. QED BY <1>1, <2>1, <3>1
  <2>3. msg_buffer_' = Line(Between(parsed', last, N + 2))
    <3>1. Line(Append(d, c)) = IF c \in {"CR", " "} THEN Line(d) ELSE Append(Line(d), Lower(c))
      BY <1>9, LineLemma
    <3>2. QED BY <1>9, <1>10, <2>1, <3>1
  <2>4. Words(parsed', request_', a, b)
    BY <1>5, <2>1, WordsAppend
  <2>5. EndsAt(parsed', b, e, n + 1)
    BY <1>6, <1>7, <1>11, EndsAppend
  <2>6. HeadersAt(parsed', request_', b, e, n)
    BY <1>4, <1>6, <1>7, <2>1, HeadersAppend
  <2>7. e \in [1..(n + 1) -> (b + 1)..(N + 1)]
    <3>1. \A x \in (b + 1)..N : x \in (b + 1)..(N + 1)
      BY <1>3
    <3>2. QED BY <3>1
  <2>8. HeadersInv'
    <3>1. Len(request_'.headers) = n
      BY <2>1 DEF n
    <3>2. \E f \in [1..(n + 1) -> (b + 1)..Len(parsed')] :
            /\ EndsAt(parsed', b, f, n + 1)
            /\ HeadersAt(parsed', request_', b, f, n)
            /\ msg_buffer_' = Line(Between(parsed', f[n + 1], Len(parsed') + 1))
      BY <1>3, <1>7, <2>3, <2>5, <2>6, <2>7
    <3>3. QED BY <1>7, <2>4, <3>1, <3>2 DEF HeadersInv
  <2>9. QED BY <1>1, <2>1, <2>2, <2>8 DEF RequestInv
<1>12. ASSUME c = "LF" PROVE RequestInv'
  <2> DEFINE f == [k \in 1..((n + 1) + 1) |-> IF k = (n + 1) + 1 THEN N + 1 ELSE e[k]]
  <2>1. EndOfLine
    BY <1>12 DEF HeaderByte
  <2>2. f \in [1..((n + 1) + 1) -> (b + 1)..(N + 1)] /\ EndsAt(parsed', b, f, (n + 1) + 1)
    <3>1. c = "LF" =>
            LET g == [k \in 1..((n + 1) + 1) |-> IF k = (n + 1) + 1 THEN N + 1 ELSE e[k]]
            IN  /\ g \in [1..((n + 1) + 1) -> (b + 1)..(N + 1)]
                /\ EndsAt(Append(parsed, c), b, g, (n + 1) + 1)
      BY <1>6, <1>7, EndsAppend
    <3>2. QED BY <1>12, <3>1
  <2>3. (\A k \in 1..(n + 1) : f[k] = e[k]) /\ f[(n + 1) + 1] = N + 1 /\ f[n + 1] = last
    <3>1. \A k \in 1..(n + 1) : k \in 1..((n + 1) + 1) /\ k # (n + 1) + 1
      BY <1>4
    <3>2. (n + 1) + 1 \in 1..((n + 1) + 1)
      BY <1>4
    <3>3. QED BY <1>7, <3>1, <3>2
  <2> HIDE DEF f
  <2>4. Line(Between(parsed', f[n + 1], f[(n + 1) + 1])) = msg_buffer_
    BY <1>9, <1>10, <2>3
  <2> HIDE DEF last
  <2>5. CASE msg_buffer_ = <<>>
    <3>1. state_' = "DONE" /\ UNCHANGED <<msg_buffer_, request_>>
      BY <2>1, <2>5 DEF EndOfLine
    <3>2. Words(parsed', request_', a, b)
      BY <1>5, <3>1, WordsAppend
    <3>3. HeadersAt(parsed', request_', b, f, n)
      BY <1>4, <1>6, <1>7, <2>3, <3>1, HeadersAppend
    <3>4. (n + 1) + 1 = n + 2
      BY <1>4
    <3>5. DoneInv'
      <4>1. Len(request_'.headers) = n
        BY <3>1 DEF n
      <4>2. \E g \in [1..(n + 2) -> (b + 1)..Len(parsed')] :
              /\ EndsAt(parsed', b, g, n + 2)
              /\ HeadersAt(parsed', request_', b, g, n)
              /\ Line(Between(parsed', g[n + 1], g[n + 2])) = <<>> /\ g[n + 2] = Len(parsed')
        BY <1>3, <2>2, <2>3, <2>4, <2>5, <3>3, <3>4
      <4>3. QED BY <1>7, <3>2, <4>1, <4>2 DEF DoneInv
    <3>6. QED BY <1>1, <3>1, <3>5 DEF RequestInv
  <2>6. CASE msg_buffer_ # <<>>
    <3> DEFINE Colons == {i \in DOMAIN msg_buffer_ : msg_buffer_[i] = ":"}
               p == Min(Colons)
               h == [key |-> SubSeq(msg_buffer_, 1, p - 1),
                     val |-> SubSeq(msg_buffer_, p + 1, Len(msg_buffer_))]
    <3>1. \/ Error
          \/ /\ Colons # {}
             /\ request_' = [request_ EXCEPT !.headers = Append(@, h)]
             /\ msg_buffer_' = <<>> /\ state_' = state_
      BY <2>1, <2>6 DEF EndOfLine
    <3>2. CASE Error
      BY <1>1, <3>2 DEF Error, RequestInv
    <3>3. CASE /\ Colons # {}
               /\ request_' = [request_ EXCEPT !.headers = Append(@, h)]
               /\ msg_buffer_' = <<>> /\ state_' = state_
      <4>1. Len(msg_buffer_) \in Nat /\ DOMAIN msg_buffer_ = 1..Len(msg_buffer_)
        BY <1>1, LenProperties
      <4>2. Colons \subseteq Nat
        BY <4>1
      <4>3. p \in Colons /\ \A i \in Colons : p <= i
        <5> HIDE DEF Colons
        <5>1. QED BY <3>3, <4>2, MinLemma
      <4> HIDE DEF p
      <4>4. p \in 1..Len(msg_buffer_) /\ msg_buffer_[p] = ":"
        BY <4>1, <4>3
      <4>5. \A k \in 1..(p - 1) : msg_buffer_[k] # ":"
        <5>1. \A k \in 1..(p - 1) : k \in 1..Len(msg_buffer_) /\ ~(p <= k)
          BY <4>1, <4>4
        <5>2. QED BY <4>1, <4>3, <5>1
      <4>6. h.key \in Seq(Bytes) /\ h.val \in Seq(Bytes) /\ IsHeader(h, msg_buffer_)
        BY <1>1, <4>4, <4>5, SplitLemma
      <4>7. h \in [key : Seq(Bytes), val : Seq(Bytes)]
        BY <4>6
      <4> HIDE DEF h, Colons
      <4>8. /\ request_' \in Requests /\ request_'.headers = Append(request_.headers, h)
            /\ request_'.method = request_.method /\ request_'.url = request_.url
            /\ request_'.version = request_.version
        <5>1. Append(request_.headers, h) \in Seq([key : Seq(Bytes), val : Seq(Bytes)])
          BY <1>4, <4>7, AppendProperties
        <5>2. QED BY <1>1, <3>3, <5>1 DEF Requests
      <4>9. /\ Len(request_'.headers) = n + 1 /\ request_'.headers[n + 1] = h
            /\ \A k \in 1..n : request_'.headers[k] = request_.headers[k]
        BY <1>4, <4>7, <4>8, AppendProperties DEF n
      <4>10. Words(parsed', request_', a, b)
        BY <1>5, <4>8, WordsAppend
      <4>11. HeadersAt(parsed', request_', b, f, n)
        BY <1>4, <1>6, <1>7, <2>3, <4>8, <4>9, HeadersAppend
      <4>12. HeadersAt(parsed', request_', b, f, n + 1)
        <5>1. \A k \in 1..(n + 1) : k \in 1..n \/ k = n + 1
          BY <1>4
        <5>2. IsHeader(request_'.headers[n + 1], Line(Between(parsed', f[n + 1], f[(n + 1) + 1])))
          BY <2>4, <4>6, <4>9
        <5>3. QED BY <4>11, <5>1, <5>2 DEF HeadersAt
      <4>13. Line(Between(parsed', f[(n + 1) + 1], Len(parsed') + 1)) = <<>>
        <5>1. Between(parsed', Len(parsed'), Len(parsed') + 1) = <<>> /\ <<>> \in Seq(Chars)
          BY <1>3, BetweenEnds, EmptySeq
        <5>2. Line(<<>>) = <<>>
          BY <5>1, LineLemma
        <5>3. QED BY <1>3, <2>3, <5>1, <5>2
      <4>14. HeadersInv'
        <5>1. \E g \in [1..((n + 1) + 1) -> (b + 1)..Len(parsed')] :
                /\ EndsAt(parsed', b, g, (n + 1) + 1)
                /\ HeadersAt(parsed', request_', b, g, n + 1)
                /\ msg_buffer_' = Line(Between(parsed', g[(n + 1) + 1], Len(parsed') + 1))
          BY <1>3, <2>2, <3>3, <4>12, <4>13
        <5>2. QED BY <1>7, <4>9, <4>10, <5>1 DEF HeadersInv
      <4>15. msg_buffer_' \in Seq(Bytes)
        BY <3>3, EmptySeq
      <4>16. QED BY <3>3, <4>8, <4>14, <4>15 DEF RequestInv
    <3>4. QED BY <3>1, <3>2, <3>3
  <2>7. QED BY <2>5, <2>6
<1>13. QED BY <1>11, <1>12

-----------------------------------------------------------------------------

(* The byte that is parsed is a byte, also past the buffer.                *)
LEMMA NextByteParses ==
  ASSUME ParserTypeOK, ParserTypeOK', NextByte
  PROVE  \E c \in Chars : ParseByte(c)
<1> USE ParserAssumption
<1>1. PICK c \in ByteAt(cur_buf_idx_' - 1, io_buffer_') : ParseByte(c)
  BY DEF NextByte
<1>2. cur_buf_idx_' - 1 \in Nat
  <2>1. cur_buf_idx_' = cur_buf_idx_ + 1 \/ cur_buf_idx_' = 1
    BY Zenon DEF NextByte
  <2>2. cur_buf_idx_ \in Nat
    BY DEF ParserTypeOK
  <2>3. QED BY <2>1, <2>2
<1>3. c \in Chars
  <2> HIDE DEF Chars
  <2>1. io_buffer_' \in [Indices -> Chars]
    BY DEF ParserTypeOK
  <2>2. cur_buf_idx_' - 1 < BufferSize => cur_buf_idx_' - 1 \in Indices
    BY <1>2 DEF Indices
  <2>3. QED BY <2>1, <2>2 DEF ByteAt
<1>4. QED BY <1>1, <1>3

(* At every byte the parser knows of the request what the bytes so far say *)
(* of it.                                                                  *)
THEOREM RequestInvariant == ParserSpec => []RequestInv
<1>1. ParserInit => RequestInv
  <2> SUFFICES ASSUME ParserInit PROVE RequestInv
    OBVIOUS
  <2> DEFINE H == [key : Seq(Bytes), val : Seq(Bytes)]
  <2>1. <<>> \in Seq(Bytes) /\ <<>> \in Seq(H) /\ Len(<<>>) = 0
    <3> HIDE DEF H
    <3>1. QED BY EmptySeq
  <2>2. request_ \in Requests /\ msg_buffer_ \in Seq(Bytes)
    BY <2>1 DEF ParserInit, Requests
  <2>3. MethodInv
    <3>1. \A d : NoneIn(<<>>, 0, Len(<<>>) + 1, d)
      BY <2>1 DEF NoneIn
    <3>2. QED BY <3>1 DEF ParserInit, MethodInv
  <2>4. QED BY <2>2, <2>3 DEF ParserInit, RequestInv
<1>2. /\ ParserTypeOK /\ ParserTypeOK' /\ OrderInv /\ RequestInv
      /\ [ParserNext]_parserVars
      => RequestInv'
  <2> SUFFICES ASSUME ParserTypeOK, ParserTypeOK', OrderInv, RequestInv,
                      [ParserNext]_parserVars
               PROVE  RequestInv'
    OBVIOUS
  <2>1. CASE NextByte
    <3>1. PICK c \in Chars : ParseByte(c)
      BY <2>1, NextByteParses
    <3>2. parsed \in Seq(Chars) /\ parsed' = Append(parsed, c)
      BY <3>1 DEF OrderInv, ParseByte
    <3>3. Error \/ StateByte(c)
      BY <3>1 DEF ParseByte
    <3>4. CASE Error
      BY <3>4 DEF Error, RequestInv
    <3>5. CASE StateByte(c)
      BY <3>2, <3>5, MethodStep, UrlStep, VersionStep, HeaderStep DEF StateByte
    <3>6. QED BY <3>3, <3>4, <3>5
  <2>2. CASE Return \/ CallAgain \/ UNCHANGED parserVars
    <3>1. UNCHANGED <<state_, msg_buffer_, request_, parsed>>
      BY <2>2 DEF Return, CallAgain, parserVars, parseVars
    <3>2. /\ MethodInv' = MethodInv /\ UrlInv' = UrlInv /\ VersionInv' = VersionInv
          /\ HeadersInv' = HeadersInv /\ DoneInv' = DoneInv
      BY <3>1 DEF MethodInv, UrlInv, VersionInv, HeadersInv, DoneInv
    <3>3. QED BY <3>1, <3>2 DEF RequestInv
  <2>3. QED BY <2>1, <2>2 DEF ParserNext
<1>3. QED BY <1>1, <1>2, ParserTypeCorrect, OrderInvariant, PTL DEF ParserSpec

(* Where d stands at a and b and not before or between, these are its      *)
(* first two places.                                                       *)
LEMMA FirstTwo ==
  ASSUME NEW S, NEW s \in Seq(S), NEW d, NEW a \in 1..Len(s), NEW b \in (a + 1)..Len(s),
         s[a] = d, s[b] = d, NoneIn(s, 0, a, d), NoneIn(s, a, b, d)
  PROVE  LET Places == {i \in DOMAIN s : s[i] = d}
         IN  Min(Places) = a /\ Min(Places \ {a}) = b
<1> DEFINE Places == {i \in DOMAIN s : s[i] = d}
           Later == Places \ {a}
<1>1. Len(s) \in Nat /\ DOMAIN s = 1..Len(s)
  BY LenProperties
<1>2. b \in 1..Len(s) /\ a < b /\ a # b
  BY <1>1
<1>3. Places \subseteq Nat /\ Later \subseteq Nat /\ a \in Places /\ b \in Later
  BY <1>1, <1>2
<1>4. \A i \in Places : a <= i
  <2>1. \A i \in 1..Len(s) : ~(a <= i) => s[i] # d
    BY <1>1 DEF NoneIn
  <2>2. QED BY <1>1, <2>1
<1>5. \A i \in Later : b <= i
  <2>1. \A i \in 1..Len(s) : a < i /\ ~(b <= i) => s[i] # d
    BY <1>1, <1>2 DEF NoneIn
  <2>2. \A i \in Later : i \in 1..Len(s) /\ a < i /\ s[i] = d
    BY <1>1, <1>4
  <2>3. QED BY <2>1, <2>2
<1> HIDE DEF Places, Later
<1>6. Min(Places) = a /\ Min(Later) = b
  <2>1. Places # {} /\ Later # {}
    BY <1>3
  <2>2. QED BY <1>3, <1>4, <1>5, <2>1, MinLemma
<1>7. QED BY <1>6 DEF Places, Later

(* A request that is accepted has exactly the parts its bytes say,         *)
(* whatever its length and however it was cut into pieces.                 *)
THEOREM RequestIsParsed == ParserSpec => []ParsedRequest
<1>1. OrderInv /\ RequestInv => ParsedRequest
  <2> SUFFICES ASSUME OrderInv, RequestInv, state_ = "DONE" PROVE ParsedRequest
    BY DEF ParsedRequest
  <2> DEFINE N == Len(parsed)
             n == Len(request_.headers)
  <2>1. parsed \in Seq(Chars) /\ request_ \in Requests /\ DoneInv
    BY DEF OrderInv, RequestInv
  <2> HIDE DEF Chars, Bytes
  <2>2. N \in Nat /\ DOMAIN parsed = 1..N
    BY <2>1, LenProperties
  <2>3. n \in Nat
    BY <2>1, LenProperties DEF Requests
  <2>4. PICK a \in 1..N, b \in 1..N :
          /\ Words(parsed, request_, a, b)
          /\ \E e \in [1..(n + 2) -> (b + 1)..N] :
               /\ EndsAt(parsed, b, e, n + 2)
               /\ HeadersAt(parsed, request_, b, e, n)
               /\ Line(Between(parsed, e[n + 1], e[n + 2])) = <<>> /\ e[n + 2] = N
    BY <2>1, Zenon DEF DoneInv
  <2>5. PICK e \in [1..(n + 2) -> (b + 1)..N] :
          /\ EndsAt(parsed, b, e, n + 2)
          /\ HeadersAt(parsed, request_, b, e, n)
          /\ Line(Between(parsed, e[n + 1], e[n + 2])) = <<>> /\ e[n + 2] = N
    BY <2>4
  <2> DEFINE Spaces == {i \in DOMAIN parsed : parsed[i] = " "}
             Ends == {i \in DOMAIN parsed : i > b /\ parsed[i] = "LF"}
  <2>6. Min(Spaces) = a /\ Min(Spaces \ {a}) = b
    <3>1. /\ a \in 1..N /\ b \in (a + 1)..N /\ parsed[a] = " " /\ parsed[b] = " "
          /\ NoneIn(parsed, 0, a, " ") /\ NoneIn(parsed, a, b, " ")
      BY <2>4 DEF Words
    <3>2. QED BY <2>1, <3>1, FirstTwo
  <2>7. Ends = {e[k] : k \in 1..(n + 2)}
    <3>1. Ends = {i \in (b + 1)..N : parsed[i] = "LF"}
      BY <2>2
    <3>2. QED BY <2>5, <3>1 DEF EndsAt
  <2>8. e \in [1..(n + 2) -> Ends]
    <3> HIDE DEF Ends
    <3>1. \A k \in 1..(n + 2) : e[k] \in Ends
      BY <2>7
    <3>2. QED BY <2>5, <3>1
  <2>9. \A k \in 1..(n + 1) : e[k] < e[k + 1]
    <3>1. (n + 2) - 1 = n + 1
      BY <2>3
    <3>2. QED BY <2>5, <3>1 DEF EndsAt
  <2>10. /\ request_.method = Between(parsed, 0, a) /\ request_.url = Between(parsed, a, b)
    BY <2>4 DEF Words
  <2>11. /\ request_.version = Without(Between(parsed, b, e[1]), {"CR"})
         /\ \A k \in 1..n : IsHeader(request_.headers[k], Line(Between(parsed, e[k], e[k + 1])))
    BY <2>5 DEF HeadersAt
  <2>12. \E f \in [1..(n + 2) -> Ends] :
           /\ \A k \in 1..(n + 1) : f[k] < f[k + 1]
           /\ Ends = {f[k] : k \in 1..(n + 2)}
           /\ request_.version = Without(Between(parsed, b, f[1]), {"CR"})
           /\ \A k \in 1..n : IsHeader(request_.headers[k], Line(Between(parsed, f[k], f[k + 1])))
           /\ Line(Between(parsed, f[n + 1], f[n + 2])) = <<>> /\ f[n + 2] = N
    <3> HIDE DEF Ends
    <3>1. QED BY <2>5, <2>7, <2>8, <2>9, <2>11
  <2>13. QED BY <2>6, <2>10, <2>12 DEF ParsedRequest
<1>2. QED BY <1>1, OrderInvariant, RequestInvariant, PTL

-----------------------------------------------------------------------------

(* How many bytes a parser may still look at before kMaxMsgLength_ stops   *)
(* it.                                                                     *)
BytesLeft == IF state_ \in Final THEN 0 ELSE (MaxMsgLength + 1) - n_total_read_

(* Over all its calls a parser looks at kMaxMsgLength_ bytes and one more  *)
(* at most, the stale and the stray ones it reads after a short or an      *)
(* empty read included.                                                    *)
ParsedWithinLimit == Len(parsed) + BytesLeft <= MaxMsgLength + 1

(* Every byte brings the parser nearer the end of what it may look at, and *)
(* no return and no further call takes it back.                            *)
ParsingAdvances ==
  [][UNCHANGED parseVars \/ BytesLeft' \in 0..(BytesLeft - 1)]_parserVars

(* One byte, in the measure.                                               *)
LEMMA ByteCounts ==
  ASSUME ParserTypeOK, ParserTypeOK', NextByte
  PROVE  /\ BytesLeft \in Nat /\ BytesLeft' \in 0..(BytesLeft - 1)
         /\ \E c \in Chars : parsed' = Append(parsed, c)
<1>1. PICK c \in Chars : ParseByte(c)
  BY NextByteParses
<1>2. PICK n \in 0..(MaxMsgLength + 1) : n = n_total_read_
  BY DEF ParserTypeOK
<1>3. PICK m \in 0..(MaxMsgLength + 1) : m = n_total_read_'
  BY DEF ParserTypeOK
<1>4. MaxMsgLength \in Nat
  BY ParserAssumption
<1>5. n <= MaxMsgLength /\ BytesLeft = (MaxMsgLength + 1) - n
  <2>1. state_ \notin Final
    BY DEF NextByte
  <2>2. ~(n_total_read_ > MaxMsgLength)
    BY <2>1 DEF ParserTypeOK, Final
  <2>3. QED BY <1>2, <1>4, <2>1, <2>2 DEF BytesLeft
<1>6. CASE state_' \in Final
  <2>1. BytesLeft' = 0
    BY <1>6 DEF BytesLeft
  <2>2. QED BY <1>1, <1>4, <1>5, <2>1 DEF ParseByte
<1>7. CASE state_' \notin Final
  <2>1. m = n + 1 /\ m <= MaxMsgLength
    <3>1. c # "nonascii"
      BY <1>1, <1>7 DEF ParseByte, Error, Final
    <3>2. n_total_read_' = n_total_read_ + 1
      BY <1>1, <3>1 DEF ParseByte
    <3>3. ~(n_total_read_' > MaxMsgLength)
      BY <1>7 DEF ParserTypeOK, Final
    <3>4. m = n + 1 /\ ~(m > MaxMsgLength)
      BY <1>2, <1>3, <3>2, <3>3
    <3>5. QED BY <1>4, <3>4
  <2>2. BytesLeft' = (MaxMsgLength + 1) - m
    BY <1>3, <1>7 DEF BytesLeft
  <2>3. QED BY <1>1, <1>4, <1>5, <2>1, <2>2 DEF ParseByte
<1>8. QED BY <1>6, <1>7

(* Whatever it reads, the parser comes nearer its end with every byte:     *)
(* the variant that the return of every call rests on.                     *)
THEOREM ParserAdvances == ParserSpec => ParsingAdvances
<1>1. ASSUME ParserTypeOK, ParserTypeOK', [ParserNext]_parserVars
      PROVE  [UNCHANGED parseVars \/ BytesLeft' \in 0..(BytesLeft - 1)]_parserVars
  <2>1. CASE NextByte
    BY <1>1, <2>1, ByteCounts
  <2>2. CASE Return \/ CallAgain \/ UNCHANGED parserVars
    BY <2>2 DEF Return, CallAgain
  <2>3. QED BY <1>1, <2>1, <2>2 DEF ParserNext
<1>2. QED BY <1>1, ParserTypeCorrect, PTL DEF ParserSpec, ParsingAdvances

(* No parser looks at more than kMaxMsgLength_ + 1 bytes, however often it *)
(* is called and however its reads fall short.                             *)
THEOREM ParserStops == ParserSpec => []ParsedWithinLimit
<1>1. ParserInit => ParsedWithinLimit
  <2> SUFFICES ASSUME ParserInit PROVE ParsedWithinLimit
    OBVIOUS
  <2>1. Len(parsed) = 0 /\ BytesLeft = MaxMsgLength + 1
    BY ParserAssumption DEF ParserInit, BytesLeft, Final
  <2>2. QED BY <2>1, ParserAssumption DEF ParsedWithinLimit
<1>2. ASSUME ParserTypeOK, ParserTypeOK', OrderInv, ParsedWithinLimit,
             [ParserNext]_parserVars
      PROVE  ParsedWithinLimit'
  <2>1. CASE NextByte
    <3>1. PICK l \in Nat : l = BytesLeft /\ BytesLeft' \in 0..(l - 1)
      BY <1>2, <2>1, ByteCounts
    <3>2. PICK ll \in 0..(l - 1) : ll = BytesLeft'
      BY <3>1
    <3>3. PICK c \in Chars : parsed' = Append(parsed, c)
      BY <1>2, <2>1, ByteCounts
    <3>4. PICK k \in Nat : k = Len(parsed) /\ k + 1 = Len(parsed')
      <4> HIDE DEF Chars
      <4>1. parsed \in Seq(Chars)
        BY <1>2 DEF OrderInv
      <4>2. Len(parsed) \in Nat /\ Len(parsed') = Len(parsed) + 1
        BY <3>3, <4>1, LenProperties, AppendProperties
      <4>3. QED BY <4>2
    <3>5. k + l <= MaxMsgLength + 1
      BY <1>2, <3>1, <3>4 DEF ParsedWithinLimit
    <3>6. (k + 1) + ll <= MaxMsgLength + 1
      BY <3>1, <3>2, <3>4, <3>5, ParserAssumption
    <3>7. QED BY <3>2, <3>4, <3>6, Zenon DEF ParsedWithinLimit
  <2>2. CASE Return \/ CallAgain \/ UNCHANGED parserVars
    BY <1>2, <2>2 DEF Return, CallAgain, parserVars, parseVars, ParsedWithinLimit, BytesLeft
  <2>3. QED BY <1>2, <2>1, <2>2 DEF ParserNext
<1>3. QED
  BY <1>1, <1>2, ParserTypeCorrect, OrderInvariant, PTL DEF ParserSpec
=============================================================================
