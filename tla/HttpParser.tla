----------------------------- MODULE HttpParser -----------------------------
(***************************************************************************)
(* HttpParser of core/src/http_parser.cc: a request is parsed byte by byte *)
(* from a file or a socket, through io_buffer_.  recv() does not wait: a   *)
(* call returns when there is nothing to read and may be repeated.         *)
(* ReadFromSocket() forgets how much recv() brought, so after a short one  *)
(* bytes of an earlier read are parsed; a file that ends with the buffer   *)
(* gives an empty read, after which parsing goes on past the buffer.       *)
(***************************************************************************)
EXTENDS Integers, SequencesExt

CONSTANTS
  BufferSize,     \* kBufferSize_
  MaxMsgLength    \* kMaxMsgLength_

ASSUME ParserAssumption == BufferSize \in Nat \ {0} /\ MaxMsgLength \in Nat

(* One letter, in upper and lower case, stands for all the other bytes.    *)
Chars == {"X", " ", ":", "CR", "LF", "nonascii"}
Lower(c) == IF c = "X" THEN "x" ELSE c

VARIABLES
  source,                     \* "file" or "socket"
  fin_,                       \* the file's stream is good
  running,                    \* inside ParseFileStream or ParseSocketStream
  state_, io_buffer_, cur_buf_idx_, end_buf_idx_, n_total_read_,
  msg_buffer_, request_,
  delivered,                  \* history: bytes the source gave
  parsed,                     \* history: bytes ParseByte was given
  short                       \* history: a read did not fill the buffer
                              \* and went unnoticed

readVars   == <<fin_, io_buffer_, end_buf_idx_, delivered, short>>
parseVars  == <<state_, cur_buf_idx_, n_total_read_, msg_buffer_, request_, parsed>>
parserVars == <<source, running, readVars, parseVars>>

Final == {"DONE", "ERR"}
Indices == 0..(BufferSize - 1)

(* The constructors; io_buffer_ is zeroed, and zero is an ordinary byte.   *)
ParserInit ==
  /\ source \in {"file", "socket"} /\ fin_ = TRUE
  /\ running = TRUE
  /\ state_ = "METHOD"
  /\ io_buffer_ = [i \in Indices |-> "X"]
  /\ cur_buf_idx_ = BufferSize /\ end_buf_idx_ = BufferSize
  /\ n_total_read_ = 0
  /\ msg_buffer_ = <<>>
  /\ request_ = [method |-> <<>>, url |-> <<>>, version |-> <<>>, headers |-> <<>>]
  /\ delivered = <<>> /\ parsed = <<>> /\ short = FALSE

(* The read of one piece, by ReadFromFileStream() or ReadFromSocket().     *)
Read(piece) ==
  /\ source = "file" => fin_
  /\ source = "socket" => piece # <<>>
  /\ io_buffer_' = [i \in Indices |-> IF i < Len(piece) THEN piece[i + 1] ELSE io_buffer_[i]]
  /\ fin_' = (source = "socket" \/ Len(piece) = BufferSize)
  /\ end_buf_idx_' = IF source = "file" THEN Len(piece) ELSE end_buf_idx_
  /\ delivered' = delivered \o piece
  /\ short' = (short \/ piece = <<>> \/ (source = "socket" /\ Len(piece) < BufferSize))

-----------------------------------------------------------------------------
Push(c) == msg_buffer_' = Append(msg_buffer_, c) /\ UNCHANGED <<state_, request_>>
Skip == UNCHANGED <<state_, msg_buffer_, request_>>
Error == state_' = "ERR" /\ UNCHANGED <<msg_buffer_, request_>>

(* msg_buffer_ is complete and becomes a field of the request.             *)
Field(name, next) ==
  /\ request_' = [request_ EXCEPT ![name] = msg_buffer_]
  /\ msg_buffer_' = <<>>
  /\ state_' = next

WordByte(c, name, next) == IF c = " " THEN Field(name, next) ELSE Push(c)

VersionByte(c) ==
  CASE c = "CR" -> Skip
    [] c = "LF" -> Field("version", "HEADERS")
    [] c = " "  -> Error
    [] OTHER    -> Push(c)

(* Slip: the value of a header starts with the colon.                      *)
EndOfLineOffByOne ==
  IF msg_buffer_ = <<>>
    THEN state_' = "DONE" /\ UNCHANGED <<msg_buffer_, request_>>
    ELSE LET Colons == {i \in DOMAIN msg_buffer_ : msg_buffer_[i] = ":"}
             pos    == Min(Colons)
         IN  \/ Colons = {} /\ Error
             \/ /\ Colons # {}
                /\ request_' = [request_ EXCEPT !.headers = Append(@,
                     [key |-> SubSeq(msg_buffer_, 1, pos - 1),
                      val |-> SubSeq(msg_buffer_, pos, Len(msg_buffer_))])]
                /\ msg_buffer_' = <<>>
                /\ UNCHANGED state_

(* A header line is split at its first colon; an empty line ends it all.   *)
EndOfLine ==
  IF msg_buffer_ = <<>>
    THEN state_' = "DONE" /\ UNCHANGED <<msg_buffer_, request_>>
    ELSE LET Colons == {i \in DOMAIN msg_buffer_ : msg_buffer_[i] = ":"}
             pos    == Min(Colons)
         IN  \/ Colons = {} /\ Error
             \/ /\ Colons # {}
                /\ request_' = [request_ EXCEPT !.headers = Append(@,
                     [key |-> SubSeq(msg_buffer_, 1, pos - 1),
                      val |-> SubSeq(msg_buffer_, pos + 1, Len(msg_buffer_))])]
                /\ msg_buffer_' = <<>>
                /\ UNCHANGED state_

HeaderByte(c) ==
  CASE c \in {"CR", " "} -> Skip
    [] c = "LF"          -> EndOfLine
    [] OTHER             -> Push(Lower(c))

StateByte(c) ==
  \/ state_ = "METHOD"  /\ WordByte(c, "method", "URL")
  \/ state_ = "URL"     /\ WordByte(c, "url", "VERSION")
  \/ state_ = "VERSION" /\ VersionByte(c)
  \/ state_ = "HEADERS" /\ HeaderByte(c)

(* Slip: the length is not compared with its limit.                        *)
ParseUnbounded(c) ==
  /\ n_total_read_' = n_total_read_ + 1
  /\ parsed' = Append(parsed, c)
  /\ IF c = "nonascii" THEN Error ELSE StateByte(c)

ParseByte(c) ==
  /\ n_total_read_' = IF c = "nonascii" THEN n_total_read_ ELSE n_total_read_ + 1
  /\ parsed' = Append(parsed, c)
  /\ IF c = "nonascii" \/ n_total_read_ >= MaxMsgLength THEN Error ELSE StateByte(c)

(* The byte at an index; past the buffer it is whatever lies there.        *)
ByteAt(at, buffer) == IF at < BufferSize THEN {buffer[at]} ELSE Chars

-----------------------------------------------------------------------------
(* Slip: parsing goes on where the last piece ended.                       *)
NextByteUnreset ==
  /\ running /\ state_ \notin Final
  /\ \/ cur_buf_idx_ # end_buf_idx_ /\ UNCHANGED readVars
     \/ /\ cur_buf_idx_ = end_buf_idx_
        /\ \E piece \in BoundedSeq(Chars, BufferSize) : Read(piece)
  /\ \E c \in ByteAt(cur_buf_idx_, io_buffer_') : ParseByte(c)
  /\ cur_buf_idx_' = cur_buf_idx_ + 1
  /\ UNCHANGED <<source, running>>

(* One turn of the loop: a read when the buffer is used up, and one byte.  *)
NextByte ==
  /\ running /\ state_ \notin Final
  /\ \/ cur_buf_idx_ # end_buf_idx_ /\ UNCHANGED readVars /\ cur_buf_idx_' = cur_buf_idx_ + 1
     \/ /\ cur_buf_idx_ = end_buf_idx_ /\ cur_buf_idx_' = 1
        /\ \E piece \in BoundedSeq(Chars, BufferSize) : Read(piece)
  /\ \E c \in ByteAt(cur_buf_idx_' - 1, io_buffer_') : ParseByte(c)
  /\ UNCHANGED <<source, running>>

(* Slip: the loop tries again where there is nothing more to read.         *)
NothingToReadRetried ==
  /\ running /\ state_ \in Final
  /\ running' = FALSE
  /\ UNCHANGED <<source, readVars, parseVars>>

(* The loop returns: done, failed, or nothing (more) to read.              *)
Return ==
  /\ running
  /\ \/ state_ \in Final
     \/ cur_buf_idx_ = end_buf_idx_ /\ (source = "file" => ~fin_)
  /\ running' = FALSE
  /\ UNCHANGED <<source, readVars, parseVars>>

(* The owner of a socket's parser tries again.                             *)
CallAgain ==
  /\ ~running /\ source = "socket" /\ state_ \notin Final
  /\ running' = TRUE
  /\ UNCHANGED <<source, readVars, parseVars>>

ParserNext == NextByte \/ Return \/ CallAgain
ParserSpec == ParserInit /\ [][ParserNext]_parserVars

(* The thread inside the loop goes on.                                     *)
ParserFairSpec == ParserSpec /\ WF_parserVars(NextByte \/ Return)

-----------------------------------------------------------------------------
(* Types; a request never grows beyond kMaxMsgLength_ without an error.    *)
ParserTypeOK ==
  /\ source \in {"file", "socket"} /\ fin_ \in BOOLEAN /\ running \in BOOLEAN
  /\ state_ \in {"METHOD", "URL", "VERSION", "HEADERS"} \cup Final
  /\ io_buffer_ \in [Indices -> Chars]
  /\ cur_buf_idx_ \in Nat /\ end_buf_idx_ \in 0..BufferSize
  /\ n_total_read_ \in 0..(MaxMsgLength + 1)
  /\ n_total_read_ > MaxMsgLength => state_ = "ERR"

(* Whatever pieces the source gives, ParseByte sees its bytes once each    *)
(* and in order, and io_buffer_ is not left, as long as no short recv()    *)
(* and no empty read of a file has gone unnoticed.                         *)
BytesInOrder == ~short => IsPrefix(parsed, delivered) /\ cur_buf_idx_ <= BufferSize

(* The bytes of s that are not skipped, in order.                          *)
Without(s, skipped) ==
  LET kept[i \in 0..Len(s)] ==
        IF i = 0 THEN <<>>
        ELSE IF s[i] \in skipped THEN kept[i - 1] ELSE Append(kept[i - 1], s[i])
  IN  kept[Len(s)]

(* The bytes of s between positions i and j, and what is kept of the bytes *)
(* of a header line.                                                       *)
Between(s, i, j) == SubSeq(s, i + 1, j - 1)
Line(s) ==
  LET text == Without(s, {"CR", " "})
  IN  [k \in 1..Len(text) |-> Lower(text[k])]

(* A header is its line, split at the first colon.                         *)
IsHeader(h, line) ==
  h.key \o <<":">> \o h.val = line /\ \A k \in 1..Len(h.key) : h.key[k] # ":"

(* What the bytes up to a blank line mean: two words, a version, and lines *)
(* that end at the positions e[1], e[2], ..., of which the blank one is    *)
(* the last.  A request that was accepted has exactly these parts, however *)
(* the bytes were cut into pieces.                                         *)
ParsedRequest ==
  state_ = "DONE" =>
    LET Spaces == {i \in DOMAIN parsed : parsed[i] = " "}
        a    == Min(Spaces)
        b    == Min(Spaces \ {a})
        Ends == {i \in DOMAIN parsed : i > b /\ parsed[i] = "LF"}
        n    == Len(request_.headers)
    IN  /\ request_.method = Between(parsed, 0, a)
        /\ request_.url = Between(parsed, a, b)
        /\ \E e \in [1..(n + 2) -> Ends] :
             /\ \A k \in 1..(n + 1) : e[k] < e[k + 1]
             /\ Ends = {e[k] : k \in 1..(n + 2)}
             /\ request_.version = Without(Between(parsed, b, e[1]), {"CR"})
             /\ \A k \in 1..n : IsHeader(request_.headers[k], Line(Between(parsed, e[k], e[k + 1])))
             /\ Line(Between(parsed, e[n + 1], e[n + 2])) = <<>> /\ e[n + 2] = Len(parsed)

(* Every call of ParseFileStream() and ParseSocketStream() returns, also   *)
(* where it reads past the end of what it has: the length stops it.        *)
CallReturns == running ~> ~running
=============================================================================
