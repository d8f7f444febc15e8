---------------------------- MODULE LocalResponse ----------------------------
(***************************************************************************)
(* The answer to a request for a local file: extractMetaFromHeaders(),     *)
(* handleLocalFileRequest() and compressAndWriteBody() of                  *)
(* core/include/services.hpp, SendHttpHeader() of network_wrapper.hpp and  *)
(* GzipStreamCompress() of core/src/compression.cc.  Meanwhile the file    *)
(* may change or vanish and compression may be switched.                   *)
(*                                                                         *)
(* A request is the sequence of its headers, each told by what it does:    *)
(* "bad" fails the extraction, an encoding is an Accept-Encoding by what   *)
(* GetCompressionType() finds in it, "plain" is any other.  Bytes of the   *)
(* file are counted; deflate() turns n bytes into n units of output and    *)
(* one more for the end of the stream, and may hold units back until it is *)
(* told to finish.                                                         *)
(***************************************************************************)
EXTENDS Integers, Sequences

CONSTANTS
  Requests,       \* sequences of headers
  MaxHeadersNum,  \* kMaxHeadersNum
  CompressChunk,  \* kDefaultCompressChunkBytes
  CopyChunk,      \* size of header_buf, the buffer of the TLS copy loop
  MaxSize         \* bound: bytes of the file

Gone == -1
Encodings == {"gzip", "brotli", "identity"}

ASSUME LocalAssumption ==
  /\ Requests \subseteq Seq(Encodings \cup {"bad", "plain"})
  /\ MaxHeadersNum \in Nat
  /\ CompressChunk \in Nat \ {0} /\ CopyChunk \in Nat \ {0}
  /\ MaxSize \in Nat

VARIABLES
  request, is_ssl,
  g_enable_http_compression,
  file,              \* size of the file, or Gone
  touched,           \* history: the file has changed since file_size()
  stage,
  compression_type_, \* [code, str]
  local_file_size,
  pos,               \* bytes read from the file
  avail_in,          \* those of them deflate() has not taken yet
  fed,               \* bytes deflate() has taken
  emitted,           \* units deflate() has put out
  finish,            \* flush = Z_FINISH
  chunks,            \* sizes of the chunks written, 0 for the end marker
  written,           \* bytes written outside of chunks
  damaged            \* history: a write was partial, or a chunk-size line
                     \* came from a string already destroyed

inputVars  == <<request, is_ssl>>
worldVars  == <<g_enable_http_compression, file, touched>>
deflateVars == <<avail_in, fed, emitted, finish>>
bodyVars   == <<pos, deflateVars, chunks, written>>
localVars  == <<inputVars, worldVars, stage, compression_type_, local_file_size,
                bodyVars, damaged>>

Smaller(m, n) == IF m < n THEN m ELSE n

Ended == {"done", "failed", "crashed"}
Reading == {"read", "deflate", "marker", "sendfile", "copy"}
Stages == {"meta", "exists", "size", "line", "fields", "open"} \cup Reading \cup Ended

Type(code, str) == [code |-> code, str |-> str]
Codes == {"gzip", "brotli", "none", "other"}

-----------------------------------------------------------------------------
(* compression_type_ has no initialiser: its code is any, its str empty.   *)
LocalInit ==
  /\ request \in Requests /\ is_ssl \in BOOLEAN
  /\ g_enable_http_compression \in BOOLEAN
  /\ file \in Gone..MaxSize /\ touched = FALSE
  /\ stage = "meta"
  /\ compression_type_ \in {Type(c, "none") : c \in Codes}
  /\ local_file_size = 0
  /\ pos = 0 /\ avail_in = 0 /\ fed = 0 /\ emitted = 0 /\ finish = FALSE
  /\ chunks = <<>> /\ written = 0
  /\ damaged = FALSE

SetHttpCompression(on) ==
  /\ g_enable_http_compression' = on
  /\ UNCHANGED <<inputVars, file, touched, stage, compression_type_,
                 local_file_size, bodyVars, damaged>>

(* Somebody writes, truncates or removes the file; an open file stays.     *)
FileChanges(size) ==
  /\ size = Gone => stage \notin Reading
  /\ file' = size
  /\ touched' = TRUE
  /\ UNCHANGED <<inputVars, g_enable_http_compression, stage, compression_type_,
                 local_file_size, bodyVars, damaged>>

-----------------------------------------------------------------------------
GetCompressionType(accepted) ==
  IF accepted = "identity" THEN Type("none", "none") ELSE Type(accepted, accepted)

Goto(next) ==
  /\ stage' = next
  /\ UNCHANGED <<inputVars, worldVars>>

(* extractMetaFromHeaders(): a bad header fails it, the last               *)
(* Accept-Encoding decides, and with compression off nothing is            *)
(* compressed.                                                             *)
ExtractMeta ==
  LET Accepts == {i \in DOMAIN request : request[i] \in Encodings}
      valid   == /\ Len(request) \in 1..MaxHeadersNum
                 /\ \A i \in DOMAIN request : request[i] # "bad"
  IN  /\ stage = "meta"
      /\ Goto(IF valid THEN "exists" ELSE "failed")
      /\ \/ valid /\ ~g_enable_http_compression /\ compression_type_' = Type("none", "none")
         \/ /\ valid /\ g_enable_http_compression
            /\ \E last \in Accepts : /\ \A i \in Accepts : i <= last
                                     /\ compression_type_' = GetCompressionType(request[last])
         \/ (valid => g_enable_http_compression /\ Accepts = {}) /\ UNCHANGED compression_type_
      /\ UNCHANGED <<local_file_size, bodyVars, damaged>>

(* exists() and is_regular_file().                                         *)
CheckFile ==
  /\ stage = "exists"
  /\ Goto(IF file = Gone THEN "failed" ELSE "size")
  /\ UNCHANGED <<compression_type_, local_file_size, bodyVars, damaged>>

(* file_size() throws for a file that has gone, and nothing catches it.    *)
FileSize ==
  /\ stage = "size"
  /\ stage' = IF file = Gone THEN "crashed" ELSE "line"
  /\ local_file_size' = IF file = Gone THEN 0 ELSE file
  /\ touched' = FALSE
  /\ UNCHANGED <<inputVars, g_enable_http_compression, file, compression_type_,
                 bodyVars, damaged>>

(* The header: Content-Encoding and chunked for any code but "none", else  *)
(* Content-Length.                                                         *)
Chunked == compression_type_.code # "none"

(* SendHttpHeader(): two write_some() calls, each of which may write less. *)
SendHttpHeader ==
  /\ \/ stage = "line" /\ Goto("fields")
     \/ stage = "fields" /\ Goto("open")
  /\ damaged' \in {damaged, TRUE}
  /\ UNCHANGED <<compression_type_, local_file_size, bodyVars>>

(* Slip: compression is asked for again where the body is written.         *)
OpenBySwitch ==
  /\ stage = "open"
  /\ Goto(IF compression_type_.code = "brotli" \/ file = Gone THEN "failed"
          ELSE IF compression_type_.code = "gzip" /\ g_enable_http_compression THEN "read"
          ELSE IF is_ssl THEN "copy" ELSE "sendfile")
  /\ UNCHANGED <<compression_type_, local_file_size, bodyVars, damaged>>

(* compressAndWriteBody() chooses by the code; what is neither gzip nor a  *)
(* known but unsupported encoding is sent as it is.                        *)
OpenFile ==
  /\ stage = "open"
  /\ Goto(IF compression_type_.code = "brotli" \/ file = Gone THEN "failed"
          ELSE IF compression_type_.code = "gzip" THEN "read"
          ELSE IF is_ssl THEN "copy" ELSE "sendfile")
  /\ UNCHANGED <<compression_type_, local_file_size, bodyVars, damaged>>

(* What a read of at most n bytes returns; less than n is the end of file. *)
Got(n) == IF file > pos THEN Smaller(n, file - pos) ELSE 0

(* One sendfile(), whose result is not looked at beyond -1.                *)
SendFile ==
  /\ stage = "sendfile"
  /\ \E n \in 0..Smaller(local_file_size, Got(MaxSize)) :
       /\ written' = n
       /\ damaged' = (damaged \/ n < Smaller(local_file_size, Got(MaxSize)))
  /\ Goto("done")
  /\ UNCHANGED <<compression_type_, local_file_size, pos, deflateVars, chunks>>

(* Slip: a last piece that does not fill the buffer is dropped.            *)
CopyFullPiece ==
  /\ stage = "copy"
  /\ Goto(IF Got(CopyChunk) < CopyChunk THEN "done" ELSE "copy")
  /\ pos' = pos + Got(CopyChunk)
  /\ written' = IF Got(CopyChunk) < CopyChunk THEN written ELSE written + CopyChunk
  /\ UNCHANGED <<compression_type_, local_file_size, deflateVars, chunks, damaged>>

(* One turn of the copy loop; write() writes all of it.                    *)
CopyPiece ==
  /\ stage = "copy"
  /\ Goto(IF Got(CopyChunk) < CopyChunk THEN "done" ELSE "copy")
  /\ pos' = pos + Got(CopyChunk)
  /\ written' = written + Got(CopyChunk)
  /\ UNCHANGED <<compression_type_, local_file_size, deflateVars, chunks, damaged>>

-----------------------------------------------------------------------------
(* Slips: the end of the file goes unnoticed; a read overruns its buffer.  *)
ReadEndlessly ==
  /\ stage = "read"
  /\ Goto("deflate")
  /\ pos' = pos + Got(CompressChunk) /\ avail_in' = Got(CompressChunk)
  /\ finish' = FALSE
  /\ UNCHANGED <<compression_type_, local_file_size, fed, emitted, chunks, written, damaged>>
ReadAll ==
  /\ stage = "read"
  /\ Goto("deflate")
  /\ pos' = pos + Got(MaxSize) /\ avail_in' = Got(MaxSize)
  /\ finish' = TRUE
  /\ UNCHANGED <<compression_type_, local_file_size, fed, emitted, chunks, written, damaged>>

(* GzipStreamCompress(), outer loop: the next bytes of the file.           *)
ReadChunk ==
  /\ stage = "read"
  /\ Goto("deflate")
  /\ pos' = pos + Got(CompressChunk) /\ avail_in' = Got(CompressChunk)
  /\ finish' = (Got(CompressChunk) < CompressChunk)
  /\ UNCHANGED <<compression_type_, local_file_size, fed, emitted, chunks, written, damaged>>

(* deflate(): takes n of the bytes and puts out k units, at most a buffer. *)
(* With room left it has taken every byte and, told to finish, put out     *)
(* every unit.                                                             *)
Deflates(n, k) ==
  /\ k <= fed + n - emitted + (IF finish /\ n = avail_in THEN 1 ELSE 0)
  /\ k < CompressChunk => /\ n = avail_in
                          /\ finish => emitted + k = fed + n + 1

(* The output handler writes one chunk; none for no output.                *)
WriteChunk(k) ==
  IF k = 0
    THEN UNCHANGED <<chunks, damaged>>
    ELSE chunks' = Append(chunks, k) /\ damaged' \in {damaged, TRUE}

(* Slip: an empty chunk is written.                                        *)
DeflateEmptyChunk(n, k) ==
  /\ stage = "deflate"
  /\ Deflates(n, k)
  /\ fed' = fed + n /\ avail_in' = avail_in - n /\ emitted' = emitted + k
  /\ chunks' = Append(chunks, k) /\ damaged' \in {damaged, TRUE}
  /\ Goto(IF k = CompressChunk THEN "deflate" ELSE IF finish THEN "marker" ELSE "read")
  /\ UNCHANGED <<compression_type_, local_file_size, pos, finish, written>>

(* GzipStreamCompress(), inner loop: again while the buffer comes back     *)
(* full, then the next bytes, or the end marker after the last.            *)
Deflate(n, k) ==
  /\ stage = "deflate"
  /\ Deflates(n, k)
  /\ fed' = fed + n /\ avail_in' = avail_in - n /\ emitted' = emitted + k
  /\ WriteChunk(k)
  /\ Goto(IF k = CompressChunk THEN "deflate" ELSE IF finish THEN "marker" ELSE "read")
  /\ UNCHANGED <<compression_type_, local_file_size, pos, finish, written>>

WriteMarker ==
  /\ stage = "marker"
  /\ chunks' = Append(chunks, 0)
  /\ damaged' \in {damaged, TRUE}
  /\ Goto("done")
  /\ UNCHANGED <<compression_type_, local_file_size, pos, deflateVars, written>>

(* A write or a read reports an error: the handler gives up.               *)
GiveUp ==
  /\ stage \in {"line", "fields"} \cup Reading
  /\ Goto("failed")
  /\ UNCHANGED <<compression_type_, local_file_size, bodyVars, damaged>>

LocalStep ==
  \/ ExtractMeta \/ CheckFile \/ FileSize \/ SendHttpHeader \/ OpenFile
  \/ SendFile \/ CopyPiece \/ ReadChunk \/ WriteMarker
  \/ \E n \in 0..avail_in, k \in 0..CompressChunk : Deflate(n, k)

LocalNext ==
  \/ LocalStep \/ GiveUp
  \/ \E on \in BOOLEAN : SetHttpCompression(on)
  \/ \E size \in Gone..MaxSize : FileChanges(size)

LocalSpec == LocalInit /\ [][LocalNext]_localVars

(* The thread of the handler goes on, and a client that is there takes     *)
(* what is written to it.                                                  *)
LocalFairSpec == LocalSpec /\ WF_localVars(LocalStep)

-----------------------------------------------------------------------------
(* Types; deflate() is never given more than its input buffer holds, and a *)
(* chunk never exceeds its output buffer.                                  *)
LocalTypeOK ==
  /\ request \in Requests /\ is_ssl \in BOOLEAN
  /\ g_enable_http_compression \in BOOLEAN
  /\ file \in Gone..MaxSize /\ touched \in BOOLEAN
  /\ stage \in Stages
  /\ compression_type_ \in [code : Codes, str : Codes]
  /\ local_file_size \in Nat /\ pos \in Nat
  /\ avail_in \in 0..CompressChunk
  /\ fed \in Nat /\ emitted \in Nat /\ finish \in BOOLEAN
  /\ chunks \in Seq(0..CompressChunk) /\ written \in Nat
  /\ damaged \in BOOLEAN

(* The client has seen the end of the body that the header announced.      *)
SeenEnd ==
  IF Chunked THEN \E i \in DOMAIN chunks : chunks[i] = 0
             ELSE stage \in Ended /\ written = local_file_size

(* No half answer passes for a whole one: when the end marker has been     *)
(* written, deflate() has taken every byte read, put out its whole stream, *)
(* and nothing follows the marker, whatever failed, whatever happened to   *)
(* the file, and wherever the output buffer came back exactly full.        *)
EndMeansWhole ==
  \A i \in DOMAIN chunks :
    chunks[i] = 0 => /\ stage = "done" /\ i = Len(chunks)
                     /\ finish /\ fed = pos /\ emitted = fed + 1

(* Where the handler thinks it has succeeded the client has the whole      *)
(* answer as the header announced it, unless a write was partial, the file *)
(* changed under way or compression_type_ was never set.                   *)
SuccessIsComplete ==
  stage = "done" /\ ~damaged /\ ~touched /\ compression_type_.code # "other" => SeenEnd

(* The body is in the encoding that the header announced and the client    *)
(* asked for, also when compression is switched between the header and the *)
(* body; a compression_type_ that was never set is excepted.               *)
BodyAsAnnounced ==
  compression_type_.str = compression_type_.code =>
    /\ chunks # <<>> => \E i \in DOMAIN request : request[i] = "gzip"
    /\ chunks # <<>> => Chunked /\ written = 0
    /\ written > 0 => ~Chunked

(* Every answer comes to an end, also of a file that grows or shrinks      *)
(* while it is being read.                                                 *)
AnswerEnds == <>(stage \in Ended)
=============================================================================
