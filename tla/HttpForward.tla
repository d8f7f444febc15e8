---------------------------- MODULE HttpForward ----------------------------
(***************************************************************************)
(* The bytes of one proxied request: parseRequest(), onRead() and          *)
(* handleHttpRequest() of core/include/services.hpp.  The client sends a   *)
(* header, a body of the announced length and perhaps more (the next       *)
(* request on the same connection), in pieces of any size; every read of   *)
(* the gateway returns some of what has arrived.  Bytes are named by their *)
(* position in the client's stream, starting at 1.                         *)
(*                                                                         *)
(* Module Gateway has the same handler as a sequence of blocking calls;    *)
(* here it is alone, down to its buffers and its size_t arithmetic.        *)
(***************************************************************************)
EXTENDS Integers, Sequences

CONSTANTS
  MaxHttpHeaderSize, \* kMaxHttpHeaderSize, the size of header_buf
  DefaultBufSize,    \* kDefaultBufSize, the size of src_read_buffer
  WordSize,          \* number of values of size_t
  Requests           \* [header, length, sent]: bytes of the header, the
                     \* Content-Length, and bytes sent after the header

ASSUME ForwardAssumption ==
  /\ MaxHttpHeaderSize \in Nat \ {0}
  /\ DefaultBufSize \in Nat \ {0}
  /\ WordSize \in Nat /\ WordSize > MaxHttpHeaderSize
  /\ Requests \subseteq [header : Nat \ {0}, length : 0..(WordSize - 1), sent : Nat]

VARIABLES
  request,           \* what the client is going to send
  arrived,           \* bytes that have reached the gateway's socket
  closed,            \* the client has closed its side
  stage,             \* where the handler is
  pos,               \* bytes read from the socket
  total_parsed_,
  extra_body_len_,
  left_body_length,
  n_read,
  forwarded          \* the bytes written to the target after the header

clientVars  == <<request, arrived, closed>>
lengthVars  == <<total_parsed_, extra_body_len_, left_body_length, n_read>>
forwardVars == <<clientVars, stage, pos, lengthVars, forwarded>>

Smaller(m, n) == IF m < n THEN m ELSE n

(* The n bytes after the first k.                                          *)
Bytes(k, n) == [i \in 1..n |-> k + i]

Stages == {"header", "connect", "extra", "body", "response", "reply"}
Ended  == {"done", "failed"}

-----------------------------------------------------------------------------

ForwardInit ==
  /\ request \in Requests
  /\ arrived = 0
  /\ closed = FALSE
  /\ stage = "header"
  /\ pos = 0
  /\ total_parsed_ = 0
  /\ extra_body_len_ = 0
  /\ left_body_length = 0
  /\ n_read = 0
  /\ forwarded = <<>>

(* The client sends a piece, or gives up before the request is answered.   *)
ClientSends(n) ==
  /\ ~closed
  /\ arrived' = arrived + n
  /\ UNCHANGED <<request, closed, stage, pos, lengthVars, forwarded>>

ClientCloses ==
  /\ ~closed
  /\ closed' = TRUE
  /\ UNCHANGED <<request, arrived, stage, pos, lengthVars, forwarded>>

EndOfStream == closed /\ pos = arrived

(* Slip: a read may fill the size of header_buf, not the rest of it.       *)
OnReadWhole(n) ==
  LET total == total_parsed_ + n
  IN  /\ stage = "header"
      /\ n <= arrived - pos /\ n <= MaxHttpHeaderSize
      /\ pos' = pos + n
      /\ total_parsed_' = total
      /\ stage' = IF total >= MaxHttpHeaderSize THEN "failed" ELSE "header"
      /\ UNCHANGED <<clientVars, extra_body_len_, left_body_length, n_read, forwarded>>

(* async_read_some() into the rest of header_buf, then onRead(): the       *)
(* parser returns the length of the header once all of it is there.        *)
(* Without it parseRequest() reads on, or gives up on a full buffer.       *)
OnRead(n) ==
  LET total == total_parsed_ + n
  IN  /\ stage = "header"
      /\ n <= arrived - pos /\ n <= MaxHttpHeaderSize - total_parsed_
      /\ pos' = pos + n
      /\ \/ /\ total >= request.header
            /\ extra_body_len_' = total - request.header
            /\ total_parsed_' = request.header
            /\ stage' = "connect"
         \/ /\ total < request.header
            /\ total_parsed_' = total
            /\ stage' = IF total >= MaxHttpHeaderSize THEN "failed" ELSE "header"
            /\ UNCHANGED extra_body_len_
      /\ UNCHANGED <<clientVars, left_body_length, n_read, forwarded>>

(* The target is resolved and connected, the rewritten header written.     *)
SendHeader ==
  /\ stage = "connect"
  /\ stage' = "extra"
  /\ UNCHANGED <<clientVars, pos, lengthVars, forwarded>>

(* Slips: the extra body is not written, or not taken off the length.      *)
SendNoExtraBody ==
  /\ stage = "extra"
  /\ left_body_length' = (request.length - extra_body_len_) % WordSize
  /\ stage' = "body"
  /\ UNCHANGED <<clientVars, pos, total_parsed_, extra_body_len_, n_read, forwarded>>
SendExtraUncounted ==
  /\ stage = "extra"
  /\ forwarded' = Bytes(request.header, Smaller(extra_body_len_, DefaultBufSize))
  /\ left_body_length' = request.length
  /\ stage' = "body"
  /\ UNCHANGED <<clientVars, pos, total_parsed_, extra_body_len_, n_read>>

(* The extra body goes through src_read_buffer: boost::asio::buffer() of   *)
(* the vector is never longer than the vector, whatever memcpy() put past  *)
(* its end.  Then left_body_length is a difference of two size_t.          *)
SendExtraBody ==
  /\ stage = "extra"
  /\ forwarded' = Bytes(request.header, Smaller(extra_body_len_, DefaultBufSize))
  /\ left_body_length' = (request.length - extra_body_len_) % WordSize
  /\ stage' = "body"
  /\ UNCHANGED <<clientVars, pos, total_parsed_, extra_body_len_, n_read>>

(* Slip: a read counts for the size of the buffer.                         *)
ForwardBodyMiscounted(n) ==
  /\ stage = "body"
  /\ n_read < left_body_length
  /\ n <= arrived - pos /\ n <= DefaultBufSize
  /\ n_read' = n_read + DefaultBufSize
  /\ pos' = pos + n
  /\ forwarded' = forwarded \o Bytes(pos, n)
  /\ UNCHANGED <<clientVars, stage, total_parsed_, extra_body_len_, left_body_length>>

(* One turn of the loop: read_some() up to the size of the buffer, write.  *)
ForwardBody(n) ==
  /\ stage = "body"
  /\ n_read < left_body_length
  /\ n <= arrived - pos /\ n <= DefaultBufSize
  /\ n_read' = n_read + n
  /\ pos' = pos + n
  /\ forwarded' = forwarded \o Bytes(pos, n)
  /\ UNCHANGED <<clientVars, stage, total_parsed_, extra_body_len_, left_body_length>>

(* The loop ends: all is read, or the client's side is at its end.         *)
BodyDone ==
  /\ stage = "body"
  /\ n_read >= left_body_length \/ EndOfStream
  /\ stage' = "response"
  /\ UNCHANGED <<clientVars, pos, lengthVars, forwarded>>

(* http::read() of the target's response, which may come at any time.      *)
ReadResponse ==
  /\ stage = "response"
  /\ stage' = "reply"
  /\ UNCHANGED <<clientVars, pos, lengthVars, forwarded>>

WriteBack ==
  /\ stage = "reply"
  /\ stage' = "done"
  /\ UNCHANGED <<clientVars, pos, lengthVars, forwarded>>

(* A read of the header at the end of the stream, or an error of any of    *)
(* the calls: the handler is through.                                      *)
Fails ==
  /\ stage \in Stages
  /\ stage' = "failed"
  /\ UNCHANGED <<clientVars, pos, lengthVars, forwarded>>

HandlerStep ==
  \/ \E n \in 1..(arrived - pos) : OnRead(n) \/ ForwardBody(n)
  \/ SendHeader \/ SendExtraBody \/ BodyDone \/ WriteBack
  \/ EndOfStream /\ stage = "header" /\ Fails

ClientStep == \E n \in 1..(request.header + request.sent - arrived) : ClientSends(n)

ForwardNext == ClientStep \/ ClientCloses \/ HandlerStep \/ ReadResponse \/ Fails

ForwardSpec == ForwardInit /\ [][ForwardNext]_forwardVars

(* A client that sends all of its request and a target that answers once   *)
(* it has the announced length; the thread that runs the handler goes on.  *)
ForwardFairSpec ==
  /\ ForwardSpec
  /\ WF_forwardVars(ClientStep)
  /\ WF_forwardVars(HandlerStep)
  /\ WF_forwardVars(Len(forwarded) >= request.length /\ ReadResponse)

-----------------------------------------------------------------------------
(* Types; header and extra body stay in the header buffer, and no more is  *)
(* read than has arrived.                                                  *)
ForwardTypeOK ==
  /\ request \in Requests
  /\ arrived \in Nat
  /\ closed \in BOOLEAN
  /\ stage \in Stages \cup Ended
  /\ pos \in 0..arrived
  /\ total_parsed_ \in 0..MaxHttpHeaderSize
  /\ extra_body_len_ \in 0..MaxHttpHeaderSize
  /\ left_body_length \in 0..(WordSize - 1)
  /\ n_read \in Nat
  /\ forwarded \in Seq(Nat)

(* The extra body fits the buffer it is copied to.                         *)
ExtraFits == extra_body_len_ <= DefaultBufSize

(* Every byte read after the header goes to the target, once and in order, *)
(* however the client's stream is cut into pieces: what is forwarded is    *)
(* the stream from the header's end up to where the gateway has read.      *)
ForwardedInOrder ==
  stage \in {"body", "response", "reply", "done"} /\ ExtraFits
    => /\ forwarded = Bytes(request.header, Len(forwarded))
       /\ pos = request.header + Len(forwarded)

(* The gateway does not turn to the response before the whole body of a    *)
(* client that keeps its side open is forwarded, and nothing but the body  *)
(* if the client sends nothing behind it.                                  *)
BodyComplete ==
  stage = "response" /\ ~closed /\ ExtraFits =>
    /\ Len(forwarded) >= request.length
    /\ request.sent <= request.length => forwarded = Bytes(request.header, request.length)

(* Extra body and remaining body are the body: with the client's side      *)
(* open, exactly the body is forwarded when the gateway turns to the       *)
(* response.                                                               *)
WholeBody ==
  stage = "response" /\ ~closed => forwarded = Bytes(request.header, request.length)

(* The extra body is a part of the body.                                   *)
ExtraIsBody == extra_body_len_ <= request.length

(* A request comes to its end if its client sends all of it and waits for  *)
(* the answer, unless its extra body exceeds the buffer or the body.       *)
RequestEnds == <>(stage \in Ended \/ closed \/ ~ExtraFits \/ ~ExtraIsBody)
=============================================================================
