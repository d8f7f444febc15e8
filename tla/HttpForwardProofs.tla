------------------------- MODULE HttpForwardProofs -------------------------
(***************************************************************************)
(* Proofs about HttpForward for every buffer size and every request.       *)
(***************************************************************************)
EXTENDS HttpForward, SequenceTheorems, TLAPS

(* Every length keeps its type; in particular neither total_parsed_ nor    *)
(* extra_body_len_ ever exceeds the header buffer, because parseRequest()  *)
(* reads no more than is left of it.                                       *)
THEOREM ForwardTypeCorrect == ForwardSpec => []ForwardTypeOK
<1> USE ForwardAssumption DEF Stages, Ended
<1>1. ForwardInit => ForwardTypeOK
  <2> SUFFICES ASSUME ForwardInit PROVE ForwardTypeOK
    OBVIOUS
  <2>1. closed \in BOOLEAN
    BY Zenon DEF ForwardInit
  <2>2. QED BY <2>1 DEF ForwardInit, ForwardTypeOK
<1>2. ForwardTypeOK /\ [ForwardNext]_forwardVars => ForwardTypeOK'
  <2> SUFFICES ASSUME ForwardTypeOK, [ForwardNext]_forwardVars
               PROVE  ForwardTypeOK'
    OBVIOUS
  <2>0. request \in [header : Nat \ {0}, length : 0..(WordSize - 1), sent : Nat]
    BY DEF ForwardTypeOK
  <2> USE DEF ForwardTypeOK, clientVars, lengthVars
  <2>1. CASE ClientStep
    BY <2>0, <2>1 DEF ClientStep, ClientSends
  <2>2. CASE ClientCloses
    <3>1. closed' \in BOOLEAN
      BY <2>2, Zenon DEF ClientCloses
    <3>2. QED BY <2>2, <3>1 DEF ClientCloses
  <2>3. ASSUME NEW n \in 1..(arrived - pos), OnRead(n) PROVE ForwardTypeOK'
    BY <2>0, <2>3 DEF OnRead
  <2>4. ASSUME NEW n \in 1..(arrived - pos), ForwardBody(n) PROVE ForwardTypeOK'
    <3>1. Bytes(pos, n) \in Seq(Nat)
      BY <2>4 DEF Bytes
    <3>2. (forwarded \o Bytes(pos, n)) \in Seq(Nat)
      BY <3>1
    <3>3. QED BY <2>4, <3>2 DEF ForwardBody
  <2>5. CASE SendExtraBody
    <3>1. \A m \in Int : m % WordSize \in 0..(WordSize - 1)
      OBVIOUS
    <3>2. left_body_length' \in 0..(WordSize - 1)
      <4>1. request.length - extra_body_len_ \in Int
        BY <2>0
      <4>2. QED BY <2>5, <3>1, <4>1 DEF SendExtraBody
    <3>3. forwarded' \in Seq(Nat)
      BY <2>0, <2>5, SMTT(30) DEF SendExtraBody, Bytes, Smaller
    <3>4. QED BY <2>5, <3>2, <3>3 DEF SendExtraBody
  <2>6. CASE SendHeader \/ BodyDone \/ ReadResponse \/ WriteBack \/ Fails
    BY <2>6 DEF SendHeader, BodyDone, ReadResponse, WriteBack, Fails
  <2>7. CASE UNCHANGED forwardVars
    BY <2>7 DEF forwardVars
  <2>8. QED
    BY <2>1, <2>2, <2>3, <2>4, <2>5, <2>6, <2>7 DEF ForwardNext, HandlerStep
<1>3. QED BY <1>1, <1>2, PTL DEF ForwardSpec

-----------------------------------------------------------------------------

(* The lengths of a request are numbers.                                   *)
LEMMA RequestType ==
  ForwardTypeOK => /\ request.header \in Nat
                   /\ request.length \in 0..(WordSize - 1)
                   /\ request.length \in Nat
                   /\ request.sent \in Nat
<1> SUFFICES ASSUME ForwardTypeOK
             PROVE  /\ request.header \in Nat
                    /\ request.length \in 0..(WordSize - 1)
                    /\ request.length \in Nat
                    /\ request.sent \in Nat
  OBVIOUS
<1>1. request \in [header : Nat \ {0}, length : 0..(WordSize - 1), sent : Nat]
  BY ForwardAssumption DEF ForwardTypeOK
<1>2. QED BY <1>1, ForwardAssumption

(* A piece of the stream is as long as it says.                            *)
LEMMA BytesLen == \A k, n \in Nat : Len(Bytes(k, n)) = n /\ Bytes(k, n) \in Seq(Nat)
  BY DEF Bytes

(* Consecutive pieces of the stream put together are one piece.            *)
LEMMA BytesConcat ==
  \A k, m, n \in Nat : Bytes(k, m) \o Bytes(k + m, n) = Bytes(k, m + n)
<1> TAKE k, m, n \in Nat
<1>1. Bytes(k, m) \in Seq(Nat) /\ Len(Bytes(k, m)) = m
  BY DEF Bytes
<1>2. Bytes(k + m, n) \in Seq(Nat) /\ Len(Bytes(k + m, n)) = n
  BY DEF Bytes
<1>3. Bytes(k, m + n) \in Seq(Nat) /\ Len(Bytes(k, m + n)) = m + n
  BY DEF Bytes
<1>4. /\ Bytes(k, m) \o Bytes(k + m, n) \in Seq(Nat)
      /\ Len(Bytes(k, m) \o Bytes(k + m, n)) = m + n
  BY <1>1, <1>2
<1>5. ASSUME NEW i \in 1..(m + n)
      PROVE  (Bytes(k, m) \o Bytes(k + m, n))[i] = Bytes(k, m + n)[i]
  BY <1>1, <1>2 DEF Bytes
<1>6. QED BY <1>3, <1>4, <1>5, SeqEqual

(* Where the bytes read so far are, stage by stage.                        *)
ByteLedger ==
  /\ stage = "header" => pos = total_parsed_ /\ extra_body_len_ = 0 /\ n_read = 0
  /\ stage \in {"connect", "extra"}
       => pos = request.header + extra_body_len_ /\ n_read = 0
  /\ stage \in {"body", "response", "reply", "done"} /\ ExtraFits
       => /\ forwarded = Bytes(request.header, extra_body_len_ + n_read)
          /\ pos = request.header + extra_body_len_ + n_read
  /\ stage = "body"
       => left_body_length = (request.length - extra_body_len_) % WordSize
  /\ stage = "response" /\ ~closed
       => request.length <= extra_body_len_ + n_read

(* The byte counts of the handler are consistent with the bytes forwarded  *)
(* at every stage: the inductive invariant of the two theorems below.      *)
LEMMA ByteLedgerInvariant == ForwardSpec => []ByteLedger
<1> USE ForwardAssumption DEF ExtraFits
<1>1. ForwardInit => ByteLedger
  BY DEF ForwardInit, ByteLedger
<1>2. ForwardTypeOK /\ ByteLedger /\ [ForwardNext]_forwardVars => ByteLedger'
  <2> SUFFICES ASSUME ForwardTypeOK, ByteLedger, [ForwardNext]_forwardVars
               PROVE  ByteLedger'
    OBVIOUS
  <2>0. /\ request.header \in Nat /\ request.length \in 0..(WordSize - 1)
        /\ request.length \in Nat /\ arrived \in Nat /\ pos \in Nat /\ total_parsed_ \in Nat
        /\ extra_body_len_ \in Nat /\ n_read \in Nat
    BY RequestType DEF ForwardTypeOK
  <2> USE DEF ByteLedger, clientVars, lengthVars
  <2>1. CASE ClientStep \/ ClientCloses
    BY <2>1 DEF ClientStep, ClientSends, ClientCloses
  <2>2. ASSUME NEW n \in 1..(arrived - pos), OnRead(n) PROVE ByteLedger'
    BY <2>0, <2>2 DEF OnRead
  <2>3. ASSUME NEW n \in 1..(arrived - pos), ForwardBody(n) PROVE ByteLedger'
    <3>1. ASSUME extra_body_len_ <= DefaultBufSize
          PROVE  forwarded' = Bytes(request.header, extra_body_len_ + n_read + n)
      <4>1. /\ forwarded = Bytes(request.header, extra_body_len_ + n_read)
            /\ pos = request.header + (extra_body_len_ + n_read)
            /\ forwarded' = forwarded \o Bytes(pos, n)
        BY <2>0, <2>3, <3>1 DEF ForwardBody
      <4>2. n \in Nat /\ extra_body_len_ + n_read \in Nat
        BY <2>0
      <4> DEFINE h == request.header
                 m == extra_body_len_ + n_read
      <4>3. h \in Nat /\ m \in Nat
        BY <2>0
      <4>4. forwarded' = Bytes(h, m) \o Bytes(h + m, n)
        BY <4>1
      <4> HIDE DEF h, m, ByteLedger
      <4>5. forwarded' = Bytes(h, m + n)
        BY <4>2, <4>3, <4>4, BytesConcat
      <4>6. QED BY <4>5 DEF h, m
    <3>2. extra_body_len_ + n_read + n = extra_body_len_ + (n_read + n)
      BY <2>0
    <3>3. /\ stage = "body" /\ stage' = stage /\ request' = request
          /\ extra_body_len_' = extra_body_len_ /\ n_read' = n_read + n
          /\ left_body_length' = left_body_length /\ pos' = pos + n
      BY <2>3 DEF ForwardBody
    <3>4. ASSUME extra_body_len_ <= DefaultBufSize
          PROVE  pos' = request.header + extra_body_len_ + (n_read + n)
      BY <2>0, <3>3, <3>4
    <3>5. QED BY <3>1, <3>2, <3>3, <3>4
  <2>4. CASE SendHeader
    BY <2>4 DEF SendHeader
  <2>5. CASE SendExtraBody
    <3>1. extra_body_len_ <= DefaultBufSize
            => Smaller(extra_body_len_, DefaultBufSize) = extra_body_len_ + n_read
      BY <2>0, <2>5 DEF SendExtraBody, Smaller
    <3>2. QED BY <2>0, <2>5, <3>1 DEF SendExtraBody
  <2>6. CASE BodyDone
    <3>1. ASSUME ~closed PROVE request.length <= extra_body_len_ + n_read
      <4>1. (request.length - extra_body_len_) % WordSize <= n_read
        BY <2>0, <2>6, <3>1 DEF BodyDone, EndOfStream, ForwardTypeOK
      <4>2. CASE extra_body_len_ <= request.length
        <5>1. (request.length - extra_body_len_) % WordSize
                = request.length - extra_body_len_
          BY <2>0, <4>2
        <5>2. QED BY <2>0, <4>1, <5>1
      <4>3. CASE ~(extra_body_len_ <= request.length)
        BY <2>0, <4>3
      <4>4. QED BY <4>2, <4>3
    <3>2. QED BY <2>0, <2>6, <3>1 DEF BodyDone
  <2>7. CASE ReadResponse \/ WriteBack \/ Fails
    BY <2>7 DEF ReadResponse, WriteBack, Fails
  <2>8. CASE UNCHANGED forwardVars
    BY <2>8 DEF forwardVars
  <2>9. QED
    BY <2>1, <2>2, <2>3, <2>4, <2>5, <2>6, <2>7, <2>8 DEF ForwardNext, HandlerStep
<1>3. QED BY <1>1, <1>2, ForwardTypeCorrect, PTL DEF ForwardSpec

(* As long as the extra body fits its buffer, every byte the gateway reads *)
(* after the header reaches the target once and in order.                  *)
THEOREM ForwardsInOrder == ForwardSpec => []ForwardedInOrder
<1>1. ForwardTypeOK /\ ByteLedger => ForwardedInOrder
  <2> SUFFICES ASSUME ForwardTypeOK, ByteLedger,
                      stage \in {"body", "response", "reply", "done"}, ExtraFits
               PROVE  /\ forwarded = Bytes(request.header, Len(forwarded))
                      /\ pos = request.header + Len(forwarded)
    BY DEF ForwardedInOrder
  <2>1. /\ request.header \in Nat /\ extra_body_len_ \in Nat /\ n_read \in Nat
    BY RequestType DEF ForwardTypeOK
  <2>2. /\ forwarded = Bytes(request.header, extra_body_len_ + n_read)
        /\ pos = request.header + (extra_body_len_ + n_read)
    BY <2>1 DEF ByteLedger
  <2>3. Len(forwarded) = extra_body_len_ + n_read
    <3>1. extra_body_len_ + n_read \in Nat
      BY <2>1
    <3>2. QED BY <2>1, <2>2, <3>1, BytesLen, Zenon
  <2>4. QED BY <2>2, <2>3
<1>2. QED BY <1>1, ForwardTypeCorrect, ByteLedgerInvariant, PTL

(* All that the client is going to send.                                   *)
Stream == request.header + request.sent

ArrivedOfStream == arrived <= Stream

(* No more arrives than the client sends.                                  *)
LEMMA ArrivedInvariant == ForwardSpec => []ArrivedOfStream
<1>1. ForwardTypeOK /\ ForwardInit => ArrivedOfStream
  BY RequestType DEF ForwardInit, ArrivedOfStream, Stream
<1>2. ForwardTypeOK /\ ArrivedOfStream /\ [ForwardNext]_forwardVars => ArrivedOfStream'
  <2> SUFFICES ASSUME ForwardTypeOK, ArrivedOfStream, [ForwardNext]_forwardVars
               PROVE  ArrivedOfStream'
    OBVIOUS
  <2>1. request' = request
    BY DEF ForwardNext, ClientStep, ClientSends, ClientCloses, HandlerStep, OnRead,
           ForwardBody, SendHeader, SendExtraBody, BodyDone, WriteBack, Fails,
           ReadResponse, clientVars, forwardVars
  <2>2. ClientStep \/ arrived' = arrived
    BY DEF ForwardNext, ClientCloses, HandlerStep, OnRead,
           ForwardBody, SendHeader, SendExtraBody, BodyDone, WriteBack, Fails,
           ReadResponse, clientVars, forwardVars
  <2>3. arrived \in Nat /\ Stream \in Nat
    BY RequestType DEF ForwardTypeOK, Stream
  <2>4. Stream' = Stream
    BY <2>1 DEF Stream
  <2>5. CASE ClientStep
    <3>1. PICK n \in 1..(Stream - arrived) : ClientSends(n)
      <4>1. request.header \in Nat /\ request.sent \in Nat
        BY RequestType
      <4>2. request.header + request.sent - arrived = Stream - arrived
        BY <2>3, <4>1 DEF Stream
      <4>3. QED BY <2>5, <4>2 DEF ClientStep
    <3>2. arrived' = arrived + n
      BY <3>1 DEF ClientSends
    <3>3. QED BY <2>3, <2>4, <3>2 DEF ArrivedOfStream
  <2>6. QED BY <2>2, <2>4, <2>5 DEF ArrivedOfStream
<1>3. QED BY <1>1, <1>2, ForwardTypeCorrect, PTL DEF ForwardSpec

(* As long as the extra body fits its buffer and the client stays, the     *)
(* gateway forwards the whole body before it waits for the response, and   *)
(* nothing else if the client sends nothing behind its body.               *)
THEOREM ForwardsWholeBody == ForwardSpec => []BodyComplete
<1>1. ForwardTypeOK /\ ByteLedger /\ ArrivedOfStream => BodyComplete
  <2> SUFFICES ASSUME ForwardTypeOK, ByteLedger, ArrivedOfStream,
                      stage = "response", ~closed, ExtraFits
               PROVE  /\ Len(forwarded) >= request.length
                      /\ request.sent <= request.length
                           => forwarded = Bytes(request.header, request.length)
    BY DEF BodyComplete
  <2>1. /\ request.header \in Nat /\ request.length \in Nat /\ request.sent \in Nat
        /\ extra_body_len_ \in Nat /\ n_read \in Nat /\ arrived \in Nat /\ pos \in 0..arrived
    BY RequestType DEF ForwardTypeOK
  <2>2. /\ forwarded = Bytes(request.header, extra_body_len_ + n_read)
        /\ pos = request.header + (extra_body_len_ + n_read)
        /\ request.length <= extra_body_len_ + n_read
    BY <2>1 DEF ByteLedger
  <2>3. Len(forwarded) = extra_body_len_ + n_read
    <3>1. extra_body_len_ + n_read \in Nat
      BY <2>1
    <3>2. QED BY <2>1, <2>2, <3>1, BytesLen, Zenon
  <2>4. Len(forwarded) >= request.length
    BY <2>1, <2>2, <2>3
  <2>5. ASSUME request.sent <= request.length
        PROVE  forwarded = Bytes(request.header, request.length)
    <3>1. extra_body_len_ + n_read = request.length
      BY <2>1, <2>2, <2>5 DEF ArrivedOfStream, Stream
    <3>2. QED BY <2>2, <3>1
  <2>6. QED BY <2>4, <2>5
<1>2. QED BY <1>1, ForwardTypeCorrect, ByteLedgerInvariant, ArrivedInvariant, PTL

-----------------------------------------------------------------------------

(* How far a request is from its end: what is still to arrive, what is     *)
(* still to be read, the calls still to be made, and the client's close.   *)
CallsLeft == [header |-> 6, connect |-> 5, extra |-> 4, body |-> 3, response |-> 2,
              reply |-> 1, done |-> 0, failed |-> 0]
Calls == CallsLeft[stage]
Closes == IF closed THEN 0 ELSE 1
Distance == (Stream - arrived) + (Stream - pos) + Calls + Closes

(* Every step of the handler and of its client brings the request nearer   *)
(* to its end: neither loop of the handler, over the header or over the    *)
(* body, ever turns without a byte read, whatever the lengths wrap to, so  *)
(* that every request takes a bounded number of steps.                     *)
RequestAdvances == [][Distance' \in Nat /\ Distance' < Distance]_forwardVars

(* Every request takes a bounded number of steps: the variant of the two   *)
(* loops of the handler.                                                   *)
THEOREM ForwardAdvances == ForwardSpec => RequestAdvances
<1>1. ForwardTypeOK /\ ArrivedOfStream /\ ArrivedOfStream' /\ ForwardTypeOK'
        /\ [ForwardNext]_forwardVars => [Distance' \in Nat /\ Distance' < Distance]_forwardVars
  <2> SUFFICES ASSUME ForwardTypeOK, ArrivedOfStream, ArrivedOfStream', ForwardTypeOK',
                      ForwardNext
               PROVE  Distance' \in Nat /\ Distance' < Distance
    OBVIOUS
  <2>1. /\ arrived \in Nat /\ pos \in 0..arrived /\ arrived' \in Nat /\ pos' \in 0..arrived'
        /\ Stream \in Nat
    <3>1. request.header \in Nat /\ request.sent \in Nat
      BY RequestType
    <3>2. Stream \in Nat
      BY <3>1 DEF Stream
    <3>3. QED BY <3>2, Zenon DEF ForwardTypeOK
  <2>2. Calls \in 0..6 /\ Closes \in 0..1 /\ Calls' \in 0..6 /\ Closes' \in 0..1
    <3>1. \A at \in Stages \cup Ended : CallsLeft[at] \in 0..6
      BY DEF Stages, Ended, CallsLeft
    <3>2. stage \in Stages \cup Ended /\ stage' \in Stages \cup Ended
      BY DEF ForwardTypeOK
    <3>3. CallsLeft' = CallsLeft
      BY DEF CallsLeft
    <3>4. QED BY <3>1, <3>2, <3>3 DEF Calls, Closes
  <2>3. request' = request
    BY DEF ForwardNext, ClientStep, ClientSends, ClientCloses, HandlerStep, OnRead,
           ForwardBody, SendHeader, SendExtraBody, BodyDone, WriteBack, Fails,
           ReadResponse, clientVars
  <2>4. Stream' = Stream
    BY <2>3 DEF Stream
  <2>5. \/ arrived' > arrived /\ pos' = pos /\ Calls' = Calls /\ Closes' = Closes
        \/ arrived' = arrived /\ pos' = pos /\ Calls' = Calls /\ Closes' < Closes
        \/ arrived' = arrived /\ pos' > pos /\ Calls' <= Calls /\ Closes' = Closes
        \/ arrived' = arrived /\ pos' = pos /\ Calls' < Calls /\ Closes' = Closes
    <3>1. CASE ClientStep
      BY <2>1, <3>1 DEF ClientStep, ClientSends, lengthVars, Calls, Closes
    <3>2. CASE ClientCloses
      BY <3>2 DEF ClientCloses, lengthVars, Calls, Closes
    <3>3. ASSUME NEW n \in 1..(arrived - pos), OnRead(n) \/ ForwardBody(n)
          PROVE  arrived' = arrived /\ pos' > pos /\ Calls' <= Calls /\ Closes' = Closes
      <4>1. /\ arrived' = arrived /\ pos' = pos + n /\ closed' = closed
            /\ \/ stage = "header" /\ stage' \in {"connect", "failed", "header"}
               \/ stage = "body" /\ stage' = "body"
        BY <3>3 DEF OnRead, ForwardBody, clientVars
      <4>2. Calls' <= Calls
        BY <4>1 DEF Calls, CallsLeft
      <4>3. QED BY <2>1, <4>1, <4>2 DEF Closes
    <3>4. CASE SendHeader \/ SendExtraBody \/ BodyDone \/ WriteBack \/ ReadResponse \/ Fails
      <4>1. /\ arrived' = arrived /\ pos' = pos /\ closed' = closed
            /\ \/ stage = "connect"  /\ stage' = "extra"
               \/ stage = "extra"    /\ stage' = "body"
               \/ stage = "body"     /\ stage' = "response"
               \/ stage = "response" /\ stage' = "reply"
               \/ stage = "reply"    /\ stage' = "done"
               \/ stage \in Stages   /\ stage' = "failed"
        BY <3>4 DEF SendHeader, SendExtraBody, BodyDone, WriteBack, ReadResponse, Fails,
                    clientVars
      <4>2. Calls' < Calls
        BY <4>1 DEF Calls, CallsLeft, Stages
      <4>3. QED BY <4>1, <4>2 DEF Closes
    <3>5. QED BY <3>1, <3>2, <3>3, <3>4 DEF ForwardNext, HandlerStep
  <2>6. /\ Distance = (Stream - arrived) + (Stream - pos) + Calls + Closes
        /\ Distance' = (Stream - arrived') + (Stream - pos') + Calls' + Closes'
    BY <2>4 DEF Distance
  <2>7. arrived <= Stream /\ arrived' <= Stream
    BY <2>4 DEF ArrivedOfStream
  <2>8. PICK a \in Nat, p \in Nat, k \in Nat, c \in Nat :
          a = arrived' /\ p = pos' /\ k = Calls' /\ c = Closes'
    BY <2>1, <2>2
  <2>9. /\ \/ a > arrived /\ p = pos /\ k = Calls /\ c = Closes
           \/ a = arrived /\ p = pos /\ k = Calls /\ c < Closes
           \/ a = arrived /\ p > pos /\ k <= Calls /\ c = Closes
           \/ a = arrived /\ p = pos /\ k < Calls /\ c = Closes
        /\ p \in 0..a /\ a <= Stream
    BY <2>1, <2>5, <2>7, <2>8, Zenon
  <2>10. /\ (Stream - a) + (Stream - p) + k + c \in Nat
         /\ (Stream - a) + (Stream - p) + k + c
              < (Stream - arrived) + (Stream - pos) + Calls + Closes
    BY <2>1, <2>2, <2>7, <2>9
  <2>11. QED BY <2>6, <2>8, <2>10, Zenon
<1>2. QED BY <1>1, ForwardTypeCorrect, ArrivedInvariant, PTL DEF ForwardSpec, RequestAdvances

-----------------------------------------------------------------------------

(* The stages of a forwarded request, as those of Handler: what follows    *)
(* the header is sent before the rest of the body is read.                 *)
Phase ==
  [header |-> "header", connect |-> "connect", extra |-> "send", body |-> "body",
   response |-> "response", reply |-> "reply", done |-> "done", failed |-> "done"][stage]
Handling == INSTANCE Handler WITH phase <- Phase

(* The steps of a forwarded request, down to buffers and lengths, are the  *)
(* handler that Gateway composes with the pool of threads.                 *)
THEOREM ForwardImplementsHandler == ForwardSpec => Handling!HandlerSpec
<1>1. ForwardInit => Handling!HandlerInit
  BY DEF ForwardInit, Handling!HandlerInit, Phase
<1>2. ASSUME [ForwardNext]_forwardVars PROVE [Handling!HandlerNext]_Phase
  <2>1. CASE stage' = stage
    BY <2>1, Zenon DEF Phase
  <2>2. CASE stage' # stage
    <3>1. \/ stage = "header" /\ stage' = "connect"
          \/ stage = "connect" /\ stage' = "extra"
          \/ stage = "extra" /\ stage' = "body"
          \/ stage = "body" /\ stage' = "response"
          \/ stage = "response" /\ stage' = "reply"
          \/ stage \in Stages /\ stage' \in Ended
      BY <1>2, <2>2 DEF ForwardNext, ClientStep, ClientSends, ClientCloses, HandlerStep,
         OnRead, ForwardBody, SendHeader, SendExtraBody, BodyDone, WriteBack, ReadResponse,
         Fails, forwardVars, Stages, Ended
    <3>2. \/ Phase = "header" /\ Phase' = "connect"
          \/ Phase = "connect" /\ Phase' = "send"
          \/ Phase = "send" /\ Phase' = "body"
          \/ Phase = "body" /\ Phase' = "response"
          \/ Phase = "response" /\ Phase' = "reply"
          \/ Phase \notin {"done", "crashed"} /\ Phase' = "done"
      BY <3>1 DEF Phase, Stages, Ended
    <3>3. QED
      BY <3>2 DEF Handling!HandlerNext, Handling!Route, Handling!Advance, Handling!End
  <2>3. QED BY <2>1, <2>2
<1>3. QED BY <1>1, <1>2, PTL DEF ForwardSpec, Handling!HandlerSpec
=============================================================================
