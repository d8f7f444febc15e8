--------------------------- MODULE WebSocketRelay ---------------------------
(***************************************************************************)
(* One WebSocket session: handleWebSocketRequest(),                        *)
(* readWebSocketPayloadFromSource() and onWebSocketRead() of               *)
(* core/include/services.hpp.  After a setup of blocking calls two loops   *)
(* run, one for each end: read a message from the end, write it to the     *)
(* other end, read again.  The two loops may run on two threads and share  *)
(* both streams without a strand.                                          *)
(*                                                                         *)
(* A loop is named by the end it reads from.  The i-th message of an end   *)
(* is the number i; data_buffer and a written message are sequences of     *)
(* such numbers.                                                           *)
(***************************************************************************)
EXTENDS Naturals, Sequences, FiniteSets

CONSTANT MaxMessages   \* bound: messages one end sends

ASSUME RelayAssumption == MaxMessages \in Nat

VARIABLES
  setup,       \* the call handleWebSocketRequest() is at
  loop,        \* where each loop is
  sent,        \* messages each end has sent
  taken,       \* messages async_read has taken from each end
  data_buffer, \* the buffer of each loop
  received,    \* the messages written to each end and received by it
  open,        \* ends whose connection is up
  replying,    \* ends whose async_read is writing a pong or a close frame
  broken,      \* ends that were sent the bytes of two writes mixed up
  callbacks    \* calls of async_accpet_cb_

loopVars  == <<loop, taken, data_buffer>>
relayVars == <<setup, loopVars, sent, received, open, replying, broken, callbacks>>

Ends == {"source", "target"}
Peer(e) == IF e = "source" THEN "target" ELSE "source"

Steps == <<"accept", "resolve", "connect", "handshake", "relay">>

-----------------------------------------------------------------------------
(* "ssl" stands for a handler on a TLS stream.                             *)
RelayInit ==
  /\ setup \in {"ssl", "accept"}
  /\ loop = [e \in Ends |-> "off"]
  /\ sent = [e \in Ends |-> 0]
  /\ taken = [e \in Ends |-> 0]
  /\ data_buffer = [e \in Ends |-> <<>>]
  /\ received = [e \in Ends |-> <<>>]
  /\ open = Ends
  /\ replying = {}
  /\ broken = {}
  /\ callbacks = 0

(* WebSocket over TLS is not implemented, and every call of the setup may  *)
(* fail: the handler ends.                                                 *)
SetupFails ==
  /\ setup \notin {"relay", "failed"}
  /\ setup' = "failed"
  /\ callbacks' = callbacks + 1
  /\ UNCHANGED <<loopVars, sent, received, open, replying, broken>>

(* accept(), resolve(), connect() and handshake() in turn; after the last  *)
(* of them the first async_read of both loops is started.                  *)
SetupStep ==
  \E i \in 1..4 :
    /\ setup = Steps[i]
    /\ setup' = Steps[i + 1]
    /\ loop' = IF i = 4 THEN [e \in Ends |-> "reading"] ELSE loop
    /\ UNCHANGED <<taken, data_buffer, sent, received, open, replying, broken, callbacks>>

-----------------------------------------------------------------------------
(* An end sends a message once its handshake is over, or goes away.        *)
EndSends(e) ==
  /\ e \in open /\ sent[e] < MaxMessages
  /\ setup \in (IF e = "source" THEN {"resolve", "connect", "handshake"} ELSE {})
               \cup {"relay"}
  /\ sent' = [sent EXCEPT ![e] = @ + 1]
  /\ UNCHANGED <<setup, loopVars, received, open, replying, broken, callbacks>>

EndCloses(e) ==
  /\ e \in open
  /\ open' = open \ {e}
  /\ UNCHANGED <<setup, loopVars, sent, received, replying, broken, callbacks>>

(* async_read answers a ping or a close frame by a write of its own, which *)
(* may overlap the write of the other loop to the same stream.             *)
ReplyStarts(e) ==
  /\ loop[e] = "reading" /\ e \notin replying
  /\ replying' = replying \cup {e}
  /\ broken' = IF loop[Peer(e)] = "writing" THEN broken \cup {e} ELSE broken
  /\ UNCHANGED <<setup, loopVars, sent, received, open, callbacks>>

ReplyEnds(e) ==
  /\ e \in replying
  /\ replying' = replying \ {e}
  /\ UNCHANGED <<setup, loopVars, sent, received, open, broken, callbacks>>

-----------------------------------------------------------------------------
(* async_read puts one message into the buffer and onWebSocketRead()       *)
(* starts to write the buffer to the other end.                            *)
ReadMessage(e) ==
  /\ loop[e] = "reading" /\ e \notin replying
  /\ taken[e] < sent[e]
  /\ taken' = [taken EXCEPT ![e] = @ + 1]
  /\ data_buffer' = [data_buffer EXCEPT ![e] = Append(@, taken[e] + 1)]
  /\ loop' = [loop EXCEPT ![e] = "writing"]
  /\ broken' = IF Peer(e) \in replying THEN broken \cup {Peer(e)} ELSE broken
  /\ UNCHANGED <<setup, sent, received, open, replying, callbacks>>

(* Slip: the loop ends without its callback.                               *)
LoopEndsSilently(e) ==
  /\ loop' = [loop EXCEPT ![e] = "ended"]
  /\ UNCHANGED <<setup, taken, data_buffer, sent, received, open, replying, broken, callbacks>>

(* A read or a write failed: the callback, and no further read.            *)
LoopEnds(e) ==
  /\ loop' = [loop EXCEPT ![e] = "ended"]
  /\ callbacks' = callbacks + 1
  /\ UNCHANGED <<setup, taken, data_buffer, sent, received, open, replying, broken>>

(* Slip: a read that failed is simply tried again.                         *)
ReadAgain(e) ==
  /\ loop[e] = "reading" /\ e \notin replying
  /\ e \notin open
  /\ UNCHANGED relayVars

ReadFails(e) ==
  /\ loop[e] = "reading" /\ e \notin replying
  /\ e \notin open
  /\ LoopEnds(e)

(* The end gets the whole message if it is there and the stream is sound.  *)
Written(e) ==
  IF Peer(e) \in open \ broken
    THEN [received EXCEPT ![Peer(e)] = Append(@, data_buffer[e])]
    ELSE received

(* Slip: the loop writes and does not read again.                          *)
WriteAndRest(e) ==
  /\ loop[e] = "writing"
  /\ received' = Written(e)
  /\ data_buffer' = [data_buffer EXCEPT ![e] = Tail(@)]
  /\ loop' = [loop EXCEPT ![e] = "resting"]
  /\ UNCHANGED <<setup, taken, sent, open, replying, broken, callbacks>>

(* Slip: what was written stays in the buffer.                             *)
WriteUnconsumed(e) ==
  /\ loop[e] = "writing"
  /\ received' = Written(e)
  /\ loop' = [loop EXCEPT ![e] = "reading"]
  /\ UNCHANGED <<setup, taken, data_buffer, sent, open, replying, broken, callbacks>>

(* write() returns, consume() removes the message read last, and the next  *)
(* async_read is started.  Into a connection that is gone, write() may     *)
(* still succeed; it may also fail.                                        *)
WriteMessage(e) ==
  /\ loop[e] = "writing"
  /\ received' = Written(e)
  /\ data_buffer' = [data_buffer EXCEPT ![e] = Tail(@)]
  /\ loop' = [loop EXCEPT ![e] = "reading"]
  /\ UNCHANGED <<setup, taken, sent, open, replying, broken, callbacks>>

WriteFails(e) ==
  /\ loop[e] = "writing"
  /\ Peer(e) \notin open
  /\ LoopEnds(e)

LoopStep(e) == ReadMessage(e) \/ ReadFails(e) \/ WriteMessage(e) \/ WriteFails(e)

RelayNext ==
  \/ SetupFails \/ SetupStep
  \/ \E e \in Ends :
       EndSends(e) \/ EndCloses(e) \/ ReplyStarts(e) \/ ReplyEnds(e) \/ LoopStep(e)

RelaySpec == RelayInit /\ [][RelayNext]_relayVars

(* The io_context's threads run the completions, and an end that is there  *)
(* reads what is written to it, so that blocking writes return.  An end    *)
(* may ping without pause, but the read between two pings comes through.   *)
RelayFairSpec ==
  /\ RelaySpec
  /\ \A e \in Ends : /\ WF_relayVars(ReplyEnds(e))
                     /\ SF_relayVars(LoopStep(e))

-----------------------------------------------------------------------------
(* Types; a session calls back twice at most, whichever of its reads and   *)
(* writes fail.                                                            *)
RelayTypeOK ==
  /\ setup \in {"ssl", "accept", "resolve", "connect", "handshake", "relay", "failed"}
  /\ loop \in [Ends -> {"off", "reading", "writing", "ended"}]
  /\ sent \in [Ends -> Nat]
  /\ taken \in [Ends -> Nat]
  /\ data_buffer \in [Ends -> Seq(Nat)]
  /\ received \in [Ends -> Seq(Seq(Nat))]
  /\ open \subseteq Ends /\ replying \subseteq Ends /\ broken \subseteq Ends
  /\ callbacks \in 0..2

Upstream ==
  INSTANCE Pipe WITH produced <- sent["source"], delivered <- received["target"]
Downstream ==
  INSTANCE Pipe WITH produced <- sent["target"], delivered <- received["source"]

(* In both directions the session is a Pipe: an end receives the other     *)
(* end's messages as they were sent, none merged with another, repeated,   *)
(* skipped or overtaken, wherever the session breaks off.                  *)
RelaysInOrder == Upstream!PipeSpec /\ Downstream!PipeSpec

(* The callback runs once for a setup that fails and once for each loop    *)
(* that ends, so a session re-arms two accepts, not one.                   *)
CallbackPerEnd ==
  callbacks = (IF setup = "failed" THEN 1 ELSE 0)
                + Cardinality({e \in Ends : loop[e] = "ended"})

(* A message is delivered unless an end goes away or a stream is broken by *)
(* overlapping writes.                                                     *)
MessageDelivered ==
  \A e \in Ends, n \in 1..MaxMessages :
    setup = "relay" /\ sent[e] >= n
      ~> Len(received[Peer(e)]) >= n \/ open # Ends \/ broken # {}

(* Once both ends are gone both loops end: neither waits for the other.    *)
SessionEnds ==
  setup = "relay" /\ open = {} ~> \A e \in Ends : loop[e] = "ended"
=============================================================================
