------------------------ MODULE WebSocketRelayProofs ------------------------
(***************************************************************************)
(* Proofs about WebSocketRelay: a session relays in order in both          *)
(* directions, for any number of messages.                                 *)
(***************************************************************************)
EXTENDS WebSocketRelay, FiniteSetTheorems, TLAPS

(* One loop between two of its steps: its buffer holds the message being   *)
(* written and nothing else, and as long as the other end can receive, it  *)
(* has received all that was taken but that message.                       *)
LoopSound(e) ==
  /\ taken[e] <= sent[e]
  /\ Len(received[Peer(e)]) <= taken[e]
  /\ loop[e] \in {"off", "reading"} => data_buffer[e] = <<>>
  /\ loop[e] = "writing" => taken[e] > 0 /\ data_buffer[e] = <<taken[e]>>
  /\ Peer(e) \in open \ broken /\ loop[e] # "ended" =>
       Len(received[Peer(e)]) = IF loop[e] = "writing" THEN taken[e] - 1 ELSE taken[e]
  /\ setup # "relay" => loop[e] = "off"

EndCount(e) == IF loop[e] = "ended" THEN 1 ELSE 0

CallbacksCounted ==
  callbacks = (IF setup = "failed" THEN 1 ELSE 0) + EndCount("source") + EndCount("target")

RelayShape ==
  /\ setup \in {"ssl", "accept", "resolve", "connect", "handshake", "relay", "failed"}
  /\ loop \in [Ends -> {"off", "reading", "writing", "ended"}]
  /\ sent \in [Ends -> Nat]
  /\ taken \in [Ends -> Nat]
  /\ data_buffer \in [Ends -> Seq(Nat)]
  /\ received \in [Ends -> Seq(Seq(Nat))]
  /\ open \subseteq Ends /\ replying \subseteq Ends /\ broken \subseteq Ends

RelayInv == RelayShape /\ CallbacksCounted /\ \A e \in Ends : LoopSound(e)

-----------------------------------------------------------------------------

(* What a step that completes a write does to the two sequences.           *)
LEMMA AppendFacts ==
  ASSUME NEW S, NEW s \in Seq(S), NEW x \in S
  PROVE  Append(s, x) \in Seq(S) /\ Len(Append(s, x)) = Len(s) + 1
  OBVIOUS

(* consume() of the one message empties the buffer.                        *)
LEMMA TailOfOne ==
  ASSUME NEW x PROVE Tail(<<x>>) = <<>>
  OBVIOUS

(* A message read into an empty buffer is all there is in it.              *)
LEMMA AppendToNone ==
  ASSUME NEW x PROVE Append(<<>>, x) = <<x>>
  OBVIOUS

(* A session starts with empty buffers and no callback.                    *)
LEMMA InvInit == RelayInit => RelayInv
  BY DEF RelayInit, RelayInv, RelayShape, CallbacksCounted, EndCount, LoopSound, Ends, Peer

(* A loop that a step leaves alone stays sound: its end may send more and  *)
(* the other end may go away or be broken meanwhile.                       *)
LEMMA LoopFrame ==
  ASSUME RelayShape, NEW e \in Ends, LoopSound(e),
         loop'[e] = loop[e], taken'[e] = taken[e], data_buffer'[e] = data_buffer[e],
         received'[Peer(e)] = received[Peer(e)],
         sent'[e] \in Nat, sent[e] <= sent'[e],
         open' \subseteq open, broken \subseteq broken',
         setup' # "relay" => setup # "relay"
  PROVE  LoopSound(e)'
<1>1. taken[e] \in Nat /\ sent[e] \in Nat
  BY DEF RelayShape
<1>2. Peer(e) \in open' \ broken' => Peer(e) \in open \ broken
  OBVIOUS
<1>3. QED BY <1>1, <1>2 DEF LoopSound

(* The callbacks are accounted for by a step that moves no loop.           *)
LEMMA CallbacksFrame ==
  ASSUME CallbacksCounted, loop' = loop, setup' = setup, callbacks' = callbacks
  PROVE  CallbacksCounted'
  BY Zenon DEF CallbacksCounted, EndCount

(* The other end of the other end.                                         *)
LEMMA PeerFacts ==
  ASSUME NEW e \in Ends
  PROVE  /\ Peer(e) \in Ends /\ Peer(e) # e
         /\ \A f \in Ends : f # e => f = Peer(e) /\ Peer(f) = e
  BY DEF Ends, Peer

(* A loop that ends without being counted yet adds one.                    *)
LEMMA OneLoopEnds ==
  ASSUME RelayShape, CallbacksCounted, NEW e \in Ends, loop[e] # "ended",
         loop' = [loop EXCEPT ![e] = "ended"], setup' = setup,
         callbacks' = callbacks + 1
  PROVE  CallbacksCounted'
<1>1. EndCount(e) = 0 /\ EndCount(e)' = 1 /\ EndCount(Peer(e))' = EndCount(Peer(e))
  BY PeerFacts DEF RelayShape, EndCount
<1>2. EndCount("source") \in 0..1 /\ EndCount("target") \in 0..1
  BY DEF EndCount
<1>3. CASE e = "source"
  <2>1. Peer(e) = "target"
    BY <1>3 DEF Peer
  <2>2. QED BY <1>1, <1>2, <1>3, <2>1 DEF CallbacksCounted
<1>4. CASE e = "target"
  <2>1. Peer(e) = "source"
    BY <1>4 DEF Peer
  <2>2. QED BY <1>1, <1>2, <1>4, <2>1 DEF CallbacksCounted
<1>5. QED BY <1>3, <1>4 DEF Ends

(* A loop that goes on without having ended adds none.                     *)
LEMMA NoLoopEnds ==
  ASSUME RelayShape, CallbacksCounted, NEW e \in Ends, NEW at \in {"reading", "writing"},
         loop[e] # "ended", loop' = [loop EXCEPT ![e] = at], setup' = setup,
         callbacks' = callbacks
  PROVE  CallbacksCounted'
<1>1. \A f \in Ends : loop'[f] = "ended" <=> loop[f] = "ended"
  BY DEF RelayShape
<1>2. EndCount("source")' = EndCount("source") /\ EndCount("target")' = EndCount("target")
  BY <1>1 DEF EndCount, Ends
<1>3. QED BY <1>2 DEF CallbacksCounted

(* The setup leaves the loops off until it starts both of them.            *)
LEMMA SetupKeeps == RelayInv /\ (SetupFails \/ SetupStep) => RelayInv'
<1> SUFFICES ASSUME RelayInv, SetupFails \/ SetupStep PROVE RelayInv'
  OBVIOUS
<1>1. /\ setup # "relay" /\ setup # "failed"
      /\ loop["source"] = "off" /\ loop["target"] = "off"
  <2>1. setup # "relay" /\ setup # "failed"
    BY DEF SetupFails, SetupStep, Steps
  <2>2. QED BY <2>1 DEF RelayInv, LoopSound, Ends
<1>2. callbacks = 0
  BY <1>1 DEF RelayInv, CallbacksCounted, EndCount
<1>3. ASSUME SetupFails PROVE RelayInv'
  <2> USE <1>3 DEF SetupFails, loopVars
  <2>1. RelayShape'
    BY DEF RelayInv, RelayShape
  <2>2. CallbacksCounted'
    BY <1>1, <1>2 DEF CallbacksCounted, EndCount
  <2>3. ASSUME NEW e \in Ends PROVE LoopSound(e)'
    <3>1. sent[e] \in Nat
      BY DEF RelayInv, RelayShape
    <3>2. QED BY <1>1, <3>1, LoopFrame DEF RelayInv
  <2>4. QED BY <2>1, <2>2, <2>3 DEF RelayInv
<1>4. ASSUME SetupStep PROVE RelayInv'
  <2>1. PICK i \in 1..4 :
          /\ setup = Steps[i] /\ setup' = Steps[i + 1]
          /\ loop' = IF i = 4 THEN [e \in Ends |-> "reading"] ELSE loop
          /\ UNCHANGED <<taken, data_buffer, sent, received, open, replying, broken, callbacks>>
    BY <1>4 DEF SetupStep
  <2>2. /\ setup' \in {"resolve", "connect", "handshake", "relay"}
        /\ i = 4 <=> setup' = "relay"
    BY <2>1 DEF Steps
  <2>3. RelayShape'
    BY <2>1, <2>2 DEF RelayInv, RelayShape
  <2>4. loop'["source"] # "ended" /\ loop'["target"] # "ended"
    BY <1>1, <2>1 DEF Ends
  <2>5. CallbacksCounted'
    BY <1>2, <2>1, <2>2, <2>4 DEF CallbacksCounted, EndCount
  <2>6. ASSUME NEW e \in Ends PROVE LoopSound(e)'
    <3>1. loop[e] = "off" /\ LoopSound(e) /\ taken[e] \in Nat
      BY <1>1 DEF RelayInv, RelayShape, Ends
    <3>2. loop'[e] = IF setup' = "relay" THEN "reading" ELSE "off"
      BY <2>1, <2>2, <3>1
    <3>3. QED BY <2>1, <2>2, <3>1, <3>2 DEF LoopSound
  <2>7. QED BY <2>3, <2>5, <2>6 DEF RelayInv
<1>5. QED BY <1>3, <1>4

(* What the ends do on their own leaves every loop where it is.            *)
LEMMA EndsKeep ==
  ASSUME RelayInv, NEW e \in Ends,
         EndSends(e) \/ EndCloses(e) \/ ReplyStarts(e) \/ ReplyEnds(e)
  PROVE  RelayInv'
<1>1. /\ loop' = loop /\ taken' = taken /\ data_buffer' = data_buffer
      /\ received' = received /\ setup' = setup /\ callbacks' = callbacks
  BY DEF EndSends, EndCloses, ReplyStarts, ReplyEnds, loopVars
<1>2. open' \subseteq open /\ broken \subseteq broken' /\ broken' \subseteq Ends
  BY DEF EndSends, EndCloses, ReplyStarts, ReplyEnds, RelayInv, RelayShape
<1>3. replying' \subseteq Ends
  BY DEF EndSends, EndCloses, ReplyStarts, ReplyEnds, RelayInv, RelayShape
<1>4. sent' \in [Ends -> Nat] /\ \A f \in Ends : sent[f] <= sent'[f]
  <2>1. sent \in [Ends -> Nat]
    BY DEF RelayInv, RelayShape
  <2>2. sent' = sent \/ sent' = [sent EXCEPT ![e] = @ + 1]
    BY DEF EndSends, EndCloses, ReplyStarts, ReplyEnds
  <2>3. QED BY <2>1, <2>2
<1>5. RelayShape'
  BY <1>1, <1>2, <1>3, <1>4 DEF RelayInv, RelayShape
<1>6. CallbacksCounted'
  BY <1>1, CallbacksFrame DEF RelayInv
<1>7. ASSUME NEW f \in Ends PROVE LoopSound(f)'
  BY <1>1, <1>2, <1>4, LoopFrame DEF RelayInv
<1>8. QED BY <1>5, <1>6, <1>7 DEF RelayInv

(* A message read into the empty buffer is the one to be written.          *)
LEMMA ReadKeeps ==
  ASSUME RelayInv, NEW e \in Ends, ReadMessage(e)
  PROVE  RelayInv'
<1>1. /\ loop[e] = "reading" /\ taken[e] < sent[e]
      /\ taken' = [taken EXCEPT ![e] = @ + 1]
      /\ data_buffer' = [data_buffer EXCEPT ![e] = Append(@, taken[e] + 1)]
      /\ loop' = [loop EXCEPT ![e] = "writing"]
      /\ broken' \in {broken, broken \cup {Peer(e)}}
      /\ UNCHANGED <<setup, sent, received, open, replying, callbacks>>
  BY DEF ReadMessage
<1>2. RelayShape /\ CallbacksCounted /\ \A f \in Ends : LoopSound(f)
  BY DEF RelayInv
<1>3. data_buffer[e] = <<>> /\ taken[e] \in Nat /\ setup = "relay"
  BY <1>1, <1>2 DEF LoopSound, RelayShape
<1>4. /\ taken'[e] = taken[e] + 1 /\ loop'[e] = "writing"
      /\ data_buffer'[e] = <<taken[e] + 1>>
      /\ \A f \in Ends : f # e => /\ taken'[f] = taken[f] /\ loop'[f] = loop[f]
                                  /\ data_buffer'[f] = data_buffer[f]
  <2>1. Append(data_buffer[e], taken[e] + 1) = <<taken[e] + 1>>
    BY <1>3, AppendToNone
  <2>2. QED BY <1>1, <1>2, <2>1 DEF RelayShape
<1>5. RelayShape'
  <2>1. taken' \in [Ends -> Nat] /\ loop' \in [Ends -> {"off", "reading", "writing", "ended"}]
    BY <1>1, <1>2 DEF RelayShape
  <2>2. data_buffer' \in [Ends -> Seq(Nat)]
    <3>1. Append(data_buffer[e], taken[e] + 1) \in Seq(Nat)
      BY <1>2, <1>3, AppendFacts DEF RelayShape
    <3>2. QED BY <1>1, <1>2, <3>1 DEF RelayShape
  <2>3. broken' \subseteq Ends
    BY <1>1, <1>2, PeerFacts DEF RelayShape
  <2>4. QED BY <1>1, <1>2, <2>1, <2>2, <2>3 DEF RelayShape
<1>6. CallbacksCounted'
  <2>1. loop[e] # "ended" /\ setup' = setup /\ callbacks' = callbacks
    BY <1>1
  <2>2. QED BY <1>1, <1>2, <2>1, NoLoopEnds
<1>7. LoopSound(e)'
  <2>1. Len(received[Peer(e)]) <= taken[e] /\ Len(received[Peer(e)]) \in Nat /\ sent[e] \in Nat
    BY <1>2, PeerFacts DEF LoopSound, RelayShape
  <2>2. Peer(e) \in open' \ broken' => Len(received[Peer(e)]) = taken[e]
    BY <1>1, <1>2 DEF LoopSound
  <2>3. received' = received /\ sent' = sent /\ setup' = "relay"
    BY <1>1, <1>3
  <2>4. QED BY <1>1, <1>3, <1>4, <2>1, <2>2, <2>3 DEF LoopSound
<1>8. ASSUME NEW f \in Ends, f # e PROVE LoopSound(f)'
  <2>1. sent[f] \in Nat
    BY <1>2 DEF RelayShape
  <2>2. broken \subseteq broken' /\ open' = open /\ setup' = setup /\ sent' = sent
        /\ received' = received
    BY <1>1
  <2>3. QED BY <1>2, <1>4, <1>8, <2>1, <2>2, LoopFrame
<1>9. QED BY <1>5, <1>6, <1>7, <1>8 DEF RelayInv

(* A loop ends with its callback.                                          *)
LEMMA LoopEndKeeps ==
  ASSUME RelayInv, NEW e \in Ends, loop[e] \in {"reading", "writing"}, LoopEnds(e)
  PROVE  RelayInv'
<1>1. /\ loop' = [loop EXCEPT ![e] = "ended"] /\ callbacks' = callbacks + 1
      /\ UNCHANGED <<setup, taken, data_buffer, sent, received, open, replying, broken>>
  BY DEF LoopEnds
<1>2. RelayShape /\ CallbacksCounted /\ \A f \in Ends : LoopSound(f)
  BY DEF RelayInv
<1>3. RelayShape'
  BY <1>1, <1>2 DEF RelayShape
<1>4. CallbacksCounted'
  <2>1. loop[e] # "ended" /\ setup' = setup
    BY <1>1
  <2>2. QED BY <1>1, <1>2, <2>1, OneLoopEnds
<1>5. LoopSound(e)'
  <2>1. loop'[e] = "ended" /\ setup = "relay"
    BY <1>1, <1>2 DEF RelayShape, LoopSound
  <2>2. QED BY <1>1, <1>2, <2>1 DEF LoopSound
<1>6. ASSUME NEW f \in Ends, f # e PROVE LoopSound(f)'
  <2>1. loop'[f] = loop[f] /\ sent[f] \in Nat
    BY <1>1, <1>2, <1>6 DEF RelayShape
  <2>2. QED BY <1>1, <1>2, <2>1, LoopFrame
<1>7. QED BY <1>3, <1>4, <1>5, <1>6 DEF RelayInv

(* A message written leaves its buffer and, if the other end can receive,  *)
(* is there.                                                               *)
LEMMA WriteKeeps ==
  ASSUME RelayInv, NEW e \in Ends, WriteMessage(e)
  PROVE  RelayInv'
<1>1. /\ loop[e] = "writing" /\ received' = Written(e)
      /\ data_buffer' = [data_buffer EXCEPT ![e] = Tail(@)]
      /\ loop' = [loop EXCEPT ![e] = "reading"]
      /\ UNCHANGED <<setup, taken, sent, open, replying, broken, callbacks>>
  BY DEF WriteMessage
<1>2. RelayShape /\ CallbacksCounted /\ \A f \in Ends : LoopSound(f)
  BY DEF RelayInv
<1>3. /\ taken[e] > 0 /\ taken[e] \in Nat /\ taken[e] <= sent[e] /\ setup = "relay"
      /\ data_buffer[e] = <<taken[e]>> /\ data_buffer[e] \in Seq(Nat)
      /\ Len(received[Peer(e)]) <= taken[e]
      /\ Peer(e) \in open \ broken => Len(received[Peer(e)]) = taken[e] - 1
  BY <1>1, <1>2 DEF LoopSound, RelayShape
<1>4. /\ loop'[e] = "reading" /\ data_buffer'[e] = <<>>
      /\ \A f \in Ends : f # e => loop'[f] = loop[f] /\ data_buffer'[f] = data_buffer[f]
      /\ data_buffer' \in [Ends -> Seq(Nat)]
  <2>1. Tail(data_buffer[e]) = <<>>
    BY <1>3, TailOfOne
  <2>2. <<>> \in Seq(Nat)
    OBVIOUS
  <2>3. data_buffer' = [data_buffer EXCEPT ![e] = <<>>]
    BY <1>1, <2>1
  <2>4. QED BY <1>1, <1>2, <2>2, <2>3 DEF RelayShape
<1>5. /\ received' \in [Ends -> Seq(Seq(Nat))]
      /\ received'[e] = received[e]
      /\ Len(received'[Peer(e)]) = IF Peer(e) \in open \ broken
                                    THEN Len(received[Peer(e)]) + 1
                                    ELSE Len(received[Peer(e)])
  <2>1. received \in [Ends -> Seq(Seq(Nat))] /\ received[Peer(e)] \in Seq(Seq(Nat))
        /\ Peer(e) \in Ends /\ Peer(e) # e
    BY <1>2, PeerFacts DEF RelayShape
  <2> DEFINE more == Append(received[Peer(e)], data_buffer[e])
  <2>2. more \in Seq(Seq(Nat)) /\ Len(more) = Len(received[Peer(e)]) + 1
    BY <1>3, <2>1, AppendFacts
  <2>3. received' = IF Peer(e) \in open \ broken
                      THEN [received EXCEPT ![Peer(e)] = more] ELSE received
    BY <1>1 DEF Written
  <2> HIDE DEF more
  <2>4. QED BY <2>1, <2>2, <2>3
<1>6. RelayShape'
  BY <1>1, <1>2, <1>4, <1>5 DEF RelayShape
<1>7. CallbacksCounted'
  <2>1. loop[e] # "ended" /\ setup' = setup /\ callbacks' = callbacks
    BY <1>1
  <2>2. QED BY <1>1, <1>2, <2>1, NoLoopEnds
<1>8. LoopSound(e)'
  <2>1. Len(received[Peer(e)]) \in Nat
    BY <1>2, PeerFacts DEF RelayShape
  <2>2. /\ taken' = taken /\ sent' = sent /\ open' = open /\ broken' = broken
        /\ setup' = "relay"
    BY <1>1, <1>3
  <2>3. Len(received'[Peer(e)]) <= taken[e]
    BY <1>3, <1>5, <2>1
  <2>4. ASSUME Peer(e) \in open \ broken PROVE Len(received'[Peer(e)]) = taken[e]
    <3>1. Len(received'[Peer(e)]) = Len(received[Peer(e)]) + 1
      BY <1>5, <2>4
    <3>2. Len(received[Peer(e)]) = taken[e] - 1
      BY <1>3, <2>4
    <3>3. QED BY <1>3, <3>1, <3>2
  <2>5. QED BY <1>3, <1>4, <2>2, <2>3, <2>4 DEF LoopSound
<1>9. ASSUME NEW f \in Ends, f # e PROVE LoopSound(f)'
  <2>1. sent[f] \in Nat /\ Peer(f) = e
    BY <1>2, <1>9, PeerFacts DEF RelayShape
  <2>2. received'[Peer(f)] = received[Peer(f)]
    BY <1>5, <2>1
  <2>3. /\ taken' = taken /\ sent' = sent /\ setup' = setup
        /\ open' \subseteq open /\ broken \subseteq broken'
    BY <1>1
  <2>4. loop'[f] = loop[f] /\ data_buffer'[f] = data_buffer[f]
    BY <1>4, <1>9
  <2>5. sent[f] <= sent'[f] /\ sent'[f] \in Nat
    BY <2>1, <2>3
  <2>6. RelayShape /\ LoopSound(f)
    BY <1>2
  <2>7. QED BY <2>2, <2>3, <2>4, <2>5, <2>6, LoopFrame
<1>10. QED BY <1>6, <1>7, <1>8, <1>9 DEF RelayInv

(* No step of a loop, of the setup or of an end upsets the invariant.      *)
LEMMA InvStep == RelayInv /\ [RelayNext]_relayVars => RelayInv'
<1> SUFFICES ASSUME RelayInv, [RelayNext]_relayVars PROVE RelayInv'
  OBVIOUS
<1>1. CASE SetupFails \/ SetupStep
  BY <1>1, SetupKeeps
<1>2. ASSUME NEW e \in Ends,
             EndSends(e) \/ EndCloses(e) \/ ReplyStarts(e) \/ ReplyEnds(e)
      PROVE  RelayInv'
  BY <1>2, EndsKeep
<1>3. ASSUME NEW e \in Ends, LoopStep(e) PROVE RelayInv'
  <2>1. CASE ReadMessage(e)
    BY <2>1, ReadKeeps
  <2>2. CASE WriteMessage(e)
    BY <2>2, WriteKeeps
  <2>3. CASE ReadFails(e) \/ WriteFails(e)
    <3>1. loop[e] \in {"reading", "writing"} /\ LoopEnds(e)
      BY <2>3 DEF ReadFails, WriteFails
    <3>2. QED BY <3>1, LoopEndKeeps
  <2>4. QED BY <1>3, <2>1, <2>2, <2>3 DEF LoopStep
<1>4. CASE UNCHANGED relayVars
  BY <1>4 DEF relayVars, loopVars, RelayInv, RelayShape, CallbacksCounted, EndCount, LoopSound
<1>5. QED BY <1>1, <1>2, <1>3, <1>4 DEF RelayNext

(* The buffers and the callbacks of a session are accounted for at every   *)
(* moment.                                                                 *)
THEOREM RelayInvariant == RelaySpec => []RelayInv
  BY InvInit, InvStep, PTL DEF RelaySpec

-----------------------------------------------------------------------------

(* Two different things are two.                                           *)
LEMMA CountOfTwo ==
  ASSUME NEW x, NEW y, x # y
  PROVE  Cardinality({x, y}) = 2
<1>1. IsFiniteSet({x}) /\ Cardinality({x}) = 1
  BY FS_Singleton
<1>2. y \notin {x} /\ {x, y} = {x} \cup {y}
  OBVIOUS
<1>3. Cardinality({x} \cup {y}) = Cardinality({x}) + 1
  BY <1>1, <1>2, FS_AddElement
<1>4. QED BY <1>1, <1>2, <1>3

(* How many loops have ended.                                              *)
LEMMA CountOfEnded ==
  ASSUME loop \in [Ends -> {"off", "reading", "writing", "ended"}]
  PROVE  Cardinality({e \in Ends : loop[e] = "ended"})
           = EndCount("source") + EndCount("target")
<1> DEFINE S == {e \in Ends : loop[e] = "ended"}
<1>1. Cardinality({}) = 0 /\ IsFiniteSet({})
  BY FS_EmptySet
<1>2. \A x : Cardinality({x}) = 1
  BY FS_Singleton
<1>3. Cardinality({"source", "target"}) = 2
  BY CountOfTwo
<1>4. CASE loop["source"] = "ended" /\ loop["target"] = "ended"
  <2>1. S = {"source", "target"}
    BY <1>4 DEF Ends
  <2>2. QED BY <1>3, <1>4, <2>1 DEF EndCount
<1>5. CASE loop["source"] = "ended" /\ loop["target"] # "ended"
  <2>1. S = {"source"}
    BY <1>5 DEF Ends
  <2>2. QED BY <1>2, <1>5, <2>1 DEF EndCount
<1>6. CASE loop["source"] # "ended" /\ loop["target"] = "ended"
  <2>1. S = {"target"}
    BY <1>6 DEF Ends
  <2>2. QED BY <1>2, <1>6, <2>1 DEF EndCount
<1>7. CASE loop["source"] # "ended" /\ loop["target"] # "ended"
  <2>1. S = {}
    BY <1>7 DEF Ends
  <2>2. QED BY <1>1, <1>7, <2>1 DEF EndCount
<1>8. QED BY <1>4, <1>5, <1>6, <1>7

(* Every variable of a session keeps its type; in particular no session    *)
(* calls the accept callback more than twice.                              *)
THEOREM RelayTypeCorrect == RelaySpec => []RelayTypeOK
<1>1. RelayInv => RelayTypeOK
  BY DEF RelayInv, RelayShape, CallbacksCounted, EndCount, LoopSound, RelayTypeOK, Ends
<1>2. QED BY <1>1, RelayInvariant, PTL

(* The callback runs once for each loop that ended, or once for a setup    *)
(* that failed.                                                            *)
THEOREM RelayCallsBack == RelaySpec => []CallbackPerEnd
<1>1. RelayInv => CallbackPerEnd
  <2> SUFFICES ASSUME RelayInv PROVE CallbackPerEnd
    OBVIOUS
  <2>1. EndCount("source") \in Nat /\ EndCount("target") \in Nat
    BY DEF EndCount
  <2>2. QED BY <2>1, CountOfEnded DEF RelayInv, RelayShape, CallbacksCounted, CallbackPerEnd
<1>2. QED BY <1>1, RelayInvariant, PTL

(* A step as the pipe from e to the other end sees it.                     *)
PipeStep(e) ==
  LET out == received[Peer(e)]
  IN  \/ sent'[e] \in {sent[e], sent[e] + 1} /\ received'[Peer(e)] = out
      \/ /\ sent'[e] = sent[e]
         /\ Len(out) < sent[e]
         /\ received'[Peer(e)] = Append(out, <<Len(out) + 1>>)

(* A session implements two Pipes: each end receives the messages of the   *)
(* other whole, once and in order, whatever fails and however the loops,   *)
(* the replies to control frames and the ends interleave.                  *)
THEOREM RelayImplementsPipes == RelaySpec => RelaysInOrder
<1>1. RelayInit => Upstream!PipeInit /\ Downstream!PipeInit
  BY DEF RelayInit, Upstream!PipeInit, Downstream!PipeInit, Ends
<1>2. ASSUME RelayInv, [RelayNext]_relayVars, NEW e \in Ends
      PROVE  PipeStep(e)
  <2> USE <1>2 DEF RelayInv, RelayShape, Ends, Peer, PipeStep
  <2>1. ASSUME NEW f \in Ends, EndSends(f) PROVE PipeStep(e)
    BY <2>1 DEF EndSends
  <2>2. ASSUME NEW f \in Ends, WriteMessage(f) PROVE PipeStep(e)
    <3>1. sent' = sent /\ received' = Written(f) /\ loop[f] = "writing"
      BY <2>2 DEF WriteMessage
    <3>2. CASE f # e \/ Peer(f) \notin open \ broken
      BY <3>1, <3>2 DEF Written
    <3>3. CASE f = e /\ Peer(f) \in open \ broken
      <4>1. /\ data_buffer[e] = <<taken[e]>> /\ taken[e] <= sent[e]
            /\ Len(received[Peer(e)]) = taken[e] - 1
        BY <3>1, <3>3 DEF LoopSound
      <4>2. taken[e] \in Nat /\ sent[e] \in Nat
        OBVIOUS
      <4>3. taken[e] = Len(received[Peer(e)]) + 1 /\ Len(received[Peer(e)]) < sent[e]
        BY <4>1, <4>2
      <4>4. received'[Peer(e)] = Append(received[Peer(e)], <<taken[e]>>)
        BY <3>1, <3>3, <4>1 DEF Written
      <4>5. QED BY <3>1, <4>3, <4>4
    <3>4. QED BY <3>2, <3>3
  <2>3. CASE sent' = sent /\ received' = received
    BY <2>3
  <2>4. SetupFails \/ SetupStep \/ UNCHANGED relayVars => sent' = sent /\ received' = received
    BY DEF SetupFails, SetupStep, relayVars
  <2>5. ASSUME NEW f \in Ends,
               \/ EndCloses(f) \/ ReplyStarts(f) \/ ReplyEnds(f)
               \/ ReadMessage(f) \/ ReadFails(f) \/ WriteFails(f)
        PROVE  sent' = sent /\ received' = received
    BY <2>5 DEF EndCloses, ReplyStarts, ReplyEnds, ReadMessage, ReadFails, WriteFails,
                LoopEnds
  <2>6. ASSUME NEW f \in Ends,
               \/ EndSends(f) \/ EndCloses(f) \/ ReplyStarts(f) \/ ReplyEnds(f)
               \/ LoopStep(f)
        PROVE  PipeStep(e)
    <3>1. CASE EndSends(f)
      BY <2>1, <3>1
    <3>2. CASE WriteMessage(f)
      BY <2>2, <3>2
    <3>3. CASE \/ EndCloses(f) \/ ReplyStarts(f) \/ ReplyEnds(f)
               \/ ReadMessage(f) \/ ReadFails(f) \/ WriteFails(f)
      BY <2>3, <2>5, <3>3
    <3>4. QED BY <2>6, <3>1, <3>2, <3>3 DEF LoopStep
  <2>7. CASE SetupFails \/ SetupStep \/ UNCHANGED relayVars
    BY <2>3, <2>4, <2>7
  <2>8. QED BY <1>2, <2>6, <2>7 DEF RelayNext
<1>3. RelayInv /\ [RelayNext]_relayVars
        => [Upstream!Produce \/ Upstream!Deliver]_<<sent["source"], received["target"]>>
  <2> SUFFICES ASSUME RelayInv, [RelayNext]_relayVars
               PROVE  [Upstream!Produce \/ Upstream!Deliver]_<<sent["source"], received["target"]>>
    OBVIOUS
  <2>1. "source" \in Ends /\ Peer("source") = "target"
    BY DEF Ends, Peer
  <2>2. QED BY <1>2, <2>1 DEF PipeStep, Upstream!Produce, Upstream!Deliver
<1>4. RelayInv /\ [RelayNext]_relayVars
        => [Downstream!Produce \/ Downstream!Deliver]_<<sent["target"], received["source"]>>
  <2> SUFFICES ASSUME RelayInv, [RelayNext]_relayVars
               PROVE  [Downstream!Produce \/ Downstream!Deliver]_<<sent["target"], received["source"]>>
    OBVIOUS
  <2>1. "target" \in Ends /\ Peer("target") = "source"
    BY DEF Ends, Peer
  <2>2. QED BY <1>2, <2>1 DEF PipeStep, Downstream!Produce, Downstream!Deliver
<1>5. QED
  BY <1>1, <1>3, <1>4, RelayInvariant, PTL
     DEF RelaySpec, RelaysInOrder, Upstream!PipeSpec, Downstream!PipeSpec
=============================================================================
