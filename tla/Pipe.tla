-------------------------------- MODULE Pipe --------------------------------
(***************************************************************************)
(* What a relay promises of one direction: the messages put in at one end  *)
(* come out at the other one by one, whole, once and in the order they     *)
(* were put in.  A message is the sequence of what it is made of; the i-th *)
(* one put in is <<i>>.  The promise is kept by a relay that stops: what   *)
(* has not come out yet may never do.                                      *)
(***************************************************************************)
EXTENDS Naturals, Sequences

VARIABLES
  produced,   \* number of messages put in
  delivered   \* the messages that came out

PipeInit == produced = 0 /\ delivered = <<>>

Produce ==
  /\ produced' = produced + 1
  /\ UNCHANGED delivered

Deliver ==
  /\ Len(delivered) < produced
  /\ delivered' = Append(delivered, <<Len(delivered) + 1>>)
  /\ UNCHANGED produced

PipeSpec == PipeInit /\ [][Produce \/ Deliver]_<<produced, delivered>>
=============================================================================
