------------------------------ MODULE Handler ------------------------------
(***************************************************************************)
(* The life of one HttpProxyHandler (core/include/services.hpp), as the    *)
(* sequence of the blocking calls it is in.  Gateway has one for each      *)
(* connection; HttpForward and LocalResponse have the details of two kinds *)
(* of requests.  All three implement this module, which is what makes      *)
(* Gateway's account of a handler theirs.                                  *)
(***************************************************************************)
VARIABLE phase

Forwarding == {"connect", "send", "body", "response", "reply"}
Phases == {"header", "notFound", "local", "localBody"} \cup Forwarding
            \cup {"done", "crashed"}

(* Start(): the header is being read.                                      *)
HandlerInit == phase = "header"

(* route() has the whole request.                                          *)
Route ==
  /\ phase = "header"
  /\ phase' \in {"notFound", "local", "connect"}

(* The next blocking call, after one that succeeded.                       *)
Advance ==
  \/ phase = "local"    /\ phase' = "localBody"
  \/ phase = "connect"  /\ phase' = "send"
  \/ phase = "send"     /\ phase' = "body"
  \/ phase = "body"     /\ phase' = "response"
  \/ phase = "response" /\ phase' = "reply"

(* The handler is through: the answer is written, or a call has failed.    *)
End ==
  /\ phase \notin {"done", "crashed"}
  /\ phase' = "done"

(* file_size() throws and takes the process with it.                       *)
Crash ==
  /\ phase = "local"
  /\ phase' = "crashed"

HandlerNext == Route \/ Advance \/ End \/ Crash

HandlerSpec == HandlerInit /\ [][HandlerNext]_phase
=============================================================================
