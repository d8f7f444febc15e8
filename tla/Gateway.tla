------------------------------ MODULE Gateway ------------------------------
(***************************************************************************)
(* The serving path of azugate: Server (core/include/server.hpp), Filter,  *)
(* Dispatch (core/src/dispatcher.cc) and HttpProxyHandler                  *)
(* (core/include/services.hpp), composed with the rate limiter that        *)
(* Dispatch asks and whose tick() shares the io_context's threads.         *)
(*                                                                         *)
(* A connection has two sides that may run on two threads at once.  accept *)
(* is what onAccept and Dispatch do with it, up to their last call of      *)
(* Server::accept; handler is the chain of callbacks of its                *)
(* HttpProxyHandler.  Every blocking call (TLS handshake, connect, reads   *)
(* and writes of the body) keeps its thread until the peer lets it return. *)
(* A connection is also the address it comes from.                         *)
(***************************************************************************)
EXTENDS RateLimiter

CONSTANTS
  NumThreads,     \* g_num_threads
  HeaderCap,      \* kMaxHttpHeaderSize, in units of the smallest read
  Banned,         \* addresses the administrator may blacklist
  MaxAcceptErrs,  \* bound: failed accepts queued at one time
  FilesVanish     \* whether a file may go between exists() and file_size()

ASSUME GatewayAssumption ==
  /\ NumThreads \in Nat \ {0}
  /\ HeaderCap \in Nat \ {0}
  /\ Banned \subseteq Callers
  /\ MaxAcceptErrs \in Nat
  /\ FilesVanish \in BOOLEAN

Conns == Callers

VARIABLES
  up,                    \* the process runs
  g_enable_rate_limiter,
  g_enable_https,
  g_ip_blacklist,        \* connections whose address is on it
  armed,                 \* async_accepts outstanding
  acceptErrs,            \* completions with an error code not yet handled
  accept,                \* accept side of each connection
  handler,               \* handler side of each connection
  arrived,               \* what the last read of each connection brought
  total_parsed_          \* header bytes read so far

adminVars   == <<g_enable_rate_limiter, g_enable_https, g_ip_blacklist>>
handlerVars == <<handler, arrived, total_parsed_>>
gatewayVars == <<limiterVars, up, adminVars, armed, acceptErrs, accept, handlerVars>>

(* Inside onAccept, on a thread.                                           *)
OnAcceptStates == {"dispatch", "refusing", "admitted", "handshake", "owe2", "owe1"}
AcceptStates == OnAcceptStates \cup {"new", "backlog", "ready", "closed", "done"}

(* Inside onRead, on a thread: the blocking calls.                         *)
OnReadStates == {"notFound", "local", "localBody", "localDone", "connect",
                 "send", "body", "response", "reply"}
HandlerStates == OnReadStates \cup {"none", "reading", "readable", "done"}

(* What a read of the header may bring.                                    *)
Arrivals == {"error", "partial", "malformed", "unrouted", "local", "remote"}

Accepting == {c \in Conns : accept[c] \in OnAcceptStates \cup {"ready"}}

Busy == Cardinality({c \in Conns : accept[c] \in OnAcceptStates})
          + Cardinality({c \in Conns : handler[c] \in OnReadStates})
          + (IF task = "waiting" THEN 0 ELSE 1)
ThreadFree == Busy < NumThreads

-----------------------------------------------------------------------------
(* Server's constructor starts the limiter, Run() arms the first accept.   *)
GatewayInit ==
  /\ LimiterInit
  /\ up = TRUE
  /\ g_enable_rate_limiter = FALSE
  /\ g_enable_https = FALSE
  /\ g_ip_blacklist = {}
  /\ armed = 1
  /\ acceptErrs = 0
  /\ accept = [c \in Conns |-> "new"]
  /\ handler = [c \in Conns |-> "none"]
  /\ arrived = [c \in Conns |-> "partial"]
  /\ total_parsed_ = [c \in Conns |-> 0]

(* A client connects; the kernel completes an outstanding accept with it,  *)
(* or with an error.                                                       *)
Connect(c) ==
  /\ accept[c] = "new"
  /\ accept' = [accept EXCEPT ![c] = "backlog"]
  /\ UNCHANGED <<limiterVars, up, adminVars, armed, acceptErrs, handlerVars>>

AcceptDone(c) ==
  /\ accept[c] = "backlog"
  /\ armed > 0
  /\ armed' = armed - 1
  /\ accept' = [accept EXCEPT ![c] = "ready"]
  /\ UNCHANGED <<limiterVars, up, adminVars, acceptErrs, handlerVars>>

AcceptFails ==
  /\ armed > 0
  /\ acceptErrs < MaxAcceptErrs
  /\ armed' = armed - 1
  /\ acceptErrs' = acceptErrs + 1
  /\ UNCHANGED <<limiterVars, up, adminVars, accept, handlerVars>>

-----------------------------------------------------------------------------
(* onAccept with an error code: close the socket and accept again.         *)
OnAcceptError ==
  /\ acceptErrs > 0
  /\ ThreadFree
  /\ acceptErrs' = acceptErrs - 1
  /\ armed' = armed + 1
  /\ UNCHANGED <<limiterVars, up, adminVars, accept, handlerVars>>

(* Slip: it is turned away without another accept().                       *)
TurnAwayDeaf(c) ==
  /\ accept[c] = "ready"
  /\ ThreadFree
  /\ accept' = [accept EXCEPT ![c] = "closed"]
  /\ UNCHANGED <<limiterVars, up, adminVars, armed, acceptErrs, handlerVars>>

(* onAccept turns the connection away: its peer is already gone, or Filter *)
(* finds its address on the blacklist.                                     *)
TurnAway(c) ==
  /\ accept[c] = "ready"
  /\ ThreadFree
  /\ accept' = [accept EXCEPT ![c] = "closed"]
  /\ armed' = armed + 1
  /\ UNCHANGED <<limiterVars, up, adminVars, acceptErrs, handlerVars>>

(* onAccept goes on to Dispatch.                                           *)
OnAccept(c) ==
  /\ accept[c] = "ready"
  /\ ThreadFree
  /\ c \notin g_ip_blacklist
  /\ accept' = [accept EXCEPT ![c] = "dispatch"]
  /\ UNCHANGED <<limiterVars, up, adminVars, armed, acceptErrs, handlerVars>>

(* Slip: Dispatch goes on whatever the limiter says.                       *)
AskLimiterInVain(c) ==
  /\ accept[c] = "dispatch"
  /\ accept' = [accept EXCEPT ![c] = "admitted"]
  /\ IF g_enable_rate_limiter THEN GetToken(c) ELSE UNCHANGED limiterVars
  /\ UNCHANGED <<up, adminVars, armed, acceptErrs, handlerVars>>

(* Dispatch asks the limiter, if it is enabled.                            *)
AskLimiter(c) ==
  /\ accept[c] = "dispatch"
  /\ \/ /\ ~g_enable_rate_limiter
        /\ accept' = [accept EXCEPT ![c] = "admitted"]
        /\ UNCHANGED limiterVars
     \/ /\ g_enable_rate_limiter
        /\ GetToken(c)
        /\ accept' = [accept EXCEPT ![c] = IF n_token_ > 0 THEN "admitted"
                                                           ELSE "refusing"]
  /\ UNCHANGED <<up, adminVars, armed, acceptErrs, handlerVars>>

(* Slip: the refusal keeps the decrement.                                  *)
RefuseAndKeep(c) ==
  /\ accept[c] = "refusing"
  /\ caller' = [caller EXCEPT ![c] = "idle"]
  /\ accept' = [accept EXCEPT ![c] = "owe2"]
  /\ UNCHANGED <<n_token_, configVars, taskVars, ledger, up, adminVars, armed,
                 acceptErrs, handlerVars>>

(* GetToken() takes its decrement back and returns false.                  *)
Refuse(c) ==
  /\ accept[c] = "refusing"
  /\ GiveBack(c)
  /\ accept' = [accept EXCEPT ![c] = "owe2"]
  /\ UNCHANGED <<up, adminVars, armed, acceptErrs, handlerVars>>

(* Dispatch makes the handler, whose Start() begins to read, or first does *)
(* the TLS handshake.                                                      *)
StartHandler(c) ==
  /\ accept' = [accept EXCEPT ![c] = "owe2"]
  /\ handler' = [handler EXCEPT ![c] = "reading"]

Serve(c) ==
  /\ accept[c] = "admitted"
  /\ \/ ~g_enable_https /\ StartHandler(c)
     \/ /\ g_enable_https
        /\ accept' = [accept EXCEPT ![c] = "handshake"]
        /\ UNCHANGED handler
  /\ UNCHANGED <<limiterVars, up, adminVars, armed, acceptErrs, arrived, total_parsed_>>

(* SslHandshake returns, with a stream or with nullptr.                    *)
Handshake(c) ==
  /\ accept[c] = "handshake"
  /\ \/ StartHandler(c)
     \/ accept' = [accept EXCEPT ![c] = "owe2"] /\ UNCHANGED handler
  /\ UNCHANGED <<limiterVars, up, adminVars, armed, acceptErrs, arrived, total_parsed_>>

(* Dispatch's callback(), then the accept() at the end of onAccept.        *)
ReArm(c) ==
  /\ \/ accept[c] = "owe2" /\ accept' = [accept EXCEPT ![c] = "owe1"]
     \/ accept[c] = "owe1" /\ accept' = [accept EXCEPT ![c] = "done"]
  /\ armed' = armed + 1
  /\ UNCHANGED <<limiterVars, up, adminVars, acceptErrs, handlerVars>>

-----------------------------------------------------------------------------
(* The pending async_read_some completes.                                  *)
ReadDone(c, what) ==
  /\ handler[c] = "reading"
  /\ handler' = [handler EXCEPT ![c] = "readable"]
  /\ arrived' = [arrived EXCEPT ![c] = what]
  /\ UNCHANGED <<limiterVars, up, adminVars, armed, acceptErrs, accept, total_parsed_>>

(* Slip: the handler ends without its callback.                            *)
FinishSilently(c) ==
  /\ handler' = [handler EXCEPT ![c] = "done"]
  /\ UNCHANGED armed

(* async_accpet_cb_() as the last thing a handler does.  Nothing refers to *)
(* it any more, and its destructor closes the socket.                      *)
FinishHandler(c) ==
  /\ handler' = [handler EXCEPT ![c] = "done"]
  /\ armed' = armed + 1

(* onRead with an error, or with bytes that are no request.                *)
OnReadFails(c) ==
  /\ handler[c] = "readable"
  /\ ThreadFree
  /\ arrived[c] \in {"error", "malformed"}
  /\ FinishHandler(c)
  /\ UNCHANGED <<limiterVars, up, adminVars, acceptErrs, accept, arrived, total_parsed_>>

(* Slip: each read may fill the size of the buffer, not the rest of it.    *)
OnReadPartialWhole(c) ==
  /\ handler[c] = "readable"
  /\ ThreadFree
  /\ arrived[c] = "partial"
  /\ \E n \in 1..HeaderCap :
       /\ total_parsed_' = [total_parsed_ EXCEPT ![c] = @ + n]
       /\ \/ total_parsed_[c] + n >= HeaderCap /\ FinishHandler(c)
          \/ /\ total_parsed_[c] + n < HeaderCap
             /\ handler' = [handler EXCEPT ![c] = "reading"]
             /\ UNCHANGED armed
  /\ UNCHANGED <<limiterVars, up, adminVars, acceptErrs, accept, arrived>>

(* Slip: the bytes read are not added to total_parsed_.                    *)
OnReadPartialUncounted(c) ==
  /\ handler[c] = "readable"
  /\ ThreadFree
  /\ arrived[c] = "partial"
  /\ handler' = [handler EXCEPT ![c] = "reading"]
  /\ UNCHANGED <<limiterVars, up, adminVars, armed, acceptErrs, accept, arrived,
                 total_parsed_>>

(* onRead with part of a header: parseRequest() reads on while the buffer  *)
(* has room.                                                               *)
OnReadPartial(c) ==
  /\ handler[c] = "readable"
  /\ ThreadFree
  /\ arrived[c] = "partial"
  /\ \E n \in 1..(HeaderCap - total_parsed_[c]) :
       /\ total_parsed_' = [total_parsed_ EXCEPT ![c] = @ + n]
       /\ \/ /\ total_parsed_[c] + n >= HeaderCap
             /\ FinishHandler(c)
          \/ /\ total_parsed_[c] + n < HeaderCap
             /\ handler' = [handler EXCEPT ![c] = "reading"]
             /\ UNCHANGED armed
  /\ UNCHANGED <<limiterVars, up, adminVars, acceptErrs, accept, arrived>>

(* onRead with a request: extractMetadata() and route() choose what to do. *)
OnReadRequest(c) ==
  /\ handler[c] = "readable"
  /\ ThreadFree
  /\ arrived[c] \in {"unrouted", "local", "remote"}
  /\ handler' = [handler EXCEPT
                   ![c] = CASE arrived[c] = "unrouted" -> "notFound"
                            [] arrived[c] = "local"    -> "local"
                            [] arrived[c] = "remote"   -> "connect"]
  /\ UNCHANGED <<limiterVars, up, adminVars, armed, acceptErrs, accept,
                 arrived, total_parsed_>>

(* handleLocalFileRequest() calls the callback on each of its paths, and   *)
(* route() calls it again when it returns: no such file or the header not  *)
(* sent, or the header sent and the body written, as far as it goes, by    *)
(* compressAndWriteBody().                                                 *)
LocalEnds(c) ==
  /\ handler' = [handler EXCEPT ![c] = "localDone"]
  /\ armed' = armed + 1
  /\ UNCHANGED <<limiterVars, up, adminVars, acceptErrs, accept, arrived, total_parsed_>>

LocalFails(c) == handler[c] = "local" /\ LocalEnds(c)

LocalHeader(c) ==
  /\ handler[c] = "local"
  /\ handler' = [handler EXCEPT ![c] = "localBody"]
  /\ UNCHANGED <<limiterVars, up, adminVars, armed, acceptErrs, accept,
                 arrived, total_parsed_>>

LocalBody(c) == handler[c] = "localBody" /\ LocalEnds(c)

LocalReturns(c) ==
  /\ handler[c] = "localDone"
  /\ FinishHandler(c)
  /\ UNCHANGED <<limiterVars, up, adminVars, acceptErrs, accept, arrived, total_parsed_>>

(* file_size() throws: nothing catches it and the process ends.            *)
LocalThrows(c) ==
  /\ handler[c] = "local"
  /\ FilesVanish
  /\ up' = FALSE
  /\ UNCHANGED <<limiterVars, adminVars, armed, acceptErrs, accept, handlerVars>>

(* handleHttpRequest(), from one blocking call to the next.                *)
ForwardStep(c) ==
  /\ \/ handler[c] = "connect"  /\ handler' = [handler EXCEPT ![c] = "send"]
     \/ handler[c] = "send"     /\ handler' = [handler EXCEPT ![c] = "body"]
     \/ handler[c] = "body"     /\ handler' = [handler EXCEPT ![c] = "response"]
     \/ handler[c] = "response" /\ handler' = [handler EXCEPT ![c] = "reply"]
  /\ UNCHANGED <<limiterVars, up, adminVars, armed, acceptErrs, accept,
                 arrived, total_parsed_>>

(* The handler ends: the 404 or the response is written, or a blocking     *)
(* call of handleHttpRequest() fails.                                      *)
HandlerEnds(c) ==
  /\ handler[c] \in OnReadStates \ {"local", "localBody", "localDone"}
  /\ FinishHandler(c)
  /\ UNCHANGED <<limiterVars, up, adminVars, acceptErrs, accept, arrived, total_parsed_>>

-----------------------------------------------------------------------------
(* tick() of the limiter needs a thread to start on.                       *)
TickStarts == ThreadFree /\ TickReadConfig
LimiterTask ==
  /\ TickStarts \/ TickLoad \/ TickStore
  /\ UNCHANGED <<up, adminVars, armed, acceptErrs, accept, handlerVars>>

(* An administrator calls the setters of core/include/config.h.            *)
SetEnableRateLimitor(enable) == /\ g_enable_rate_limiter' = enable
                                /\ UNCHANGED <<g_enable_https, g_ip_blacklist>>
SetHttps(https) == /\ g_enable_https' = https
                   /\ UNCHANGED <<g_enable_rate_limiter, g_ip_blacklist>>
AddBlacklistIp(c) == /\ g_ip_blacklist' = g_ip_blacklist \cup {c}
                     /\ UNCHANGED <<g_enable_rate_limiter, g_enable_https>>
RemoveBlacklistIp(c) == /\ g_ip_blacklist' = g_ip_blacklist \ {c}
                        /\ UNCHANGED <<g_enable_rate_limiter, g_enable_https>>

Administer ==
  /\ \/ /\ \/ \E b \in BOOLEAN : SetEnableRateLimitor(b) \/ SetHttps(b)
           \/ \E c \in Banned : AddBlacklistIp(c) \/ RemoveBlacklistIp(c)
        /\ UNCHANGED limiterVars
     \/ /\ \E max, perSec \in ConfigArgs : ConfigRateLimitor(max, perSec)
        /\ UNCHANGED adminVars
  /\ UNCHANGED <<up, armed, acceptErrs, accept, handlerVars>>

Terminated == ~up /\ UNCHANGED gatewayVars

ConnNext(c) ==
  \/ Connect(c) \/ AcceptDone(c)
  \/ TurnAway(c) \/ OnAccept(c) \/ AskLimiter(c) \/ Refuse(c) \/ Serve(c)
  \/ Handshake(c) \/ ReArm(c)
  \/ \E what \in Arrivals : ReadDone(c, what)
  \/ OnReadFails(c) \/ OnReadPartial(c) \/ OnReadRequest(c)
  \/ LocalFails(c) \/ LocalHeader(c) \/ LocalBody(c)
  \/ LocalReturns(c) \/ LocalThrows(c)
  \/ ForwardStep(c) \/ HandlerEnds(c)

GatewayNext ==
  \/ /\ up
     /\ \/ \E c \in Conns : ConnNext(c)
        \/ AcceptFails \/ OnAcceptError \/ LimiterTask \/ Administer
  \/ Terminated

GatewaySpec == GatewayInit /\ [][GatewayNext]_gatewayVars

(* The threads of the io_context run on: a handler that is running goes on *)
(* and a queued one gets a thread if threads keep becoming free, because   *)
(* the queue is first in, first out.  The kernel hands waiting connections *)
(* to outstanding accepts.                                                 *)
OnAcceptStep(c) == AskLimiter(c) \/ Refuse(c) \/ Serve(c) \/ ReArm(c)
OnReadStep(c)   == OnReadFails(c) \/ OnReadPartial(c) \/ OnReadRequest(c)
ServerFairness ==
  /\ \A c \in Conns :
       /\ WF_gatewayVars(up /\ AcceptDone(c))
       /\ SF_gatewayVars(up /\ (TurnAway(c) \/ OnAccept(c)))
       /\ WF_gatewayVars(up /\ OnAcceptStep(c))
       /\ SF_gatewayVars(up /\ OnReadStep(c))
       /\ WF_gatewayVars(up /\ LocalReturns(c))
  /\ SF_gatewayVars(up /\ LimiterTask)
  /\ SF_gatewayVars(up /\ OnAcceptError)

(* The peers do their part: every read, write, connect and handshake comes *)
(* back in the end.  The code has no timeout that would see to it.         *)
PeerFairness ==
  \A c \in Conns :
    /\ WF_gatewayVars(up /\ Handshake(c))
    /\ WF_gatewayVars(up /\ \E what \in Arrivals : ReadDone(c, what))
    /\ WF_gatewayVars(up /\ \/ LocalFails(c) \/ LocalHeader(c) \/ LocalBody(c)
                            \/ ForwardStep(c) \/ HandlerEnds(c))

GatewayFairSpec == GatewaySpec /\ ServerFairness /\ PeerFairness

-----------------------------------------------------------------------------
(* Types; the bytes parsed never exceed the header buffer.                 *)
GatewayTypeOK ==
  /\ up \in BOOLEAN
  /\ g_enable_rate_limiter \in BOOLEAN
  /\ g_enable_https \in BOOLEAN
  /\ g_ip_blacklist \subseteq Conns
  /\ armed \in Nat
  /\ acceptErrs \in Nat
  /\ accept \in [Conns -> AcceptStates]
  /\ handler \in [Conns -> HandlerStates]
  /\ arrived \in [Conns -> Arrivals]
  /\ total_parsed_ \in [Conns -> 0..HeaderCap]

(* The server never goes deaf: at every moment an async_accept is          *)
(* outstanding, or a completed one is being handled by an onAccept that    *)
(* will call accept() again, whichever of its paths it takes.              *)
AlwaysListening == armed + acceptErrs + Cardinality(Accepting) >= 1

(* The connections that have made their async_accept_cb_ calls: Dispatch's *)
(* one, the handler's one, and the one more of route() after a local file. *)
Dispatched == {c \in Conns : accept[c] \in {"owe1", "done"}}
Finished   == {c \in Conns : handler[c] \in {"localDone", "done"}}
Repeated   == {c \in Conns : handler[c] = "done" /\ arrived[c] = "local"}

(* How many accepts are outstanding: the one armed by Run(), and one more  *)
(* for each callback that ever ran.  No path of a handler forgets its      *)
(* callback or, but for route() after a local file, calls it twice.        *)
AcceptLedger ==
  armed + acceptErrs + Cardinality(Accepting)
    = 1 + Cardinality(Dispatched) + Cardinality(Finished) + Cardinality(Repeated)

(* A connection gets a handler only after its onAccept was through with    *)
(* the filter and the limiter, and a connection the limiter is refusing    *)
(* has none.                                                               *)
HandlerAdmitted ==
  \A c \in Conns :
    /\ handler[c] # "none" => accept[c] \in {"owe2", "owe1", "done"}
    /\ accept[c] = "refusing" <=> caller[c] = "undo"

(* How far a connection is from being closed: the stages its onAccept and  *)
(* its handler have before them, and two for each byte the header buffer   *)
(* still has room for, since it may be read and parsed one at a time.      *)
AcceptStages ==
  [new |-> 8, backlog |-> 7, ready |-> 6, dispatch |-> 5, refusing |-> 4,
   admitted |-> 4, handshake |-> 3, owe2 |-> 2, owe1 |-> 1, done |-> 0, closed |-> 0]
HandlerStages ==
  [none |-> 8, reading |-> 7, readable |-> 6, connect |-> 5, send |-> 4, body |-> 3,
   response |-> 2, reply |-> 1, local |-> 3, localBody |-> 2, localDone |-> 1,
   notFound |-> 1, done |-> 0]
Ahead(c) == AcceptStages[accept[c]] + HandlerStages[handler[c]]
              + 2 * (HeaderCap - total_parsed_[c])

(* A connection never goes back, so none can keep the server busy for      *)
(* ever: whatever the other connections, the limiter and the administrator *)
(* do, a step leaves it as it is or brings it nearer its end.  The one     *)
(* loop, parseRequest() reading on, uses up the header buffer.             *)
ConnectionAdvances ==
  [][\A c \in Conns : \/ UNCHANGED <<accept[c], handler[c], arrived[c], total_parsed_[c]>>
                      \/ Ahead(c)' \in 0..(Ahead(c) - 1)]_gatewayVars

(* The socket is closed: turned away, refused or served to the end.        *)
Closed(c) == accept[c] \in {"closed", "done"} /\ handler[c] \in {"none", "done"}

(* Every client that connects is accepted and its connection closed in the *)
(* end, if the peers do their part, unless a file that vanishes between    *)
(* exists() and file_size() ends the process: no other path of onAccept,   *)
(* Dispatch or the handler leaves a connection or a thread behind.         *)
EveryConnectionCloses == \A c \in Conns : accept[c] = "backlog" ~> Closed(c) \/ ~up

(* The refill shares the threads with all the connections and is never     *)
(* starved: whatever the administrator configures, the bucket does not     *)
(* stay empty for good while the process runs.                             *)
RefillGoesOn == []<>(n_token_ > 0 \/ ~up)
=============================================================================
