----------------------------- MODULE ConfigStore -----------------------------
(***************************************************************************)
(* The lists of core/src/config.cc and those who use them: threads that    *)
(* filter connections (core/src/filter.cc), callers of the setters, and    *)
(* the health-check thread of core/include/worker.hpp.  g_config_mutex     *)
(* guards most accesses, not all: RemoveBlacklistIp() takes no lock, and   *)
(* the reference that GetHealthzList() returns is used after its lock is   *)
(* released.                                                               *)
(*                                                                         *)
(* An access to a list has a beginning and an end.  Where two of them      *)
(* conflict without a lock, where an iterator outlives its memory, or      *)
(* where a captured reference outlives its variable, the program may go on *)
(* as if nothing had happened, read garbage, or stray.                     *)
(***************************************************************************)
EXTENDS Naturals, Sequences

CONSTANTS
  Threads,    \* threads that filter and configure
  Ips,        \* addresses of clients
  Addrs,      \* health-check targets
  Malformed,  \* those of them without a ':'
  Silent,     \* those of them that accept and never answer
  MaxTargets  \* bound: length of g_healthz_list

Free == "free"
Worker == "worker"

ASSUME StoreAssumption ==
  /\ Free \notin Threads /\ Worker \notin Threads
  /\ Malformed \subseteq Addrs /\ Silent \subseteq Addrs \ Malformed
  /\ MaxTargets \in Nat

VARIABLES
  lock,            \* the holder of g_config_mutex
  call,            \* the function each thread is in
  g_ip_blacklist,
  raced,           \* history: accesses to g_ip_blacklist conflicted
  banned,          \* history: added addresses nobody began to remove since
  g_healthz_list,
  memory,          \* [id, size]: the block the vector's elements are in
  worker,          \* where the health-check thread is
  iter,            \* [id, pos, end]: the iterator and end of its range loop
  starting         \* StartHealthCheckWorker() has not returned

listVars   == <<g_ip_blacklist, raced, banned>>
targetVars == <<g_healthz_list, memory>>
workerVars == <<worker, iter, starting>>
storeVars  == <<lock, call, listVars, targetVars, workerVars>>

NoCall == [op |-> "none", arg |-> "none", sure |-> FALSE]
Inside(ops) == {t \in Threads : call[t].op \in ops}

-----------------------------------------------------------------------------

StoreInit ==
  /\ lock = Free
  /\ call = [t \in Threads |-> NoCall]
  /\ g_ip_blacklist = {} /\ raced = FALSE /\ banned = {}
  /\ g_healthz_list = <<>> /\ memory = [id |-> 0, size |-> 0]
  /\ worker = "fetch"
  /\ iter = [id |-> 0, pos |-> 0, end |-> 0]
  /\ starting = TRUE

(* Slip: AddBlacklistIp() takes no lock either.                            *)
TakesLockSeldom(op) == op \notin {"remove", "add"}

TakesLock(op) == op # "remove"

(* Where accesses to the blacklist conflict: the removal takes no lock.    *)
Conflicts(op) ==
  CASE op = "remove" -> Inside({"filter", "add", "remove"}) # {}
    [] op \in {"filter", "add"} -> Inside({"remove"}) # {}
    [] OTHER -> FALSE

(* A thread calls Filter() or a setter, which takes the lock if it does    *)
(* and begins its access.  sure says of a Filter() that its address is     *)
(* banned and nobody begins to remove it.                                  *)
Enter(t, op, arg) ==
  /\ call[t].op = "none"
  /\ op = "addHealthz" => Len(g_healthz_list) < MaxTargets
  /\ IF TakesLock(op) THEN lock = Free /\ lock' = t ELSE UNCHANGED lock
  /\ raced' = (raced \/ Conflicts(op))
  /\ banned' = IF op = "remove" THEN banned \ {arg} ELSE banned
  /\ call' = [u \in Threads |->
                IF u = t
                  THEN [op |-> op, arg |-> arg, sure |-> op = "filter" /\ arg \in banned]
                  ELSE [call[u] EXCEPT !.sure = @ /\ ~(op = "remove" /\ call[u].arg = arg)]]
  /\ UNCHANGED <<g_ip_blacklist, targetVars, workerVars>>

(* The access ends and the lock, if it was taken, is released.             *)
Leave(t, op) ==
  /\ call[t].op = op
  /\ lock' = IF TakesLock(op) THEN Free ELSE lock
  /\ call' = [call EXCEPT ![t] = NoCall]

(* Filter() has copied the list, in which it looks for its address.        *)
Filter(t) ==
  /\ Leave(t, "filter")
  /\ UNCHANGED <<listVars, targetVars, workerVars>>

(* Slip: the address is added to a copy of the list.                       *)
AddToCopy(t) ==
  /\ Leave(t, "add")
  /\ banned' = banned \cup {call[t].arg}
  /\ UNCHANGED <<g_ip_blacklist, raced, targetVars, workerVars>>

(* Once accesses have conflicted the list may hold anything.               *)
Outcomes(list) == IF raced THEN SUBSET Ips ELSE {list}

AddBlacklistIp(t) ==
  /\ Leave(t, "add")
  /\ g_ip_blacklist' \in Outcomes(g_ip_blacklist \cup {call[t].arg})
  /\ banned' = banned \cup {call[t].arg}
  /\ UNCHANGED <<raced, targetVars, workerVars>>

RemoveBlacklistIp(t) ==
  /\ Leave(t, "remove")
  /\ g_ip_blacklist' \in Outcomes(g_ip_blacklist \ {call[t].arg})
  /\ UNCHANGED <<raced, banned, targetVars, workerVars>>

(* emplace_back(): a full block is replaced by one of twice its size.      *)
AddHealthzList(t) ==
  /\ Leave(t, "addHealthz")
  /\ g_healthz_list' = Append(g_healthz_list, call[t].arg)
  /\ memory' = IF Len(g_healthz_list) < memory.size THEN memory
               ELSE [id |-> memory.id + 1,
                     size |-> IF memory.size = 0 THEN 1 ELSE 2 * memory.size]
  /\ UNCHANGED <<listVars, workerVars>>

-----------------------------------------------------------------------------
(* StartHealthCheckWorker() returns and its parameter is gone, which the   *)
(* thread captured by reference.                                           *)
StarterReturns ==
  /\ starting
  /\ starting' = FALSE
  /\ UNCHANGED <<lock, call, listVars, targetVars, worker, iter>>

WorkerStep(from, to) ==
  /\ worker = from /\ worker' = to
  /\ UNCHANGED <<call, listVars, targetVars, starting>>

(* GetHealthzList() takes the lock and releases it with the reference as   *)
(* its result.                                                             *)
Fetch ==
  /\ WorkerStep("fetch", "release")
  /\ lock = Free /\ lock' = Worker
  /\ UNCHANGED iter

(* Slip: the reference is handed out with the lock still held.             *)
ReleaseLate ==
  /\ WorkerStep("release", "range")
  /\ UNCHANGED <<lock, iter>>

Release ==
  /\ WorkerStep("release", "range")
  /\ lock' = Free
  /\ UNCHANGED iter

(* Slip: the first target is skipped.                                      *)
RangeFromSecond ==
  /\ WorkerStep("range", "next")
  /\ iter' = [id |-> memory.id, pos |-> 1, end |-> Len(g_healthz_list)]
  /\ UNCHANGED lock

(* The range loop asks for begin() and end() once.                         *)
Range ==
  /\ WorkerStep("range", "next")
  /\ iter' = [id |-> memory.id, pos |-> 0, end |-> Len(g_healthz_list)]
  /\ UNCHANGED lock

(* The address being checked; a malformed one fails at once.               *)
Current == g_healthz_list[iter.pos + 1]

NextTarget ==
  /\ iter.pos < iter.end
  /\ \/ Current \notin Malformed /\ WorkerStep("next", "resolve") /\ UNCHANGED iter
     \/ /\ Current \in Malformed /\ WorkerStep("next", "next")
        /\ iter' = [iter EXCEPT !.pos = @ + 1]
  /\ UNCHANGED lock

(* healthz(): blocking calls without a timeout, each of which may fail.    *)
Healthz ==
  /\ \/ WorkerStep("resolve", "connect")
     \/ WorkerStep("connect", "write")
     \/ WorkerStep("write", "read")
     \/ WorkerStep("read", "shutdown") /\ Current \notin Silent
  /\ UNCHANGED <<lock, iter>>

HealthzReturns ==
  /\ \/ \E from \in {"resolve", "connect", "write", "shutdown"} : WorkerStep(from, "next")
     \/ WorkerStep("read", "next") /\ Current \notin Silent
  /\ iter' = [iter EXCEPT !.pos = @ + 1]
  /\ UNCHANGED lock

Sleep ==
  /\ iter.pos = iter.end
  /\ WorkerStep("next", "sleep")
  /\ UNCHANGED <<lock, iter>>

WakeUp ==
  /\ WorkerStep("sleep", "fetch")
  /\ UNCHANGED <<lock, iter>>

(* What the worker uses is not there any more: begin() and end() are read  *)
(* while emplace_back() moves them, the iterator points into a block that  *)
(* was replaced, or the captured parameter is gone.                        *)
Dangling ==
  \/ worker = "range" /\ Inside({"addHealthz"}) # {}
  \/ worker \in {"next", "read"} /\ iter.pos < iter.end /\ iter.id # memory.id
  \/ worker = "resolve" /\ ~starting

Strays ==
  /\ Dangling
  /\ worker' = "strayed"
  /\ UNCHANGED <<lock, call, listVars, targetVars, iter, starting>>

-----------------------------------------------------------------------------

ThreadStep(t) ==
  Filter(t) \/ AddBlacklistIp(t) \/ RemoveBlacklistIp(t) \/ AddHealthzList(t)

HealthCheck ==
  \/ Fetch \/ Release \/ Range \/ NextTarget \/ Healthz \/ HealthzReturns
  \/ Sleep \/ WakeUp

StoreNext ==
  \/ \E t \in Threads :
       \/ \E op \in {"filter", "add", "remove"}, ip \in Ips : Enter(t, op, ip)
       \/ \E addr \in Addrs : Enter(t, "addHealthz", addr)
       \/ ThreadStep(t)
  \/ StarterReturns \/ HealthCheck \/ Strays

StoreSpec == StoreInit /\ [][StoreNext]_storeVars

(* Threads inside a function go on, and so does the worker; a thread that  *)
(* waits for a mutex that is free again and again gets it in the end.      *)
StoreFairSpec ==
  /\ StoreSpec
  /\ SF_storeVars(HealthCheck)
  /\ \A t \in Threads : WF_storeVars(ThreadStep(t))

-----------------------------------------------------------------------------
(* Types; the list fits the block its elements are in, and the range the   *)
(* worker walks never reaches beyond the list, however it grows meanwhile. *)
StoreTypeOK ==
  /\ lock \in Threads \cup {Worker, Free}
  /\ call \in [Threads -> [op : {"none", "filter", "add", "remove", "addHealthz"},
                            arg : Ips \cup Addrs \cup {"none"}, sure : BOOLEAN]]
  /\ g_ip_blacklist \subseteq Ips /\ banned \subseteq Ips /\ raced \in BOOLEAN
  /\ g_healthz_list \in Seq(Addrs)
  /\ memory \in [id : Nat, size : Nat] /\ Len(g_healthz_list) <= memory.size
  /\ worker \in {"fetch", "release", "range", "next", "resolve", "connect",
                 "write", "read", "shutdown", "sleep", "strayed"}
  /\ iter \in [id : Nat, pos : Nat, end : Nat] /\ iter.pos <= iter.end
  /\ iter.end <= Len(g_healthz_list)
  /\ starting \in BOOLEAN

(* Two accesses to the configuration are under way at one time only if one *)
(* of them is a RemoveBlacklistIp(): every other function keeps the lock   *)
(* from its first access to its last.                                      *)
ExclusiveButRemoval ==
  \A t, u \in Inside({"filter", "add", "addHealthz"}) :
    t = u /\ lock = t /\ worker # "release"

(* From the moment AddBlacklistIp() has returned until RemoveBlacklistIp() *)
(* is called for an address, every Filter() finds it in the list it        *)
(* copies, whichever other addresses are added and removed at the time,    *)
(* unless an unlocked removal ran into another access and left the list in *)
(* an undefined state.                                                     *)
BanTakesEffect ==
  \A t \in Inside({"filter"}) :
    call[t].sure /\ ~raced => call[t].arg \in g_ip_blacklist

(* The mutex always comes free again, also while a health check hangs.     *)
LockComesFree == []<>(lock = Free)

(* Every target is checked again and again, unless a target that never     *)
(* answers is on the list or the worker has strayed.                       *)
TargetsChecked ==
  \A a \in Addrs \ Malformed :
    []<>(\/ \A i \in DOMAIN g_healthz_list : g_healthz_list[i] # a
         \/ \E i \in DOMAIN g_healthz_list : g_healthz_list[i] \in Silent
         \/ worker = "strayed"
         \/ worker = "resolve" /\ Current = a)
=============================================================================
