------------------------- MODULE ConfigStoreProofs -------------------------
(***************************************************************************)
(* Proofs about ConfigStore for any number of threads, addresses and       *)
(* health-check targets.                                                   *)
(***************************************************************************)
EXTENDS ConfigStore, TLAPS

BlacklistOps == {"filter", "add", "remove"}

(* Each function got the kind of argument it takes.                        *)
ArgsFit ==
  \A t \in Threads : /\ call[t].op \in BlacklistOps => call[t].arg \in Ips
                     /\ call[t].op = "addHealthz" => call[t].arg \in Addrs

(* The lock is held by whoever is in a function that takes it.             *)
LockHeld ==
  /\ \A t \in Threads : call[t].op \in {"filter", "add", "addHealthz"} => lock = t
  /\ worker = "release" => lock = Worker

(* The range loop is inside its range while an address is being checked.   *)
CheckingInRange ==
  worker \in {"resolve", "connect", "write", "read", "shutdown"} => iter.pos < iter.end

(* As long as nothing conflicted: a removal is alone with the blacklist    *)
(* and its address not banned, banned addresses are listed, and a Filter() *)
(* is sure only of a banned address.                                       *)
ListInOrder ==
  ~raced =>
    /\ banned \subseteq g_ip_blacklist
    /\ \A t \in Threads :
         call[t].op = "remove" =>
           /\ call[t].arg \notin banned
           /\ \A u \in Threads \ {t} : call[u].op \notin BlacklistOps
    /\ \A t \in Threads : call[t].op = "filter" /\ call[t].sure => call[t].arg \in banned

StoreInv ==
  StoreTypeOK /\ ArgsFit /\ LockHeld /\ CheckingInRange /\ ListInOrder

-----------------------------------------------------------------------------

(* Nothing is called, configured or checked at the start.                  *)
LEMMA StoreInvInit == StoreInit => StoreInv
<1> SUFFICES ASSUME StoreInit PROVE StoreInv
  OBVIOUS
<1> USE DEF StoreInit, NoCall
<1>1. StoreTypeOK
  <2>1. raced \in BOOLEAN /\ starting \in BOOLEAN
    BY Zenon
  <2>2. call \in [Threads -> [op : {"none", "filter", "add", "remove", "addHealthz"},
                              arg : Ips \cup Addrs \cup {"none"}, sure : BOOLEAN]]
    <3>1. NoCall \in [op : {"none", "filter", "add", "remove", "addHealthz"},
                      arg : Ips \cup Addrs \cup {"none"}, sure : BOOLEAN]
      BY Zenon
    <3>2. QED BY <3>1
  <2>3. QED BY <2>1, <2>2 DEF StoreTypeOK
<1>2. ArgsFit /\ LockHeld /\ CheckingInRange /\ ListInOrder
  BY DEF ArgsFit, LockHeld, CheckingInRange, ListInOrder, BlacklistOps
<1>3. QED BY <1>1, <1>2 DEF StoreInv

(* The parts of the invariant in which nothing but the calls and the       *)
(* blacklist occurs are left alone by the health-check thread.             *)
LEMMA WorkerKeepsLists ==
  ASSUME ArgsFit, ListInOrder, UNCHANGED <<call, listVars>>
  PROVE  ArgsFit' /\ ListInOrder'
  BY DEF ArgsFit, ListInOrder, listVars, BlacklistOps

(* No call, no return and no step of the worker upsets the invariant.      *)
LEMMA StoreInvStep == StoreInv /\ [StoreNext]_storeVars => StoreInv'
<1> SUFFICES ASSUME StoreInv, [StoreNext]_storeVars PROVE StoreInv'
  OBVIOUS
<1> USE StoreAssumption DEF StoreInv
<1> DEFINE Calls == [op : {"none", "filter", "add", "remove", "addHealthz"},
                     arg : Ips \cup Addrs \cup {"none"}, sure : BOOLEAN]
<1>0. call \in [Threads -> Calls]
  BY DEF StoreTypeOK
<1>1. ASSUME NEW t \in Threads, NEW op \in BlacklistOps \cup {"addHealthz"},
             NEW arg, op \in BlacklistOps => arg \in Ips,
             op = "addHealthz" => arg \in Addrs, Enter(t, op, arg)
      PROVE  StoreInv'
  <2> USE <1>1 DEF Enter
  <2>1. StoreTypeOK'
    <3>1. call' \in [Threads -> Calls]
      <4>1. (op = "filter" /\ arg \in banned) \in BOOLEAN
        BY Zenon
      <4>2. ASSUME NEW u \in Threads
            PROVE (call[u].sure /\ ~(op = "remove" /\ call[u].arg = arg)) \in BOOLEAN
        BY Zenon
      <4>3. QED BY <1>0, <4>1, <4>2 DEF BlacklistOps
    <3>2. raced' \in BOOLEAN
      BY Zenon
    <3>3. lock' \in Threads \cup {Worker, Free} /\ banned' \subseteq Ips
      BY DEF StoreTypeOK
    <3>4. QED BY <3>1, <3>2, <3>3 DEF StoreTypeOK, targetVars, workerVars
  <2>2. ArgsFit'
    BY <1>0 DEF ArgsFit, BlacklistOps
  <2>0. /\ call'[t].op = op /\ call'[t].arg = arg
        /\ call'[t].sure = (op = "filter" /\ arg \in banned)
        /\ call[t].op = "none"
        /\ \A u \in Threads \ {t} :
             /\ call'[u].op = call[u].op /\ call'[u].arg = call[u].arg
             /\ call'[u].sure = (call[u].sure /\ ~(op = "remove" /\ call[u].arg = arg))
    BY <1>0
  <2>3. LockHeld'
    <3>1. CASE op = "remove"
      BY <2>0, <3>1 DEF LockHeld, TakesLock, workerVars
    <3>2. CASE op # "remove"
      <4>1. lock = Free /\ lock' = t
        BY <3>2 DEF TakesLock
      <4>2. \A u \in Threads : call[u].op \notin {"filter", "add", "addHealthz"}
        BY <4>1 DEF LockHeld
      <4>3. worker' # "release"
        BY <4>1 DEF LockHeld, workerVars, Free, Worker
      <4>4. QED BY <2>0, <4>1, <4>2, <4>3 DEF LockHeld
    <3>3. QED BY <3>1, <3>2
  <2>4. CheckingInRange'
    BY DEF CheckingInRange, workerVars
  <2>5. ListInOrder'
    <3> SUFFICES ASSUME ~raced' PROVE ListInOrder!2'
      BY DEF ListInOrder
    <3>1. /\ ~raced
          /\ op = "remove" => \A u \in Threads : call[u].op \notin BlacklistOps
          /\ op \in {"filter", "add"} => \A u \in Threads : call[u].op # "remove"
      BY DEF Conflicts, Inside, BlacklistOps
    <3>2. banned' \subseteq g_ip_blacklist'
      BY <3>1 DEF ListInOrder
    <3>3. ASSUME NEW v \in Threads, call'[v].op = "remove"
          PROVE  /\ call'[v].arg \notin banned'
                 /\ \A u \in Threads \ {v} : call'[u].op \notin BlacklistOps
      BY <2>0, <3>1, <3>3 DEF ListInOrder, BlacklistOps
    <3>4. ASSUME NEW v \in Threads, call'[v].op = "filter", call'[v].sure
          PROVE  call'[v].arg \in banned'
      <4>1. CASE v = t
        BY <2>0, <3>4, <4>1
      <4>2. CASE v # t
        <5>1. call[v].op = "filter" /\ call[v].sure /\ op # "remove"
          BY <2>0, <3>1, <3>4, <4>2, Zenon DEF BlacklistOps
        <5>2. call[v].arg \in banned /\ banned' = banned
          BY <3>1, <5>1 DEF ListInOrder
        <5>3. QED BY <2>0, <4>2, <5>2
      <4>3. QED BY <4>1, <4>2
    <3>5. QED BY <3>2, <3>3, <3>4
  <2>6. QED BY <2>1, <2>2, <2>3, <2>4, <2>5
<1>2. ASSUME NEW t \in Threads, NEW op, Leave(t, op),
             op \in BlacklistOps \cup {"addHealthz"}, UNCHANGED workerVars
      PROVE  /\ call' \in [Threads -> Calls] /\ ArgsFit' /\ LockHeld' /\ CheckingInRange'
             /\ lock' \in Threads \cup {Worker, Free}
  <2> USE <1>2 DEF Leave
  <2>1. NoCall \in Calls
    BY Zenon DEF NoCall
  <2>2. call' \in [Threads -> Calls]
    BY <1>0, <2>1
  <2>3. ArgsFit'
    BY <1>0 DEF ArgsFit, BlacklistOps, NoCall
  <2>4. LockHeld'
    BY <1>0 DEF LockHeld, TakesLock, BlacklistOps, NoCall, workerVars
  <2>5. CheckingInRange' /\ lock' \in Threads \cup {Worker, Free}
    BY DEF CheckingInRange, workerVars, StoreTypeOK
  <2>6. QED BY <2>2, <2>3, <2>4, <2>5
<1>3. ASSUME NEW t \in Threads, Filter(t) PROVE StoreInv'
  <2>1. ListInOrder'
    BY <1>0, <1>3 DEF Filter, Leave, NoCall, ListInOrder, listVars, BlacklistOps
  <2>2. StoreTypeOK'
    BY <1>2, <1>3 DEF Filter, StoreTypeOK, BlacklistOps, listVars, targetVars, workerVars
  <2>3. QED BY <1>2, <1>3, <2>1, <2>2 DEF Filter, BlacklistOps
<1>4. ASSUME NEW t \in Threads, AddBlacklistIp(t) \/ RemoveBlacklistIp(t) PROVE StoreInv'
  <2>1. call[t].arg \in Ips
    BY <1>4 DEF ArgsFit, BlacklistOps, AddBlacklistIp, RemoveBlacklistIp, Leave
  <2>2. ListInOrder'
    BY <1>0, <1>4, <2>1, SMTT(30)
       DEF AddBlacklistIp, RemoveBlacklistIp, Leave, NoCall, ListInOrder, Outcomes,
           BlacklistOps
  <2>3. g_ip_blacklist' \subseteq Ips /\ banned' \subseteq Ips /\ raced' = raced
    BY <1>4, <2>1 DEF AddBlacklistIp, RemoveBlacklistIp, Outcomes, StoreTypeOK
  <2>4. StoreTypeOK'
    BY <1>2, <1>4, <2>3 DEF AddBlacklistIp, RemoveBlacklistIp, StoreTypeOK,
                            BlacklistOps, targetVars, workerVars
  <2>5. QED BY <1>2, <1>4, <2>2, <2>4 DEF AddBlacklistIp, RemoveBlacklistIp, BlacklistOps
<1>5. ASSUME NEW t \in Threads, AddHealthzList(t) PROVE StoreInv'
  <2> USE <1>5 DEF AddHealthzList
  <2>1. call[t].arg \in Addrs
    BY DEF ArgsFit, Leave
  <2>2. ListInOrder'
    BY <1>0 DEF Leave, NoCall, ListInOrder, listVars, BlacklistOps
  <2>3. /\ g_healthz_list' \in Seq(Addrs)
        /\ Len(g_healthz_list') = Len(g_healthz_list) + 1
    BY <2>1 DEF StoreTypeOK
  <2>4. memory' \in [id : Nat, size : Nat] /\ Len(g_healthz_list') <= memory'.size
    BY <2>3, SMTT(30) DEF StoreTypeOK
  <2>5. iter' = iter /\ iter.end <= Len(g_healthz_list')
    BY <2>3 DEF StoreTypeOK, workerVars
  <2>6. StoreTypeOK'
    BY <1>2, <2>3, <2>4, <2>5 DEF StoreTypeOK, listVars, workerVars
  <2>7. QED BY <1>2, <2>2, <2>6
<1>6. CASE StarterReturns
  <2>1. StoreTypeOK'
    BY <1>6 DEF StarterReturns, StoreTypeOK, listVars, targetVars
  <2>2. QED
    BY <1>6, <2>1, WorkerKeepsLists DEF StarterReturns, LockHeld, CheckingInRange
<1>7. CASE HealthCheck \/ Strays
  <2> USE DEF WorkerStep
  <2>1. UNCHANGED <<call, listVars, targetVars, starting>>
    BY <1>7 DEF HealthCheck, Fetch, Release, Range, NextTarget, Healthz, HealthzReturns,
                Sleep, WakeUp, Strays
  <2>2. /\ lock' \in Threads \cup {Worker, Free}
        /\ worker' \in {"fetch", "release", "range", "next", "resolve", "connect",
                        "write", "read", "shutdown", "sleep", "strayed"}
        /\ iter' \in [id : Nat, pos : Nat, end : Nat] /\ iter'.pos <= iter'.end
        /\ iter'.end <= Len(g_healthz_list)
        /\ CheckingInRange'
    BY <1>7, SMTT(30)
       DEF HealthCheck, Fetch, Release, Range, NextTarget, Healthz, HealthzReturns,
           Sleep, WakeUp, Strays, StoreTypeOK, CheckingInRange
  <2>3. LockHeld'
    BY <1>7, <2>1, SMTT(30)
       DEF HealthCheck, Fetch, Release, Range, NextTarget, Healthz, HealthzReturns,
           Sleep, WakeUp, Strays, Dangling, LockHeld
  <2>4. StoreTypeOK'
    BY <2>1, <2>2 DEF StoreTypeOK, listVars, targetVars
  <2>5. QED BY <2>1, <2>2, <2>3, <2>4, WorkerKeepsLists
<1>8. CASE UNCHANGED storeVars
  <2>1. StoreTypeOK'
    BY <1>8 DEF storeVars, StoreTypeOK, listVars, targetVars, workerVars
  <2>2. QED BY <1>8, <2>1, WorkerKeepsLists
            DEF storeVars, workerVars, LockHeld, CheckingInRange
<1>9. QED
  BY <1>1, <1>3, <1>4, <1>5, <1>6, <1>7, <1>8 DEF StoreNext, ThreadStep, BlacklistOps

(* The invariant holds of every behaviour of the store.                    *)
THEOREM StoreInvariant == StoreSpec => []StoreInv
  BY StoreInvInit, StoreInvStep, PTL DEF StoreSpec

(* The configuration and the worker's iterator keep their types; the       *)
(* range loop never leaves its range.                                      *)
THEOREM StoreTypeCorrect == StoreSpec => []StoreTypeOK
<1>1. StoreInv => StoreTypeOK
  BY DEF StoreInv
<1>2. QED BY <1>1, StoreInvariant, PTL

(* For any number of threads, two accesses overlap only if one of them is  *)
(* RemoveBlacklistIp().                                                    *)
THEOREM StoreExcludes == StoreSpec => []ExclusiveButRemoval
<1>1. StoreInv => ExclusiveButRemoval
  BY StoreAssumption DEF StoreInv, LockHeld, ExclusiveButRemoval, Inside
<1>2. QED BY <1>1, StoreInvariant, PTL

(* Whatever else goes on, a banned address stays refused until somebody    *)
(* removes it or a removal races.                                          *)
THEOREM StoreBans == StoreSpec => []BanTakesEffect
<1>1. StoreInv => BanTakesEffect
  BY DEF StoreInv, ListInOrder, BanTakesEffect, Inside
<1>2. QED BY <1>1, StoreInvariant, PTL
=============================================================================
