----------------------------- MODULE RoundRobin -----------------------------
(***************************************************************************)
(* One RouteAction (core/src/router.cc) and everybody who may call it.     *)
(* Targets are added and removed while nobody is choosing one: the program *)
(* configures its routes before the server starts.  GetNextTarget is       *)
(* called by the io_context's threads without a lock: the read of          *)
(* next_index that picks the target, the read that computes its successor  *)
(* (which a compiler may or may not merge with the first) and the store    *)
(* are steps of their own.                                                 *)
(***************************************************************************)
EXTENDS RouteAction, FiniteSets

CONSTANTS
  Threads,      \* threads that call GetNextTarget
  Targets,      \* [http_url, is_remote] records to add and remove
  StartIndexes, \* values next_index may have in a RouteAction just made
  MaxTargets,   \* bound: targets of the action
  MaxPicks      \* bound: targets picked since the targets last changed

ASSUME RoundRobinAssumption ==
  /\ StartIndexes \subseteq Nat
  /\ MaxTargets \in Nat /\ MaxPicks \in Nat

VARIABLES
  action,   \* the RouteAction
  at,       \* where each thread is inside GetNextTarget
  index,    \* the index each thread read last
  wild,     \* history: next_index was not yet stored for these targets
  picks,    \* history: indexes picked since the targets last changed
  raced     \* history: since then, two calls were under way at one time

rrVars == <<action, at, index, wild, picks, raced>>

Idle == \A t \in Threads : at[t] = "idle"

-----------------------------------------------------------------------------

RRInit ==
  /\ action \in [next_index : StartIndexes, targets : {<<>>}]
  /\ at = [t \in Threads |-> "idle"]
  /\ index = [t \in Threads |-> 0]
  /\ wild = (action.next_index # 0)
  /\ picks = <<>>
  /\ raced = FALSE

Add(conn) ==
  /\ Idle
  /\ Len(action.targets) < MaxTargets
  /\ action' = AddTarget(action, conn)
  /\ picks' = <<>>
  /\ raced' = FALSE
  /\ UNCHANGED <<at, index, wild>>

Remove(conn) ==
  /\ Idle
  /\ action' = RemoveTarget(action, conn)
  /\ wild' = (wild \/ action'.targets = <<>>)
  /\ picks' = <<>>
  /\ raced' = FALSE
  /\ UNCHANGED <<at, index>>

(* GetNextTarget: an empty list is std::nullopt and changes nothing, so    *)
(* only a list with targets is of interest.                                *)
Pick(t) ==
  /\ at[t] = "idle"
  /\ action.targets # <<>>
  /\ Len(picks) < MaxPicks
  /\ index' = [index EXCEPT ![t] = action.next_index]
  /\ picks' = Append(picks, action.next_index)
  /\ raced' = (raced \/ ~Idle)
  /\ at' = [at EXCEPT ![t] = "picked"]
  /\ UNCHANGED <<action, wild>>

Reload(t) ==
  /\ at[t] = "picked"
  /\ index' \in {index, [index EXCEPT ![t] = action.next_index]}
  /\ at' = [at EXCEPT ![t] = "store"]
  /\ UNCHANGED <<action, wild, picks, raced>>

Store(t) ==
  /\ at[t] = "store"
  /\ action' = Advanced(action, index[t])
  /\ wild' = FALSE
  /\ at' = [at EXCEPT ![t] = "idle"]
  /\ UNCHANGED <<index, picks, raced>>

RRNext ==
  \/ \E conn \in Targets : Add(conn) \/ Remove(conn)
  \/ \E t \in Threads : Pick(t) \/ Reload(t) \/ Store(t)

RRSpec == RRInit /\ [][RRNext]_rrVars

-----------------------------------------------------------------------------

(* Once an index is 0 to start with or has been stored by GetNextTarget,   *)
(* it selects one of the targets, however the unlocked calls interleave,   *)
(* until RemoveTarget takes away the last target.                          *)
IndexSelectsTarget == ~wild /\ action.targets # <<>> => InRange(action)

(* How often the target at index i was picked.                             *)
Times(i) == Cardinality({k \in DOMAIN picks : picks[k] = i})

(* Round robin: since the targets last changed, no target was picked two   *)
(* times more often than another, whichever threads made the calls and     *)
(* wherever the index started.  Only calls that overlap may upset it.      *)
Balanced ==
  ~raced => \A i, j \in 0..(Len(action.targets) - 1) : Times(i) <= Times(j) + 1
=============================================================================
