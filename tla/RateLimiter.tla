---------------------------- MODULE RateLimiter ----------------------------
(***************************************************************************)
(* TokenBucketRateLimiter (core/src/rate_limitor.cc): an atomic size_t     *)
(* counter of tokens that every worker thread decrements through           *)
(* GetToken() while one timer handler, tick(), refills it.                 *)
(*                                                                         *)
(* Each access to the atomic counter is a step of its own: GetToken() is a *)
(* fetch_sub, possibly followed by a fetch_add that takes it back;         *)
(* performTask() reads the configuration, loads the counter and stores it. *)
(* The counter wraps at WordSize, as size_t does at 2^64.                  *)
(***************************************************************************)
EXTENDS Integers, FiniteSets

CONSTANTS
  Callers,        \* the activities that may be inside GetToken() at one time
  WordSize,       \* number of values of size_t (2^64 in the build)
  DftTokenMax,    \* initial g_num_token_max
  DftTokenPerSec, \* initial g_num_token_per_sec
  ConfigArgs,     \* arguments an administrator passes to ConfigRateLimitor
  MaxGrants       \* bound: grants the model allows between two refills

ASSUME LimiterAssumption ==
  /\ IsFiniteSet(Callers)
  /\ WordSize \in Nat /\ WordSize > 1
  /\ DftTokenMax \in 1..(WordSize - 1)
  /\ DftTokenPerSec \in 1..(WordSize - 1)
  /\ ConfigArgs \subseteq 0..(WordSize - 1)
  /\ MaxGrants \in Nat

VARIABLES
  n_token_,             \* TokenBucketRateLimiter::n_token_
  caller,               \* where each caller is inside GetToken()
  g_num_token_max,      \* configuration, guarded by g_config_mutex
  g_num_token_per_sec,
  task,                 \* where tick()/performTask() is
  num_token_max,        \* locals of performTask()
  num_token_per_sec,
  new_token_num,
  ledger                \* history: what happened since the last refill

configVars == <<g_num_token_max, g_num_token_per_sec>>
taskVars   == <<task, num_token_max, num_token_per_sec, new_token_num>>
limiterVars == <<n_token_, caller, configVars, taskVars, ledger>>

SizeT == 0..(WordSize - 1)

\* The callers whose fetch_sub found no token and is not yet taken back.
Undoing == {c \in Callers : caller[c] = "undo"}

-----------------------------------------------------------------------------
(* ledger.base is the value of the last store, ledger.cap the limit that   *)
(* store was clamped to, ledger.carried the callers that were undoing when *)
(* it happened, ledger.granted the calls that returned true since then.    *)

LimiterInit ==
  /\ n_token_ = DftTokenMax
  /\ caller = [c \in Callers |-> "idle"]
  /\ g_num_token_max = DftTokenMax
  /\ g_num_token_per_sec = DftTokenPerSec
  /\ task = "waiting"
  /\ num_token_max = 0
  /\ num_token_per_sec = 0
  /\ new_token_num = 0
  /\ ledger = [base |-> DftTokenMax, cap |-> DftTokenMax,
               carried |-> 0, granted |-> 0]

(* GetToken(), first half: fetch_sub(1) returns the value before it.  A    *)
(* positive value is a grant; zero leaves the caller to take it back.      *)
GetToken(c) ==
  /\ caller[c] = "idle"
  /\ ledger.granted < MaxGrants
  /\ n_token_' = (n_token_ - 1) % WordSize
  /\ IF n_token_ > 0
       THEN /\ ledger' = [ledger EXCEPT !.granted = @ + 1]
            /\ UNCHANGED caller
       ELSE /\ caller' = [caller EXCEPT ![c] = "undo"]
            /\ UNCHANGED ledger
  /\ UNCHANGED <<configVars, taskVars>>

(* Slip: the refusal forgets its fetch_add.                                *)
GiveBackForgotten(c) ==
  /\ caller[c] = "undo"
  /\ caller' = [caller EXCEPT ![c] = "idle"]
  /\ UNCHANGED <<n_token_, configVars, taskVars, ledger>>

(* GetToken(), second half: fetch_add(1), then return false.               *)
GiveBack(c) ==
  /\ caller[c] = "undo"
  /\ n_token_' = (n_token_ + 1) % WordSize
  /\ caller' = [caller EXCEPT ![c] = "idle"]
  /\ UNCHANGED <<configVars, taskVars, ledger>>

(* tick() runs when the timer expires: performTask() first copies both     *)
(* limits under g_config_mutex.                                            *)
TickReadConfig ==
  /\ task = "waiting"
  /\ task' = "load"
  /\ num_token_max' = g_num_token_max
  /\ num_token_per_sec' = g_num_token_per_sec
  /\ UNCHANGED <<n_token_, caller, configVars, new_token_num, ledger>>

(* Slip: no clamp.                                                         *)
Unclamped(n) == n

Clamped(n) == IF n > num_token_max THEN num_token_max ELSE n

TickLoad ==
  /\ task = "load"
  /\ task' = "store"
  /\ new_token_num' = Clamped((n_token_ + num_token_per_sec) % WordSize)
  /\ UNCHANGED <<n_token_, caller, configVars, num_token_max,
                 num_token_per_sec, ledger>>

(* The store, after which tick() re-arms the timer.                        *)
TickStore ==
  /\ task = "store"
  /\ task' = "waiting"
  /\ n_token_' = new_token_num
  /\ ledger' = [base |-> new_token_num, cap |-> num_token_max,
                carried |-> Cardinality(Undoing), granted |-> 0]
  /\ UNCHANGED <<caller, configVars, num_token_max, num_token_per_sec,
                 new_token_num>>

Tick == TickReadConfig \/ TickLoad \/ TickStore

(* Slip: zero is taken for a limit.                                        *)
ConfigUnchecked(max, perSec) ==
  /\ g_num_token_max' = max
  /\ g_num_token_per_sec' = perSec
  /\ UNCHANGED <<n_token_, caller, taskVars, ledger>>

(* ConfigRateLimitor: a zero argument leaves that limit as it is.          *)
ConfigRateLimitor(max, perSec) ==
  /\ g_num_token_max' = IF max > 0 THEN max ELSE g_num_token_max
  /\ g_num_token_per_sec' = IF perSec > 0 THEN perSec ELSE g_num_token_per_sec
  /\ UNCHANGED <<n_token_, caller, taskVars, ledger>>

LimiterNext ==
  \/ \E c \in Callers : GetToken(c) \/ GiveBack(c)
  \/ Tick
  \/ \E max, perSec \in ConfigArgs : ConfigRateLimitor(max, perSec)

LimiterSpec == LimiterInit /\ [][LimiterNext]_limiterVars

-----------------------------------------------------------------------------
(* Types; the counter stays a size_t and no configuration makes a limit 0. *)
LimiterTypeOK ==
  /\ n_token_ \in SizeT
  /\ caller \in [Callers -> {"idle", "undo"}]
  /\ g_num_token_max \in SizeT \ {0}
  /\ g_num_token_per_sec \in SizeT \ {0}
  /\ task \in {"waiting", "load", "store"}
  /\ num_token_max \in SizeT
  /\ num_token_per_sec \in SizeT
  /\ new_token_num \in SizeT
  /\ ledger \in [base : SizeT, cap : SizeT, carried : Nat, granted : Nat]

(* Tokens left according to the calls made since the last refill; negative *)
(* when the counter has been driven below zero.                            *)
Balance ==
  ledger.base + ledger.carried - ledger.granted - Cardinality(Undoing)

(* However GetToken() calls interleave with each other and with a refill,  *)
(* no decrement and no give-back is ever lost between two stores: the      *)
(* counter is the last stored value, plus one for each call that was       *)
(* half-way through a refusal at that store, minus the grants and the      *)
(* refusals still in flight, modulo the word.                              *)
TokenLedger == n_token_ = Balance % WordSize

(* A bucket that is not underflowed holds no more than the configured      *)
(* maximum plus one token per refusal that was in flight at the refill.    *)
BucketCap == Balance \in Nat => n_token_ <= ledger.cap + ledger.carried

(* The promise of a token bucket: between two refills no more calls are    *)
(* granted than there were tokens at the first of them.                    *)
GrantsBacked == ledger.granted <= ledger.base + ledger.carried
=============================================================================
