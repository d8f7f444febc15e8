--------------------------- MODULE GatewayProofs ---------------------------
(***************************************************************************)
(* Proofs about RateLimiter for every set of callers, every word size and  *)
(* every configuration, and about Gateway for any number of connections    *)
(* and of threads.  The gateway implements the limiter, so what is proved  *)
(* of the limiter holds in it.                                             *)
(***************************************************************************)
EXTENDS Gateway, FiniteSetTheorems, TLAPS

(* Division with remainder is unique, the way fetch_sub and fetch_add wrap *)
(* a size_t.                                                               *)
LEMMA ModUnique ==
  ASSUME NEW W \in Nat, W > 0, NEW q \in Int, NEW r \in 0..(W - 1)
  PROVE  (W * q + r) % W = r
  OBVIOUS

(* Wrapping after every fetch_sub(1) or fetch_add(1) gives the same value  *)
(* as wrapping once at the end.                                            *)
LEMMA ModStep ==
  ASSUME NEW x \in Int, NEW W \in Nat, W > 1
  PROVE  /\ (x - 1) % W = ((x % W) - 1) % W
         /\ (x + 1) % W = ((x % W) + 1) % W
<1> DEFINE q == x \div W
           r == x % W
<1>1. q \in Int /\ r \in 0..(W - 1) /\ x = W * q + r
  OBVIOUS
<1> HIDE DEF q, r
<1>2. ASSUME NEW p \in Int, NEW s \in Int PROVE (W * p + s) % W = s % W
  <2>1. PICK k \in Int, t \in 0..(W - 1) : s = W * k + t
    <3>1. s = W * (s \div W) + (s % W) /\ s \div W \in Int /\ s % W \in 0..(W - 1)
      OBVIOUS
    <3>2. QED BY <3>1
  <2>2. W * p + s = W * (p + k) + t
    BY <2>1
  <2>3. (W * (p + k) + t) % W = t /\ (W * k + t) % W = t
    BY ModUnique
  <2>4. QED BY <2>1, <2>2, <2>3
<1>3. x - 1 = W * q + (r - 1) /\ x + 1 = W * q + (r + 1)
  BY <1>1
<1>4. (x - 1) % W = (r - 1) % W /\ (x + 1) % W = (r + 1) % W
  <2>1. r - 1 \in Int /\ r + 1 \in Int
    BY <1>1
  <2>2. QED BY <1>1, <1>2, <1>3, <2>1
<1>5. QED BY <1>4 DEF r

-----------------------------------------------------------------------------

(* Every variable of the limiter keeps its type; in particular the         *)
(* configured limits never become zero, because ConfigRateLimitor ignores  *)
(* zero arguments.                                                         *)
THEOREM LimiterTypeCorrect == LimiterSpec => []LimiterTypeOK
<1> USE LimiterAssumption DEF SizeT
<1>1. LimiterInit => LimiterTypeOK
  BY DEF LimiterInit, LimiterTypeOK
<1>2. LimiterTypeOK /\ [LimiterNext]_limiterVars => LimiterTypeOK'
  <2> SUFFICES ASSUME LimiterTypeOK, [LimiterNext]_limiterVars
               PROVE  LimiterTypeOK'
    OBVIOUS
  <2> USE DEF LimiterTypeOK, configVars, taskVars
  <2>1. ASSUME NEW c \in Callers, GetToken(c) PROVE LimiterTypeOK'
    BY <2>1 DEF GetToken
  <2>2. ASSUME NEW c \in Callers, GiveBack(c) PROVE LimiterTypeOK'
    BY <2>2 DEF GiveBack
  <2>3. CASE TickReadConfig
    BY <2>3 DEF TickReadConfig
  <2>4. CASE TickLoad
    BY <2>4 DEF TickLoad, Clamped
  <2>5. CASE TickStore
    <3>1. Cardinality(Undoing) \in Nat
      BY FS_Subset, FS_CardinalityType DEF Undoing
    <3>2. QED BY <2>5, <3>1 DEF TickStore
  <2>6. ASSUME NEW max \in ConfigArgs, NEW perSec \in ConfigArgs,
               ConfigRateLimitor(max, perSec)
        PROVE  LimiterTypeOK'
    BY <2>6 DEF ConfigRateLimitor
  <2>7. CASE UNCHANGED limiterVars
    BY <2>7 DEF limiterVars
  <2>8. QED
    BY <2>1, <2>2, <2>3, <2>4, <2>5, <2>6, <2>7 DEF LimiterNext, Tick
<1>3. QED BY <1>1, <1>2, PTL DEF LimiterSpec

-----------------------------------------------------------------------------

(* Entering or leaving the give-back half of GetToken() changes the number *)
(* of callers there by exactly one.                                        *)
LEMMA UndoingCount ==
  ASSUME LimiterTypeOK, NEW c \in Callers
  PROVE  /\ Cardinality(Undoing) \in Nat
         /\ caller[c] = "idle" /\ caller' = [caller EXCEPT ![c] = "undo"]
              => Cardinality(Undoing') = Cardinality(Undoing) + 1
         /\ caller[c] = "undo" /\ caller' = [caller EXCEPT ![c] = "idle"]
              => Cardinality(Undoing') = Cardinality(Undoing) - 1
<1>1. IsFiniteSet(Undoing)
  BY LimiterAssumption, FS_Subset DEF Undoing
<1>2. Cardinality(Undoing) \in Nat
  BY <1>1, FS_CardinalityType
<1>3. ASSUME caller[c] = "idle", caller' = [caller EXCEPT ![c] = "undo"]
      PROVE  Cardinality(Undoing') = Cardinality(Undoing) + 1
  <2>1. Undoing' = Undoing \cup {c} /\ c \notin Undoing
    BY <1>3 DEF Undoing, LimiterTypeOK
  <2>2. QED BY <1>1, <2>1, FS_AddElement
<1>4. ASSUME caller[c] = "undo", caller' = [caller EXCEPT ![c] = "idle"]
      PROVE  Cardinality(Undoing') = Cardinality(Undoing) - 1
  <2>1. Undoing' = Undoing \ {c} /\ c \in Undoing
    BY <1>4 DEF Undoing, LimiterTypeOK
  <2>2. QED BY <1>1, <2>1, FS_RemoveElement
<1>5. QED BY <1>2, <1>3, <1>4

(* The balance is an integer whenever the state is well typed.             *)
LEMMA BalanceType == LimiterTypeOK => Balance \in Int
  BY LimiterAssumption, FS_Subset, FS_CardinalityType
     DEF LimiterTypeOK, Balance, Undoing, SizeT

(* A step that leaves the ledger and the callers alone leaves the balance  *)
(* alone.                                                                  *)
LEMMA BalanceFrame ==
  ASSUME UNCHANGED <<ledger, caller>>
  PROVE  Balance' = Balance
  BY DEF Balance, Undoing

(* No fetch_sub and no fetch_add of GetToken() is lost between two stores  *)
(* of performTask(), whatever the interleaving.                            *)
THEOREM LedgerBalances == LimiterSpec => []TokenLedger
<1> USE LimiterAssumption
<1>1. LimiterInit => TokenLedger
  <2> SUFFICES ASSUME LimiterInit PROVE TokenLedger
    OBVIOUS
  <2>1. Undoing = {}
    BY DEF LimiterInit, Undoing
  <2>2. Balance = DftTokenMax
    BY <2>1, FS_EmptySet DEF LimiterInit, Balance
  <2>3. DftTokenMax % WordSize = DftTokenMax
    BY ModUnique
  <2>4. QED BY <2>2, <2>3 DEF LimiterInit, TokenLedger
<1>2. LimiterTypeOK /\ TokenLedger /\ [LimiterNext]_limiterVars => TokenLedger'
  <2> SUFFICES ASSUME LimiterTypeOK, TokenLedger, [LimiterNext]_limiterVars
               PROVE  TokenLedger'
    OBVIOUS
  <2> USE BalanceType DEF TokenLedger
  <2>1. ASSUME NEW c \in Callers, GetToken(c) PROVE TokenLedger'
    <3>1. Balance' = Balance - 1
      <4>1. CASE n_token_ > 0
        BY <2>1, <4>1, UndoingCount
           DEF GetToken, Balance, Undoing, LimiterTypeOK, SizeT
      <4>2. CASE ~(n_token_ > 0)
        BY <2>1, <4>2, UndoingCount DEF GetToken, Balance, LimiterTypeOK, SizeT
      <4>3. QED BY <4>1, <4>2
    <3>2. QED BY <2>1, <3>1, ModStep DEF GetToken
  <2>2. ASSUME NEW c \in Callers, GiveBack(c) PROVE TokenLedger'
    <3>1. Balance' = Balance + 1
      <4>1. Cardinality(Undoing') = Cardinality(Undoing) - 1 /\ ledger' = ledger
        BY <2>2, UndoingCount DEF GiveBack
      <4>2. Cardinality(Undoing) \in Nat
        BY <2>2, UndoingCount
      <4>3. QED BY <4>1, <4>2 DEF Balance, LimiterTypeOK, SizeT
    <3>2. QED BY <2>2, <3>1, ModStep DEF GiveBack
  <2>3. CASE TickReadConfig
    BY <2>3, BalanceFrame DEF TickReadConfig
  <2>4. CASE TickLoad
    BY <2>4, BalanceFrame DEF TickLoad
  <2>5. CASE TickStore
    <3>1. Undoing' = Undoing /\ Cardinality(Undoing) \in Nat
      BY <2>5, FS_Subset, FS_CardinalityType DEF TickStore, Undoing
    <3>2. Balance' = new_token_num
      BY <2>5, <3>1 DEF TickStore, Balance, LimiterTypeOK, SizeT
    <3>3. new_token_num % WordSize = new_token_num
      BY ModUnique DEF LimiterTypeOK, SizeT
    <3>4. QED BY <2>5, <3>2, <3>3 DEF TickStore
  <2>6. ASSUME NEW max \in ConfigArgs, NEW perSec \in ConfigArgs,
               ConfigRateLimitor(max, perSec)
        PROVE  TokenLedger'
    BY <2>6, BalanceFrame DEF ConfigRateLimitor
  <2>7. CASE UNCHANGED limiterVars
    BY <2>7, BalanceFrame DEF limiterVars
  <2>8. QED
    BY <2>1, <2>2, <2>3, <2>4, <2>5, <2>6, <2>7 DEF LimiterNext, Tick
<1>3. QED BY <1>1, <1>2, LimiterTypeCorrect, PTL DEF LimiterSpec

-----------------------------------------------------------------------------

(* What performTask() is about to store, and what it stored last, is within *)
(* the limit it read from the configuration in the same run.                *)
Refilled ==
  /\ task = "store" => new_token_num <= num_token_max
  /\ ledger.base <= ledger.cap

(* Every refill of performTask() stays within the limit it read: the part  *)
(* of BucketCap that carries over from one refill to the next.             *)
LEMMA RefillWithinCap == LimiterSpec => []Refilled
<1> USE LimiterAssumption DEF Refilled, SizeT
<1>1. LimiterInit => Refilled
  BY DEF LimiterInit
<1>2. LimiterTypeOK /\ Refilled /\ [LimiterNext]_limiterVars => Refilled'
  <2> SUFFICES ASSUME LimiterTypeOK, Refilled, [LimiterNext]_limiterVars
               PROVE  Refilled'
    OBVIOUS
  <2> USE DEF configVars, taskVars
  <2>1. ASSUME NEW c \in Callers, GetToken(c) PROVE Refilled'
    BY <2>1 DEF GetToken, LimiterTypeOK
  <2>2. ASSUME NEW c \in Callers, GiveBack(c) PROVE Refilled'
    BY <2>2 DEF GiveBack
  <2>3. CASE TickReadConfig
    BY <2>3 DEF TickReadConfig
  <2>4. CASE TickLoad
    BY <2>4 DEF TickLoad, Clamped, LimiterTypeOK
  <2>5. CASE TickStore
    BY <2>5 DEF TickStore
  <2>6. ASSUME NEW max \in ConfigArgs, NEW perSec \in ConfigArgs,
               ConfigRateLimitor(max, perSec)
        PROVE  Refilled'
    BY <2>6 DEF ConfigRateLimitor
  <2>7. CASE UNCHANGED limiterVars
    BY <2>7 DEF limiterVars
  <2>8. QED
    BY <2>1, <2>2, <2>3, <2>4, <2>5, <2>6, <2>7 DEF LimiterNext, Tick
<1>3. QED BY <1>1, <1>2, LimiterTypeCorrect, PTL DEF LimiterSpec

(* A bucket that is not underflowed never holds more than the limit of the *)
(* last refill plus the refusals that were in flight at it: performTask()  *)
(* clamps, and GetToken() only gives back what it took.                    *)
THEOREM BucketCapped == LimiterSpec => []BucketCap
<1>1. LimiterTypeOK /\ TokenLedger /\ Refilled => BucketCap
  <2> SUFFICES ASSUME LimiterTypeOK, TokenLedger, Refilled, Balance \in Nat
               PROVE  n_token_ <= ledger.cap + ledger.carried
    BY DEF BucketCap
  <2>1. Balance <= ledger.base + ledger.carried
    <3>1. Cardinality(Undoing) \in Nat
      BY LimiterAssumption, FS_Subset, FS_CardinalityType DEF Undoing
    <3>2. QED BY <3>1 DEF Balance, LimiterTypeOK, SizeT
  <2>2. \A b \in Nat : b % WordSize <= b
    BY LimiterAssumption
  <2>3. n_token_ <= Balance
    BY <2>2 DEF TokenLedger
  <2>4. QED
    BY <2>1, <2>3, LimiterAssumption DEF Refilled, LimiterTypeOK, SizeT
<1>2. QED
  BY <1>1, LimiterTypeCorrect, LedgerBalances, RefillWithinCap, PTL

-----------------------------------------------------------------------------

(* With no refusal in flight a counter above zero is a token that is there. *)
LEMMA GrantIsBacked ==
  ASSUME LimiterTypeOK, TokenLedger, GrantsBacked, Undoing = {}, n_token_ > 0
  PROVE  ledger.granted + 1 <= ledger.base + ledger.carried
<1>1. Cardinality(Undoing) = 0
  BY FS_EmptySet
<1>2. /\ ledger.base \in Nat /\ ledger.carried \in Nat /\ ledger.granted \in Nat
      /\ n_token_ \in Nat
  BY LimiterAssumption DEF LimiterTypeOK, SizeT
<1>3. Balance = ledger.base + ledger.carried - ledger.granted
  BY <1>1, <1>2 DEF Balance
<1>4. Balance # 0
  <2>1. 0 % WordSize = 0
    BY LimiterAssumption, ModUnique
  <2>2. QED BY <1>2, <2>1 DEF TokenLedger
<1>5. QED BY <1>2, <1>3, <1>4 DEF GrantsBacked

(* A step of the limiter that admits more calls than there were tokens is  *)
(* a fetch_sub that finds the counter wrapped, and it can find it wrapped  *)
(* only between the fetch_sub and the fetch_add of another call that is    *)
(* being refused.                                                          *)
OveradmitsInRefusal ==
  [][GrantsBacked /\ ~GrantsBacked' => Undoing # {}]_limiterVars

(* The one way to break the promise of the bucket: GetToken() admits a     *)
(* call beyond the tokens only while another call is half-way through its  *)
(* refusal.  No refill and no change of the configuration does it.         *)
LEMMA BackedStep ==
  ASSUME LimiterTypeOK, TokenLedger, GrantsBacked, Undoing = {},
         [LimiterNext]_limiterVars
  PROVE  GrantsBacked'
<1> USE LimiterAssumption DEF SizeT, configVars, taskVars
<1>1. ASSUME NEW c \in Callers, GetToken(c) PROVE GrantsBacked'
  <2>1. CASE n_token_ > 0
    BY <1>1, <2>1, GrantIsBacked DEF GetToken, GrantsBacked, LimiterTypeOK
  <2>2. CASE ~(n_token_ > 0)
    BY <1>1, <2>2 DEF GetToken, GrantsBacked
  <2>3. QED BY <2>1, <2>2
<1>2. CASE TickStore
  <2>1. ledger'.granted = 0 /\ ledger'.base = new_token_num
        /\ ledger'.carried = Cardinality(Undoing)
    BY <1>2 DEF TickStore
  <2>2. Cardinality(Undoing) \in Nat /\ new_token_num \in Nat
    BY FS_EmptySet DEF LimiterTypeOK
  <2>3. 0 <= new_token_num + Cardinality(Undoing)
    BY <2>2
  <2>4. QED BY <2>1, <2>3 DEF GrantsBacked
<1>3. CASE UNCHANGED ledger
  BY <1>3 DEF GrantsBacked
<1>4. QED
  BY <1>1, <1>2, <1>3 DEF LimiterNext, Tick, GiveBack, TickReadConfig, TickLoad,
     ConfigRateLimitor, limiterVars

(* Over-admission needs a second call in the window of a refusal.          *)
THEOREM OveradmissionNeedsRefusal == LimiterSpec => OveradmitsInRefusal
<1>1. LimiterTypeOK /\ TokenLedger /\ [LimiterNext]_limiterVars
        => [GrantsBacked /\ ~GrantsBacked' => Undoing # {}]_limiterVars
  BY BackedStep
<1>2. QED
  BY <1>1, LimiterTypeCorrect, LedgerBalances, PTL DEF LimiterSpec, OveradmitsInRefusal

-----------------------------------------------------------------------------

(* Every step of the gateway is a step of the limiter or leaves it alone:  *)
(* Dispatch reaches the counter through GetToken() only, and tick() on a   *)
(* shared thread is still tick().                                          *)
THEOREM GatewayImplementsLimiter == GatewaySpec => LimiterSpec
<1>1. GatewayInit => LimiterInit
  BY DEF GatewayInit
<1>2. [GatewayNext]_gatewayVars => [LimiterNext]_limiterVars
  <2> SUFFICES ASSUME [GatewayNext]_gatewayVars PROVE [LimiterNext]_limiterVars
    OBVIOUS
  <2>1. ASSUME NEW c \in Conns, ConnNext(c) PROVE [LimiterNext]_limiterVars
    <3>1. CASE AskLimiter(c)
      BY <3>1 DEF AskLimiter, LimiterNext, Conns
    <3>2. CASE Refuse(c)
      BY <3>2 DEF Refuse, LimiterNext, Conns
    <3>3. CASE UNCHANGED limiterVars
      BY <3>3
    <3>4. QED
      BY <2>1, <3>1, <3>2, <3>3
         DEF ConnNext, Connect, AcceptDone, TurnAway, OnAccept, Serve, Handshake,
             ReArm, ReadDone, OnReadFails, OnReadPartial, OnReadRequest,
             LocalFails, LocalHeader, LocalBody, LocalEnds,
             LocalReturns, LocalThrows, ForwardStep, HandlerEnds
  <2>2. CASE AcceptFails \/ OnAcceptError
    BY <2>2 DEF AcceptFails, OnAcceptError
  <2>3. CASE LimiterTask
    BY <2>3 DEF LimiterTask, TickStarts, LimiterNext, Tick
  <2>4. CASE Administer
    BY <2>4 DEF Administer, LimiterNext
  <2>5. CASE Terminated \/ UNCHANGED gatewayVars
    BY <2>5 DEF Terminated, gatewayVars
  <2>6. QED BY <2>1, <2>2, <2>3, <2>4, <2>5 DEF GatewayNext
<1>3. QED BY <1>1, <1>2, PTL DEF GatewaySpec, LimiterSpec

-----------------------------------------------------------------------------

(* Every variable of the gateway keeps its type; in particular the number  *)
(* of outstanding accepts never goes below zero and a header never         *)
(* outgrows its buffer.                                                    *)
THEOREM GatewayTypeCorrect == GatewaySpec => []GatewayTypeOK
<1> USE GatewayAssumption
        DEF AcceptStates, OnAcceptStates, HandlerStates, OnReadStates, Arrivals
<1>1. GatewayInit => GatewayTypeOK
  <2> SUFFICES ASSUME GatewayInit PROVE GatewayTypeOK
    OBVIOUS
  <2> USE DEF GatewayInit
  <2>1. up \in BOOLEAN /\ g_enable_rate_limiter \in BOOLEAN /\ g_enable_https \in BOOLEAN
    BY Zenon
  <2>2. g_ip_blacklist \subseteq Conns /\ armed \in Nat /\ acceptErrs \in Nat
    OBVIOUS
  <2>3. /\ accept \in [Conns -> AcceptStates]
        /\ handler \in [Conns -> HandlerStates]
        /\ arrived \in [Conns -> Arrivals]
        /\ total_parsed_ \in [Conns -> 0..HeaderCap]
    OBVIOUS
  <2>4. QED BY <2>1, <2>2, <2>3 DEF GatewayTypeOK
<1>2. GatewayTypeOK /\ [GatewayNext]_gatewayVars => GatewayTypeOK'
  <2> SUFFICES ASSUME GatewayTypeOK, [GatewayNext]_gatewayVars
               PROVE  GatewayTypeOK'
    OBVIOUS
  <2> USE DEF GatewayTypeOK, adminVars, handlerVars
  <2>1. ASSUME NEW c \in Conns, ConnNext(c) PROVE GatewayTypeOK'
    <3>1. CASE Connect(c) \/ AcceptDone(c) \/ TurnAway(c) \/ OnAccept(c)
      BY <3>1 DEF Connect, AcceptDone, TurnAway, OnAccept
    <3>2. CASE AskLimiter(c) \/ Refuse(c)
      BY <3>2 DEF AskLimiter, Refuse
    <3>3. CASE Serve(c) \/ Handshake(c)
      BY <3>3 DEF Serve, Handshake, StartHandler
    <3>4. CASE ReArm(c)
      BY <3>4 DEF ReArm
    <3>5. CASE \E what \in Arrivals : ReadDone(c, what)
      BY <3>5 DEF ReadDone
    <3>6. CASE OnReadFails(c) \/ HandlerEnds(c) \/ LocalReturns(c)
      BY <3>6 DEF OnReadFails, HandlerEnds, LocalReturns, FinishHandler
    <3>7. CASE OnReadPartial(c)
      BY <3>7 DEF OnReadPartial, FinishHandler
    <3>8. CASE OnReadRequest(c)
      BY <3>8 DEF OnReadRequest
    <3>9. CASE LocalFails(c) \/ LocalHeader(c) \/ LocalBody(c)
      BY <3>9 DEF LocalFails, LocalHeader, LocalBody, LocalEnds
    <3>12. CASE LocalThrows(c)
      <4>1. up' \in BOOLEAN
        BY <3>12, Zenon DEF LocalThrows
      <4>2. QED BY <3>12, <4>1 DEF LocalThrows
    <3>10. CASE ForwardStep(c)
      BY <3>10 DEF ForwardStep
    <3>11. QED
      BY <2>1, <3>1, <3>2, <3>3, <3>4, <3>5, <3>6, <3>7, <3>8, <3>9, <3>10, <3>12
         DEF ConnNext
  <2>2. CASE AcceptFails \/ OnAcceptError
    BY <2>2 DEF AcceptFails, OnAcceptError
  <2>3. CASE LimiterTask
    BY <2>3 DEF LimiterTask
  <2>4. CASE Administer
    <3> USE DEF SetEnableRateLimitor, SetHttps, AddBlacklistIp, RemoveBlacklistIp
    <3>1. g_enable_rate_limiter' \in BOOLEAN /\ g_enable_https' \in BOOLEAN
      BY <2>4, Zenon DEF Administer
    <3>2. g_ip_blacklist' \subseteq Conns
      BY <2>4 DEF Administer, Conns
    <3>3. QED BY <2>4, <3>1, <3>2 DEF Administer
  <2>5. CASE Terminated \/ UNCHANGED gatewayVars
    BY <2>5 DEF Terminated, gatewayVars
  <2>6. QED BY <2>1, <2>2, <2>3, <2>4, <2>5 DEF GatewayNext
<1>3. QED BY <1>1, <1>2, PTL DEF GatewaySpec

-----------------------------------------------------------------------------

(* Taking an accept completion up, or being through with one, changes the  *)
(* number of connections in onAccept by exactly one.                       *)
LEMMA AcceptingCount ==
  /\ Cardinality(Accepting) \in Nat
  /\ \A c \in Conns : c \notin Accepting /\ Accepting' = Accepting \cup {c}
       => Cardinality(Accepting') = Cardinality(Accepting) + 1
  /\ \A c \in Conns : c \in Accepting /\ Accepting' = Accepting \ {c}
       => Cardinality(Accepting') = Cardinality(Accepting) - 1
<1>1. IsFiniteSet(Accepting)
  BY LimiterAssumption, FS_Subset DEF Accepting, Conns
<1>2. Cardinality(Accepting) \in Nat
  BY <1>1, FS_CardinalityType
<1>3. ASSUME NEW c, c \notin Accepting, Accepting' = Accepting \cup {c}
      PROVE  Cardinality(Accepting') = Cardinality(Accepting) + 1
  BY <1>1, <1>3, FS_AddElement
<1>4. ASSUME NEW c \in Accepting, Accepting' = Accepting \ {c}
      PROVE  Cardinality(Accepting') = Cardinality(Accepting) - 1
  BY <1>1, <1>4, FS_RemoveElement
<1>5. QED BY <1>2, <1>3, <1>4

(* The server never goes deaf: every path of onAccept, including the ones  *)
(* for an error code, a peer that is gone, a blacklisted address, a        *)
(* refusal and a failed handshake, arms an accept for the one it used up.  *)
THEOREM GatewayAlwaysListens == GatewaySpec => []AlwaysListening
<1> USE DEF OnAcceptStates
<1>1. GatewayInit => AlwaysListening
  BY AcceptingCount DEF GatewayInit, AlwaysListening
<1>2. GatewayTypeOK /\ AlwaysListening /\ [GatewayNext]_gatewayVars
        => AlwaysListening'
  <2> SUFFICES ASSUME GatewayTypeOK, AlwaysListening, [GatewayNext]_gatewayVars
               PROVE  AlwaysListening'
    OBVIOUS
  <2> USE AcceptingCount DEF GatewayTypeOK, AlwaysListening
  <2>1. ASSUME Accepting' = Accepting, acceptErrs' = acceptErrs,
               armed' = armed \/ armed' = armed + 1
        PROVE  AlwaysListening'
    BY <2>1
  <2>2. ASSUME NEW c \in Conns, ConnNext(c) PROVE AlwaysListening'
    <3>1. CASE Connect(c) \/ OnAccept(c)
      BY <2>1, <3>1 DEF Connect, OnAccept, Accepting
    <3>2. CASE AcceptDone(c)
      <4>1. c \notin Accepting /\ Accepting' = Accepting \cup {c}
        BY <3>2 DEF AcceptDone, Accepting
      <4>2. Cardinality(Accepting') = Cardinality(Accepting) + 1
        BY <4>1, AcceptingCount
      <4>3. armed' = armed - 1 /\ acceptErrs' = acceptErrs
        BY <3>2 DEF AcceptDone
      <4>4. QED BY <4>2, <4>3
    <3>3. CASE TurnAway(c)
      <4>1. c \in Accepting /\ Accepting' = Accepting \ {c}
        BY <3>3 DEF TurnAway, Accepting
      <4>2. Cardinality(Accepting') = Cardinality(Accepting) - 1
        BY <4>1, AcceptingCount
      <4>3. armed' = armed + 1 /\ acceptErrs' = acceptErrs
        BY <3>3 DEF TurnAway
      <4>4. QED BY <4>2, <4>3
    <3>4. CASE AskLimiter(c) \/ Refuse(c)
      BY <2>1, <3>4 DEF AskLimiter, Refuse, Accepting
    <3>5. CASE Serve(c) \/ Handshake(c)
      BY <2>1, <3>5 DEF Serve, Handshake, StartHandler, Accepting
    <3>6. CASE ReArm(c)
      <4>1. CASE accept[c] = "owe2"
        BY <2>1, <3>6, <4>1 DEF ReArm, Accepting
      <4>2. CASE accept[c] = "owe1"
        <5>1. c \in Accepting /\ Accepting' = Accepting \ {c}
          BY <3>6, <4>2 DEF ReArm, Accepting
        <5>2. Cardinality(Accepting') = Cardinality(Accepting) - 1
          BY <5>1, AcceptingCount
        <5>3. armed' = armed + 1 /\ acceptErrs' = acceptErrs
          BY <3>6 DEF ReArm
        <5>4. QED BY <5>2, <5>3
      <4>3. QED BY <3>6, <4>1, <4>2 DEF ReArm
    <3>7. CASE \/ \E what \in Arrivals : ReadDone(c, what)
               \/ OnReadFails(c) \/ OnReadPartial(c) \/ OnReadRequest(c)
      BY <2>1, <3>7 DEF ReadDone, OnReadFails, OnReadPartial, OnReadRequest,
                        FinishHandler, Accepting
    <3>8. CASE \/ LocalFails(c) \/ LocalHeader(c) \/ LocalBody(c)
               \/ LocalReturns(c) \/ LocalThrows(c)
               \/ ForwardStep(c) \/ HandlerEnds(c)
      BY <2>1, <3>8 DEF LocalFails, LocalHeader, LocalBody, LocalEnds,
             LocalReturns, LocalThrows, ForwardStep,
                        HandlerEnds, FinishHandler, handlerVars, Accepting
    <3>9. QED
      BY <2>2, <3>1, <3>2, <3>3, <3>4, <3>5, <3>6, <3>7, <3>8 DEF ConnNext
  <2>3. CASE AcceptFails \/ OnAcceptError
    <3>1. Accepting' = Accepting
      BY <2>3 DEF AcceptFails, OnAcceptError, Accepting
    <3>2. QED BY <2>3, <3>1 DEF AcceptFails, OnAcceptError
  <2>4. CASE LimiterTask \/ Administer
    BY <2>1, <2>4 DEF LimiterTask, Administer, Accepting
  <2>5. CASE Terminated \/ UNCHANGED gatewayVars
    BY <2>1, <2>5 DEF Terminated, gatewayVars, Accepting
  <2>6. QED BY <2>2, <2>3, <2>4, <2>5 DEF GatewayNext
<1>3. QED BY <1>1, <1>2, GatewayTypeCorrect, PTL DEF GatewaySpec

-----------------------------------------------------------------------------

(* What the limiter guarantees by itself it guarantees inside the gateway: *)
(* no decrement and no give-back of a connection is lost.                  *)
THEOREM GatewayLedgerBalances == GatewaySpec => []TokenLedger
  BY GatewayImplementsLimiter, LedgerBalances, PTL

(* A handler exists only for a connection that Dispatch admitted, and the  *)
(* limiter is undoing a GetToken() exactly for the connections Dispatch is *)
(* refusing.                                                               *)
THEOREM GatewayAdmits == GatewaySpec => []HandlerAdmitted
<1>1. GatewayInit => HandlerAdmitted
  BY DEF GatewayInit, LimiterInit, HandlerAdmitted, Conns
<1>2. LimiterTypeOK /\ GatewayTypeOK /\ HandlerAdmitted /\ [GatewayNext]_gatewayVars
        => HandlerAdmitted'
  <2> SUFFICES ASSUME caller \in [Conns -> {"idle", "undo"}],
                      accept \in [Conns -> AcceptStates],
                      handler \in [Conns -> HandlerStates],
                      HandlerAdmitted, [GatewayNext]_gatewayVars
               PROVE  HandlerAdmitted'
    BY SMTT(30) DEF LimiterTypeOK, GatewayTypeOK, Conns
  <2> USE DEF HandlerAdmitted
  <2>1. ASSUME NEW c \in Conns, ConnNext(c) PROVE HandlerAdmitted'
    <3>1. CASE Connect(c) \/ AcceptDone(c) \/ TurnAway(c) \/ OnAccept(c) \/ ReArm(c)
      BY <3>1 DEF Connect, AcceptDone, TurnAway, OnAccept, ReArm, handlerVars,
                  limiterVars
    <3>2. CASE AskLimiter(c)
      BY <3>2 DEF AskLimiter, GetToken, handlerVars, limiterVars
    <3>3. CASE Refuse(c)
      BY <3>3 DEF Refuse, GiveBack, handlerVars
    <3>4. CASE Serve(c) \/ Handshake(c)
      BY <3>4 DEF Serve, Handshake, StartHandler, limiterVars
    <3>5. CASE \/ \E what \in Arrivals : ReadDone(c, what)
               \/ OnReadFails(c) \/ OnReadPartial(c) \/ OnReadRequest(c)
      BY <3>5 DEF ReadDone, OnReadFails, OnReadPartial, OnReadRequest,
                  FinishHandler, limiterVars
    <3>6. CASE \/ LocalFails(c) \/ LocalHeader(c) \/ LocalBody(c)
               \/ LocalReturns(c) \/ LocalThrows(c)
               \/ ForwardStep(c) \/ HandlerEnds(c)
      BY <3>6 DEF LocalFails, LocalHeader, LocalBody, LocalEnds,
             LocalReturns, LocalThrows, ForwardStep, HandlerEnds,
                  FinishHandler, OnReadStates, handlerVars, limiterVars
    <3>7. QED BY <2>1, <3>1, <3>2, <3>3, <3>4, <3>5, <3>6 DEF ConnNext
  <2>2. CASE AcceptFails \/ OnAcceptError
    BY <2>2 DEF AcceptFails, OnAcceptError, handlerVars, limiterVars
  <2>3. CASE LimiterTask
    BY <2>3 DEF LimiterTask, TickStarts, TickReadConfig, TickLoad, TickStore,
                handlerVars
  <2>4. CASE Administer
    BY <2>4 DEF Administer, ConfigRateLimitor, handlerVars, limiterVars
  <2>5. CASE Terminated \/ UNCHANGED gatewayVars
    BY <2>5 DEF Terminated, gatewayVars, handlerVars, limiterVars
  <2>6. QED BY <2>1, <2>2, <2>3, <2>4, <2>5 DEF GatewayNext
<1>3. QED
  BY <1>1, <1>2, GatewayImplementsLimiter, LimiterTypeCorrect,
     GatewayTypeCorrect, PTL DEF GatewaySpec

-----------------------------------------------------------------------------

(* A set of connections that gains or loses one changes its size by one.   *)
LEMMA OneMore ==
  ASSUME NEW S \in SUBSET Conns, NEW c \in Conns, NEW T
  PROVE  /\ Cardinality(S) \in Nat
         /\ c \notin S /\ T = S \cup {c} => Cardinality(T) = Cardinality(S) + 1
         /\ c \in S /\ T = S \ {c} => Cardinality(T) = Cardinality(S) - 1
<1>1. IsFiniteSet(S)
  BY LimiterAssumption, FS_Subset DEF Conns
<1>2. QED
  BY <1>1, FS_CardinalityType, FS_AddElement, FS_RemoveElement

(* What a handler is doing tells which kind of request it has read.        *)
KnowsRequest ==
  \A c \in Conns :
    /\ handler[c] \in {"local", "localBody", "localDone"} => arrived[c] = "local"
    /\ handler[c] \in OnReadStates \ {"local", "localBody", "localDone"}
         => arrived[c] # "local"

(* No step of a handler makes it forget.                                   *)
LEMMA RequestKnown == GatewaySpec => []KnowsRequest
<1> USE DEF OnReadStates
<1>1. GatewayInit => KnowsRequest
  BY DEF GatewayInit, KnowsRequest
<1>2. GatewayTypeOK /\ KnowsRequest /\ [GatewayNext]_gatewayVars => KnowsRequest'
  <2> SUFFICES ASSUME handler \in [Conns -> HandlerStates],
                      arrived \in [Conns -> Arrivals],
                      KnowsRequest, [GatewayNext]_gatewayVars
               PROVE  KnowsRequest'
    BY DEF GatewayTypeOK
  <2> USE DEF KnowsRequest
  <2>1. ASSUME NEW c \in Conns, ConnNext(c) PROVE KnowsRequest'
    <3>1. CASE UNCHANGED <<handler, arrived>>
      BY <3>1
    <3>2. CASE Serve(c) \/ Handshake(c)
      BY <3>2 DEF Serve, Handshake, StartHandler
    <3>3. CASE \E what \in Arrivals : ReadDone(c, what)
      BY <3>3 DEF ReadDone
    <3>4. CASE OnReadFails(c) \/ OnReadPartial(c) \/ HandlerEnds(c) \/ LocalReturns(c)
      BY <3>4 DEF OnReadFails, OnReadPartial, HandlerEnds, LocalReturns, FinishHandler
    <3>5. CASE OnReadRequest(c)
      BY <3>5 DEF OnReadRequest
    <3>6. CASE LocalFails(c) \/ LocalHeader(c) \/ LocalBody(c)
      BY <3>6 DEF LocalFails, LocalHeader, LocalBody, LocalEnds
    <3>7. CASE ForwardStep(c)
      BY <3>7 DEF ForwardStep
    <3>8. QED
      BY <2>1, <3>1, <3>2, <3>3, <3>4, <3>5, <3>6, <3>7
         DEF ConnNext, Connect, AcceptDone, TurnAway, OnAccept, AskLimiter, Refuse,
             ReArm, LocalThrows, handlerVars
  <2>2. CASE UNCHANGED <<handler, arrived>>
    BY <2>2
  <2>3. QED
    BY <2>1, <2>2 DEF GatewayNext, AcceptFails, OnAcceptError, LimiterTask, Administer,
       Terminated, gatewayVars, handlerVars
<1>3. QED BY <1>1, <1>2, GatewayTypeCorrect, PTL DEF GatewaySpec

(* The accepts outstanding are accounted for by the callbacks made, for    *)
(* any number of connections: Dispatch and each handler call back exactly  *)
(* once, and route() once more after a local file.                         *)
THEOREM GatewayLedgerOfAccepts == GatewaySpec => []AcceptLedger
<1>1. GatewayInit => AcceptLedger
  <2> SUFFICES ASSUME GatewayInit PROVE AcceptLedger
    OBVIOUS
  <2>0. armed = 1 /\ acceptErrs = 0
    BY DEF GatewayInit
  <2>1. Accepting = {} /\ Dispatched = {} /\ Finished = {} /\ Repeated = {}
    BY DEF GatewayInit, Accepting, OnAcceptStates, Dispatched, Finished, Repeated
  <2>2. /\ Cardinality(Accepting) = 0 /\ Cardinality(Dispatched) = 0
        /\ Cardinality(Finished) = 0 /\ Cardinality(Repeated) = 0
    BY <2>1, FS_EmptySet, Zenon
  <2>3. QED BY <2>0, <2>2 DEF AcceptLedger
<1>2. GatewayTypeOK /\ HandlerAdmitted /\ KnowsRequest
        /\ AcceptLedger /\ [GatewayNext]_gatewayVars => AcceptLedger'
  <2> SUFFICES ASSUME GatewayTypeOK, HandlerAdmitted, KnowsRequest, AcceptLedger,
                      [GatewayNext]_gatewayVars
               PROVE  AcceptLedger'
    OBVIOUS
  <2>t. /\ armed \in Nat /\ acceptErrs \in Nat
        /\ accept \in [Conns -> AcceptStates]
        /\ handler \in [Conns -> HandlerStates]
        /\ arrived \in [Conns -> Arrivals]
    BY DEF GatewayTypeOK
  <2>s. /\ Accepting \in SUBSET Conns /\ Dispatched \in SUBSET Conns
        /\ Finished \in SUBSET Conns /\ Repeated \in SUBSET Conns
    BY DEF Accepting, Dispatched, Finished, Repeated
  <2>1. CASE UNCHANGED <<Accepting, Dispatched, Finished, Repeated, armed, acceptErrs>>
    BY <2>1 DEF AcceptLedger
  <2>2. ASSUME NEW c \in Conns, ConnNext(c) PROVE AcceptLedger'
    <3>n. /\ Cardinality(Accepting) \in Nat /\ Cardinality(Dispatched) \in Nat
          /\ Cardinality(Finished) \in Nat /\ Cardinality(Repeated) \in Nat
      BY <2>s, OneMore
    <3>1. CASE AcceptDone(c)
      <4>1. c \notin Accepting /\ Accepting' = Accepting \cup {c}
        BY <2>t, <3>1 DEF AcceptDone, Accepting, OnAcceptStates
      <4>2. Cardinality(Accepting') = Cardinality(Accepting) + 1
        BY <2>s, <4>1, OneMore
      <4>3. UNCHANGED <<Dispatched, Finished, Repeated, acceptErrs>> /\ armed' = armed - 1
        BY <2>t, <3>1 DEF AcceptDone, Dispatched, Finished, Repeated, handlerVars
      <4>4. QED BY <2>t, <3>n, <4>2, <4>3 DEF AcceptLedger
    <3>2. CASE TurnAway(c)
      <4>1. c \in Accepting /\ Accepting' = Accepting \ {c}
        BY <2>t, <3>2 DEF TurnAway, Accepting, OnAcceptStates
      <4>2. Cardinality(Accepting') = Cardinality(Accepting) - 1
        BY <2>s, <4>1, OneMore
      <4>3. UNCHANGED <<Dispatched, Finished, Repeated, acceptErrs>> /\ armed' = armed + 1
        BY <2>t, <3>2 DEF TurnAway, Dispatched, Finished, Repeated, handlerVars
      <4>4. QED BY <2>t, <3>n, <4>2, <4>3 DEF AcceptLedger
    <3>3. CASE ReArm(c) /\ accept[c] = "owe2"
      <4>1. c \notin Dispatched /\ Dispatched' = Dispatched \cup {c}
        BY <2>t, <3>3 DEF ReArm, Dispatched
      <4>2. Cardinality(Dispatched') = Cardinality(Dispatched) + 1
        BY <2>s, <4>1, OneMore
      <4>3. UNCHANGED <<Accepting, Finished, Repeated, acceptErrs>> /\ armed' = armed + 1
        BY <2>t, <3>3 DEF ReArm, Accepting, OnAcceptStates, Finished, Repeated, handlerVars
      <4>4. QED BY <2>t, <3>n, <4>2, <4>3 DEF AcceptLedger
    <3>4. CASE ReArm(c) /\ accept[c] = "owe1"
      <4>1. c \in Accepting /\ Accepting' = Accepting \ {c}
        BY <2>t, <3>4 DEF ReArm, Accepting, OnAcceptStates
      <4>2. Cardinality(Accepting') = Cardinality(Accepting) - 1
        BY <2>s, <4>1, OneMore
      <4>3. UNCHANGED <<Dispatched, Finished, Repeated, acceptErrs>> /\ armed' = armed + 1
        BY <2>t, <3>4 DEF ReArm, Dispatched, Finished, Repeated, handlerVars
      <4>4. QED BY <2>t, <3>n, <4>2, <4>3 DEF AcceptLedger
    <3>5. ASSUME handler[c] \notin {"localDone", "done"}, acceptErrs' = acceptErrs,
                 accept' = accept, arrived' = arrived, armed' = armed + 1,
                 \/ handler' = [handler EXCEPT ![c] = "localDone"]
                 \/ handler' = [handler EXCEPT ![c] = "done"] /\ arrived[c] # "local"
          PROVE  AcceptLedger'
      <4>1. c \notin Finished /\ Finished' = Finished \cup {c}
        BY <2>t, <3>5 DEF Finished
      <4>2. Cardinality(Finished') = Cardinality(Finished) + 1
        BY <2>s, <4>1, OneMore
      <4>3. UNCHANGED <<Accepting, Dispatched, Repeated>>
        BY <2>t, <3>5 DEF Accepting, Dispatched, Repeated
      <4>4. QED BY <2>t, <3>n, <3>5, <4>2, <4>3 DEF AcceptLedger
    <3>6. CASE OnReadFails(c) \/ HandlerEnds(c) \/ LocalFails(c) \/ LocalBody(c)
      BY <3>5, <3>6 DEF OnReadFails, HandlerEnds, LocalFails, LocalBody, LocalEnds,
         FinishHandler, KnowsRequest, OnReadStates
    <3>7. CASE OnReadPartial(c)
      <4>1. CASE FinishHandler(c)
        BY <3>5, <3>7, <4>1 DEF OnReadPartial, FinishHandler
      <4>2. CASE handler' = [handler EXCEPT ![c] = "reading"] /\ UNCHANGED armed
        BY <2>t, <2>1, <3>7, <4>2 DEF OnReadPartial, Accepting, Dispatched, Finished, Repeated
      <4>3. QED BY <3>7, <4>1, <4>2 DEF OnReadPartial
    <3>8. CASE LocalReturns(c)
      <4>1. c \notin Repeated /\ Repeated' = Repeated \cup {c}
        BY <2>t, <3>8 DEF LocalReturns, FinishHandler, Repeated, KnowsRequest
      <4>2. Cardinality(Repeated') = Cardinality(Repeated) + 1
        BY <2>s, <4>1, OneMore
      <4>3. UNCHANGED <<Accepting, Dispatched, Finished, acceptErrs>> /\ armed' = armed + 1
        BY <2>t, <3>8 DEF LocalReturns, FinishHandler, Accepting, Dispatched, Finished
      <4>4. QED BY <2>t, <3>n, <4>2, <4>3 DEF AcceptLedger
    <3>9. CASE Connect(c) \/ OnAccept(c) \/ AskLimiter(c) \/ Refuse(c)
      BY <2>t, <2>1, <3>9 DEF Connect, OnAccept, AskLimiter, Refuse, Accepting,
         OnAcceptStates, Dispatched, Finished, Repeated, handlerVars
    <3>10. CASE Serve(c) \/ Handshake(c)
      <4>1. handler[c] = "none"
        BY <3>10 DEF Serve, Handshake, HandlerAdmitted
      <4>2. QED
        BY <2>t, <2>1, <3>10, <4>1 DEF Serve, Handshake, StartHandler, Accepting,
           OnAcceptStates, Dispatched, Finished, Repeated
    <3>11. CASE \E what \in Arrivals : ReadDone(c, what)
      BY <2>t, <2>1, <3>11 DEF ReadDone, Accepting, Dispatched, Finished, Repeated
    <3>12. CASE OnReadRequest(c) \/ LocalHeader(c) \/ ForwardStep(c) \/ LocalThrows(c)
      BY <2>t, <2>1, <3>12 DEF OnReadRequest, LocalHeader, ForwardStep, LocalThrows,
         Accepting, Dispatched, Finished, Repeated, handlerVars
    <3>13. QED
      BY <2>2, <3>1, <3>2, <3>3, <3>4, <3>6, <3>7, <3>8, <3>9, <3>10, <3>11, <3>12
         DEF ConnNext, ReArm
  <2>3. CASE AcceptFails \/ OnAcceptError
    <3>1. UNCHANGED <<Accepting, Dispatched, Finished, Repeated>>
      BY <2>3 DEF AcceptFails, OnAcceptError, Accepting, Dispatched, Finished, Repeated,
         handlerVars
    <3>2. armed' + acceptErrs' = armed + acceptErrs
      BY <2>t, <2>3 DEF AcceptFails, OnAcceptError
    <3>3. QED BY <3>1, <3>2 DEF AcceptLedger
  <2>4. CASE LimiterTask \/ Administer \/ Terminated \/ UNCHANGED gatewayVars
    BY <2>1, <2>4 DEF LimiterTask, Administer, Terminated, gatewayVars, handlerVars,
       Accepting, Dispatched, Finished, Repeated
  <2>5. QED BY <2>2, <2>3, <2>4 DEF GatewayNext
<1>3. QED
  BY <1>1, <1>2, GatewayTypeCorrect, GatewayAdmits, RequestKnown, PTL DEF GatewaySpec

-----------------------------------------------------------------------------

(* The connections whose onAccept, and those whose onRead, is on a thread. *)
InOnAccept == {c \in Conns : accept[c] \in OnAcceptStates}
InOnRead   == {c \in Conns : handler[c] \in OnReadStates}
InTick     == IF task = "waiting" THEN 0 ELSE 1

(* The callbacks never run on more threads than the io_context has.        *)
PoolBound == Busy <= NumThreads

(* A set of connections that gains at most one member grows by at most     *)
(* one, and one that gains none does not grow.                             *)
LEMMA AtMostOneMore ==
  ASSUME NEW S \in SUBSET Conns, NEW T, NEW c
  PROVE  /\ Cardinality(S) \in Nat
         /\ T \subseteq S => Cardinality(T) \in Nat /\ Cardinality(T) <= Cardinality(S)
         /\ T \subseteq S \cup {c}
              => Cardinality(T) \in Nat /\ Cardinality(T) <= Cardinality(S) + 1
<1>1. IsFiniteSet(S) /\ Cardinality(S) \in Nat
  BY LimiterAssumption, FS_Subset, FS_CardinalityType DEF Conns
<1>2. ASSUME T \subseteq S
      PROVE  Cardinality(T) \in Nat /\ Cardinality(T) <= Cardinality(S)
  BY <1>1, <1>2, FS_Subset, FS_CardinalityType
<1>3. ASSUME T \subseteq S \cup {c}
      PROVE  Cardinality(T) \in Nat /\ Cardinality(T) <= Cardinality(S) + 1
  <2>1. /\ IsFiniteSet(S \cup {c})
        /\ \/ Cardinality(S \cup {c}) = Cardinality(S)
           \/ Cardinality(S \cup {c}) = Cardinality(S) + 1
    BY <1>1, FS_AddElement
  <2>2. /\ Cardinality(T) \in Nat /\ Cardinality(S \cup {c}) \in Nat
        /\ Cardinality(T) <= Cardinality(S \cup {c})
    BY <1>3, <2>1, FS_Subset, FS_CardinalityType
  <2>3. QED BY <1>1, <2>1, <2>2
<1>4. QED BY <1>1, <1>2, <1>3

(* The number of busy threads, part by part, before and after a step.      *)
LEMMA BusyParts ==
  /\ Busy = Cardinality(InOnAccept) + Cardinality(InOnRead) + InTick
  /\ Busy' = Cardinality(InOnAccept') + Cardinality(InOnRead') + InTick'
  BY DEF Busy, InOnAccept, InOnRead, InTick

(* A step that starts no callback, or starts one when a thread is free,    *)
(* keeps within the pool.                                                  *)
LEMMA PoolStep ==
  ASSUME PoolBound, NumThreads \in Nat,
         \/ /\ InOnAccept' \subseteq InOnAccept /\ InOnRead' \subseteq InOnRead
            /\ InTick' \in 0..InTick
         \/ /\ ThreadFree /\ InTick' = InTick
            /\ \E c : \/ /\ InOnAccept' \subseteq InOnAccept \cup {c}
                         /\ InOnRead' \subseteq InOnRead
                      \/ /\ InOnAccept' \subseteq InOnAccept
                         /\ InOnRead' \subseteq InOnRead \cup {c}
         \/ /\ ThreadFree /\ InTick = 0
            /\ InOnAccept' \subseteq InOnAccept /\ InOnRead' \subseteq InOnRead
  PROVE  PoolBound'
<1>1. InOnAccept \in SUBSET Conns /\ InOnRead \in SUBSET Conns
  BY DEF InOnAccept, InOnRead
<1>2. InTick \in {0, 1} /\ InTick' \in {0, 1}
  BY DEF InTick
<1> DEFINE a == Cardinality(InOnAccept)   aa == Cardinality(InOnAccept')
           r == Cardinality(InOnRead)     rr == Cardinality(InOnRead')
<1>3. /\ a \in Nat
      /\ InOnAccept' \subseteq InOnAccept => aa \in Nat /\ aa <= a
      /\ \A c : InOnAccept' \subseteq InOnAccept \cup {c} => aa \in Nat /\ aa <= a + 1
  BY <1>1, AtMostOneMore
<1>4. /\ r \in Nat
      /\ InOnRead' \subseteq InOnRead => rr \in Nat /\ rr <= r
      /\ \A c : InOnRead' \subseteq InOnRead \cup {c} => rr \in Nat /\ rr <= r + 1
  BY <1>1, AtMostOneMore
<1>5. a + r + InTick <= NumThreads
  BY BusyParts DEF PoolBound
<1>6. ThreadFree => a + r + InTick < NumThreads
  BY BusyParts DEF ThreadFree
<1>7. SUFFICES aa + rr + InTick' <= NumThreads
  BY BusyParts DEF PoolBound
<1>8. PICK t \in {0, 1}, u \in {0, 1} : t = InTick /\ u = InTick'
  BY <1>2
<1>9. PICK na \in Nat, nr \in Nat : na = aa /\ nr = rr
  BY <1>3, <1>4
<1> HIDE DEF a, aa, r, rr
<1>10. \/ na <= a /\ nr <= r /\ u \in 0..t
       \/ ThreadFree /\ u = t /\ na <= a + 1 /\ nr <= r
       \/ ThreadFree /\ u = t /\ na <= a /\ nr <= r + 1
       \/ ThreadFree /\ t = 0 /\ na <= a /\ nr <= r
  BY <1>3, <1>4, <1>8, <1>9, Zenon
<1>11. a + r + t <= NumThreads /\ (ThreadFree => a + r + t < NumThreads)
  BY <1>5, <1>6, <1>8, Zenon
<1>12. na + nr + u <= NumThreads
  BY <1>3, <1>4, <1>10, <1>11
<1>13. QED BY <1>8, <1>9, <1>12, Zenon

(* No queued callback is ever started without a thread to run it on, so no *)
(* more of them run at one time than g_num_threads.                        *)
THEOREM PoolNeverExceeded == GatewaySpec => []PoolBound
<1>0. NumThreads \in Nat /\ NumThreads >= 1
  BY GatewayAssumption
<1>1. GatewayInit => PoolBound
  <2> SUFFICES ASSUME GatewayInit PROVE PoolBound
    OBVIOUS
  <2>1. InOnAccept = {} /\ InOnRead = {} /\ InTick = 0
    BY DEF GatewayInit, LimiterInit, InOnAccept, InOnRead, InTick, OnAcceptStates,
       OnReadStates
  <2>2. Cardinality(InOnAccept) = 0 /\ Cardinality(InOnRead) = 0
    BY <2>1, FS_EmptySet, Zenon
  <2>3. QED BY <1>0, <2>1, <2>2, BusyParts DEF PoolBound
<1>2. LimiterTypeOK /\ GatewayTypeOK /\ PoolBound /\ [GatewayNext]_gatewayVars => PoolBound'
  <2> SUFFICES ASSUME LimiterTypeOK, GatewayTypeOK, PoolBound, [GatewayNext]_gatewayVars
               PROVE  PoolBound'
    OBVIOUS
  <2>t. /\ task \in {"waiting", "load", "store"}
        /\ accept \in [Conns -> AcceptStates]
        /\ handler \in [Conns -> HandlerStates]
    BY DEF LimiterTypeOK, GatewayTypeOK
  <2>1. ASSUME InOnAccept' \subseteq InOnAccept, InOnRead' \subseteq InOnRead,
               InTick' \in 0..InTick
        PROVE  PoolBound'
    BY <1>0, <2>1, PoolStep
  <2>2. ASSUME NEW c, ThreadFree, InTick' = InTick,
               \/ InOnAccept' \subseteq InOnAccept \cup {c} /\ InOnRead' \subseteq InOnRead
               \/ InOnAccept' \subseteq InOnAccept /\ InOnRead' \subseteq InOnRead \cup {c}
        PROVE  PoolBound'
    BY <1>0, <2>2, PoolStep
  <2>3. UNCHANGED task => InTick' = InTick /\ InTick' \in 0..InTick
    BY DEF InTick
  <2>4. ASSUME NEW c \in Conns, ConnNext(c) PROVE PoolBound'
    <3>1. UNCHANGED task
      BY <2>4 DEF ConnNext, Connect, AcceptDone, TurnAway, OnAccept, AskLimiter, GetToken,
         Refuse, GiveBack, Serve, Handshake, ReArm, ReadDone, OnReadFails, OnReadPartial,
         OnReadRequest, LocalFails, LocalHeader, LocalBody, LocalEnds, LocalReturns,
         LocalThrows, ForwardStep, HandlerEnds, limiterVars, taskVars
    <3>2. CASE OnAccept(c)
      <4>1. InOnAccept' \subseteq InOnAccept \cup {c} /\ InOnRead' \subseteq InOnRead
        BY <2>t, <3>2 DEF OnAccept, InOnAccept, InOnRead, OnAcceptStates, handlerVars
      <4>2. QED BY <2>2, <2>3, <3>1, <3>2, <4>1 DEF OnAccept
    <3>3. CASE OnReadRequest(c)
      <4>1. InOnAccept' \subseteq InOnAccept /\ InOnRead' \subseteq InOnRead \cup {c}
        BY <2>t, <3>3 DEF OnReadRequest, InOnAccept, InOnRead
      <4>2. QED BY <2>2, <2>3, <3>1, <3>3, <4>1 DEF OnReadRequest
    <3>4. CASE InOnAccept' \subseteq InOnAccept /\ InOnRead' \subseteq InOnRead
      BY <2>1, <2>3, <3>1, <3>4
    <3>5. CASE Connect(c) \/ AcceptDone(c) \/ TurnAway(c)
      BY <2>t, <3>4, <3>5 DEF Connect, AcceptDone, TurnAway, InOnAccept, InOnRead,
         OnAcceptStates, handlerVars
    <3>6. CASE AskLimiter(c) \/ Refuse(c) \/ ReArm(c)
      BY <2>t, <3>4, <3>6 DEF AskLimiter, Refuse, ReArm, InOnAccept, InOnRead,
         OnAcceptStates, handlerVars
    <3>7. CASE Serve(c) \/ Handshake(c)
      BY <2>t, <3>4, <3>7 DEF Serve, Handshake, StartHandler, InOnAccept, InOnRead,
         OnAcceptStates, OnReadStates
    <3>8. CASE \E what \in Arrivals : ReadDone(c, what)
      BY <2>t, <3>4, <3>8 DEF ReadDone, InOnAccept, InOnRead, OnReadStates
    <3>9. CASE OnReadFails(c) \/ OnReadPartial(c) \/ HandlerEnds(c) \/ LocalReturns(c)
      <4>1. accept' = accept
        BY <3>9 DEF OnReadFails, OnReadPartial, HandlerEnds, LocalReturns
      <4>2. \/ handler' = [handler EXCEPT ![c] = "done"]
            \/ handler' = [handler EXCEPT ![c] = "reading"]
        BY <3>9 DEF OnReadFails, OnReadPartial, HandlerEnds, LocalReturns, FinishHandler
      <4>3. QED BY <2>t, <3>4, <4>1, <4>2 DEF InOnAccept, InOnRead, OnReadStates
    <3>10. CASE LocalFails(c) \/ LocalHeader(c) \/ LocalBody(c) \/ ForwardStep(c)
      BY <2>t, <3>4, <3>10 DEF LocalFails, LocalHeader, LocalBody, LocalEnds, ForwardStep,
         InOnAccept, InOnRead, OnReadStates
    <3>11. CASE LocalThrows(c)
      BY <3>4, <3>11 DEF LocalThrows, InOnAccept, InOnRead, handlerVars
    <3>12. QED
      BY <2>4, <3>2, <3>3, <3>5, <3>6, <3>7, <3>8, <3>9, <3>10, <3>11 DEF ConnNext
  <2>5. CASE LimiterTask
    <3>1. InOnAccept' \subseteq InOnAccept /\ InOnRead' \subseteq InOnRead
      BY <2>5 DEF LimiterTask, InOnAccept, InOnRead, handlerVars
    <3>2. CASE TickStarts
      <4>1. ThreadFree /\ InTick = 0
        BY <3>2 DEF TickStarts, TickReadConfig, InTick
      <4>2. QED BY <1>0, <3>1, <4>1, PoolStep
    <3>3. CASE TickLoad \/ TickStore
      <4>1. InTick' \in 0..InTick
        BY <3>3 DEF TickLoad, TickStore, InTick
      <4>2. QED BY <2>1, <3>1, <4>1
    <3>4. QED BY <2>5, <3>2, <3>3 DEF LimiterTask
  <2>6. CASE UNCHANGED <<task, accept, handler>>
    BY <2>1, <2>3, <2>6 DEF InOnAccept, InOnRead
  <2>7. QED
    BY <2>4, <2>5, <2>6 DEF GatewayNext, AcceptFails, OnAcceptError, Administer,
       ConfigRateLimitor, Terminated, gatewayVars, limiterVars, taskVars, handlerVars
<1>3. QED
  BY <1>1, <1>2, GatewayImplementsLimiter, LimiterTypeCorrect, GatewayTypeCorrect, PTL
     DEF GatewaySpec

(* On a single thread the window of a refusal is never seen by another     *)
(* GetToken(): the promise that the counter breaks in general is kept by a *)
(* gateway that runs with g_num_threads = 1.                               *)
THEOREM SingleThreadKeepsPromise ==
  ASSUME NumThreads = 1
  PROVE  GatewaySpec => []GrantsBacked
<1>1. LimiterInit => GrantsBacked
  BY LimiterAssumption DEF LimiterInit, GrantsBacked
<1>2. ASSUME LimiterTypeOK, TokenLedger, GatewayTypeOK, HandlerAdmitted, PoolBound,
             GrantsBacked, [GatewayNext]_gatewayVars, [LimiterNext]_limiterVars
      PROVE  GrantsBacked'
  <2>1. ASSUME NEW c \in Conns, AskLimiter(c), GetToken(c) PROVE Undoing = {}
    <3>1. InOnAccept \in SUBSET Conns /\ InOnRead \in SUBSET Conns /\ c \in InOnAccept
      BY <2>1 DEF InOnAccept, InOnRead, AskLimiter, OnAcceptStates
    <3>2. SUFFICES ASSUME NEW d \in Conns, caller[d] = "undo" PROVE FALSE
      BY DEF Undoing, Conns
    <3>3. d \in InOnAccept /\ d # c
      BY <1>2, <2>1, <3>2 DEF HandlerAdmitted, InOnAccept, OnAcceptStates, AskLimiter
    <3>4. {c, d} \subseteq InOnAccept /\ Cardinality({c, d}) = 2
      <4>1. IsFiniteSet({c}) /\ Cardinality({c}) = 1
        BY FS_Singleton
      <4>2. Cardinality({c} \cup {d}) = Cardinality({c}) + 1
        BY <3>3, <4>1, FS_AddElement
      <4>3. {c} \cup {d} = {c, d}
        OBVIOUS
      <4>4. QED BY <3>1, <3>3, <4>1, <4>2, <4>3
    <3>5. /\ Cardinality(InOnAccept) \in Nat /\ Cardinality(InOnRead) \in Nat
          /\ 2 <= Cardinality(InOnAccept)
      BY <3>1, <3>4, AtMostOneMore
    <3>6. Busy = Cardinality(InOnAccept) + Cardinality(InOnRead) + InTick /\ InTick \in {0, 1}
      BY BusyParts DEF InTick
    <3>7. QED BY <1>2, <3>5, <3>6 DEF PoolBound
  <2>2. CASE Undoing = {}
    BY <1>2, <2>2, BackedStep
  <2>3. CASE Undoing # {}
    <3>1. CASE UNCHANGED ledger
      BY <1>2, <3>1 DEF GrantsBacked
    <3>2. CASE TickStore
      <4>1. /\ ledger'.granted = 0 /\ ledger'.base = new_token_num
            /\ ledger'.carried = Cardinality(Undoing)
        BY <3>2 DEF TickStore
      <4>2. Cardinality(Undoing) \in Nat /\ new_token_num \in Nat
        BY <1>2, LimiterAssumption, FS_Subset, FS_CardinalityType
           DEF Undoing, LimiterTypeOK, SizeT
      <4>3. 0 <= new_token_num + Cardinality(Undoing)
        BY <4>2
      <4>4. QED BY <4>1, <4>3 DEF GrantsBacked
    <3>3. CASE \E c \in Conns : AskLimiter(c) /\ GetToken(c)
      BY <2>1, <2>3, <3>3
    <3>4. QED
      BY <1>2, <3>1, <3>2, <3>3 DEF GatewayNext, ConnNext, Connect, AcceptDone, TurnAway,
         OnAccept, AskLimiter, Refuse, GiveBack, Serve, Handshake, ReArm, ReadDone,
         OnReadFails, OnReadPartial, OnReadRequest, LocalFails, LocalHeader, LocalBody,
         LocalEnds, LocalReturns, LocalThrows, ForwardStep, HandlerEnds, AcceptFails,
         OnAcceptError, LimiterTask, TickStarts, TickReadConfig, TickLoad, Administer,
         ConfigRateLimitor, Terminated, gatewayVars, limiterVars
  <2>4. QED BY <2>2, <2>3
<1>3. GatewayInit => LimiterInit
  BY DEF GatewayInit
<1>4. QED
  BY <1>1, <1>2, <1>3, GatewayImplementsLimiter, LimiterTypeCorrect, LedgerBalances,
     GatewayTypeCorrect, GatewayAdmits, PoolNeverExceeded, PTL DEF GatewaySpec, LimiterSpec

-----------------------------------------------------------------------------

(* The number of stages ahead on the accept side, stage by stage.          *)
LEMMA AcceptValues ==
  /\ AcceptStages["new"] = 8 /\ AcceptStages["backlog"] = 7 /\ AcceptStages["ready"] = 6
  /\ AcceptStages["dispatch"] = 5 /\ AcceptStages["refusing"] = 4
  /\ AcceptStages["admitted"] = 4 /\ AcceptStages["handshake"] = 3
  /\ AcceptStages["owe2"] = 2 /\ AcceptStages["owe1"] = 1
  /\ AcceptStages["done"] = 0 /\ AcceptStages["closed"] = 0
  BY DEF AcceptStages

(* The same on the handler's side.                                         *)
LEMMA HandlerValues ==
  /\ HandlerStages["none"] = 8 /\ HandlerStages["reading"] = 7
  /\ HandlerStages["readable"] = 6 /\ HandlerStages["connect"] = 5
  /\ HandlerStages["send"] = 4 /\ HandlerStages["body"] = 3
  /\ HandlerStages["response"] = 2 /\ HandlerStages["reply"] = 1
  /\ HandlerStages["local"] = 3 /\ HandlerStages["localBody"] = 2
  /\ HandlerStages["localDone"] = 1 /\ HandlerStages["notFound"] = 1
  /\ HandlerStages["done"] = 0
  BY DEF HandlerStages

(* The stages left are natural numbers.                                    *)
LEMMA StagesType ==
  /\ \A s \in AcceptStates : AcceptStages[s] \in Nat
  /\ \A s \in HandlerStates : HandlerStages[s] \in Nat
<1>1. \A s \in AcceptStates : AcceptStages[s] \in Nat
  BY AcceptValues DEF AcceptStates, OnAcceptStates
<1>2. \A s \in HandlerStates : HandlerStages[s] \in Nat
  BY HandlerValues DEF HandlerStates, OnReadStates
<1>3. QED BY <1>1, <1>2

(* A connection one of whose sides goes on to a later stage, or that has   *)
(* read more of its header, is nearer its end.                             *)
LEMMA Nearer ==
  ASSUME NEW a \in Nat, NEW aa \in Nat, NEW h \in Nat, NEW hh \in Nat,
         NEW p \in 0..HeaderCap, NEW pp \in 0..HeaderCap, HeaderCap \in Nat,
         \/ aa < a /\ hh <= h /\ pp = p
         \/ aa = a /\ hh < h /\ pp >= p
         \/ aa = a /\ hh <= h + 1 /\ pp > p
  PROVE  aa + hh + 2 * (HeaderCap - pp)
           \in 0..((a + h + 2 * (HeaderCap - p)) - 1)
  OBVIOUS

(* Every step leaves a connection alone or brings it nearer its end, for   *)
(* any number of connections, threads and header bytes: the variant that   *)
(* the liveness of the serving path rests on.                              *)
THEOREM ConnectionsAdvance == GatewaySpec => ConnectionAdvances
<1> DEFINE Alone(d) == UNCHANGED <<accept[d], handler[d], arrived[d], total_parsed_[d]>>
           Moves(d) == Alone(d) \/ Ahead(d)' \in 0..(Ahead(d) - 1)
<1>1. ASSUME GatewayTypeOK, GatewayTypeOK', HandlerAdmitted, [GatewayNext]_gatewayVars
      PROVE  \A d \in Conns : Moves(d)
  <2>t. /\ accept \in [Conns -> AcceptStates]
        /\ handler \in [Conns -> HandlerStates]
        /\ arrived \in [Conns -> Arrivals]
        /\ total_parsed_ \in [Conns -> 0..HeaderCap]
    BY <1>1 DEF GatewayTypeOK
  <2>p. /\ accept' \in [Conns -> AcceptStates]
        /\ handler' \in [Conns -> HandlerStates]
        /\ arrived' \in [Conns -> Arrivals]
        /\ total_parsed_' \in [Conns -> 0..HeaderCap]
    BY <1>1 DEF GatewayTypeOK
  <2>1. CASE UNCHANGED <<accept, handler, arrived, total_parsed_>>
    BY <2>1
  <2>2. ASSUME NEW c \in Conns, ConnNext(c), NEW d \in Conns PROVE Moves(d)
    <3>1. CASE d # c
      <4>1. Alone(d)
        BY <2>t, <2>2, <3>1 DEF ConnNext, Connect, AcceptDone, TurnAway, OnAccept,
           AskLimiter, Refuse, Serve, Handshake, StartHandler, ReArm, ReadDone,
           OnReadFails, OnReadPartial, OnReadRequest, FinishHandler, LocalFails,
           LocalHeader, LocalBody, LocalEnds, LocalReturns, LocalThrows, ForwardStep,
           HandlerEnds, handlerVars
      <4>2. QED BY <4>1
    <3>2. CASE d = c
      <4> DEFINE a == AcceptStages[accept[c]]     aa == AcceptStages[accept'[c]]
                 h == HandlerStages[handler[c]]   hh == HandlerStages[handler'[c]]
                 p == total_parsed_[c]            pp == total_parsed_'[c]
      <4>1. /\ a \in Nat /\ aa \in Nat /\ h \in Nat /\ hh \in Nat
            /\ p \in 0..HeaderCap /\ pp \in 0..HeaderCap
        BY <2>t, <2>p, StagesType
      <4>2. ASSUME \/ aa < a /\ hh <= h /\ pp = p
                   \/ aa = a /\ hh < h /\ pp >= p
                   \/ aa = a /\ hh <= h + 1 /\ pp > p
            PROVE  Moves(d)
        <5>1. Ahead(c) = a + h + 2 * (HeaderCap - p)
          BY DEF Ahead
        <5>2. Ahead(c)' = aa + hh + 2 * (HeaderCap - pp)
          BY DEF Ahead
        <5>3. HeaderCap \in Nat
          BY GatewayAssumption
        <5> HIDE DEF a, aa, h, hh, p, pp
        <5>4. aa + hh + 2 * (HeaderCap - pp)
                \in 0..((a + h + 2 * (HeaderCap - p)) - 1)
          BY <4>1, <4>2, <5>3, Nearer
        <5>5. QED BY <3>2, <5>1, <5>2, <5>4, Zenon
      <4> HIDE DEF Moves
      <4>a. ASSUME NEW x \in AcceptStates, accept' = [accept EXCEPT ![c] = x],
                   UNCHANGED handlerVars, AcceptStages[x] < a
            PROVE  Moves(d)
        <5>1. accept'[c] = x /\ handler'[c] = handler[c] /\ pp = p
          BY <2>t, <4>a DEF handlerVars
        <5>2. aa = AcceptStages[x] /\ hh = h
          BY <5>1, Zenon
        <5> HIDE DEF a, aa, h, hh, p, pp
        <5>3. aa < a
          BY <4>a, <5>2
        <5>4. hh <= h
          BY <4>1, <5>2
        <5>5. QED BY <4>2, <5>1, <5>3, <5>4
      <4>h. ASSUME NEW x \in HandlerStates, handler' = [handler EXCEPT ![c] = x],
                   accept' = accept, total_parsed_' = total_parsed_, HandlerStages[x] < h
            PROVE  Moves(d)
        <5>1. handler'[c] = x /\ accept'[c] = accept[c] /\ pp = p
          BY <2>t, <4>h
        <5>2. hh = HandlerStages[x] /\ aa = a
          BY <5>1, Zenon
        <5> HIDE DEF a, aa, h, hh, p, pp
        <5>3. hh < h
          BY <4>h, <5>2
        <5>4. pp >= p
          BY <4>1, <5>1
        <5>5. QED BY <4>2, <5>2, <5>3, <5>4
      <4>3. CASE Connect(c) \/ AcceptDone(c) \/ TurnAway(c) \/ OnAccept(c)
        <5>1. \/ accept[c] = "new" /\ accept' = [accept EXCEPT ![c] = "backlog"]
              \/ accept[c] = "backlog" /\ accept' = [accept EXCEPT ![c] = "ready"]
              \/ accept[c] = "ready" /\ accept' = [accept EXCEPT ![c] = "closed"]
              \/ accept[c] = "ready" /\ accept' = [accept EXCEPT ![c] = "dispatch"]
          BY <4>3 DEF Connect, AcceptDone, TurnAway, OnAccept
        <5>2. \E x \in AcceptStates :
                accept' = [accept EXCEPT ![c] = x] /\ AcceptStages[x] < a
          BY <5>1, AcceptValues DEF AcceptStates, OnAcceptStates
        <5>3. UNCHANGED handlerVars
          BY <4>3 DEF Connect, AcceptDone, TurnAway, OnAccept
        <5>4. QED BY <4>a, <5>2, <5>3
      <4>4. CASE AskLimiter(c) \/ Refuse(c) \/ ReArm(c)
        <5>1. \/ accept[c] = "dispatch" /\ accept' = [accept EXCEPT ![c] = "admitted"]
              \/ accept[c] = "dispatch" /\ accept' = [accept EXCEPT ![c] = "refusing"]
              \/ accept[c] = "refusing" /\ accept' = [accept EXCEPT ![c] = "owe2"]
              \/ accept[c] = "owe2" /\ accept' = [accept EXCEPT ![c] = "owe1"]
              \/ accept[c] = "owe1" /\ accept' = [accept EXCEPT ![c] = "done"]
          BY <4>4 DEF AskLimiter, Refuse, ReArm
        <5>2. \E x \in AcceptStates :
                accept' = [accept EXCEPT ![c] = x] /\ AcceptStages[x] < a
          BY <5>1, AcceptValues DEF AcceptStates, OnAcceptStates
        <5>3. UNCHANGED handlerVars
          BY <4>4 DEF AskLimiter, Refuse, ReArm
        <5>4. QED BY <4>a, <5>2, <5>3
      <4>5. CASE Serve(c) \/ Handshake(c)
        <5>1. /\ accept[c] \in {"admitted", "handshake"} /\ handler[c] = "none"
              /\ total_parsed_' = total_parsed_
          BY <1>1, <4>5 DEF Serve, Handshake, HandlerAdmitted
        <5>2. /\ accept'[c] \in {"owe2", "handshake"} /\ accept'[c] # accept[c]
              /\ handler'[c] \in {"none", "reading"}
          BY <2>t, <4>5, <5>1 DEF Serve, Handshake, StartHandler
        <5>3. /\ accept[c] = "admitted" \/ accept'[c] = "owe2"
              /\ pp = p
          BY <5>1, <5>2
        <5>4. aa < a
          <6>1. CASE accept'[c] = "owe2"
            <7>1. a \in {3, 4}
              BY <5>1, AcceptValues
            <7>2. aa = 2
              BY <6>1, AcceptValues
            <7> HIDE DEF a, aa
            <7>3. QED BY <7>1, <7>2
          <6>2. CASE accept[c] = "admitted" /\ accept'[c] = "handshake"
            BY <6>2, AcceptValues
          <6>3. QED BY <5>2, <5>3, <6>1, <6>2, Zenon
        <5>5. hh <= h
          BY <5>1, <5>2, HandlerValues
        <5>6. QED BY <4>2, <5>3, <5>4, <5>5
      <4>6. CASE \E what \in Arrivals : ReadDone(c, what)
        <5>1. /\ handler[c] = "reading" /\ handler' = [handler EXCEPT ![c] = "readable"]
              /\ accept' = accept /\ total_parsed_' = total_parsed_
          BY <4>6 DEF ReadDone
        <5>2. "readable" \in HandlerStates /\ HandlerStages["readable"] < h
          BY <5>1, HandlerValues DEF HandlerStates
        <5>3. QED BY <4>h, <5>1, <5>2
      <4>7. CASE OnReadFails(c) \/ LocalReturns(c) \/ HandlerEnds(c)
        <5>1. /\ handler[c] \in {"readable"} \cup OnReadStates
              /\ handler' = [handler EXCEPT ![c] = "done"]
              /\ accept' = accept /\ total_parsed_' = total_parsed_
          BY <4>7 DEF OnReadFails, LocalReturns, HandlerEnds, FinishHandler, OnReadStates
        <5>2. "done" \in HandlerStates /\ HandlerStages["done"] < h
          BY <5>1, HandlerValues DEF HandlerStates, OnReadStates
        <5>3. QED BY <4>h, <5>1, <5>2
      <4>9. CASE OnReadPartial(c)
        <5>1. pp > p /\ aa = a
          BY <2>t, <4>9, GatewayAssumption DEF OnReadPartial
        <5>2. handler[c] = "readable" /\ handler'[c] \in {"done", "reading"}
          BY <2>t, <4>9 DEF OnReadPartial, FinishHandler
        <5>3. hh <= h + 1
          <6>1. h = 6
            BY <5>2, HandlerValues
          <6>2. hh \in {0, 7}
            BY <5>2, HandlerValues
          <6> HIDE DEF h, hh
          <6>3. QED BY <6>1, <6>2
        <5>4. QED BY <4>2, <5>1, <5>3
      <4>10. CASE OnReadRequest(c)
        <5>1. \/ handler' = [handler EXCEPT ![c] = "notFound"]
              \/ handler' = [handler EXCEPT ![c] = "local"]
              \/ handler' = [handler EXCEPT ![c] = "connect"]
          BY <4>10, Zenon DEF OnReadRequest
        <5>2. handler[c] = "readable" /\ accept' = accept /\ total_parsed_' = total_parsed_
          BY <4>10 DEF OnReadRequest
        <5>3. \E x \in HandlerStates :
                handler' = [handler EXCEPT ![c] = x] /\ HandlerStages[x] < h
          <6>1. h = 6
            BY <5>2, HandlerValues
          <6>2. /\ HandlerStages["notFound"] < 6 /\ HandlerStages["local"] < 6
                /\ HandlerStages["connect"] < 6
            BY HandlerValues
          <6>3. {"notFound", "local", "connect"} \subseteq HandlerStates
            BY DEF HandlerStates, OnReadStates
          <6> HIDE DEF h
          <6>4. QED BY <5>1, <6>1, <6>2, <6>3, Zenon
        <5>4. QED BY <4>h, <5>2, <5>3
      <4>11. CASE LocalFails(c) \/ LocalHeader(c) \/ LocalBody(c) \/ ForwardStep(c)
        <5>1. accept' = accept /\ total_parsed_' = total_parsed_
          BY <4>11 DEF LocalFails, LocalHeader, LocalBody, LocalEnds, ForwardStep
        <5>2. \E x \in HandlerStates :
                handler' = [handler EXCEPT ![c] = x] /\ HandlerStages[x] < h
          <6>1. CASE ForwardStep(c)
            <7>1. \/ handler[c] = "connect"  /\ handler' = [handler EXCEPT ![c] = "send"]
                  \/ handler[c] = "send"     /\ handler' = [handler EXCEPT ![c] = "body"]
                  \/ handler[c] = "body"     /\ handler' = [handler EXCEPT ![c] = "response"]
                  \/ handler[c] = "response" /\ handler' = [handler EXCEPT ![c] = "reply"]
              BY <6>1, Zenon DEF ForwardStep
            <7>2. QED BY <7>1, HandlerValues DEF HandlerStates, OnReadStates
          <6>2. CASE LocalFails(c) \/ LocalHeader(c) \/ LocalBody(c)
            <7>1. \/ handler[c] = "local" /\ handler' = [handler EXCEPT ![c] = "localDone"]
                  \/ handler[c] = "local" /\ handler' = [handler EXCEPT ![c] = "localBody"]
                  \/ handler[c] = "localBody" /\ handler' = [handler EXCEPT ![c] = "localDone"]
              BY <6>2, Zenon DEF LocalFails, LocalHeader, LocalBody, LocalEnds
            <7>2. QED BY <7>1, HandlerValues DEF HandlerStates, OnReadStates
          <6>3. QED BY <4>11, <6>1, <6>2
        <5>3. QED BY <4>h, <5>1, <5>2
      <4>12. CASE LocalThrows(c)
        BY <3>2, <4>12 DEF LocalThrows, handlerVars, Moves
      <4>13. QED
        BY <2>2, <4>3, <4>4, <4>5, <4>6, <4>7, <4>9, <4>10, <4>11, <4>12
           DEF ConnNext
    <3>3. QED BY <3>1, <3>2
  <2>3. QED
    BY <1>1, <2>1, <2>2 DEF GatewayNext, AcceptFails, OnAcceptError, LimiterTask,
       Administer, Terminated, gatewayVars, handlerVars
<1>2. GatewayTypeOK /\ GatewayTypeOK' /\ HandlerAdmitted /\ [GatewayNext]_gatewayVars
        => [\A c \in Conns :
              \/ UNCHANGED <<accept[c], handler[c], arrived[c], total_parsed_[c]>>
              \/ Ahead(c)' \in 0..(Ahead(c) - 1)]_gatewayVars
  BY <1>1
<1>3. QED
  BY <1>2, GatewayTypeCorrect, GatewayAdmits, PTL DEF GatewaySpec, ConnectionAdvances

-----------------------------------------------------------------------------

(* What a handler of the gateway is, seen from outside: it has no header   *)
(* before onRead finds one, and is through when it has called back.        *)
Phase(c) ==
  IF handler[c] \in {"none", "reading", "readable"} THEN "header"
  ELSE IF handler[c] = "localDone" THEN "done"
  ELSE IF handler[c] = "local" /\ ~up THEN "crashed"
  ELSE handler[c]
Handling(c) == INSTANCE Handler WITH phase <- Phase(c)

(* Every connection's handler takes the course of Handler, whatever the    *)
(* other connections, the limiter and the administrator do.                *)
THEOREM HandlersFollowCourse ==
  ASSUME NEW c \in Conns
  PROVE  GatewaySpec => Handling(c)!HandlerSpec
<1>1. GatewayInit => Handling(c)!HandlerInit
  BY DEF GatewayInit, Handling!HandlerInit, Phase
<1>2. ASSUME GatewayTypeOK, HandlerAdmitted, [GatewayNext]_gatewayVars
      PROVE  [Handling(c)!HandlerNext]_(Phase(c))
  <2>t. handler \in [Conns -> HandlerStates] /\ up \in BOOLEAN
    BY <1>2 DEF GatewayTypeOK
  <2>1. CASE UNCHANGED <<up, handler[c]>>
    BY <2>1, Zenon DEF Phase
  <2>2. ASSUME NEW d \in Conns, up, ConnNext(d) PROVE [Handling(c)!HandlerNext]_(Phase(c))
    <3>1. CASE LocalThrows(d)
      <4>1. up = TRUE /\ up' = FALSE /\ handler' = handler
        BY <2>t, <2>2, <3>1 DEF LocalThrows, handlerVars
      <4>2. CASE handler[c] = "local"
        <5>1. Phase(c) = "local" /\ Phase(c)' = "crashed"
          BY <4>1, <4>2 DEF Phase
        <5>2. QED BY <5>1 DEF Handling!HandlerNext, Handling!Crash
      <4>3. CASE handler[c] # "local"
        BY <4>1, <4>3 DEF Phase
      <4>4. QED BY <4>2, <4>3
    <3>2. CASE ~LocalThrows(d)
      <4>1. up' = up /\ up
        BY <2>2, <3>2 DEF ConnNext, Connect, AcceptDone, TurnAway, OnAccept, AskLimiter,
           Refuse, Serve, Handshake, ReArm, ReadDone, OnReadFails, OnReadPartial,
           OnReadRequest, LocalFails, LocalHeader, LocalBody, LocalEnds, LocalReturns,
           ForwardStep, HandlerEnds
      <4>2. CASE handler'[c] = handler[c]
        BY <2>1, <4>1, <4>2
      <4>3. CASE handler'[c] # handler[c]
        <5>1. d = c
          BY <2>t, <2>2, <4>3 DEF ConnNext, Connect, AcceptDone, TurnAway, OnAccept,
             AskLimiter, Refuse, Serve, Handshake, StartHandler, ReArm, ReadDone,
             OnReadFails, OnReadPartial, OnReadRequest, FinishHandler, LocalFails,
             LocalHeader, LocalBody, LocalEnds, LocalReturns, LocalThrows, ForwardStep,
             HandlerEnds, handlerVars
        <5>2. CASE handler[c] \in {"none", "reading", "readable"}
          <6>1. Phase(c) = "header"
            BY <5>2 DEF Phase
          <6>2. handler'[c] \in {"reading", "readable", "done", "notFound", "local", "connect"}
            <7>1. CASE OnReadRequest(c)
              BY <2>t, <7>1 DEF OnReadRequest
            <7>2. CASE ~OnReadRequest(c)
              BY <2>t, <2>2, <4>3, <5>1, <5>2, <7>2 DEF ConnNext, Connect, AcceptDone,
                 TurnAway, OnAccept, AskLimiter, Refuse, Serve, Handshake, StartHandler,
                 ReArm, ReadDone, OnReadFails, OnReadPartial, FinishHandler, LocalFails,
                 LocalHeader, LocalBody, LocalEnds, LocalReturns, LocalThrows,
                 ForwardStep, HandlerEnds, OnReadStates, handlerVars
            <7>3. QED BY <7>1, <7>2
          <6>3. Phase(c)' \in {"header", "done", "notFound", "local", "connect"}
            BY <4>1, <6>2 DEF Phase
          <6>4. QED
            BY <6>1, <6>3 DEF Handling!HandlerNext, Handling!Route, Handling!End
        <5>3. CASE handler[c] \notin {"none", "reading", "readable"}
          <6>1. /\ ~Serve(c) /\ ~Handshake(c) /\ ~(\E what \in Arrivals : ReadDone(c, what))
                /\ ~OnReadFails(c) /\ ~OnReadPartial(c) /\ ~OnReadRequest(c)
            BY <1>2, <5>3 DEF Serve, Handshake, ReadDone, OnReadFails, OnReadPartial,
               OnReadRequest, HandlerAdmitted
          <6>2. \/ LocalFails(c) \/ LocalHeader(c) \/ LocalBody(c) \/ LocalReturns(c)
                \/ ForwardStep(c) \/ HandlerEnds(c)
            BY <2>2, <3>2, <4>3, <5>1, <6>1 DEF ConnNext, Connect, AcceptDone, TurnAway,
               OnAccept, AskLimiter, Refuse, ReArm, handlerVars
          <6>3. CASE LocalHeader(c) \/ ForwardStep(c)
            <7>1. \/ handler[c] = "local" /\ handler'[c] = "localBody"
                  \/ handler[c] = "connect" /\ handler'[c] = "send"
                  \/ handler[c] = "send" /\ handler'[c] = "body"
                  \/ handler[c] = "body" /\ handler'[c] = "response"
                  \/ handler[c] = "response" /\ handler'[c] = "reply"
              BY <2>t, <6>3 DEF LocalHeader, ForwardStep
            <7>2. \/ Phase(c) = "local" /\ Phase(c)' = "localBody"
                  \/ Phase(c) = "connect" /\ Phase(c)' = "send"
                  \/ Phase(c) = "send" /\ Phase(c)' = "body"
                  \/ Phase(c) = "body" /\ Phase(c)' = "response"
                  \/ Phase(c) = "response" /\ Phase(c)' = "reply"
              BY <4>1, <7>1 DEF Phase
            <7>3. QED BY <7>2 DEF Handling!HandlerNext, Handling!Advance
          <6>4. CASE LocalReturns(c)
            <7>1. handler[c] = "localDone" /\ handler'[c] = "done"
              BY <2>t, <6>4 DEF LocalReturns, FinishHandler
            <7>2. QED BY <7>1 DEF Phase
          <6>5. CASE LocalFails(c) \/ LocalBody(c) \/ HandlerEnds(c)
            <7>1. /\ handler[c] \in OnReadStates \ {"localDone"}
                  /\ handler'[c] \in {"localDone", "done"}
              BY <2>t, <6>5 DEF LocalFails, LocalBody, LocalEnds, HandlerEnds,
                 FinishHandler, OnReadStates
            <7>2. Phase(c) = handler[c] /\ Phase(c)' = "done"
              BY <4>1, <7>1 DEF Phase, OnReadStates
            <7>3. QED
              BY <7>1, <7>2 DEF Handling!HandlerNext, Handling!End, OnReadStates
          <6>6. QED BY <6>2, <6>3, <6>4, <6>5
        <5>4. QED BY <5>2, <5>3
      <4>4. QED BY <4>2, <4>3
    <3>3. QED BY <3>1, <3>2
  <2>3. QED
    BY <1>2, <2>1, <2>2 DEF GatewayNext, AcceptFails, OnAcceptError, LimiterTask,
       Administer, Terminated, gatewayVars, handlerVars
<1>3. QED
  BY <1>1, <1>2, GatewayTypeCorrect, GatewayAdmits, PTL
     DEF GatewaySpec, Handling!HandlerSpec
=============================================================================
