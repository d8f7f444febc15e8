-------------------------- MODULE RoundRobinProofs --------------------------
(***************************************************************************)
(* Proofs about RoundRobin for any targets, threads and start indexes.     *)
(***************************************************************************)
EXTENDS RoundRobin, SequenceTheorems, FiniteSetTheorems, TLAPS

(* A set of natural numbers that is not empty has a least element: of the  *)
(* intervals from 0 to one of its elements, one has none below it.  The    *)
(* inductions below take the least number a statement fails for.           *)
LEMMA LeastNat ==
  ASSUME NEW T, T \subseteq Nat, T # {}
  PROVE  \E x \in T : \A y \in T : x <= y
<1> DEFINE Downs == {0..n : n \in T}
<1>1. Downs \subseteq FiniteSubsetsOf(Nat) /\ Downs # {}
  <2>1. \A n \in T : IsFiniteSet(0..n) /\ 0..n \subseteq Nat
    BY FS_Interval
  <2>2. QED BY <2>1 DEF FiniteSubsetsOf
<1>2. IsWellFoundedOn(StrictSubsetOrdering(Nat), FiniteSubsetsOf(Nat))
  BY FS_StrictSubsetOrderingWellFounded
<1>3. PICK D \in Downs : \A E \in Downs : ~(<<E, D>> \in StrictSubsetOrdering(Nat))
  <2> HIDE DEF Downs
  <2>1. QED BY <1>1, <1>2, WFMin
<1>4. PICK x \in T : D = 0..x
  OBVIOUS
<1>5. ASSUME NEW y \in T, y < x PROVE FALSE
  <2>1. x \in 0..x /\ x \notin 0..y
    BY <1>5
  <2>2. 0..y \subseteq 0..x /\ 0..y # 0..x /\ 0..y \in SUBSET Nat /\ 0..x \in SUBSET Nat
    BY <1>5, <2>1
  <2>3. <<0..y, 0..x>> \in StrictSubsetOrdering(Nat)
    BY <2>2 DEF StrictSubsetOrdering
  <2>4. QED BY <1>3, <1>4, <2>3
<1>6. QED BY <1>5

-----------------------------------------------------------------------------

(* One round of the loop in Others.                                        *)
Round(targets, conn, f, i) ==
  IF i = 0 THEN <<>>
  ELSE IF targets[i].http_url # conn.http_url
         THEN Append(f[i - 1], targets[i]) ELSE f[i - 1]

(* Others is computed by a function that follows its equation: one exists  *)
(* up to every length.                                                     *)
LEMMA OthersEquation ==
  ASSUME NEW S, NEW targets \in Seq(S), NEW conn
  PROVE  \E f : /\ Others(targets, conn) = f[Len(targets)]
                /\ \A i \in 0..Len(targets) : f[i] = Round(targets, conn, f, i)
<1> DEFINE N == Len(targets)
           R(f, i) == Round(targets, conn, f, i)
           Upto(n) == \E f \in [0..n -> Seq(S)] : \A i \in 0..n : f[i] = R(f, i)
           Bad == {n \in 0..N : ~Upto(n)}
<1>1. N \in Nat /\ \A i \in 1..N : targets[i] \in S
  BY LenProperties, ElementOfSeq
<1>2. ASSUME Bad # {} PROVE FALSE
  <2>1. PICK m \in Bad : \A n \in Bad : m <= n
    <3>1. Bad \subseteq Nat
      BY <1>1
    <3> HIDE DEF Bad
    <3>2. QED BY <1>2, <3>1, LeastNat
  <2>2. m \in 0..N /\ ~Upto(m)
    OBVIOUS
  <2>3. m # 0
    <3>1. SUFFICES ASSUME m = 0 PROVE Upto(m)
      BY <2>2
    <3> DEFINE f == [i \in 0..m |-> <<>>]
    <3>2. f \in [0..m -> Seq(S)]
      BY EmptySeq
    <3>3. \A i \in 0..m : f[i] = R(f, i)
      BY <3>1 DEF Round
    <3>4. QED BY <3>2, <3>3
  <2>4. m - 1 \in 0..N /\ ~(m <= m - 1) /\ m \in 1..N
    BY <1>1, <2>2, <2>3
  <2>5. Upto(m - 1)
    BY <2>1, <2>4
  <2>6. PICK f \in [0..(m - 1) -> Seq(S)] : \A i \in 0..(m - 1) : f[i] = R(f, i)
    BY <2>5
  <2> DEFINE g == [i \in 0..m |-> IF i = m THEN R(f, m) ELSE f[i]]
  <2>7. R(f, m) \in Seq(S)
    <3>1. f[m - 1] \in Seq(S) /\ targets[m] \in S
      BY <1>1, <2>4
    <3>2. Append(f[m - 1], targets[m]) \in Seq(S)
      BY <3>1, AppendProperties
    <3>3. QED BY <3>1, <3>2, <2>3 DEF Round
  <2>8. g \in [0..m -> Seq(S)]
    <3>1. \A i \in 0..m : i # m => i \in 0..(m - 1)
      BY <2>4
    <3> HIDE DEF R
    <3>2. QED BY <2>7, <3>1
  <2>9. ASSUME NEW i \in 0..m PROVE g[i] = R(g, i)
    <3>1. i # 0 => i - 1 \in 0..(m - 1) /\ i - 1 \in 0..m /\ i - 1 # m
      BY <2>4
    <3>2. i # 0 => g[i - 1] = f[i - 1]
      BY <3>1
    <3>3. R(g, i) = R(f, i)
      <4> HIDE DEF g
      <4>1. QED BY <3>2 DEF Round
    <3>4. i # m => i \in 0..(m - 1)
      BY <2>4
    <3>5. g[i] = R(f, i)
      <4> HIDE DEF R
      <4>1. QED BY <2>6, <3>4
    <3>6. QED BY <3>3, <3>5
  <2>10. Upto(m)
    <3> HIDE DEF g, R
    <3>1. QED BY <2>8, <2>9
  <2>11. QED BY <2>2, <2>10
<1>3. Upto(N)
  <2>1. N \in 0..N
    BY <1>1
  <2> HIDE DEF Upto
  <2>2. QED BY <1>2, <2>1
<1> DEFINE Def(f) == [i \in 0..N |-> R(f, i)]
           k == CHOOSE f : f = Def(f)
<1>4. \E f : f = Def(f)
  <2>1. PICK f \in [0..N -> Seq(S)] : \A i \in 0..N : f[i] = R(f, i)
    BY <1>3
  <2>2. f = Def(f)
    <3> HIDE DEF R
    <3>1. QED BY <2>1
  <2>3. QED BY <2>2
<1>5. Others(targets, conn) = k[N]
  BY Zenon DEF Others, Round
<1>6. k = Def(k)
  <2> HIDE DEF Def
  <2>1. QED BY <1>4, Zenon
<1>7. \A i \in 0..N : k[i] = R(k, i)
  <2> HIDE DEF k, R
  <2>1. QED BY <1>6
<1>8. QED BY <1>5, <1>7, Zenon

(* c is one of the targets.                                                *)
Lists(targets, c) == \E i \in DOMAIN targets : targets[i] = c

(* RemoveTarget keeps exactly the targets with another URL.                *)
LEMMA OthersLemma ==
  ASSUME NEW S, NEW targets \in Seq(S), NEW conn
  PROVE  /\ Others(targets, conn) \in Seq(S)
         /\ \A c : Lists(Others(targets, conn), c)
                     <=> c.http_url # conn.http_url /\ Lists(targets, c)
<1> DEFINE N == Len(targets)
<1>1. N \in Nat /\ DOMAIN targets = 1..N /\ \A i \in 1..N : targets[i] \in S
  BY LenProperties, ElementOfSeq
<1>2. PICK f : /\ Others(targets, conn) = f[N]
               /\ \A i \in 0..N : f[i] = Round(targets, conn, f, i)
  BY OthersEquation
<1> DEFINE Has(s, c) == \E i \in DOMAIN s : s[i] = c
           Good(n) == /\ f[n] \in Seq(S)
                      /\ \A c : Has(f[n], c) <=> /\ c.http_url # conn.http_url
                                                 /\ \E i \in 1..n : targets[i] = c
           Bad == {n \in 0..N : ~Good(n)}
<1>3. ASSUME Bad # {} PROVE FALSE
  <2>1. PICK m \in Bad : \A n \in Bad : m <= n
    <3>1. Bad \subseteq Nat
      BY <1>1
    <3> HIDE DEF Bad
    <3>2. QED BY <1>3, <3>1, LeastNat
  <2>2. m \in 0..N /\ ~Good(m)
    OBVIOUS
  <2>3. CASE m = 0
    <3>1. f[m] = <<>> /\ 1..m = {}
      BY <1>2, <2>2, <2>3 DEF Round
    <3>2. <<>> \in Seq(S) /\ DOMAIN <<>> = {}
      BY EmptySeq
    <3>3. Good(m)
      BY <3>1, <3>2
    <3>4. QED BY <2>2, <3>3
  <2>4. CASE m # 0
    <3>1. m - 1 \in 0..N /\ ~(m <= m - 1) /\ m \in 1..N /\ 1..m = 1..(m - 1) \cup {m}
      BY <1>1, <2>2, <2>4
    <3>2. Good(m - 1)
      BY <2>1, <3>1
    <3> DEFINE p == f[m - 1]
               x == targets[m]
    <3>3. p \in Seq(S) /\ x \in S
      BY <1>1, <3>1, <3>2
    <3>4. f[m] = IF x.http_url # conn.http_url THEN Append(p, x) ELSE p
      BY <1>2, <2>2, <2>4 DEF Round
    <3>5. CASE x.http_url # conn.http_url
      <4>1. Append(p, x) \in Seq(S) /\ \A c : Has(Append(p, x), c) <=> Has(p, c) \/ c = x
        <5> HIDE DEF p, x
        <5>1. /\ Append(p, x) \in Seq(S) /\ Len(p) \in Nat /\ DOMAIN p = 1..Len(p)
              /\ DOMAIN Append(p, x) = 1..(Len(p) + 1)
              /\ \A i \in 1..Len(p) : Append(p, x)[i] = p[i]
              /\ Append(p, x)[Len(p) + 1] = x
          BY <3>3, AppendProperties, LenProperties
        <5> DEFINE q == Append(p, x)
        <5>2. /\ \A i \in 1..Len(p) : i \in DOMAIN q /\ q[i] = p[i]
              /\ Len(p) + 1 \in DOMAIN q /\ q[Len(p) + 1] = x
              /\ \A i \in DOMAIN q : i \in 1..Len(p) \/ i = Len(p) + 1
          BY <5>1
        <5> HIDE DEF q
        <5>3. \A c : Has(q, c) <=> Has(p, c) \/ c = x
          BY <5>1, <5>2
        <5>4. QED BY <5>1, <5>3 DEF q
      <4>2. f[m] = Append(p, x)
        BY <3>4, <3>5
      <4>3. \A c : (\E i \in 1..m : targets[i] = c)
                     <=> (\E i \in 1..(m - 1) : targets[i] = c) \/ c = x
        BY <3>1
      <4> HIDE DEF Has
      <4>4. Good(m)
        BY <3>2, <3>5, <4>1, <4>2, <4>3
      <4>5. QED BY <2>2, <4>4
    <3>6. CASE x.http_url = conn.http_url
      <4>1. f[m] = p
        BY <3>4, <3>6
      <4>2. \A c : (\E i \in 1..m : targets[i] = c)
                     <=> (\E i \in 1..(m - 1) : targets[i] = c) \/ c = x
        BY <3>1
      <4> HIDE DEF Has
      <4>3. Good(m)
        BY <3>2, <3>6, <4>1, <4>2
      <4>4. QED BY <2>2, <4>3
    <3>7. QED BY <3>5, <3>6
  <2>5. QED BY <2>3, <2>4
<1>4. Good(N)
  <2>1. N \in 0..N
    BY <1>1
  <2> HIDE DEF Good
  <2>2. QED BY <1>3, <2>1
<1>5. QED BY <1>1, <1>2, <1>4 DEF Lists

(* What the lemmas about a RouteAction range over: no wild index is left   *)
(* out, and the list may be empty.                                         *)
Actions == [next_index : Nat, targets : Seq(Targets)]

(* AddTarget leaves the index alone and never shortens the list.           *)
LEMMA AddTargetLemma ==
  ASSUME NEW ra \in Actions, NEW conn \in Targets
  PROVE  LET new == AddTarget(ra, conn)
         IN  /\ new \in Actions /\ new.targets # <<>>
             /\ new.next_index = ra.next_index
             /\ Len(new.targets) >= Len(ra.targets)
<1> DEFINE new == [ra EXCEPT !.targets = Append(@, conn)]
<1>1. ra.next_index \in Nat /\ ra.targets \in Seq(Targets) /\ Len(ra.targets) \in Nat
  BY LenProperties DEF Actions
<1>2. CASE HasTarget(ra, conn)
  <2>1. ra.targets # <<>>
    BY <1>2 DEF HasTarget
  <2>2. QED BY <1>1, <1>2, <2>1 DEF AddTarget
<1>3. CASE ~HasTarget(ra, conn)
  <2>1. AddTarget(ra, conn) = new
    BY <1>3 DEF AddTarget
  <2>2. new.targets = Append(ra.targets, conn) /\ new.next_index = ra.next_index
    BY DEF Actions
  <2>3. Append(ra.targets, conn) \in Seq(Targets)
        /\ Len(Append(ra.targets, conn)) = Len(ra.targets) + 1
        /\ Append(ra.targets, conn) # <<>>
    BY <1>1, AppendProperties
  <2>4. new \in Actions
    BY <2>3 DEF Actions
  <2>5. QED BY <1>1, <2>1, <2>2, <2>3, <2>4
<1>4. QED BY <1>2, <1>3

(* RemoveTarget leaves exactly the targets with another URL.  An index     *)
(* that selected a target still does, if any target is left.               *)
LEMMA RemoveTargetLemma ==
  ASSUME NEW ra \in Actions, NEW conn
  PROVE  LET new == RemoveTarget(ra, conn)
         IN  /\ new \in Actions
             /\ \A c : HasTarget(new, c)
                         <=> HasTarget(ra, c) /\ c.http_url # conn.http_url
             /\ InRange(ra) /\ new.targets # <<>> => InRange(new)
             /\ new.targets # <<>> => ra.targets # <<>>
<1> DEFINE kept == Others(ra.targets, conn)
           new == RemoveTarget(ra, conn)
<1>1. ra.next_index \in Nat /\ ra.targets \in Seq(Targets)
  BY DEF Actions
<1>2. /\ kept \in Seq(Targets)
      /\ \A c : Lists(kept, c) <=> c.http_url # conn.http_url /\ Lists(ra.targets, c)
  BY <1>1, OthersLemma
<1>3. Len(kept) \in Nat /\ (kept # <<>> => Len(kept) # 0)
  BY <1>2, EmptySeq, LenProperties
<1> DEFINE wraps == kept \notin {ra.targets, <<>>} /\ ra.next_index >= Len(kept)
<1>4. /\ new.targets = kept
      /\ new.next_index = IF wraps THEN ra.next_index % Len(kept) ELSE ra.next_index
      /\ new = [next_index |-> new.next_index, targets |-> new.targets]
  BY DEF RemoveTarget
<1> HIDE DEF kept, new
<1>5. wraps => ra.next_index % Len(kept) \in 0..(Len(kept) - 1)
  <2>1. \A m \in Nat \ {0}, k \in Nat : k % m \in 0..(m - 1)
    OBVIOUS
  <2>2. QED BY <1>1, <1>3, <2>1
<1>6. new.next_index \in Nat
  BY <1>1, <1>3, <1>4, <1>5
<1>7. new \in Actions
  BY <1>2, <1>4, <1>6 DEF Actions
<1>8. \A c : HasTarget(new, c) <=> HasTarget(ra, c) /\ c.http_url # conn.http_url
  BY <1>2, <1>4 DEF HasTarget, Lists
<1>9. ASSUME InRange(ra), new.targets # <<>> PROVE InRange(new)
  <2>1. CASE wraps
    BY <1>3, <1>4, <1>5, <2>1 DEF InRange
  <2>2. CASE ~wraps
    BY <1>1, <1>3, <1>4, <1>9, <2>2 DEF InRange
  <2>3. QED BY <2>1, <2>2
<1>10. new.targets # <<>> => ra.targets # <<>>
  <2>1. ASSUME kept # <<>>, ra.targets = <<>> PROVE FALSE
    <3>1. 1 \in DOMAIN kept
      BY <1>2, <1>3, <2>1, LenProperties
    <3>2. \E i \in DOMAIN ra.targets : ra.targets[i] = kept[1]
      BY <1>2, <3>1 DEF Lists
    <3>3. DOMAIN ra.targets = {}
      BY <2>1
    <3>4. QED BY <3>2, <3>3
  <2>2. QED BY <1>4, <2>1
<1>11. QED BY <1>7, <1>8, <1>9, <1>10 DEF new

(* Storing the successor of any index leaves one that selects a target.    *)
LEMMA AdvancedLemma ==
  ASSUME NEW ra \in Actions, ra.targets # <<>>, NEW i \in Nat
  PROVE  /\ Advanced(ra, i) \in Actions
         /\ Advanced(ra, i).targets = ra.targets
         /\ Advanced(ra, i).next_index = (i + 1) % Len(ra.targets)
         /\ InRange(Advanced(ra, i))
<1>1. ra.targets \in Seq(Targets) /\ Len(ra.targets) \in Nat \ {0}
  <2>1. ra.targets \in Seq(Targets)
    BY DEF Actions
  <2>2. QED BY <2>1, EmptySeq, LenProperties
<1>2. (i + 1) % Len(ra.targets) \in 0..(Len(ra.targets) - 1)
  <2>1. \A m \in Nat \ {0}, k \in Nat : k % m \in 0..(m - 1)
    OBVIOUS
  <2>2. i + 1 \in Nat
    OBVIOUS
  <2>3. QED BY <1>1, <2>1, <2>2
<1>3. QED BY <1>1, <1>2 DEF Advanced, InRange, Actions

-----------------------------------------------------------------------------

(* The inductive strengthening of IndexSelectsTarget: types; a call that   *)
(* is under way has targets to choose from; and an index that never was    *)
(* wild is still 0 while there are no targets.                             *)
IndexInv ==
  /\ action \in Actions
  /\ at \in [Threads -> {"idle", "picked", "store"}]
  /\ index \in [Threads -> Nat]
  /\ wild \in BOOLEAN /\ raced \in BOOLEAN
  /\ picks \in Seq(Nat)
  /\ action.targets = <<>> => Idle
  /\ ~wild /\ action.targets = <<>> => action.next_index = 0
  /\ IndexSelectsTarget

(* Once next_index has been stored for a list, no interleaving of          *)
(* GetNextTarget's unlocked steps and no change of the list makes it       *)
(* select something that is not there.                                     *)
THEOREM IndexInvariant == RRSpec => []IndexInv
<1> USE RoundRobinAssumption
<1>1. RRInit => IndexInv
  <2> SUFFICES ASSUME RRInit PROVE IndexInv
    OBVIOUS
  <2>1. action \in Actions /\ action.targets = <<>>
    <3>1. <<>> \in Seq(Targets)
      BY EmptySeq
    <3>2. QED BY <3>1 DEF RRInit, Actions
  <2>2. picks \in Seq(Nat)
    BY EmptySeq DEF RRInit
  <2>3. wild \in BOOLEAN /\ raced \in BOOLEAN
    BY DEF RRInit
  <2>4. QED BY <2>1, <2>2, <2>3 DEF RRInit, IndexInv, Idle, IndexSelectsTarget
<1>2. IndexInv /\ [RRNext]_rrVars => IndexInv'
  <2> SUFFICES ASSUME IndexInv, [RRNext]_rrVars PROVE IndexInv'
    OBVIOUS
  <2>0. <<>> \in Seq(Nat)
    BY EmptySeq
  <2>1. ASSUME NEW conn \in Targets, Add(conn) PROVE IndexInv'
    <3>1. /\ action' \in Actions /\ action'.targets # <<>>
          /\ action'.next_index = action.next_index
          /\ Len(action'.targets) >= Len(action.targets)
      BY <2>1, AddTargetLemma DEF Add, IndexInv
    <3>2. IndexSelectsTarget'
      <4>1. /\ action.next_index \in Nat
            /\ Len(action.targets) \in Nat /\ Len(action'.targets) \in Nat \ {0}
        <5>1. action.targets \in Seq(Targets) /\ action'.targets \in Seq(Targets)
          BY <3>1 DEF IndexInv, Actions
        <5>2. QED BY <3>1, <5>1, EmptySeq, LenProperties DEF IndexInv, Actions
      <4>2. ~wild => action.next_index < Len(action'.targets)
        BY <3>1, <4>1 DEF IndexInv, IndexSelectsTarget, InRange
      <4>3. QED BY <2>1, <3>1, <4>2 DEF Add, IndexSelectsTarget, InRange
    <3>3. QED BY <2>0, <2>1, <3>1, <3>2 DEF Add, IndexInv
  <2>2. ASSUME NEW conn \in Targets, Remove(conn) PROVE IndexInv'
    <3>1. /\ action' \in Actions
          /\ InRange(action) /\ action'.targets # <<>> => InRange(action')
          /\ action'.targets # <<>> => action.targets # <<>>
      BY <2>2, RemoveTargetLemma DEF Remove, IndexInv
    <3>2. wild' = (wild \/ action'.targets = <<>>)
      BY <2>2 DEF Remove
    <3>3. wild' \in BOOLEAN /\ (~wild' => ~wild /\ action'.targets # <<>>)
      BY <3>2
    <3>4. Idle'
      BY <2>2 DEF Remove, Idle
    <3>5. IndexSelectsTarget'
      BY <3>1, <3>3 DEF IndexInv, IndexSelectsTarget
    <3>6. QED BY <2>0, <2>2, <3>1, <3>3, <3>4, <3>5 DEF Remove, IndexInv
  <2>3. ASSUME NEW t \in Threads, Pick(t) PROVE IndexInv'
    <3>1. action.next_index \in Nat
      BY DEF IndexInv, Actions
    <3>2. picks' \in Seq(Nat)
      BY <2>3, <3>1, AppendProperties DEF Pick, IndexInv
    <3>3. raced' \in BOOLEAN
      BY <2>3 DEF Pick
    <3>4. action' = action /\ wild' = wild /\ action.targets # <<>>
      BY <2>3 DEF Pick
    <3>5. index' \in [Threads -> Nat] /\ at' \in [Threads -> {"idle", "picked", "store"}]
      BY <2>3, <3>1 DEF Pick, IndexInv
    <3>6. QED BY <3>2, <3>3, <3>4, <3>5 DEF IndexInv, IndexSelectsTarget
  <2>4. ASSUME NEW t \in Threads, Reload(t) PROVE IndexInv'
    <3>1. action.next_index \in Nat /\ action.targets # <<>>
      BY <2>4 DEF IndexInv, Actions, Reload, Idle
    <3>2. index' \in [Threads -> Nat] /\ at' \in [Threads -> {"idle", "picked", "store"}]
      BY <2>4, <3>1 DEF Reload, IndexInv
    <3>3. UNCHANGED <<action, wild, picks, raced>>
      BY <2>4 DEF Reload
    <3>4. QED BY <3>1, <3>2, <3>3 DEF IndexInv, IndexSelectsTarget
  <2>5. ASSUME NEW t \in Threads, Store(t) PROVE IndexInv'
    <3>1. action.targets # <<>>
      BY <2>5 DEF IndexInv, Store, Idle
    <3>2. /\ action' \in Actions /\ action'.targets = action.targets
          /\ InRange(action')
      BY <2>5, <3>1, AdvancedLemma DEF Store, IndexInv
    <3>3. at' \in [Threads -> {"idle", "picked", "store"}]
      BY <2>5 DEF Store, IndexInv
    <3>4. QED BY <2>5, <3>1, <3>2, <3>3 DEF Store, IndexInv, IndexSelectsTarget
  <2>6. CASE UNCHANGED rrVars
    BY <2>6 DEF rrVars, IndexInv, Idle, IndexSelectsTarget
  <2>7. QED BY <2>1, <2>2, <2>3, <2>4, <2>5, <2>6 DEF RRNext
<1>3. QED BY <1>1, <1>2, PTL DEF RRSpec

(* A next_index that was set up or stored selects a target of the list.    *)
THEOREM IndexAlwaysSelects == RRSpec => []IndexSelectsTarget
<1>1. IndexInv => IndexSelectsTarget
  BY DEF IndexInv
<1>2. QED BY <1>1, IndexInvariant, PTL

-----------------------------------------------------------------------------

(* i is one of the indexes from s up to, but not including, m, counted     *)
(* around the list; none is when s = m.                                    *)
InCycle(s, m, i) == IF s <= m THEN s <= i /\ i < m ELSE i >= s \/ i < m
Once(b) == IF b THEN 1 ELSE 0

(* Picking the target at m after those from s up to m: everything was      *)
(* picked r times, and those from s up to the successor of m once more.    *)
Turns(n, s, m, q) ==
  \E r \in Nat : \A i \in 0..(n - 1) :
    q + Once(InCycle(s, m, i)) + Once(i = m) = r + Once(InCycle(s, (m + 1) % n, i))

(* GetNextTarget's successor modulo n makes one turn of the cycle.         *)
LEMMA TurnLemma ==
  ASSUME NEW n \in Nat \ {0}, NEW s \in 0..(n - 1), NEW m \in 0..(n - 1), NEW q \in Nat
  PROVE  Turns(n, s, m, q)
<1>1. CASE m + 1 = n
  <2>1. (m + 1) % n = 0
    BY <1>1
  <2>2. CASE s = 0
    <3>1. \A i \in 0..(n - 1) :
            q + Once(InCycle(s, m, i)) + Once(i = m) = (q + 1) + Once(InCycle(s, 0, i))
      BY <1>1, <2>2 DEF InCycle, Once
    <3>2. q + 1 \in Nat
      OBVIOUS
    <3>3. QED BY <2>1, <3>1, <3>2 DEF Turns
  <2>3. CASE s # 0
    <3>1. \A i \in 0..(n - 1) :
            q + Once(InCycle(s, m, i)) + Once(i = m) = q + Once(InCycle(s, 0, i))
      BY <1>1, <2>3 DEF InCycle, Once
    <3>2. QED BY <2>1, <3>1 DEF Turns
  <2>4. QED BY <2>2, <2>3
<1>2. CASE m + 1 # n
  <2>1. (m + 1) % n = m + 1
    BY <1>2
  <2>2. CASE s = m + 1
    <3>1. \A i \in 0..(n - 1) :
            q + Once(InCycle(s, m, i)) + Once(i = m) = (q + 1) + Once(InCycle(s, m + 1, i))
      BY <2>2 DEF InCycle, Once
    <3>2. q + 1 \in Nat
      OBVIOUS
    <3>3. QED BY <2>1, <3>1, <3>2 DEF Turns
  <2>3. CASE s # m + 1
    <3>1. \A i \in 0..(n - 1) :
            q + Once(InCycle(s, m, i)) + Once(i = m) = q + Once(InCycle(s, m + 1, i))
      BY <2>3 DEF InCycle, Once
    <3>2. QED BY <2>1, <3>1 DEF Turns
  <2>4. QED BY <2>2, <2>3
<1>3. QED BY <1>1, <1>2

(* Nothing was picked yet.                                                 *)
LEMMA TimesNone ==
  ASSUME NEW i, picks = <<>>
  PROVE  Times(i) = 0
<1>1. {k \in DOMAIN picks : picks[k] = i} = {}
  OBVIOUS
<1>2. QED BY <1>1, FS_EmptySet, Zenon DEF Times

(* One more pick counts for the index that was picked, and for no other.   *)
LEMMA TimesOneMore ==
  ASSUME picks \in Seq(Nat), NEW x \in Nat, picks' = Append(picks, x), NEW i
  PROVE  Times(i) \in Nat /\ Times(i)' = Times(i) + Once(i = x)
<1> DEFINE K == {k \in DOMAIN picks : picks[k] = i}
           L == {k \in DOMAIN picks' : picks'[k] = i}
           n == Len(picks)
<1>1. /\ n \in Nat /\ DOMAIN picks = 1..n /\ DOMAIN picks' = 1..(n + 1)
      /\ \A k \in 1..n : picks'[k] = picks[k]
      /\ picks'[n + 1] = x
  BY LenProperties, AppendProperties
<1>2. IsFiniteSet(K)
  <2>1. K \in SUBSET (1..n) /\ IsFiniteSet(1..n)
    BY <1>1, FS_Interval
  <2>2. QED BY <2>1, FS_Subset
<1>3. n + 1 \notin K
  BY <1>1
<1>4. CASE i = x
  <2>1. L = K \cup {n + 1}
    BY <1>1, <1>4
  <2>2. Cardinality(K \cup {n + 1}) = Cardinality(K) + 1 /\ Cardinality(K) \in Nat
    <3> HIDE DEF K, n
    <3>1. QED BY <1>2, <1>3, FS_AddElement, FS_CardinalityType
  <2>3. QED BY <1>4, <2>1, <2>2 DEF Times, Once
<1>5. CASE i # x
  <2>1. L = K
    BY <1>1, <1>5
  <2>2. Cardinality(K) \in Nat
    <3> HIDE DEF K
    <3>1. QED BY <1>2, FS_CardinalityType
  <2>3. Times(i) = Cardinality(K) /\ Times(i)' = Cardinality(K)
    BY <2>1 DEF Times
  <2>4. QED BY <1>5, <2>2, <2>3 DEF Once
<1>6. QED BY <1>4, <1>5

-----------------------------------------------------------------------------

(* The index GetNextTarget hands out next, once the call under way has     *)
(* stored it.                                                              *)
Upcoming ==
  IF Idle THEN action.next_index ELSE (action.next_index + 1) % Len(action.targets)

(* The targets were picked in turn: from some index s on, around the list  *)
(* q times and then up to the upcoming index.                              *)
InTurn ==
  \E s \in 0..(Len(action.targets) - 1), q \in Nat :
    \A i \in 0..(Len(action.targets) - 1) :
      Times(i) = q + Once(InCycle(s, Upcoming, i))

(* The inductive strengthening of Balanced.  Without overlapping calls at  *)
(* most one thread is inside GetNextTarget, the index it read is the one   *)
(* still stored, and the targets were picked in turn; a start index that   *)
(* selects nothing has not counted for any target.                         *)
TurnInv ==
  ~raced =>
    /\ \A t, u \in Threads : at[t] # "idle" /\ at[u] # "idle" => t = u
    /\ \A t \in Threads : at[t] # "idle" => index[t] = action.next_index
    /\ action.targets # <<>> =>
         \/ /\ Idle /\ ~InRange(action)
            /\ \A i \in 0..(Len(action.targets) - 1) : Times(i) = 0
         \/ (Idle => InRange(action)) /\ InTurn

(* Nothing picked yet, with any list and any index.                        *)
LEMMA FreshTurn == action \in Actions /\ Idle /\ picks = <<>> => TurnInv
<1> SUFFICES ASSUME action \in Actions, Idle, picks = <<>> PROVE TurnInv
  OBVIOUS
<1> DEFINE n == Len(action.targets)
<1>1. n \in Nat /\ action.next_index \in Nat
  <2>1. action.targets \in Seq(Targets) /\ action.next_index \in Nat
    BY DEF Actions
  <2>2. QED BY <2>1, LenProperties
<1>2. \A i \in 0..(n - 1) : Times(i) = 0
  BY TimesNone
<1>3. ASSUME InRange(action) PROVE InTurn
  <2>1. action.next_index \in 0..(n - 1) /\ Upcoming = action.next_index
    BY <1>1, <1>3 DEF InRange, Upcoming
  <2>2. \A i \in 0..(n - 1) :
          Times(i) = 0 + Once(InCycle(action.next_index, Upcoming, i))
    BY <1>1, <1>2, <2>1 DEF InCycle, Once
  <2>3. QED BY <2>1, <2>2 DEF InTurn
<1>4. QED BY <1>2, <1>3 DEF TurnInv, Idle

(* Without overlapping calls the targets are picked in turn, whichever     *)
(* threads make the calls and wherever the index started.                  *)
THEOREM TurnInvariant == RRSpec => []TurnInv
<1> USE RoundRobinAssumption
<1> DEFINE n == Len(action.targets)
<1>1. RRInit => TurnInv
  <2> SUFFICES ASSUME RRInit PROVE TurnInv
    OBVIOUS
  <2>1. action \in Actions
    <3>1. <<>> \in Seq(Targets)
      BY EmptySeq
    <3>2. QED BY <3>1 DEF RRInit, Actions
  <2>2. QED BY <2>1, FreshTurn DEF RRInit, Idle
<1>2. IndexInv /\ IndexInv' /\ TurnInv /\ [RRNext]_rrVars => TurnInv'
  <2> SUFFICES ASSUME IndexInv, IndexInv', TurnInv, [RRNext]_rrVars PROVE TurnInv'
    OBVIOUS
  <2>0. /\ n \in Nat /\ (action.targets # <<>> => n # 0)
        /\ action.next_index \in Nat /\ picks \in Seq(Nat)
        /\ at \in [Threads -> {"idle", "picked", "store"}]
    <3>1. action.targets \in Seq(Targets)
      BY DEF IndexInv, Actions
    <3>2. QED BY <3>1, EmptySeq, LenProperties DEF IndexInv, Actions
  <2>1. ASSUME NEW conn \in Targets, Add(conn) \/ Remove(conn) PROVE TurnInv'
    <3>1. action' \in Actions /\ Idle' /\ picks' = <<>>
      BY <2>1 DEF Add, Remove, IndexInv, Idle
    <3>2. (action \in Actions /\ Idle /\ picks = <<>> => TurnInv)'
      BY FreshTurn, PTL
    <3>3. QED BY <3>1, <3>2
  <2>2. ASSUME NEW t \in Threads, Pick(t) PROVE TurnInv'
    <3>1. SUFFICES ASSUME ~raced' PROVE TurnInv'
      BY DEF TurnInv
    <3>2. ~raced /\ Idle
      BY <2>2, <3>1 DEF Pick
    <3>3. /\ action' = action /\ action.targets # <<>>
          /\ index' = [index EXCEPT ![t] = action.next_index]
          /\ at' = [at EXCEPT ![t] = "picked"]
          /\ picks' = Append(picks, action.next_index)
      BY <2>2 DEF Pick
    <3>4. /\ at'[t] = "picked" /\ index'[t] = action.next_index
          /\ \A u \in Threads : u # t => at'[u] = "idle"
      BY <2>0, <3>2, <3>3 DEF Idle, IndexInv
    <3>5. ~Idle' /\ Upcoming' = (action.next_index + 1) % n
      BY <3>3, <3>4 DEF Idle, Upcoming
    <3>6. \A i \in 0..(n - 1) :
            Times(i) \in Nat /\ Times(i)' = Times(i) + Once(i = action.next_index)
      BY <2>0, <3>3, TimesOneMore
    <3>7. InTurn'
      <4> DEFINE m == action.next_index
                 up == (m + 1) % n
      <4>1. CASE ~InRange(action)
        <5>1. \A i \in 0..(n - 1) : Times(i) = 0 /\ i # m
          BY <2>0, <3>2, <3>3, <4>1 DEF TurnInv, InRange
        <5>2. \A i \in 0..(n - 1) : Times(i)' = 0
          BY <3>6, <5>1 DEF Once
        <5>3. up \in 0..(n - 1)
          <6>1. \A d \in Nat \ {0}, k \in Nat : k % d \in 0..(d - 1)
            OBVIOUS
          <6>2. m + 1 \in Nat /\ n \in Nat \ {0}
            BY <2>0, <3>3
          <6>3. QED BY <6>1, <6>2
        <5> HIDE DEF up
        <5>4. \A i \in 0..(n - 1) : Times(i)' = 0 + Once(InCycle(up, up, i))
          BY <2>0, <5>2, <5>3 DEF InCycle, Once
        <5>5. up = Upcoming' /\ 0 \in Nat
          BY <3>5 DEF up
        <5>6. QED BY <3>3, <5>3, <5>4, <5>5 DEF InTurn
      <4>2. CASE InRange(action)
        <5>1. PICK s \in 0..(n - 1), q \in Nat :
                \A i \in 0..(n - 1) : Times(i) = q + Once(InCycle(s, m, i))
          BY <3>2, <3>3, <4>2 DEF TurnInv, InTurn, Upcoming
        <5>2. m \in 0..(n - 1) /\ n \in Nat \ {0}
          BY <2>0, <3>3, <4>2 DEF InRange
        <5>3. PICK r \in Nat : \A i \in 0..(n - 1) :
                q + Once(InCycle(s, m, i)) + Once(i = m) = r + Once(InCycle(s, up, i))
          <6> HIDE DEF m, n
          <6>1. Turns(n, s, m, q)
            BY <5>2, TurnLemma
          <6>2. QED BY <6>1 DEF Turns
        <5> HIDE DEF up
        <5>4. \A i \in 0..(n - 1) : Times(i)' = r + Once(InCycle(s, up, i))
          BY <3>6, <5>1, <5>3
        <5>5. up = Upcoming'
          BY <3>5 DEF up
        <5>6. QED BY <3>3, <5>4, <5>5 DEF InTurn
      <4>3. QED BY <4>1, <4>2
    <3>8. QED BY <3>3, <3>4, <3>5, <3>7 DEF TurnInv
  <2>3. ASSUME NEW t \in Threads, Reload(t) PROVE TurnInv'
    <3>1. SUFFICES ASSUME ~raced PROVE TurnInv'
      BY <2>3 DEF Reload, TurnInv
    <3>2. index' = index /\ UNCHANGED <<action, picks, raced>>
      BY <2>3, <3>1 DEF Reload, TurnInv, IndexInv
    <3>3. (\A u \in Threads : at'[u] = "idle" <=> at[u] = "idle") /\ ~Idle /\ ~Idle'
      BY <2>0, <2>3 DEF Reload, Idle
    <3>4. InTurn /\ Upcoming' = Upcoming /\ action.targets # <<>>
      BY <3>1, <3>2, <3>3 DEF TurnInv, Upcoming, IndexInv
    <3>5. InTurn'
      <4>1. \A i : Times(i)' = Times(i)
        BY <3>2 DEF Times
      <4>2. QED BY <3>2, <3>4, <4>1 DEF InTurn
    <3>6. QED BY <3>1, <3>2, <3>3, <3>5 DEF TurnInv
  <2>4. ASSUME NEW t \in Threads, Store(t) PROVE TurnInv'
    <3>1. SUFFICES ASSUME ~raced PROVE TurnInv'
      BY <2>4 DEF Store, TurnInv
    <3>2. index[t] = action.next_index /\ ~Idle /\ action.targets # <<>>
      BY <2>4, <3>1 DEF Store, TurnInv, Idle, IndexInv
    <3>3. Idle'
      BY <2>0, <2>4, <3>1 DEF Store, TurnInv, Idle
    <3>4. /\ action'.targets = action.targets /\ InRange(action')
          /\ action'.next_index = (action.next_index + 1) % n
          /\ picks' = picks
      BY <2>0, <2>4, <3>2, AdvancedLemma DEF Store, IndexInv
    <3>5. Upcoming' = Upcoming
      BY <3>2, <3>3, <3>4 DEF Upcoming
    <3>6. InTurn'
      <4>1. \A i : Times(i)' = Times(i)
        BY <3>4 DEF Times
      <4>2. QED BY <3>1, <3>2, <3>4, <3>5, <4>1 DEF TurnInv, InTurn
    <3>7. QED BY <3>3, <3>4, <3>6 DEF TurnInv, Idle
  <2>5. CASE UNCHANGED rrVars
    <3>1. (\A i : Times(i)' = Times(i)) /\ Upcoming' = Upcoming /\ (Idle' <=> Idle)
      BY <2>5 DEF rrVars, Times, Upcoming, Idle
    <3>2. InTurn' <=> InTurn
      BY <2>5, <3>1 DEF rrVars, InTurn
    <3>3. QED BY <2>5, <3>1, <3>2 DEF rrVars, TurnInv
  <2>6. QED BY <2>1, <2>2, <2>3, <2>4, <2>5 DEF RRNext
<1>3. QED BY <1>1, <1>2, IndexInvariant, PTL DEF RRSpec

(* Round robin for any number of threads, targets and calls: as long as no *)
(* two calls overlap, no target is picked two times more often than        *)
(* another.                                                                *)
THEOREM PicksAreBalanced == RRSpec => []Balanced
<1>1. IndexInv /\ TurnInv => Balanced
  <2> DEFINE n == Len(action.targets)
  <2> SUFFICES ASSUME IndexInv, TurnInv, ~raced,
                      NEW i \in 0..(n - 1), NEW j \in 0..(n - 1)
               PROVE  Times(i) <= Times(j) + 1
    BY DEF Balanced
  <2>1. action.targets # <<>>
    <3>1. n # 0
      OBVIOUS
    <3>2. QED BY <3>1
  <2>2. CASE \A k \in 0..(n - 1) : Times(k) = 0
    BY <2>2
  <2>3. CASE InTurn
    <3>1. PICK q \in Nat : /\ Times(i) \in {q, q + 1}
                           /\ Times(j) \in {q, q + 1}
      BY <2>3 DEF InTurn, Once
    <3>2. QED BY <3>1
  <2>4. QED BY <2>1, <2>2, <2>3 DEF TurnInv
<1>2. QED BY <1>1, IndexInvariant, TurnInvariant, PTL
=============================================================================
