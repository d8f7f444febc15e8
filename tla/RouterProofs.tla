---------------------------- MODULE RouterProofs ----------------------------
(***************************************************************************)
(* Proofs about Router for every configuration and any number of threads.  *)
(***************************************************************************)
EXTENDS Router, SequenceTheorems, FiniteSetTheorems, TLAPS

(* A set of natural numbers that is not empty has a least element: of the  *)
(* intervals from 0 to one of its elements, one has none below it.         *)
LEMMA LeastNat ==
  ASSUME NEW T, T \subseteq Nat, T # {}
  PROVE  \E x \in T : \A y \in T : x <= y
<1> DEFINE Downs == {0..n : n \in T}
<1>1. Downs \subseteq FiniteSubsetsOf(Nat) /\ Downs # {}
  <2>1. \A n \in T : IsFiniteSet(0..n) /\ 0..n \subseteq Nat
    BY FS_Interval
  <2>2. QED BY <2>1 DEF FiniteSubsetsOf
<1>2. IsWellFoundedOn(StrictSubsetOrdering(Nat), FiniteSubsetsOf(Nat))
  BY FS_StrictSubsetOrderingWellFounded
<1>3. PICK D \in Downs : \A E \in Downs : ~(<<E, D>> \in StrictSubsetOrdering(Nat))
  <2> HIDE DEF Downs
  <2>1. QED BY <1>1, <1>2, WFMin
<1>4. PICK x \in T : D = 0..x
  OBVIOUS
<1>5. ASSUME NEW y \in T, y < x PROVE FALSE
  <2>1. x \in 0..x /\ x \notin 0..y
    BY <1>5
  <2>2. 0..y \subseteq 0..x /\ 0..y # 0..x /\ 0..y \in SUBSET Nat /\ 0..x \in SUBSET Nat
    BY <1>5, <2>1
  <2>3. <<0..y, 0..x>> \in StrictSubsetOrdering(Nat)
    BY <2>2 DEF StrictSubsetOrdering
  <2>4. QED BY <1>3, <1>4, <2>3
<1>6. QED BY <1>5

(* Min and Max of positions in a sequence are such positions.              *)
LEMMA MinMaxLemma ==
  ASSUME NEW n \in Nat, NEW S \in SUBSET (1..n), S # {}
  PROVE  /\ Min(S) \in S /\ \A i \in S : Min(S) <= i
         /\ Max(S) \in S /\ \A i \in S : i <= Max(S)
<1>0. S \subseteq Nat
  OBVIOUS
<1>1. \E x \in S : \A y \in S : x <= y
  BY <1>0, LeastNat
<1>2. \E x \in S : \A y \in S : x >= y
  <2> DEFINE T == {n - i : i \in S}
  <2>1. T \subseteq Nat /\ T # {}
    <3>1. \A i \in S : n - i \in Nat
      OBVIOUS
    <3>2. PICK i \in S : TRUE
      OBVIOUS
    <3>3. n - i \in T
      OBVIOUS
    <3>4. QED BY <3>1, <3>3
  <2>2. PICK m \in T : \A k \in T : m <= k
    <3> HIDE DEF T
    <3>1. QED BY <2>1, LeastNat
  <2>3. PICK x \in S : m = n - x
    OBVIOUS
  <2>4. ASSUME NEW y \in S PROVE x >= y
    <3>1. n - y \in T
      OBVIOUS
    <3>2. m <= n - y
      BY <2>2, <3>1
    <3>3. QED BY <2>3, <3>2
  <2>5. QED BY <2>4
<1>3. Min(S) \in S /\ \A i \in S : Min(S) <= i
  BY <1>1 DEF Min
<1>4. Max(S) \in S /\ \A i \in S : Max(S) >= i
  BY <1>2 DEF Max
<1>5. ASSUME NEW i \in S PROVE i <= Max(S)
  <2>1. Max(S) >= i /\ Max(S) \in Nat /\ i \in Nat
    BY <1>0, <1>4
  <2>2. QED BY <2>1
<1>6. QED BY <1>3, <1>4, <1>5

(* normalizeURL, whatever it is given: nothing, or one slash in front of   *)
(* characters the first and the last of which are not slashes.             *)
LEMMA NormalizedLemma ==
  ASSUME NEW u \in Seq(STRING)
  PROVE  LET v == normalizeURL(u)
         IN  /\ v \in Seq(STRING \cup {"/"})
             /\ \/ v = <<>>
                \/ Len(v) > 1 /\ v[1] = "/" /\ v[2] # "/" /\ Last(v) # "/"
<1> DEFINE kept == {i \in DOMAIN u : u[i] # "/"}
           v == normalizeURL(u)
<1>1. CASE kept = {}
  <2>1. v = <<>>
    BY <1>1 DEF normalizeURL
  <2>2. QED BY <2>1
<1>2. CASE kept # {}
  <2> DEFINE a == Min(kept)
             b == Max(kept)
             w == SubSeq(u, a, b)
  <2>1. Len(u) \in Nat /\ kept \in SUBSET (1..Len(u))
    BY LenProperties
  <2>2. a \in kept /\ b \in kept /\ a <= b
    <3> HIDE DEF kept
    <3>1. QED BY <1>2, <2>1, MinMaxLemma
  <2>3. u[a] # "/" /\ u[b] # "/" /\ a \in 1..Len(u) /\ b \in 1..Len(u)
    BY <2>2
  <2>4. v = <<"/">> \o w
    BY <1>2 DEF normalizeURL
  <2> HIDE DEF a, b
  <2>5. /\ w \in Seq(STRING) /\ Len(w) = b - a + 1
        /\ w[1] = u[a] /\ w[b - a + 1] = u[b]
    <3>1. /\ w \in Seq(STRING) /\ Len(w) = b - a + 1
          /\ \A i \in 1..(b - a + 1) : w[i] = u[a + i - 1]
      <4>1. a \in Int /\ b \in Int /\ \A i \in a..b : u[i] \in STRING
        BY <2>1, <2>3, ElementOfSeq
      <4>2. QED BY <2>2, <4>1, SubSeqProperties
    <3>2. 1 \in 1..(b - a + 1) /\ b - a + 1 \in 1..(b - a + 1)
      BY <2>2, <2>3
    <3>3. a + 1 - 1 = a /\ a + (b - a + 1) - 1 = b
      BY <2>3
    <3>4. QED BY <3>1, <3>2, <3>3
  <2> HIDE DEF w, v
  <2> DEFINE slash == <<"/">>
             Chars == STRING \cup {"/"}
  <2>6. slash \in Seq(Chars) /\ Len(slash) = 1 /\ slash[1] = "/"
    OBVIOUS
  <2> HIDE DEF slash
  <2>7. /\ v \in Seq(Chars) /\ Len(v) = 1 + Len(w) /\ Len(w) \in Nat
        /\ \A i \in 1..(1 + Len(w)) : v[i] = IF i <= 1 THEN slash[i] ELSE w[i - 1]
    <3>1. v = slash \o w /\ w \in Seq(Chars)
      BY <2>4, <2>5 DEF slash
    <3> HIDE DEF Chars
    <3>2. Len(w) \in Nat
      BY <3>1, LenProperties
    <3>3. v \in Seq(Chars) /\ Len(v) = Len(slash) + Len(w)
      BY <2>6, <3>1, ConcatProperties
    <3>4. \A i \in 1..(Len(slash) + Len(w)) :
            v[i] = IF i <= Len(slash) THEN slash[i] ELSE w[i - Len(slash)]
      BY <2>6, <3>1, ConcatProperties
    <3>5. QED BY <2>6, <3>2, <3>3, <3>4
  <2>8. v[1] = "/" /\ v[2] = w[1] /\ v[Len(v)] = w[Len(w)] /\ Len(v) > 1
    <3>1. Len(w) > 0
      BY <2>2, <2>3, <2>5
    <3>2. v[1] = slash[1] /\ v[2] = w[2 - 1] /\ v[1 + Len(w)] = w[1 + Len(w) - 1]
      BY <2>7, <3>1
    <3>3. 1 + Len(w) - 1 = Len(w) /\ 1 + Len(w) > 1
      BY <2>7, <3>1
    <3>4. QED BY <2>6, <2>7, <3>2, <3>3
  <2>9. QED BY <2>3, <2>5, <2>7, <2>8 DEF Last, v
<1>3. QED BY <1>1, <1>2

(* The targets a configuration can name.                                   *)
TargetSet == {Target(r) : r \in Routes}

(* AddTarget keeps a route well formed and its index and targets in place; *)
(* the target added is there.                                              *)
LEMMA AddTargetLemma ==
  ASSUME NEW ra \in RouteActions, NEW conn \in TargetSet
  PROVE  /\ AddTarget(ra, conn) \in RouteActions
         /\ HasTarget(AddTarget(ra, conn), conn)
         /\ \A c : HasTarget(ra, c) => HasTarget(AddTarget(ra, conn), c)
         /\ InRange(ra) => InRange(AddTarget(ra, conn))
<1> DEFINE more == Append(ra.targets, conn)
           new == [ra EXCEPT !.targets = more]
<1>1. ra \in [next_index : Nat, targets : Seq(TargetSet)] /\ ra.targets # <<>>
  BY DEF RouteActions, TargetSet
<1>2. CASE HasTarget(ra, conn)
  BY <1>2 DEF AddTarget
<1>3. CASE ~HasTarget(ra, conn)
  <2>1. AddTarget(ra, conn) = new
    BY <1>3 DEF AddTarget
  <2>2. /\ new.next_index = ra.next_index
        /\ new.targets = more
        /\ new \in [next_index : Nat, targets : Seq(TargetSet)]
    <3>1. more \in Seq(TargetSet)
      BY <1>1, AppendProperties
    <3> HIDE DEF more, TargetSet
    <3>2. QED BY <1>1, <3>1
  <2>3. /\ Len(new.targets) = Len(ra.targets) + 1
        /\ Len(ra.targets) \in Nat
        /\ new.targets[Len(ra.targets) + 1] = conn
        /\ \A i \in DOMAIN ra.targets : i \in DOMAIN new.targets
                                        /\ new.targets[i] = ra.targets[i]
        /\ Len(ra.targets) + 1 \in DOMAIN new.targets
    BY <1>1, <2>2
  <2>4. new.targets # <<>>
    BY <2>3
  <2>5. new \in RouteActions
    BY <2>2, <2>4 DEF RouteActions, TargetSet
  <2>6. HasTarget(new, conn) /\ \A c : HasTarget(ra, c) => HasTarget(new, c)
    BY <2>3 DEF HasTarget
  <2>7. InRange(ra) => InRange(new)
    BY <1>1, <2>2, <2>3 DEF InRange
  <2> HIDE DEF new
  <2>8. QED BY <2>1, <2>5, <2>6, <2>7
<1>4. QED BY <1>2, <1>3

(* Storing the successor of any index leaves one that selects a target.    *)
LEMMA AdvancedLemma ==
  ASSUME NEW ra \in RouteActions, NEW i \in Nat
  PROVE  /\ Advanced(ra, i) \in RouteActions
         /\ Advanced(ra, i).targets = ra.targets
         /\ InRange(Advanced(ra, i))
<1>1. ra \in [next_index : Nat, targets : Seq(TargetSet) \ {<<>>}]
  BY DEF RouteActions, TargetSet
<1>2. Len(ra.targets) \in Nat \ {0}
  <2>1. ra.targets \in Seq(TargetSet) /\ ra.targets # <<>>
    BY <1>1
  <2>2. QED BY <2>1, EmptySeq
<1>3. (i + 1) % Len(ra.targets) \in 0..(Len(ra.targets) - 1)
  <2>1. \A m \in Nat \ {0}, k \in Nat : k % m \in 0..(m - 1)
    OBVIOUS
  <2>2. i + 1 \in Nat
    OBVIOUS
  <2>3. QED BY <1>2, <2>1, <2>2
<1>4. QED BY <1>1, <1>2, <1>3 DEF Advanced, InRange, RouteActions, TargetSet

(* A route made for one target has just that target.                       *)
LEMMA NewRouteLemma ==
  ASSUME NEW conn \in TargetSet, NEW i \in Nat
  PROVE  [next_index |-> i, targets |-> <<conn>>] \in RouteActions
  BY DEF RouteActions, TargetSet

(* That target is there to be found.                                       *)
LEMMA NewRouteTarget ==
  ASSUME NEW conn, NEW i
  PROVE  HasTarget([next_index |-> i, targets |-> <<conn>>], conn)
<1>1. 1 \in DOMAIN <<conn>> /\ <<conn>>[1] = conn
  OBVIOUS
<1>2. [next_index |-> i, targets |-> <<conn>>].targets = <<conn>>
  OBVIOUS
<1>3. QED BY <1>1, <1>2 DEF HasTarget

-----------------------------------------------------------------------------

(* The part of the type invariant that is about the tables.                *)
TablesOK ==
  /\ DOMAIN g_exact_routes \subseteq Urls
  /\ g_exact_routes \in [DOMAIN g_exact_routes -> RouteActions]
  /\ g_prefix_routes \in Seq([http_url : Urls, action : RouteActions])

(* AddPathMatchRoute keeps the tables well formed, loses no entry of the   *)
(* exact table and no target, drives no index out of range, and the target *)
(* it is given is under the URL it is given.                               *)
LEMMA AddPathLemma ==
  ASSUME TablesOK, NEW r \in Routes, AddPathMatchRoute(r)
  PROVE  /\ TablesOK'
         /\ g_prefix_routes' = g_prefix_routes
         /\ DOMAIN g_exact_routes \subseteq DOMAIN g_exact_routes'
         /\ \A u \in DOMAIN g_exact_routes :
              /\ InRange(g_exact_routes[u]) => InRange(g_exact_routes'[u])
              /\ \A c : HasTarget(g_exact_routes[u], c)
                         => HasTarget(g_exact_routes'[u], c)
         /\ normalizeURL(r.source) \in DOMAIN g_exact_routes'
         /\ HasTarget(g_exact_routes'[normalizeURL(r.source)], Target(r))
<1> DEFINE source_url == normalizeURL(r.source)
<1>1. source_url \in Urls /\ Target(r) \in TargetSet
  BY DEF Urls, TargetSet
<1>2. CASE source_url \in DOMAIN g_exact_routes
  <2>1. g_exact_routes' = [g_exact_routes EXCEPT
                             ![source_url] = AddTarget(@, Target(r))]
        /\ UNCHANGED g_prefix_routes
    BY <1>2 DEF AddPathMatchRoute
  <2>2. g_exact_routes[source_url] \in RouteActions
    BY <1>2 DEF TablesOK
  <2>3. QED BY <1>1, <1>2, <2>1, <2>2, AddTargetLemma DEF TablesOK
<1>3. CASE source_url \notin DOMAIN g_exact_routes
  <2>1. PICK g \in Garbage :
          g_exact_routes' =
            [u \in DOMAIN g_exact_routes \cup {source_url} |->
               IF u = source_url
                 THEN [next_index |-> g, targets |-> <<Target(r)>>]
                 ELSE g_exact_routes[u]]
    BY <1>3 DEF AddPathMatchRoute
  <2>2. [next_index |-> g, targets |-> <<Target(r)>>] \in RouteActions
    BY <1>1, NewRouteLemma, RouterAssumption
  <2>3. UNCHANGED g_prefix_routes
    BY DEF AddPathMatchRoute
  <2>4. HasTarget([next_index |-> g, targets |-> <<Target(r)>>], Target(r))
    BY NewRouteTarget
  <2>5. QED BY <1>1, <1>3, <2>1, <2>2, <2>3, <2>4 DEF TablesOK
<1>4. QED BY <1>2, <1>3

(* AddPrefixMatchRoute does the same to the prefix table, and the route it *)
(* may append starts with an index that selects its one target.  The entry *)
(* the target ends up in has a prefix of the URL it is given.              *)
LEMMA AddPrefixLemma ==
  ASSUME TablesOK, NEW r \in Routes, AddPrefixMatchRoute(r)
  PROVE  /\ TablesOK'
         /\ g_exact_routes' = g_exact_routes
         /\ \A i \in DOMAIN g_prefix_routes :
              /\ i \in DOMAIN g_prefix_routes'
              /\ InRange(g_prefix_routes[i].action)
                   => InRange(g_prefix_routes'[i].action)
              /\ g_prefix_routes'[i].http_url = g_prefix_routes[i].http_url
              /\ \A c : HasTarget(g_prefix_routes[i].action, c)
                         => HasTarget(g_prefix_routes'[i].action, c)
         /\ \A i \in DOMAIN g_prefix_routes' :
              i \notin DOMAIN g_prefix_routes => InRange(g_prefix_routes'[i].action)
         /\ \E i \in DOMAIN g_prefix_routes' :
              /\ matchPrefix(normalizeURL(r.source), g_prefix_routes'[i].http_url)
              /\ HasTarget(g_prefix_routes'[i].action, Target(r))
<1> DEFINE source_url == normalizeURL(r.source)
           entry == [http_url |-> source_url,
                     action |-> [next_index |-> 0, targets |-> <<Target(r)>>]]
           Entries == [http_url : Urls, action : RouteActions]
<1>1. source_url \in Urls /\ Target(r) \in TargetSet
  BY DEF Urls, TargetSet
<1>2. ASSUME NEW i \in DOMAIN g_prefix_routes,
             g_prefix_routes' = [g_prefix_routes EXCEPT
                                   ![i].action = AddTarget(@, Target(r))],
             UNCHANGED g_exact_routes
      PROVE  /\ g_prefix_routes' \in Seq(Entries)
             /\ DOMAIN g_prefix_routes' = DOMAIN g_prefix_routes
             /\ \A j \in DOMAIN g_prefix_routes :
                  /\ InRange(g_prefix_routes[j].action)
                       => InRange(g_prefix_routes'[j].action)
                  /\ g_prefix_routes'[j].http_url = g_prefix_routes[j].http_url
                  /\ \A c : HasTarget(g_prefix_routes[j].action, c)
                             => HasTarget(g_prefix_routes'[j].action, c)
             /\ HasTarget(g_prefix_routes'[i].action, Target(r))
  <2>1. g_prefix_routes[i] \in Entries /\ i \in 1..Len(g_prefix_routes)
    <3> HIDE DEF Entries
    <3>1. g_prefix_routes \in Seq(Entries)
      BY DEF TablesOK, Entries
    <3>2. DOMAIN g_prefix_routes = 1..Len(g_prefix_routes)
      BY <3>1, LenProperties
    <3>3. QED BY <1>2, <3>1, <3>2, ElementOfSeq
  <2>2. /\ AddTarget(g_prefix_routes[i].action, Target(r)) \in RouteActions
        /\ InRange(g_prefix_routes[i].action)
             => InRange(AddTarget(g_prefix_routes[i].action, Target(r)))
        /\ HasTarget(AddTarget(g_prefix_routes[i].action, Target(r)), Target(r))
        /\ \A c : HasTarget(g_prefix_routes[i].action, c)
                   => HasTarget(AddTarget(g_prefix_routes[i].action, Target(r)), c)
    BY <1>1, <2>1, AddTargetLemma
  <2> DEFINE e == [g_prefix_routes[i] EXCEPT
                     !.action = AddTarget(g_prefix_routes[i].action, Target(r))]
  <2>3. /\ e \in Entries /\ e.action = AddTarget(g_prefix_routes[i].action, Target(r))
        /\ e.http_url = g_prefix_routes[i].http_url
    BY <2>1, <2>2
  <2>4. g_prefix_routes' = [g_prefix_routes EXCEPT ![i] = e]
    BY <1>2
  <2> HIDE DEF e
  <2>5. g_prefix_routes' \in Seq(Entries) /\ DOMAIN g_prefix_routes' = DOMAIN g_prefix_routes
    BY <2>1, <2>3, <2>4, ExceptSeq DEF TablesOK
  <2>6. \A j \in DOMAIN g_prefix_routes :
          g_prefix_routes'[j] = IF j = i THEN e ELSE g_prefix_routes[j]
    BY <2>4
  <2> HIDE DEF Entries
  <2>7. QED BY <1>2, <2>2, <2>3, <2>5, <2>6
<1>3. ASSUME g_prefix_routes' = Append(g_prefix_routes, entry)
      PROVE  /\ g_prefix_routes' \in Seq(Entries)
             /\ DOMAIN g_prefix_routes' = DOMAIN g_prefix_routes
                                             \cup {Len(g_prefix_routes) + 1}
             /\ \A j \in DOMAIN g_prefix_routes :
                  g_prefix_routes'[j] = g_prefix_routes[j]
             /\ InRange(g_prefix_routes'[Len(g_prefix_routes) + 1].action)
             /\ matchPrefix(source_url,
                            g_prefix_routes'[Len(g_prefix_routes) + 1].http_url)
             /\ HasTarget(g_prefix_routes'[Len(g_prefix_routes) + 1].action, Target(r))
  <2>1. entry \in Entries /\ InRange(entry.action)
    <3>1. [next_index |-> 0, targets |-> <<Target(r)>>] \in RouteActions
      BY <1>1, NewRouteLemma
    <3>2. entry \in Entries
      BY <1>1, <3>1
    <3>3. entry.action.next_index = 0 /\ entry.action.targets = <<Target(r)>>
      OBVIOUS
    <3>4. Len(<<Target(r)>>) = 1
      OBVIOUS
    <3>5. QED BY <3>2, <3>3, <3>4 DEF InRange
  <2>2. HasTarget(entry.action, Target(r)) /\ entry.http_url = source_url
    BY NewRouteTarget
  <2>3. matchPrefix(source_url, source_url)
    <3>1. source_url \in Seq(STRING \cup {"/"})
      BY NormalizedLemma, RouterAssumption
    <3>2. Len(source_url) \in Nat
      BY <3>1, LenProperties
    <3>3. QED BY <3>2 DEF matchPrefix, IsPrefix
  <2> HIDE DEF entry
  <2>4. /\ g_prefix_routes' \in Seq(Entries)
        /\ DOMAIN g_prefix_routes' = DOMAIN g_prefix_routes \cup {Len(g_prefix_routes) + 1}
        /\ \A j \in DOMAIN g_prefix_routes : g_prefix_routes'[j] = g_prefix_routes[j]
        /\ g_prefix_routes'[Len(g_prefix_routes) + 1] = entry
    BY <1>3, <2>1 DEF TablesOK
  <2> HIDE DEF Entries
  <2>5. QED BY <2>1, <2>2, <2>3, <2>4
<1>4. \/ \E i \in DOMAIN g_prefix_routes :
           /\ matchPrefix(source_url, g_prefix_routes[i].http_url)
           /\ g_prefix_routes' = [g_prefix_routes EXCEPT
                                    ![i].action = AddTarget(@, Target(r))]
      \/ g_prefix_routes' = Append(g_prefix_routes, entry)
  BY DEF AddPrefixMatchRoute
<1>5. UNCHANGED g_exact_routes
  BY DEF AddPrefixMatchRoute
<1> HIDE DEF source_url, entry
<1>6. CASE \E i \in DOMAIN g_prefix_routes :
             /\ matchPrefix(source_url, g_prefix_routes[i].http_url)
             /\ g_prefix_routes' = [g_prefix_routes EXCEPT
                                      ![i].action = AddTarget(@, Target(r))]
  BY <1>2, <1>5, <1>6 DEF TablesOK, source_url
<1>7. CASE g_prefix_routes' = Append(g_prefix_routes, entry)
  BY <1>3, <1>5, <1>7 DEF TablesOK, source_url
<1>8. QED BY <1>4, <1>6, <1>7

(* The store of GetNextTarget changes the index of one route: targets,     *)
(* prefixes and entries stay, and an index that selected a target still    *)
(* does.                                                                   *)
LEMMA StoreLemma ==
  ASSUME TablesOK, NEW t \in Threads, slot[t] \in Slots, index[t] \in Nat, Store(t)
  PROVE  /\ TablesOK'
         /\ DOMAIN g_exact_routes' = DOMAIN g_exact_routes
         /\ DOMAIN g_prefix_routes' = DOMAIN g_prefix_routes
         /\ \A u \in DOMAIN g_exact_routes :
              /\ g_exact_routes'[u].targets = g_exact_routes[u].targets
              /\ InRange(g_exact_routes[u]) => InRange(g_exact_routes'[u])
         /\ \A i \in DOMAIN g_prefix_routes :
              /\ g_prefix_routes'[i].action.targets = g_prefix_routes[i].action.targets
              /\ g_prefix_routes'[i].http_url = g_prefix_routes[i].http_url
              /\ InRange(g_prefix_routes[i].action)
                   => InRange(g_prefix_routes'[i].action)
<1> DEFINE Entries == [http_url : Urls, action : RouteActions]
           k == slot[t].key
<1>1. CASE slot[t].table = "exact"
  <2>1. k \in DOMAIN g_exact_routes
    BY <1>1 DEF Slots, Exact, Prefix
  <2>2. g_exact_routes' = [g_exact_routes EXCEPT ![k] = Advanced(@, index[t])]
        /\ UNCHANGED g_prefix_routes
    BY <1>1 DEF Store
  <2>3. g_exact_routes[k] \in RouteActions
    BY <2>1 DEF TablesOK
  <2>4. QED BY <2>1, <2>2, <2>3, AdvancedLemma DEF TablesOK
<1>2. CASE slot[t].table = "prefix"
  <2>1. k \in DOMAIN g_prefix_routes
    BY <1>2 DEF Slots, Exact, Prefix
  <2>2. g_prefix_routes \in Seq(Entries)
    BY DEF TablesOK
  <2> HIDE DEF Entries
  <2>3. k \in 1..Len(g_prefix_routes) /\ g_prefix_routes[k] \in Entries
    BY <2>1, <2>2, LenProperties, ElementOfSeq
  <2> DEFINE a == g_prefix_routes[k].action
             e == [g_prefix_routes[k] EXCEPT !.action = Advanced(a, index[t])]
  <2>4. a \in RouteActions
    BY <2>3 DEF Entries
  <2>5. /\ Advanced(a, index[t]) \in RouteActions
        /\ Advanced(a, index[t]).targets = a.targets
        /\ InRange(Advanced(a, index[t]))
    BY <2>4, AdvancedLemma
  <2>6. /\ e \in Entries /\ e.action = Advanced(a, index[t])
        /\ e.http_url = g_prefix_routes[k].http_url
    BY <2>3, <2>5 DEF Entries
  <2>7. g_prefix_routes' = [g_prefix_routes EXCEPT ![k] = e] /\ UNCHANGED g_exact_routes
    BY <1>2, <2>1 DEF Store
  <2>8. g_prefix_routes' \in Seq(Entries) /\ Len(g_prefix_routes') = Len(g_prefix_routes)
    BY <2>2, <2>3, <2>6, <2>7, ExceptSeq
  <2>9. DOMAIN g_prefix_routes' = DOMAIN g_prefix_routes
    BY <2>7
  <2>10. \A i \in DOMAIN g_prefix_routes :
           /\ i # k => g_prefix_routes'[i] = g_prefix_routes[i]
           /\ i = k => g_prefix_routes'[i] = e
    BY <2>7
  <2> HIDE DEF e
  <2>11. QED BY <2>5, <2>6, <2>7, <2>8, <2>9, <2>10 DEF TablesOK, Entries
<1>3. QED BY <1>1, <1>2 DEF Slots, Exact, Prefix

-----------------------------------------------------------------------------

(* The tables and the threads keep their types: no route is ever without a *)
(* target, and a thread inside GetRouteTarget always has a route that is   *)
(* in the tables.                                                          *)
THEOREM RouterTypeCorrect == RouterSpec => []RouterTypeOK
<1> USE RouterAssumption
<1>1. RouterInit => RouterTypeOK
  BY DEF RouterInit, RouterTypeOK
<1>2. RouterTypeOK /\ [RouterNext]_routerVars => RouterTypeOK'
  <2> SUFFICES ASSUME RouterTypeOK, [RouterNext]_routerVars PROVE RouterTypeOK'
    OBVIOUS
  <2>0. TablesOK
    BY DEF TablesOK, RouterTypeOK
  <2> USE DEF threadVars, tableVars
  <2>1. ASSUME NEW r \in Routes, ConfigureRoute(r) PROVE RouterTypeOK'
    <3>1. \A t \in Threads : at[t] = "idle"
      BY <2>1 DEF ConfigureRoute, RouterTypeOK
    <3>2. TablesOK' /\ stage' \in {"config", "serving", "failed"}
      <4>1. CASE AddPathMatchRoute(r) /\ UNCHANGED stage
        BY <2>0, <4>1, AddPathLemma DEF RouterTypeOK
      <4>2. CASE AddPrefixMatchRoute(r) /\ UNCHANGED stage
        BY <2>0, <4>2, AddPrefixLemma DEF RouterTypeOK
      <4>3. CASE stage' = "failed" /\ UNCHANGED tableVars
        BY <2>0, <4>3 DEF TablesOK
      <4>4. QED BY <2>1, <4>1, <4>2, <4>3 DEF ConfigureRoute
    <3>3. QED BY <2>1, <3>1, <3>2 DEF ConfigureRoute, TablesOK, RouterTypeOK
  <2>2. CASE StartServer
    BY <2>2 DEF StartServer, RouterTypeOK, Slots
  <2>3. ASSUME NEW t \in Threads, NEW path \in Paths, Lookup(t, path)
        PROVE  RouterTypeOK'
    <3> DEFINE source_url == IF path = <<"/">> THEN <<>> ELSE path
    <3>1. source_url \in Seq(STRING)
      <4>1. path \in Seq(STRING) /\ <<>> \in Seq(STRING)
        BY EmptySeq
      <4>2. QED BY <4>1
    <3>2. /\ UNCHANGED <<stage, tableVars, configured, index, target>>
          /\ stage = "serving"
          /\ \/ \E s \in Slots : /\ url' = [url EXCEPT ![t] = source_url]
                                  /\ slot' = [slot EXCEPT ![t] = s]
                                  /\ at' = [at EXCEPT ![t] = "found"]
             \/ UNCHANGED <<url, slot, at>>
      BY <2>3 DEF Lookup, Slots, Candidates
    <3>3. Slots' = Slots
      BY <3>2 DEF Slots
    <3> HIDE DEF source_url
    <3>4. CASE UNCHANGED <<url, slot, at>>
      BY <3>2, <3>3, <3>4 DEF RouterTypeOK
    <3>5. ASSUME NEW s \in Slots,
                 url' = [url EXCEPT ![t] = source_url],
                 slot' = [slot EXCEPT ![t] = s],
                 at' = [at EXCEPT ![t] = "found"]
          PROVE  RouterTypeOK'
      <4>1. /\ url' \in [Threads -> Seq(STRING)]
            /\ at' \in [Threads -> {"idle", "found", "picked", "store"}]
            /\ DOMAIN slot' = Threads
        BY <3>1, <3>5 DEF RouterTypeOK
      <4>2. \A u \in Threads : at'[u] # "idle" => stage' = "serving" /\ slot'[u] \in Slots'
        BY <3>2, <3>3, <3>5 DEF RouterTypeOK
      <4>3. QED BY <3>2, <4>1, <4>2 DEF RouterTypeOK
    <3>6. QED BY <3>2, <3>4, <3>5
  <2>4. ASSUME NEW t \in Threads, Pick(t) \/ Reload(t) PROVE RouterTypeOK'
    <3>1. Action(slot[t]).next_index \in Nat
      <4>1. slot[t] \in Slots
        BY <2>4 DEF Pick, Reload, RouterTypeOK
      <4>2. Action(slot[t]) \in RouteActions
        <5> DEFINE Entries == [http_url : Urls, action : RouteActions]
                   k == slot[t].key
        <5>1. CASE slot[t].table = "exact"
          BY <2>0, <4>1, <5>1 DEF Action, Slots, Exact, Prefix, TablesOK
        <5>2. CASE slot[t].table = "prefix"
          <6>1. k \in DOMAIN g_prefix_routes
            BY <4>1, <5>2 DEF Slots, Exact, Prefix
          <6>2. g_prefix_routes \in Seq(Entries)
            BY <2>0 DEF TablesOK
          <6>3. g_prefix_routes[k] \in Entries
            <7> HIDE DEF Entries
            <7>1. QED BY <6>1, <6>2, LenProperties, ElementOfSeq
          <6>4. QED BY <5>2, <6>3 DEF Action
        <5>3. QED BY <4>1, <5>1, <5>2 DEF Slots, Exact, Prefix
      <4>3. QED BY <4>2 DEF RouteActions
    <3>2. Slots' = Slots
      BY <2>4 DEF Pick, Reload, Slots
    <3>3. QED BY <2>4, <3>1, <3>2 DEF Pick, Reload, RouterTypeOK
  <2>5. ASSUME NEW t \in Threads, Store(t) PROVE RouterTypeOK'
    <3>1. slot[t] \in Slots /\ index[t] \in Nat /\ stage = "serving"
      BY <2>5 DEF Store, RouterTypeOK
    <3>2. TablesOK' /\ Slots' = Slots
      BY <2>0, <2>5, <3>1, StoreLemma DEF Slots
    <3>3. QED BY <2>5, <3>1, <3>2 DEF Store, TablesOK, RouterTypeOK
  <2>6. CASE Exited \/ UNCHANGED routerVars
    BY <2>6 DEF Exited, routerVars, RouterTypeOK, Slots
  <2>7. QED BY <2>1, <2>2, <2>3, <2>4, <2>5, <2>6 DEF RouterNext
<1>3. QED BY <1>1, <1>2, PTL DEF RouterSpec

(* The inductive strengthening of PrefixTargetReal: every prefix route has *)
(* an index that selects one of its targets, since it starts at 0 and is   *)
(* only ever stored modulo the number of targets.                          *)
PrefixInRange ==
  \A i \in DOMAIN g_prefix_routes : InRange(g_prefix_routes[i].action)

(* A prefix route hands out one of its own targets, however the unlocked   *)
(* calls of GetNextTarget interleave.                                      *)
THEOREM PrefixTargetsAreReal == RouterSpec => []PrefixTargetReal
<1> DEFINE PInv == PrefixInRange /\ PrefixTargetReal
<1> USE RouterAssumption
<1>1. RouterInit => PInv
  BY DEF RouterInit, PrefixInRange, PrefixTargetReal
<1>2. RouterTypeOK /\ PInv /\ [RouterNext]_routerVars => PInv'
  <2> SUFFICES ASSUME RouterTypeOK, PInv, [RouterNext]_routerVars PROVE PInv'
    OBVIOUS
  <2>0. TablesOK
    BY DEF TablesOK, RouterTypeOK
  <2> USE DEF threadVars, tableVars
  <2>1. ASSUME NEW r \in Routes, ConfigureRoute(r) PROVE PInv'
    <3>1. \A t \in Threads : at'[t] = "idle"
      BY <2>1 DEF ConfigureRoute, RouterTypeOK
    <3>2. PrefixTargetReal'
      BY <3>1 DEF PrefixTargetReal
    <3>3. PrefixInRange'
      <4>1. CASE AddPathMatchRoute(r)
        BY <4>1 DEF AddPathMatchRoute, PrefixInRange
      <4>2. CASE AddPrefixMatchRoute(r)
        BY <2>0, <4>2, AddPrefixLemma DEF PrefixInRange
      <4>3. CASE UNCHANGED tableVars
        BY <4>3 DEF PrefixInRange
      <4>4. QED BY <2>1, <4>1, <4>2, <4>3 DEF ConfigureRoute
    <3>4. QED BY <3>2, <3>3
  <2>2. CASE StartServer
    BY <2>2 DEF StartServer, PrefixInRange, PrefixTargetReal, Action
  <2>3. ASSUME NEW t \in Threads, NEW path \in Paths, Lookup(t, path) PROVE PInv'
    <3>1. /\ UNCHANGED <<tableVars, target>>
          /\ \A u \in Threads : at'[u] \in {"picked", "store"}
               => at[u] = at'[u] /\ slot'[u] = slot[u]
      BY <2>3 DEF Lookup, RouterTypeOK
    <3>2. QED BY <3>1 DEF PrefixInRange, PrefixTargetReal, Action
  <2>4. ASSUME NEW t \in Threads, Pick(t) PROVE PInv'
    <3>1. UNCHANGED <<tableVars, slot>> /\ PrefixInRange'
      BY <2>4 DEF Pick, PrefixInRange
    <3>2. ASSUME slot[t].table = "prefix"
          PROVE  HasTarget(Action(slot[t]), TargetAt(Action(slot[t])))
      <4> DEFINE ra == Action(slot[t])
                 k == slot[t].key
                 Entries == [http_url : Urls, action : RouteActions]
      <4>1. k \in DOMAIN g_prefix_routes
        BY <2>4, <3>2 DEF Pick, RouterTypeOK, Slots, Exact, Prefix
      <4>2. g_prefix_routes[k] \in Entries
        <5>1. g_prefix_routes \in Seq(Entries)
          BY <2>0 DEF TablesOK
        <5> HIDE DEF Entries
        <5>2. QED BY <4>1, <5>1, LenProperties, ElementOfSeq
      <4>3. ra = g_prefix_routes[k].action /\ InRange(ra)
        BY <3>2, <4>1 DEF Action, PrefixInRange
      <4>4. ra.next_index \in Nat /\ ra.targets \in Seq(TargetSet)
        BY <4>2, <4>3 DEF RouteActions, TargetSet
      <4> HIDE DEF ra
      <4>5. ra.next_index + 1 \in DOMAIN ra.targets
        BY <4>3, <4>4, LenProperties DEF InRange
      <4>6. QED BY <4>3, <4>5 DEF HasTarget, TargetAt, ra
    <3>3. PrefixTargetReal'
      BY <2>4, <3>1, <3>2 DEF Pick, PrefixTargetReal, Action, RouterTypeOK
    <3>4. QED BY <3>1, <3>3
  <2>5. ASSUME NEW t \in Threads, Reload(t) PROVE PInv'
    <3>1. /\ UNCHANGED <<tableVars, slot, target>>
          /\ \A u \in Threads : at'[u] \in {"picked", "store"}
               => at[u] \in {"picked", "store"}
      BY <2>5 DEF Reload, RouterTypeOK
    <3>2. QED BY <3>1 DEF PrefixInRange, PrefixTargetReal, Action
  <2>6. ASSUME NEW t \in Threads, Store(t) PROVE PInv'
    <3>1. slot[t] \in Slots /\ index[t] \in Nat
      BY <2>6 DEF Store, RouterTypeOK
    <3>2. /\ DOMAIN g_prefix_routes' = DOMAIN g_prefix_routes
          /\ \A i \in DOMAIN g_prefix_routes :
               /\ g_prefix_routes'[i].action.targets = g_prefix_routes[i].action.targets
               /\ InRange(g_prefix_routes[i].action)
                    => InRange(g_prefix_routes'[i].action)
      BY <2>0, <2>6, <3>1, StoreLemma
    <3>3. PrefixInRange'
      BY <3>2 DEF PrefixInRange
    <3>4. ASSUME NEW u \in Threads, at'[u] \in {"picked", "store"},
                 slot'[u].table = "prefix"
          PROVE  HasTarget(Action(slot[u])', target'[u])
      <4>1. u # t /\ at[u] = at'[u] /\ slot'[u] = slot[u] /\ target'[u] = target[u]
        BY <2>6, <3>4 DEF Store, RouterTypeOK
      <4>2. HasTarget(Action(slot[u]), target[u]) /\ slot[u].table = "prefix"
        BY <3>4, <4>1 DEF PrefixTargetReal
      <4>3. slot[u].key \in DOMAIN g_prefix_routes
        BY <3>4, <4>1, <4>2 DEF RouterTypeOK, Slots, Exact, Prefix
      <4>4. QED BY <3>2, <4>1, <4>2, <4>3 DEF Action, HasTarget
    <3>5. QED BY <3>3, <3>4 DEF PrefixTargetReal, Action
  <2>7. CASE Exited \/ UNCHANGED routerVars
    BY <2>7 DEF Exited, routerVars, PrefixInRange, PrefixTargetReal, Action
  <2>8. QED BY <2>1, <2>2, <2>3, <2>4, <2>5, <2>6, <2>7 DEF RouterNext
<1>3. PInv => PrefixTargetReal
  OBVIOUS
<1> HIDE DEF PInv
<1>4. QED BY <1>1, <1>2, <1>3, RouterTypeCorrect, PTL DEF RouterSpec

(* No step drives an index that selects a target out of its route's list:  *)
(* not a store, not a route added while the tables are filled.             *)
THEOREM IndexesStayInRange == RouterSpec => IndexStaysInRange
<1> DEFINE Stays == \A s \in Slots : InRange(Action(s)) => InRange(Action(s)')
<1> USE RouterAssumption
<1>1. RouterTypeOK /\ [RouterNext]_routerVars => [Stays]_routerVars
  <2> SUFFICES ASSUME RouterTypeOK, RouterNext, NEW s \in Slots, InRange(Action(s))
               PROVE  InRange(Action(s)')
    BY DEF routerVars
  <2>0. TablesOK
    BY DEF TablesOK, RouterTypeOK
  <2>1. /\ s.table = "exact" => s.key \in DOMAIN g_exact_routes
        /\ s.table # "exact" => s.table = "prefix" /\ s.key \in DOMAIN g_prefix_routes
    BY DEF Slots, Exact, Prefix
  <2> USE DEF threadVars, tableVars
  <2>2. CASE UNCHANGED tableVars
    BY <2>2 DEF Action
  <2>3. ASSUME NEW r \in Routes, AddPathMatchRoute(r) PROVE InRange(Action(s)')
    BY <2>0, <2>1, <2>3, AddPathLemma DEF Action
  <2>4. ASSUME NEW r \in Routes, AddPrefixMatchRoute(r) PROVE InRange(Action(s)')
    BY <2>0, <2>1, <2>4, AddPrefixLemma DEF Action
  <2>5. ASSUME NEW t \in Threads, Store(t) PROVE InRange(Action(s)')
    <3>1. slot[t] \in Slots /\ index[t] \in Nat
      BY <2>5, SMTT(30) DEF Store, RouterTypeOK
    <3>2. QED BY <2>0, <2>1, <2>5, <3>1, StoreLemma DEF Action
  <2>6. \/ UNCHANGED tableVars
        \/ \E r \in Routes : AddPathMatchRoute(r) \/ AddPrefixMatchRoute(r)
        \/ \E t \in Threads : Store(t)
    BY DEF RouterNext, ConfigureRoute, StartServer, Lookup, Pick, Reload, Exited, routerVars
  <2>7. QED BY <2>2, <2>3, <2>4, <2>5, <2>6
<1>2. QED BY <1>1, RouterTypeCorrect, PTL DEF RouterSpec, IndexStaysInRange

(* AddPrefixMatchRoute leaves the URLs of the table alone or appends one   *)
(* that no URL of the table is a prefix of.                                *)
LEMMA AddPrefixUrls ==
  ASSUME TablesOK, NEW r \in Routes, AddPrefixMatchRoute(r), NoShadowedPrefix
  PROVE  NoShadowedPrefix'
<1> DEFINE source_url == normalizeURL(r.source)
           entry == [http_url |-> source_url,
                     action |-> [next_index |-> 0, targets |-> <<Target(r)>>]]
           Entries == [http_url : Urls, action : RouteActions]
<1>1. g_prefix_routes \in Seq(Entries)
  BY DEF TablesOK
<1>2. CASE \E i \in DOMAIN g_prefix_routes :
             g_prefix_routes' = [g_prefix_routes EXCEPT
                                   ![i].action = AddTarget(@, Target(r))]
  <2>1. PICK i \in DOMAIN g_prefix_routes :
          g_prefix_routes' = [g_prefix_routes EXCEPT ![i].action = AddTarget(@, Target(r))]
    BY <1>2
  <2>2. DOMAIN g_prefix_routes' = DOMAIN g_prefix_routes
    BY <1>1, <2>1
  <2>3. ASSUME NEW j \in DOMAIN g_prefix_routes
        PROVE  g_prefix_routes'[j].http_url = g_prefix_routes[j].http_url
    <3>1. g_prefix_routes[j] \in Entries
      <4> HIDE DEF Entries
      <4>1. QED BY <1>1, LenProperties, ElementOfSeq
    <3>2. CASE j # i
      BY <1>1, <2>1, <3>2
    <3>3. CASE j = i
      BY <1>1, <2>1, <3>1, <3>3
    <3>4. QED BY <3>2, <3>3
  <2>4. QED BY <2>2, <2>3 DEF NoShadowedPrefix
<1>3. CASE /\ g_prefix_routes' = Append(g_prefix_routes, entry)
           /\ \A i \in DOMAIN g_prefix_routes :
                ~matchPrefix(source_url, g_prefix_routes[i].http_url)
  <2>1. /\ Len(g_prefix_routes) \in Nat
        /\ DOMAIN g_prefix_routes = 1..Len(g_prefix_routes)
        /\ DOMAIN g_prefix_routes' = 1..(Len(g_prefix_routes) + 1)
        /\ \A j \in DOMAIN g_prefix_routes : g_prefix_routes'[j] = g_prefix_routes[j]
        /\ g_prefix_routes'[Len(g_prefix_routes) + 1] = entry
    <3> HIDE DEF Entries, entry
    <3>1. QED BY <1>1, <1>3
  <2>2. entry.http_url = source_url
    OBVIOUS
  <2>3. ASSUME NEW i \in DOMAIN g_prefix_routes', NEW j \in DOMAIN g_prefix_routes', i < j
        PROVE  ~matchPrefix(g_prefix_routes'[j].http_url, g_prefix_routes'[i].http_url)
    <3> HIDE DEF entry
    <3>1. i \in DOMAIN g_prefix_routes
      BY <2>1, <2>3
    <3>2. CASE j \in DOMAIN g_prefix_routes
      BY <2>1, <2>3, <3>1, <3>2 DEF NoShadowedPrefix
    <3>3. CASE j = Len(g_prefix_routes) + 1
      BY <1>3, <2>1, <2>2, <3>1, <3>3
    <3>4. QED BY <2>1, <3>2, <3>3
  <2>4. QED BY <2>3 DEF NoShadowedPrefix
<1>4. QED BY <1>2, <1>3 DEF AddPrefixMatchRoute

(* No prefix route is shadowed by an earlier one: a URL that an earlier    *)
(* prefix matches is merged into it by AddPrefixMatchRoute, and no lookup  *)
(* changes the URLs of the table.                                          *)
THEOREM PrefixesAreNotShadowed == RouterSpec => []NoShadowedPrefix
<1>1. RouterInit => NoShadowedPrefix
  BY DEF RouterInit, NoShadowedPrefix
<1>2. RouterTypeOK /\ NoShadowedPrefix /\ [RouterNext]_routerVars => NoShadowedPrefix'
  <2> SUFFICES ASSUME RouterTypeOK, NoShadowedPrefix, [RouterNext]_routerVars
               PROVE  NoShadowedPrefix'
    OBVIOUS
  <2>0. TablesOK
    BY DEF TablesOK, RouterTypeOK
  <2>1. CASE UNCHANGED g_prefix_routes
    BY <2>1 DEF NoShadowedPrefix
  <2>2. ASSUME NEW r \in Routes, ConfigureRoute(r) PROVE NoShadowedPrefix'
    <3>1. CASE AddPrefixMatchRoute(r)
      BY <2>0, <3>1, AddPrefixUrls
    <3>2. QED BY <2>1, <2>2, <3>1 DEF ConfigureRoute, AddPathMatchRoute, tableVars
  <2>3. ASSUME NEW t \in Threads, Store(t) PROVE NoShadowedPrefix'
    <3> DEFINE Entries == [http_url : Urls, action : RouteActions]
               s == slot[t]
    <3>1. g_prefix_routes \in Seq(Entries)
      BY <2>0 DEF TablesOK
    <3>2. CASE /\ s.table = "prefix"
               /\ g_prefix_routes' = [g_prefix_routes EXCEPT
                                        ![s.key].action = Advanced(@, index[t])]
      <4>1. DOMAIN g_prefix_routes' = DOMAIN g_prefix_routes
        BY <3>1, <3>2
      <4>2. ASSUME NEW j \in DOMAIN g_prefix_routes
            PROVE  g_prefix_routes'[j].http_url = g_prefix_routes[j].http_url
        <5>1. g_prefix_routes[j] \in Entries
          <6> HIDE DEF Entries
          <6>1. QED BY <3>1, LenProperties, ElementOfSeq
        <5>2. CASE j # s.key
          BY <3>1, <3>2, <5>2
        <5>3. CASE j = s.key
          BY <3>1, <3>2, <5>1, <5>3
        <5>4. QED BY <5>2, <5>3
      <4>3. QED BY <4>1, <4>2 DEF NoShadowedPrefix
    <3>3. QED BY <2>1, <2>3, <3>2 DEF Store
  <2>4. QED
    BY <2>1, <2>2, <2>3 DEF RouterNext, StartServer, Lookup, Pick, Reload, Exited,
       routerVars, tableVars
<1>3. QED BY <1>1, <1>2, RouterTypeCorrect, PTL DEF RouterSpec

(* Every URL in the tables is normalized, whatever the configuration says: *)
(* the tables only hold what normalizeURL returned.                        *)
THEOREM TableUrlsAreNormalized == RouterSpec => []TablesNormalized
<1>1. ASSUME NEW u \in Urls
      PROVE  u = <<>> \/ (Len(u) > 1 /\ u[1] = "/" /\ u[2] # "/" /\ Last(u) # "/")
  BY NormalizedLemma, RouterAssumption DEF Urls
<1>2. RouterTypeOK => TablesNormalized
  <2> SUFFICES ASSUME RouterTypeOK PROVE TablesNormalized
    OBVIOUS
  <2>1. DOMAIN g_exact_routes \subseteq Urls
    BY DEF RouterTypeOK
  <2>2. ASSUME NEW i \in DOMAIN g_prefix_routes
        PROVE  g_prefix_routes[i].http_url \in Urls
    <3> DEFINE Entries == [http_url : Urls, action : RouteActions]
    <3>1. g_prefix_routes \in Seq(Entries)
      BY DEF RouterTypeOK
    <3>2. g_prefix_routes[i] \in Entries
      <4> HIDE DEF Entries
      <4>1. QED BY <3>1, LenProperties, ElementOfSeq
    <3>3. QED BY <3>2
  <2>3. QED BY <1>1, <2>1, <2>2 DEF TablesNormalized
<1>3. QED BY <1>2, RouterTypeCorrect, PTL

(* No route of the configuration is lost: AddPrefixMatchRoute merging it   *)
(* into an earlier one keeps its target, routes added after it take none   *)
(* away, and while serving only indexes change.                            *)
THEOREM NoRouteIsLost == RouterSpec => []NoRouteLost
<1> DEFINE Kept(r) ==
      LET u == normalizeURL(r.source)
      IN  \/ r.match = "neither"
          \/ r.match = "path" /\ u \in DOMAIN g_exact_routes
               /\ HasTarget(g_exact_routes[u], Target(r))
          \/ r.match = "prefix" /\ \E i \in DOMAIN g_prefix_routes :
               /\ matchPrefix(u, g_prefix_routes[i].http_url)
               /\ HasTarget(g_prefix_routes[i].action, Target(r))
<1>1. RouterInit => NoRouteLost
  BY DEF RouterInit, NoRouteLost
<1>2. RouterTypeOK /\ NoRouteLost /\ [RouterNext]_routerVars => NoRouteLost'
  <2> SUFFICES ASSUME RouterTypeOK, NoRouteLost, [RouterNext]_routerVars
               PROVE  NoRouteLost'
    OBVIOUS
  <2>0. TablesOK /\ \A r \in configured : Kept(r)
    BY DEF TablesOK, RouterTypeOK, NoRouteLost
  <2>1. ASSUME UNCHANGED <<tableVars, configured>> PROVE NoRouteLost'
    BY <2>1 DEF NoRouteLost, tableVars
  <2>2. ASSUME NEW r \in Routes, ConfigureRoute(r) PROVE NoRouteLost'
    <3>1. configured' = configured \cup {r}
      BY <2>2 DEF ConfigureRoute
    <3>2. CASE r.match = "path" /\ AddPathMatchRoute(r)
      <4>1. \A q \in configured : Kept(q)'
        BY <2>0, <3>2, AddPathLemma
      <4>2. Kept(r)'
        BY <2>0, <3>2, AddPathLemma
      <4>3. QED BY <3>1, <4>1, <4>2 DEF NoRouteLost
    <3>3. CASE r.match = "prefix" /\ AddPrefixMatchRoute(r)
      <4>1. \A q \in configured : Kept(q)'
        BY <2>0, <3>3, AddPrefixLemma
      <4>2. Kept(r)'
        BY <2>0, <3>3, AddPrefixLemma
      <4>3. QED BY <3>1, <4>1, <4>2 DEF NoRouteLost
    <3>4. CASE r.match = "neither" /\ UNCHANGED tableVars
      BY <2>0, <3>1, <3>4 DEF NoRouteLost, tableVars
    <3>5. QED BY <2>2, <3>2, <3>3, <3>4 DEF ConfigureRoute
  <2>3. ASSUME NEW t \in Threads, Store(t) PROVE NoRouteLost'
    <3>1. slot[t] \in Slots /\ index[t] \in Nat /\ configured' = configured
      BY <2>3 DEF Store, RouterTypeOK
    <3>2. \A q \in configured : Kept(q)'
      BY <2>0, <2>3, <3>1, StoreLemma DEF HasTarget
    <3>3. QED BY <3>1, <3>2 DEF NoRouteLost
  <2>4. CASE StartServer
    BY <2>1, <2>4 DEF StartServer
  <2>5. ASSUME NEW t \in Threads, NEW path \in Paths, Lookup(t, path) PROVE NoRouteLost'
    <3>1. UNCHANGED <<tableVars, configured>>
      BY <2>5 DEF Lookup
    <3>2. QED BY <2>1, <3>1
  <2>6. ASSUME NEW t \in Threads, Pick(t) \/ Reload(t) PROVE NoRouteLost'
    BY <2>1, <2>6 DEF Pick, Reload
  <2>7. CASE Exited \/ UNCHANGED routerVars
    BY <2>1, <2>7 DEF Exited, routerVars
  <2>8. QED BY <2>2, <2>3, <2>4, <2>5, <2>6, <2>7 DEF RouterNext
<1>3. QED BY <1>1, <1>2, RouterTypeCorrect, PTL DEF RouterSpec
=============================================================================
