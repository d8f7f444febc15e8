------------------------------- MODULE Router -------------------------------
(***************************************************************************)
(* The route tables of core/src/router.cc: NewAzugate (core/binding/       *)
(* binding.go) fills them from the configuration, one route after another, *)
(* before the server starts; then the io_context's threads look routes up  *)
(* concurrently and without a lock.  The tables no longer change while     *)
(* serving, the next_index of each route does.                             *)
(*                                                                         *)
(* A URL is a sequence of characters, of which "/" is the only one the     *)
(* code treats in a special way.                                           *)
(***************************************************************************)
EXTENDS RouteAction, FiniteSets, SequencesExt

CONSTANTS
  Threads,   \* threads of the io_context
  Routes,    \* [match, source, to, local]: what a configuration may list
  Paths,     \* request paths, as the client sent them
  Garbage,   \* values an uninitialised next_index may have
  MaxRoutes  \* bound: routes in the configuration

ASSUME RouterAssumption ==
  /\ \A r \in Routes : /\ r.match \in {"path", "prefix", "neither"}
                       /\ r.source \in Seq(STRING) /\ r.to \in Seq(STRING)
                       /\ r.local \in BOOLEAN
  /\ Paths \subseteq Seq(STRING)
  /\ Garbage \subseteq Nat
  /\ MaxRoutes \in Nat

VARIABLES
  stage,            \* "config", "serving" or "failed"
  g_exact_routes,   \* URL -> RouteAction, for the URLs it has
  g_prefix_routes,  \* sequence of [http_url, action]
  configured,       \* history: the routes added so far
  at,               \* where each thread is in GetRouteTarget
  url,              \* the URL each thread looks up
  slot,             \* the route each thread found
  index,            \* the index each thread read last
  target            \* what GetRouteTarget returned to each thread

tableVars  == <<g_exact_routes, g_prefix_routes>>
threadVars == <<at, url, slot, index, target>>
routerVars == <<stage, tableVars, configured, threadVars>>

None == [http_url |-> <<"none">>, is_remote |-> FALSE]

-----------------------------------------------------------------------------
(* Slip: the slashes at the end stay.                                      *)
normalizeFront(u) ==
  LET kept == {i \in DOMAIN u : u[i] # "/"}
  IN  IF kept = {} THEN <<>> ELSE <<"/">> \o SubSeq(u, Min(kept), Len(u))

(* normalizeURL of binding.go: the slashes at both ends are cut off, and   *)
(* one is put in front of what is left.                                    *)
normalizeURL(u) ==
  LET kept == {i \in DOMAIN u : u[i] # "/"}
  IN  IF kept = {} THEN <<>>
      ELSE <<"/">> \o SubSeq(u, Min(kept), Max(kept))

Target(r) == [http_url |-> normalizeURL(r.to), is_remote |-> ~r.local]

matchPrefix(source_url, prefix) == IsPrefix(prefix, source_url)

(* A slot names an entry of one of the tables.                             *)
Exact(u)  == [table |-> "exact", key |-> u]
Prefix(i) == [table |-> "prefix", key |-> i]
Slots == {Exact(u) : u \in DOMAIN g_exact_routes}
           \cup {Prefix(i) : i \in DOMAIN g_prefix_routes}
Action(s) == IF s.table = "exact" THEN g_exact_routes[s.key]
             ELSE g_prefix_routes[s.key].action

-----------------------------------------------------------------------------

RouterInit ==
  /\ stage = "config"
  /\ g_exact_routes = <<>>
  /\ g_prefix_routes = <<>>
  /\ configured = {}
  /\ at = [t \in Threads |-> "idle"]
  /\ url = [t \in Threads |-> <<>>]
  /\ slot = [t \in Threads |-> Prefix(0)]
  /\ index = [t \in Threads |-> 0]
  /\ target = [t \in Threads |-> None]

(* Slip: the new route is made without its target.                         *)
AddPathWithoutTarget(r) ==
  /\ g_exact_routes' = [u \in DOMAIN g_exact_routes \cup {normalizeURL(r.source)} |->
                         IF u \in DOMAIN g_exact_routes THEN g_exact_routes[u]
                         ELSE [next_index |-> 0, targets |-> <<>>]]
  /\ UNCHANGED g_prefix_routes

(* AddPathMatchRoute: the RouteAction of a new URL is default-initialised, *)
(* which leaves its next_index indeterminate.                              *)
AddPathMatchRoute(r) ==
  LET source_url == normalizeURL(r.source)
  IN  /\ IF source_url \in DOMAIN g_exact_routes
           THEN g_exact_routes' =
                  [g_exact_routes EXCEPT ![source_url] = AddTarget(@, Target(r))]
           ELSE \E g \in Garbage :
                  g_exact_routes' =
                    [u \in DOMAIN g_exact_routes \cup {source_url} |->
                       IF u = source_url
                         THEN [next_index |-> g, targets |-> <<Target(r)>>]
                         ELSE g_exact_routes[u]]
      /\ UNCHANGED g_prefix_routes

(* Slips: a prefix that is there already is left as it is, or only an      *)
(* equal one is looked for.                                                *)
AddPrefixOnce(r) ==
  LET source_url == normalizeURL(r.source)
  IN  /\ IF \E i \in DOMAIN g_prefix_routes :
               matchPrefix(source_url, g_prefix_routes[i].http_url)
           THEN UNCHANGED g_prefix_routes
           ELSE g_prefix_routes' =
                  Append(g_prefix_routes,
                         [http_url |-> source_url,
                          action |-> [next_index |-> 0, targets |-> <<Target(r)>>]])
      /\ UNCHANGED g_exact_routes
AddPrefixUnmerged(r) ==
  LET source_url == normalizeURL(r.source)
  IN  /\ \A i \in DOMAIN g_prefix_routes : g_prefix_routes[i].http_url # source_url
      /\ g_prefix_routes' =
           Append(g_prefix_routes,
                  [http_url |-> source_url,
                   action |-> [next_index |-> 0, targets |-> <<Target(r)>>]])
      /\ UNCHANGED g_exact_routes

(* AddPrefixMatchRoute: the target joins the first route whose prefix the  *)
(* new URL starts with, path boundary or not.                              *)
AddPrefixMatchRoute(r) ==
  LET source_url == normalizeURL(r.source)
      found == {i \in DOMAIN g_prefix_routes :
                  matchPrefix(source_url, g_prefix_routes[i].http_url)}
  IN  /\ \/ \E i \in found :
              /\ \A j \in found : i <= j
              /\ g_prefix_routes' = [g_prefix_routes EXCEPT
                                       ![i].action = AddTarget(@, Target(r))]
         \/ /\ found = {}
            /\ g_prefix_routes' =
                 Append(g_prefix_routes,
                        [http_url |-> source_url,
                         action |-> [next_index |-> 0, targets |-> <<Target(r)>>]])
      /\ UNCHANGED g_exact_routes

(* NewAzugate, one route of the configuration.  A route with neither a     *)
(* path nor a prefix fails the start, and main() panics.                   *)
ConfigureRoute(r) ==
  /\ stage = "config"
  /\ Cardinality(configured) < MaxRoutes
  /\ configured' = configured \cup {r}
  /\ \/ /\ r.match = "path"
        /\ AddPathMatchRoute(r)
        /\ UNCHANGED stage
     \/ /\ r.match = "prefix"
        /\ AddPrefixMatchRoute(r)
        /\ UNCHANGED stage
     \/ /\ r.match = "neither"
        /\ stage' = "failed"
        /\ UNCHANGED tableVars
  /\ UNCHANGED threadVars

StartServer ==
  /\ stage = "config"
  /\ stage' = "serving"
  /\ UNCHANGED <<tableVars, configured, threadVars>>

-----------------------------------------------------------------------------
(* The prefix routes that survive the two tests of GetRouteTarget's loop.  *)
(* For a prefix longer than the URL the second test reads a character past *)
(* the end of the URL; strayed holds the routes for which it is a slash.   *)
(* longest_len starts at 0, so an empty prefix never wins.                 *)
Candidates(source_url, strayed) ==
  {i \in DOMAIN g_prefix_routes :
     LET prefix == g_prefix_routes[i].http_url
         after  == Len(prefix)
     IN  /\ ~matchPrefix(source_url, prefix)
         /\ ~ \/ after = Len(source_url)
              \/ after < Len(source_url) /\ source_url[after + 1] = "/"
              \/ after > Len(source_url) /\ i \in strayed
              \/ Last(prefix) = "/"
         /\ after > 0}

(* Of the candidates, the first one with the longest prefix.               *)
IsLongest(i, S) ==
  LET Length(j) == Len(g_prefix_routes[j].http_url)
  IN  \A j \in S : Length(j) < Length(i) \/ (Length(j) = Length(i) /\ i <= j)

(* route() and GetRouteTarget, up to the choice of the route.  Without one *)
(* the client is sent a 404, which changes nothing here.                   *)
Lookup(t, path) ==
  LET source_url == IF path = <<"/">> THEN <<>> ELSE path
      Found(s) == /\ url' = [url EXCEPT ![t] = source_url]
                  /\ slot' = [slot EXCEPT ![t] = s]
                  /\ at' = [at EXCEPT ![t] = "found"]
  IN  /\ stage = "serving"
      /\ at[t] = "idle"
      /\ \/ /\ source_url \in DOMAIN g_exact_routes
            /\ Found(Exact(source_url))
         \/ /\ source_url \notin DOMAIN g_exact_routes
            /\ \E strayed \in SUBSET DOMAIN g_prefix_routes :
                 LET C == Candidates(source_url, strayed)
                 IN  \/ \E i \in C : IsLongest(i, C) /\ Found(Prefix(i))
                     \/ C = {} /\ UNCHANGED <<url, slot, at>>
      /\ UNCHANGED <<stage, tableVars, configured, index, target>>

(* GetNextTarget of the route found, as in module RoundRobin.  No route is *)
(* without targets, so its early return for an empty list is never taken.  *)
Pick(t) ==
  /\ at[t] = "found"
  /\ index' = [index EXCEPT ![t] = Action(slot[t]).next_index]
  /\ target' = [target EXCEPT ![t] = TargetAt(Action(slot[t]))]
  /\ at' = [at EXCEPT ![t] = "picked"]
  /\ UNCHANGED <<stage, tableVars, configured, url, slot>>

Reload(t) ==
  /\ at[t] = "picked"
  /\ index' \in {index, [index EXCEPT ![t] = Action(slot[t]).next_index]}
  /\ at' = [at EXCEPT ![t] = "store"]
  /\ UNCHANGED <<stage, tableVars, configured, url, slot, target>>

(* The store, and the return to route(): the locals are gone.              *)
Store(t) ==
  LET s == slot[t]
  IN  /\ at[t] = "store"
      /\ \/ /\ s.table = "exact"
            /\ g_exact_routes' = [g_exact_routes EXCEPT
                                    ![s.key] = Advanced(@, index[t])]
            /\ UNCHANGED g_prefix_routes
         \/ /\ s.table = "prefix"
            /\ g_prefix_routes' = [g_prefix_routes EXCEPT
                                     ![s.key].action = Advanced(@, index[t])]
            /\ UNCHANGED g_exact_routes
      /\ at' = [at EXCEPT ![t] = "idle"]
      /\ url' = [url EXCEPT ![t] = <<>>]
      /\ slot' = [slot EXCEPT ![t] = Prefix(0)]
      /\ index' = [index EXCEPT ![t] = 0]
      /\ target' = [target EXCEPT ![t] = None]
      /\ UNCHANGED <<stage, configured>>

Exited == stage = "failed" /\ UNCHANGED routerVars

RouterNext ==
  \/ \E r \in Routes : ConfigureRoute(r)
  \/ StartServer
  \/ \E t \in Threads :
       \/ \E path \in Paths : Lookup(t, path)
       \/ Pick(t) \/ Reload(t) \/ Store(t)
  \/ Exited

RouterSpec == RouterInit /\ [][RouterNext]_routerVars

-----------------------------------------------------------------------------

Urls == {normalizeURL(r.source) : r \in Routes}
RouteActions ==
  [next_index : Nat, targets : Seq({Target(r) : r \in Routes}) \ {<<>>}]

(* No route is without targets, and a thread that is inside GetRouteTarget *)
(* has a route of the tables.                                              *)
RouterTypeOK ==
  /\ stage \in {"config", "serving", "failed"}
  /\ DOMAIN g_exact_routes \subseteq Urls
  /\ g_exact_routes \in [DOMAIN g_exact_routes -> RouteActions]
  /\ g_prefix_routes \in Seq([http_url : Urls, action : RouteActions])
  /\ configured \subseteq Routes
  /\ at \in [Threads -> {"idle", "found", "picked", "store"}]
  /\ url \in [Threads -> Seq(STRING)]
  /\ index \in [Threads -> Nat]
  /\ DOMAIN slot = Threads /\ DOMAIN target = Threads
  /\ \A t \in Threads : at[t] # "idle" => stage = "serving" /\ slot[t] \in Slots

(* What a prefix route hands out is one of its targets, however the        *)
(* unlocked calls of GetNextTarget interleave.                             *)
PrefixTargetReal ==
  \A t \in Threads :
    at[t] \in {"picked", "store"} /\ slot[t].table = "prefix"
      => HasTarget(Action(slot[t]), target[t])

(* An index that selects a target does so for ever: no interleaving of     *)
(* stores and reads drives it out of the list again.                       *)
IndexStaysInRange ==
  [][\A s \in Slots : InRange(Action(s)) => InRange(Action(s)')]_routerVars

(* Every route of the configuration has its target in the tables: under    *)
(* its own URL, or under a prefix of it.  AddPrefixMatchRoute merging a    *)
(* route into an earlier one loses nothing.                                *)
NoRouteLost ==
  \A r \in configured :
    LET u == normalizeURL(r.source)
    IN  \/ r.match = "neither"
        \/ r.match = "path" /\ u \in DOMAIN g_exact_routes
             /\ HasTarget(g_exact_routes[u], Target(r))
        \/ r.match = "prefix" /\ \E i \in DOMAIN g_prefix_routes :
             /\ matchPrefix(u, g_prefix_routes[i].http_url)
             /\ HasTarget(g_prefix_routes[i].action, Target(r))

(* "the result will always be formatted as /a/b/c": a URL in the tables is *)
(* empty, or starts with its only leading slash and does not end in one.   *)
(* The test of GetRouteTarget for a prefix that ends in a slash is thus    *)
(* never true.                                                             *)
TablesNormalized ==
  \A u \in DOMAIN g_exact_routes
         \cup {g_prefix_routes[i].http_url : i \in DOMAIN g_prefix_routes} :
    \/ u = <<>>
    \/ Len(u) > 1 /\ u[1] = "/" /\ u[2] # "/" /\ Last(u) # "/"

(* No prefix route is shadowed by an earlier, shorter one: such a route is *)
(* merged when it is added.                                                *)
NoShadowedPrefix ==
  \A i, j \in DOMAIN g_prefix_routes :
    i < j => ~matchPrefix(g_prefix_routes[j].http_url, g_prefix_routes[i].http_url)

(* "Find the longest matching prefix", on a path boundary: the route a     *)
(* request found by prefix is a prefix of its URL that ends where the URL  *)
(* ends or goes on with a slash.                                           *)
OnBoundary(source_url, prefix) ==
  /\ matchPrefix(source_url, prefix)
  /\ Len(prefix) < Len(source_url) => source_url[Len(prefix) + 1] = "/"

PrefixMatches ==
  \A t \in Threads :
    at[t] = "found" /\ slot[t].table = "prefix"
      => OnBoundary(url[t], g_prefix_routes[slot[t].key].http_url)
=============================================================================
