------------------------------ MODULE MCRouter ------------------------------
(* A configuration with overlapping sources: "/a" and "//a/" are the same URL, *)
(* "/ab" starts with "/a" without a path boundary, "/a/b" with one, and "/"    *)
(* is the empty URL.                                                           *)
EXTENDS Router, TLC

Route(m, s, to, l) == [match |-> m, source |-> s, to |-> to, local |-> l]

MCRoutes == {
  Route("path",   <<"/", "a">>,           <<"x">>,      FALSE),
  Route("path",   <<"/", "/", "a", "/">>, <<"/", "y">>, TRUE),
  Route("path",   <<"/">>,                <<"/">>,      TRUE),
  Route("prefix", <<"/", "a">>,           <<"x">>,      FALSE),
  Route("prefix", <<"/", "a", "b">>,      <<"x">>,      TRUE),
  Route("prefix", <<"/", "a", "/", "b">>, <<"/", "y">>, FALSE),
  Route("prefix", <<"/", "c">>,           <<"/", "y">>, FALSE),
  Route("neither", <<>>,                  <<"x">>,      FALSE)}

MCPaths == {<<"/">>, <<"/", "a">>, <<"/", "a", "/", "b">>, <<"/", "d", "d">>}

ThreadSymmetry == Permutations(Threads)
=============================================================================
