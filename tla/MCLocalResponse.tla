-------------------------- MODULE MCLocalResponse --------------------------
(* Requests with each kind of header, and with two that disagree.           *)
EXTENDS LocalResponse

MCRequests ==
  {<<>>, <<"plain">>, <<"plain", "bad">>, <<"gzip">>, <<"brotli">>,
   <<"gzip", "identity">>, <<"identity", "gzip">>, <<"plain", "plain", "plain">>}
=============================================================================
