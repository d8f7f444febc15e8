--------------------------- MODULE MCHttpForward ---------------------------
(* Header sizes below, at and above the buffer's, bodies from none to longer *)
(* than both buffers.                                                        *)
EXTENDS HttpForward

Plain(H, L) == {[header |-> h, length |-> l, sent |-> l] : h \in H, l \in L}

MCRequests == Plain(1..5, 0..5)
              \cup {[r EXCEPT !.sent = @ + 2] : r \in Plain(2..3, 0..2)}
ShortHeader == Plain({1}, {3})
=============================================================================
