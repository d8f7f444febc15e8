---------------------------- MODULE RouteAction ----------------------------
(***************************************************************************)
(* struct RouteAction of core/include/router.h: the targets of one route   *)
(* and the index of the one to use next.  A RouteAction is a record        *)
(* [next_index, targets]; a target is the part of a ConnectionInfo that    *)
(* routing looks at, [http_url, is_remote] (its type is always HTTP).      *)
(***************************************************************************)
EXTENDS Integers, Sequences

(* The targets vector is indexed from 0 in the code, from 1 here.          *)
InRange(ra) == ra.next_index < Len(ra.targets)

HasTarget(ra, conn) == \E i \in DOMAIN ra.targets : ra.targets[i] = conn

(* AddTarget compares http_url and is_remote, which is all a target has.   *)
AddTarget(ra, conn) ==
  IF HasTarget(ra, conn) THEN ra
  ELSE [ra EXCEPT !.targets = Append(@, conn)]

(* The targets operator== tells from conn: it compares the URLs and        *)
(* ignores is_remote.                                                      *)
Others(targets, conn) ==
  LET kept[i \in 0..Len(targets)] ==
        IF i = 0 THEN <<>>
        ELSE IF targets[i].http_url # conn.http_url
               THEN Append(kept[i - 1], targets[i]) ELSE kept[i - 1]
  IN  kept[Len(targets)]

(* Slip: next_index keeps its value.                                       *)
RemoveTargetStale(ra, conn) == [ra EXCEPT !.targets = Others(@, conn)]

(* RemoveTarget leaves next_index alone when nothing was removed or        *)
(* nothing is left.                                                        *)
RemoveTarget(ra, conn) ==
  LET kept  == Others(ra.targets, conn)
      wraps == kept \notin {ra.targets, <<>>} /\ ra.next_index >= Len(kept)
  IN  [next_index |-> IF wraps THEN ra.next_index % Len(kept) ELSE ra.next_index,
       targets    |-> kept]

(* The two halves of GetNextTarget: the target at the index, and the store *)
(* of the successor of the index i that was read.  Reading past the end is *)
(* undefined; OutOfBounds stands for whatever comes out.                   *)
OutOfBounds == [http_url |-> <<"out of bounds">>, is_remote |-> FALSE]
TargetAt(ra) == IF InRange(ra) THEN ra.targets[ra.next_index + 1]
                ELSE OutOfBounds

(* Slips: the successor does not wrap, or is not taken.                    *)
AdvancedUnwrapped(ra, i) == [ra EXCEPT !.next_index = i + 1]
AdvancedStuck(ra, i) == [ra EXCEPT !.next_index = i % Len(ra.targets)]

Advanced(ra, i) == [ra EXCEPT !.next_index = (i + 1) % Len(ra.targets)]
=============================================================================
