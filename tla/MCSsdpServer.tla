---------------------------- MODULE MCSsdpServer -----------------------------
(* SsdpServer with two types, an address of each kind and searches of the  *)
(* kinds that handle tells apart.                                          *)
EXTENDS SsdpServer

CONSTANTS root, service, global, local

MCTypes     == {root, service}
MCAddrs     == {global, local}
MCLinkLocal == {local}

MCSecond == 3
MCHalf   == 8

Search(id, st, multicast, mx, near) ==
  [id |-> id, search |-> TRUE, st |-> st, multicast |-> multicast, mx |-> mx,
   near |-> near]

(* With Second 3 and Half 8, an mx of 1 is answered, 0 gives the bound 0   *)
(* and 3 overflows to -7.                                                  *)
everything == Search(1, All, TRUE, 1, {global})
unicast    == Search(2, service, FALSE, 0, {local})
unreadable == Search(3, service, TRUE, NoMx, {global})
atOnce     == Search(4, root, TRUE, 0, {global})
overflow   == Search(5, root, TRUE, 3, {global})
stranger   == Search(6, "other", TRUE, 0, {global})
noise      == [Search(7, All, TRUE, 0, {global}) EXCEPT !.search = FALSE]

(* Searches that are answered, one of them from the link of the interface, *)
(* one whose delay cannot be drawn, and a datagram that is no search.      *)
Heard == {everything, unicast, atOnce, noise}
(* One that is answered, and the other ways in which handle ends.          *)
Mixed == {everything, unreadable, overflow, stranger}
=============================================================================
