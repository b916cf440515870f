---------------------------- MODULE MCRouteTree ----------------------------
(* An instance of RouteTree for TLC: a diamond with a tail. *)
EXTENDS MCRouteDiscovery, RouteTree

CONSTANTS e, f, g, h, i

Nine == {a, b, c, d, e, f, g, h, i}

DiamondAndTail == BothWays({<<a, b>>, <<a, c>>, <<b, d>>, <<c, d>>,
                            <<d, e>>, <<e, f>>, <<f, g>>, <<g, h>>, <<h, i>>})

AToEnd == {<<a, i>>}

(* The radio delivers what was sent and the drones handle it. *)
WarmTree == AfterHellos /\ TreeInit

FairTreeSpec ==
    /\ WarmTree
    /\ [][TreeNext /\ OneAtATime]_treeVars
    /\ WF_vars(\E p \in net : Receive(p))

(* A drone that asks for another drone in a network quiet otherwise has a  *)
(* route to it in the end: every drop and early return of the handlers     *)
(* (1157-1205, 1528-1562, 1717-1720) leaves one copy of the request and    *)
(* the reply to it alive.                                                  *)
Requested(n, x) == \E p \in net : p.msg.type = "RREQ" /\ p.msg.src = n /\ p.msg.dest = x

RouteFound == \A w \in Wanted : Requested(w[1], w[2]) ~> Known(w[1], w[2])
==========================================================================
