------------------------------- MODULE Tunnel -------------------------------
(***************************************************************************)
(* The mail tunnel: a message on its way through sidecar, edges and MX     *)
(* hosts, and the protocols at the two ends of it.  SmtpSession is the     *)
(* inside of one submission of RelayDelivery, SmtpClient of one delivery,  *)
(* EdgeServer of the connection in between, so a behaviour is about the    *)
(* whole ("relay") or about one of its ends.                               *)
(***************************************************************************)
EXTENDS TunnelEnds, RelayDelivery

VARIABLE view
tunnelVars == <<view, vars, deliveryVars>>

TunnelInit ==
    /\ view \in {"relay", "ends"} /\ DeliveryInit
    /\ Init /\ (view = "relay" => part = "edge")

InView(name) ==
    /\ view = name /\ UNCHANGED view
    /\ name # "relay" => UNCHANGED deliveryVars
    /\ name # "ends" => UNCHANGED vars

TunnelNext ==
    \/ InView("relay") /\ DeliveryNext
    \/ InView("ends") /\ Next

\* Every await in relay and try_one_tunnel is under a timeout; the semaphore of the
\* edge hands out free permits, and its drain has a time limit.
TunnelFairness ==
    /\ WF_tunnelVars(InView("relay") /\ SidecarStep)
    /\ WF_tunnelVars(InView("ends") /\ Only("edge") /\ (Edge!Drained \/ Edge!Abort))
    /\ \A c \in Conns : WF_tunnelVars(InView("ends") /\ Only("edge")
                                        /\ (Edge!Grant(c) \/ \E stays \in BOOLEAN : Edge!Complete(c, stays)))

TunnelSpec == TunnelInit /\ [][TunnelNext]_tunnelVars /\ TunnelFairness
=============================================================================
