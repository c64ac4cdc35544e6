----------------------------- MODULE TunnelEnds -----------------------------
(***************************************************************************)
(* The tunnel around the relay itself: the connections of the edge, the    *)
(* SMTP session that Postfix has with the sidecar, the one that the edge   *)
(* has with an MX host, and the probe of a recipient.  Each is a protocol  *)
(* of its own; a behaviour is about one of them ("part").                  *)
(***************************************************************************)
EXTENDS Naturals, Sequences, FiniteSets

CONSTANTS
    Keys, Conns, PerClient, MaxEdits,                      \* EdgeServer
    MaxRcpts, MaxBody, RcptLists, Bodies, MaxMessages,     \* SmtpSession
    NumRcpts,                                              \* SmtpClient
    Racers, NumMx, NumControls, NullSender, Kinds, ThrottleAfter, HostRefusals,   \* RecipientProbe
    Off                                                    \* value of the variables of other parts

VARIABLES
    part,
    allow, conn, free, queue, phase, edits,
    wire, back, server, client, relayed,
    opt, stage, tls, outcomes, result, mx,
    world, walk, reply

edgeVars == <<allow, conn, free, queue, phase, edits>>
sessionVars == <<wire, back, server, client, relayed>>
clientVars == <<opt, stage, tls, outcomes, result, mx>>
probeVars == <<world, walk, reply>>
vars == <<part, edgeVars, sessionVars, clientVars, probeVars>>

Edge == INSTANCE EdgeServer
Session == INSTANCE SmtpSession
Client == INSTANCE SmtpClient
Probe == INSTANCE RecipientProbe WITH Tunnels <- Racers

\* A refusal aimed at the sending host names no recipient, and a host that
\* throttles answers one control and the target before it does: a probe could
\* not tell it from one that validates otherwise.
ASSUME TunnelEndsAssumption ==
    /\ NumRcpts \in Nat /\ NumMx \in Nat /\ NumControls \in Nat /\ PerClient \in Nat /\ MaxEdits \in Nat
    /\ IsFiniteSet(Conns) /\ Conns \subseteq Nat /\ Keys # {}
    /\ ThrottleAfter \in Nat \ {0, 1}
    /\ \A text \in HostRefusals : ~Probe!definitive_recipient_rejection(text)

\* A body has no line of a single dot: the sender stuffs it.
ASSUME SubmissionAssumption ==
    /\ MaxRcpts \in Nat /\ MaxBody \in Nat /\ MaxMessages \in Nat
    /\ RcptLists \subseteq Seq({"RCPT", "RCPT bad"}) /\ Bodies \subseteq Seq({"text", "8bit"})

Init ==
    /\ part \in {"edge", "session", "client", "probe"}
    /\ Edge!Init /\ Session!Init
    /\ IF part = "client" THEN Client!Init
       ELSE opt = Off /\ stage = Off /\ tls = Off /\ outcomes = Off /\ result = Off /\ mx = Off
    /\ IF part = "probe" THEN Probe!Init ELSE world = Off /\ walk = Off /\ reply = Off

Only(name) ==
    /\ part = name /\ UNCHANGED part
    /\ name # "edge" => UNCHANGED edgeVars
    /\ name # "session" => UNCHANGED sessionVars
    /\ name # "client" => UNCHANGED clientVars
    /\ name # "probe" => UNCHANGED probeVars

Next ==
    \/ Only("edge") /\ Edge!Next
    \/ Only("session") /\ Session!Next
    \/ Only("client") /\ Client!Next
    \/ Only("probe") /\ Probe!Next

\* Deliveries end (SmtpClient), the semaphore hands out free permits, and the
\* drain has a time limit.
Fairness ==
    /\ WF_vars(Only("edge") /\ (Edge!Drained \/ Edge!Abort))
    /\ \A c \in Conns : WF_vars(Only("edge") /\ (Edge!Grant(c) \/ \E stays \in BOOLEAN : Edge!Complete(c, stays)))

Spec == Init /\ [][Next]_vars /\ Fairness

-----------------------------------------------------------------------------
(* Properties; see the modules of the parts *)

\* Permits of the edge are neither lost nor multiplied, a revoked key gets no new
\* connection, waiting requests are served in turn, and a shutdown ends.
EdgeServes ==
    /\ [](part = "edge" => Edge!TypeOK /\ Edge!PermitsConserved)
    /\ Edge!RevocationTakesEffect /\ Edge!WaitersServed /\ Edge!ShutdownCompletes

\* Postfix and the sidecar stay in step while bodies fit, and until then what counts
\* as sent was relayed whole, to the recipients that were accepted; nothing is ever
\* relayed twice.
SubmissionFaithful == [](part = "session" => Session!TypeOK /\ Session!RepliesMatchCommands /\ Session!RelayedOnce) /\ Session!RelayedAsAccepted

\* One delivery to an MX host: TLS where it is required, statuses that are true, and
\* nothing left behind where the next host will be tried.
DeliveryTruthful ==
    part = "client" => Client!TypeOK /\ Client!RequireTlsHonoured /\ Client!DeliveredIsStored /\ Client!SkipLeavesNothing

\* Each definitive verdict of a probe is true of the destination.
ProbeTruthful == part = "probe" => Probe!TypeOK /\ Probe!ConfirmedExists /\ Probe!RejectedMeansAbsent /\ Probe!AcceptAllIsTrue

-----------------------------------------------------------------------------
\* Values of the run: three connections of two keys with one permit each; two
\* pipelined messages; one delivery to two recipients; two tunnels, two MX hosts.

\* From no usable recipient to one more than the limit.
SomeRcpts == {<<"RCPT">>, <<"RCPT bad">>, <<"RCPT", "RCPT bad">>, <<"RCPT", "RCPT", "RCPT">>}

\* Bodies up to the announced SIZE and beyond it, and with a line that is not UTF-8.
SomeBodies == {<<>>, <<"text">>, <<"text", "text">>, <<"text", "text", "text", "text">>,
               <<"8bit">>, <<"text", "text", "text", "8bit">>}

\* Refusals of the sending host that the classifier is meant to see through.
PolicyTexts == {{"policy"}, {"policy", "weak"}, {}}
=============================================================================
