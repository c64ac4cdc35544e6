--------------------------- MODULE RecipientProbe ---------------------------
(***************************************************************************)
(* Recipient validation (XMAILCUEPROBE): the sidecar probes through all    *)
(* healthy tunnels at once and takes the first definitive answer           *)
(* (SmtpRelay::probe, probe_one, probe_smtp_reply in sidecar/src/relay.rs).*)
(* Each edge walks the MX hosts and, next to the recipient, probes control *)
(* addresses that cannot exist (handle_probe, probe_single, probe_outcome  *)
(* in edge/src/relay.rs).                                                  *)
(***************************************************************************)
EXTENDS Naturals, Sequences, FiniteSets

CONSTANTS Tunnels,
          NumMx,         \* MX hosts of the recipient's domain
          NumControls,   \* control recipients
          NullSender,    \* the probe's envelope sender is empty
          Kinds,         \* MX behaviours considered
          ThrottleAfter, \* sessions a "throttling" MX serves per tunnel
          HostRefusals   \* texts of refusals aimed at the sending host

\* A refusal text is abstracted to the markers the classifier looks for.
Markers == {"universal_code", "microsoft_541", "strong", "policy", "weak"}

VARIABLES
    world,   \* environment: does the mailbox exist, what is each MX like,
             \* which tunnels are candidates
    walk,    \* handle_probe at the edge of each tunnel
    reply    \* the sidecar's answer, 0 while there is none

vars == <<world, walk, reply>>

Status == {"accepted", "rejected", "unknown"}
Steps  == {"idle", "lead", "target", "more", "result", "done"}

Worlds == [exists : BOOLEAN, kind : [1..NumMx -> Kinds], healthy : SUBSET Tunnels]

\* handle_probe's position: MX, sender (1: the null sender), what it probes
\* next, outcomes so far; sessions counts what the MX has served this tunnel.
Walk == [at : Steps, mx : 1..(NumMx + 1), sender : {0, 1}, controls : Seq(Status),
         target : Status, sessions : Nat]

\* Each MX and sender starts over with no control outcomes.
First == IF NumControls > 0 THEN "lead" ELSE "target"
Begin(mx, sender) ==
    [at |-> IF mx > NumMx THEN "result" ELSE First, mx |-> mx, sender |-> sender,
     controls |-> <<>>, target |-> "unknown", sessions |-> 0]

-----------------------------------------------------------------------------
(* Edge: one SMTP session per address.                                     *)

\* "microsoft_541" stands for 5.4.1 from a Microsoft host.
definitive_recipient_rejection(text) ==
    \/ text \cap {"universal_code", "microsoft_541", "strong"} # {}
    \/ "policy" \notin text /\ "weak" \in text

\* Answers of an MX to one address, as the pair of reply class and text.  A
\* throttling host accepts everybody and, after some sessions, nobody.
Unsure == {<<"4xx", {}>>, <<"sender", {}>>, <<"unreachable", {}>>}
             \cup {<<"5xx", text>> : text \in HostRefusals}
Absent == {<<"5xx", {m}>> : m \in Markers \ {"policy"}}
Answers(w, exists) ==
    CASE world.kind[w.mx] = "validating" -> Unsure \cup (IF exists THEN {<<"2xx", {}>>} ELSE Absent)
      [] world.kind[w.mx] = "accept_all" -> Unsure \cup {<<"2xx", {}>>}
      [] OTHER -> IF w.sessions < ThrottleAfter THEN {<<"2xx", {}>>} ELSE Absent

\* probe_outcome: only a refusal that names the recipient is a rejection.
Outcome(a) ==
    CASE a[1] = "2xx" -> "accepted"
      [] a[1] = "5xx" /\ definitive_recipient_rejection(a[2]) -> "rejected"
      [] OTHER -> "unknown"

\* The sender was refused: once more with the null sender.  Otherwise, and when
\* the MX cannot be reached: the next MX host.
Advance(w, a) ==
    IF a[1] = "sender" /\ w.sender = 0 /\ ~NullSender
    THEN [Begin(w.mx, 1) EXCEPT !.sessions = w.sessions + 1]
    ELSE Begin(w.mx + 1, 0)

Reached(a) == a[1] \in {"2xx", "4xx", "5xx"}

Probing(t, at) == walk[t].at = at
Set(t, w) == walk' = [walk EXCEPT ![t] = w] /\ UNCHANGED <<world, reply>>

\* One control is probed before the target.
ProbeLead(t, a) ==
    /\ Probing(t, "lead")
    /\ LET w == walk[t]
       IN  /\ a \in Answers(w, FALSE)
           /\ Set(t, IF Reached(a)
                     THEN [w EXCEPT !.at = "target", !.controls = <<Outcome(a)>>,
                                    !.sessions = w.sessions + 1]
                     ELSE Advance(w, a))

\* A target that is not accepted settles the question.
ProbeTarget(t, a) ==
    /\ Probing(t, "target")
    /\ LET w == walk[t]
       IN  /\ a \in Answers(w, world.exists)
           /\ Set(t, IF Reached(a)
                     THEN [w EXCEPT !.at = IF Outcome(a) = "accepted" /\ NumControls > 1
                                           THEN "more" ELSE "result",
                                    !.target = Outcome(a), !.sessions = w.sessions + 1]
                     ELSE Advance(w, a))

\* The other controls; a failed session ends the list with an unknown.
ProbeMore(t, a) ==
    /\ Probing(t, "more")
    /\ LET w == walk[t]
           n == Len(w.controls) + 1
       IN  /\ a \in Answers(w, FALSE)
           /\ Set(t, [w EXCEPT !.at = IF Reached(a) /\ n < NumControls THEN "more" ELSE "result",
                               !.controls = Append(w.controls, IF Reached(a) THEN Outcome(a)
                                                               ELSE "unknown"),
                               !.sessions = w.sessions + 1])

-----------------------------------------------------------------------------
(* Sidecar.                                                                *)

Count(controls, s) == Cardinality({i \in 1..Len(controls) : controls[i] = s})

\* The first control was accepted and a later one refused: throttling.
degraded(controls) ==
    /\ controls # <<>> /\ controls[1] = "accepted"
    /\ \E i \in 2..Len(controls) : controls[i] = "rejected"

\* Mutant: throttling is taken for recipient validation.
ProbeReplyUndegraded(target, controls) ==
    CASE target = "rejected" -> 550
      [] target = "accepted" /\ controls # <<>> /\ Count(controls, "accepted") = Len(controls) -> 252
      [] target = "accepted" /\ Count(controls, "rejected") > 0 -> 250
      [] OTHER -> 0

\* 0: this tunnel has no definitive answer.
probe_smtp_reply(target, controls) ==
    CASE target = "rejected" -> 550
      [] target = "accepted" /\ controls # <<>> /\ Count(controls, "accepted") = Len(controls) -> 252
      [] target = "accepted" /\ Count(controls, "rejected") > 0 /\ ~degraded(controls) -> 250
      [] OTHER -> 0

\* The channel of results: the first definitive one is the reply; the tasks
\* go on, and a reply already given stays.
Finish(t, code) ==
    /\ walk' = [walk EXCEPT ![t].at = "done"]
    /\ reply' = IF reply # 0 THEN reply
                ELSE IF code # 0 THEN code
                ELSE IF \A u \in Tunnels \ {t} : walk[u].at \in {"idle", "done"} THEN 451
                ELSE 0
    /\ UNCHANGED world

ReceiveProbe(t) ==
    /\ Probing(t, "result")
    /\ Finish(t, probe_smtp_reply(walk[t].target, walk[t].controls))

\* Lease, write or read failed or timed out, or the edge sent an Error frame.
TunnelFails(t) ==
    /\ walk[t].at \notin {"idle", "done"}
    /\ Finish(t, 0)

\* The overall deadline of the probe.
Deadline ==
    /\ reply = 0 /\ \E t \in Tunnels : walk[t].at # "idle"
    /\ reply' = 451
    /\ UNCHANGED <<world, walk>>

Start ==
    /\ reply = 0 /\ \A t \in Tunnels : walk[t].at = "idle"
    /\ IF world.healthy = {} THEN reply' = 451 /\ UNCHANGED walk
       ELSE /\ walk' = [t \in Tunnels |-> IF t \in world.healthy THEN Begin(1, 0) ELSE walk[t]]
            /\ UNCHANGED reply
    /\ UNCHANGED world

-----------------------------------------------------------------------------
Init ==
    /\ world \in Worlds
    /\ walk = [t \in Tunnels |-> [Begin(1, 0) EXCEPT !.at = "idle"]]
    /\ reply = 0

Replies == {"2xx", "4xx", "5xx", "sender", "unreachable"} \X
           ({{}} \cup {{m} : m \in Markers} \cup HostRefusals)

Next ==
    \/ Start \/ Deadline
    \/ \E t \in Tunnels :
          \/ ReceiveProbe(t) \/ TunnelFails(t)
          \/ \E a \in Replies : ProbeLead(t, a) \/ ProbeTarget(t, a) \/ ProbeMore(t, a)

Spec == Init /\ [][Next]_vars

-----------------------------------------------------------------------------
TypeOK ==
    /\ world \in Worlds
    /\ walk \in [Tunnels -> Walk]
    /\ \A t \in Tunnels : Len(walk[t].controls) <= NumControls
    /\ reply \in {0, 250, 252, 451, 550}

\* 250 "recipient accepted": the mailbox exists and a host that tells existing
\* mailboxes from others said so, although hosts of one domain differ or
\* throttle and the answers of several tunnels race.
ConfirmedExists ==
    reply = 250 => world.exists /\ \E i \in 1..NumMx : world.kind[i] = "validating"

\* 550 "recipient rejected": the mailbox does not exist.
RejectedMeansAbsent == reply = 550 => ~world.exists

\* 252 "accept-all": some MX host of the domain accepts everything.
AcceptAllIsTrue == reply = 252 => \E i \in 1..NumMx : world.kind[i] # "validating"
=============================================================================
