--------------------------- MODULE RelayDelivery ---------------------------
(***************************************************************************)
(* One message on its way from Postfix to the recipients' mail exchangers: *)
(*   Postfix    submits the recipients it still queues, and resubmits;     *)
(*   sidecar    SmtpRelay::relay walks the candidate tunnels and maps the  *)
(*              outcomes to one SMTP reply (sidecar/src/relay.rs);         *)
(*   edges      handle_relay walks the MX hosts of each recipient domain   *)
(*              (edge/src/relay.rs) and deliver runs one SMTP session      *)
(*              (edge/src/smtp_client.rs).                                 *)
(* An edge goes on with a request the sidecar has given up on, so requests *)
(* of the same message may overlap.                                        *)
(***************************************************************************)
EXTENDS Naturals, Sequences, FiniteSetsExt

CONSTANTS Rcpts,        \* recipients of the message
          Tunnels,      \* tunnels
          DomainOf,     \* recipient -> domain, a rank in the order of the edge's BTreeMap
          MxCount,      \* MX hosts per domain
          Policy,       \* partial_failure_policy
          MaxRequests,  \* bound: Relay frames sent for the message
          MaxCrashes    \* bound: sidecar restarts

ASSUME DeliveryAssumption ==
    /\ IsFiniteSet(Rcpts) /\ Rcpts # {}
    /\ DomainOf \in [Rcpts -> Nat]
    /\ Policy \in {"retry", "accept_partial"}
    /\ MxCount \in Nat /\ MaxRequests \in Nat /\ MaxCrashes \in Nat

VARIABLES
    fate,      \* Postfix's queue entry per recipient
    sub,       \* the sidecar's submission in progress
    req,       \* requests at the edges, by request_id
    copies,    \* environment: copies each recipient's MX has accepted
    crashes    \* environment: sidecar restarts so far

deliveryVars == <<fate, sub, req, copies, crashes>>

Verdict  == {"delivered", "temp", "perm"}
Outcomes == [Rcpts -> Verdict \cup {"none"}]
NoOutcome == [r \in Rcpts |-> "none"]

\* A submission: is view.selection OrderedFailover, candidate tunnels left,
\* recipients of the submission and the ones still to settle, accumulated
\* outcomes, request awaited (0: none).
Submission == [active : BOOLEAN, ordered : BOOLEAN, todo : SUBSET Tunnels, rcpts : SUBSET Rcpts,
               remaining : SUBSET Rcpts, acc : Outcomes, wait : 0..MaxRequests]
Idle == [active |-> FALSE, ordered |-> FALSE, todo |-> {}, rcpts |-> {}, remaining |-> {},
         acc |-> NoOutcome, wait |-> 0]

\* A request: recipients, domains left (the least is in hand), MX hosts left to
\* try for the domain in hand, results so far, whether the edge still has it.
Request == [rcpts : SUBSET Rcpts, todo : SUBSET Nat, mx : 0..MxCount,
            results : Outcomes, open : BOOLEAN]

Queued == {r \in Rcpts : fate[r] = "queued"}

-----------------------------------------------------------------------------
(* Sidecar: pure parts of relay.rs.                                        *)

With(acc, v) == {r \in Rcpts : acc[r] = v}

\* A delivered recipient stays delivered; otherwise the newer outcome counts.
upsert_outcome(acc, results) ==
    [r \in Rcpts |-> IF results[r] = "none" \/ (acc[r] = "delivered" /\ results[r] # "delivered")
                     THEN acc[r] ELSE results[r]]

\* Mutant: a partial failure is always reported as accepted.
MapOutcomesAccepting(acc) ==
    LET total == Rcpts \ With(acc, "none")
    IN  IF total = {} THEN 554
        ELSE IF With(acc, "perm") = total THEN 554
        ELSE IF With(acc, "delivered") = {} THEN 451
        ELSE 250

\* The SMTP code for the whole submission.
map_outcomes(acc) ==
    LET total == Rcpts \ With(acc, "none")
    IN  IF total = {} THEN 554
        ELSE IF With(acc, "delivered") = total THEN 250
        ELSE IF With(acc, "perm") = total THEN 554
        ELSE IF With(acc, "temp") = total THEN 451
        ELSE IF With(acc, "perm") # {} /\ Policy = "accept_partial" THEN 250
        ELSE 451

\* Mutant: every recipient goes to the next tunnel again.
RemainingAll(results) == Rcpts \ With(results, "none")

\* Recipients a result leaves for the next tunnel.
NotDelivered(results) == With(results, "temp") \cup With(results, "perm")

Remaining(results) == IF sub.ordered THEN {} ELSE NotDelivered(results)

-----------------------------------------------------------------------------
(* Postfix.                                                                *)

\* Postfix opens an SMTP transaction for the recipients it still queues; the
\* sidecar's view and the pool's health give the selection and the candidates.
Submit(candidates, ordered) ==
    /\ ~sub.active
    /\ Queued # {}
    /\ Len(req) < MaxRequests
    /\ sub' = [Idle EXCEPT !.active = TRUE, !.ordered = ordered, !.todo = candidates,
                           !.rcpts = Queued, !.remaining = Queued]
    /\ UNCHANGED <<fate, req, copies, crashes>>

\* The reply settles all recipients of the transaction or none.
Settle(code) ==
    fate' = [r \in Rcpts |->
               IF r \notin sub.rcpts THEN fate[r]
               ELSE CASE code = 250 -> "sent"
                      [] code = 554 -> "bounced"
                      [] OTHER      -> "queued"]

\* SmtpRelay::relay returns: nothing remains or no tunnel is left.  With no
\* outcome at all the reply is 421.
Reply ==
    /\ sub.active /\ sub.wait = 0
    /\ sub.remaining = {} \/ sub.todo = {}
    /\ Settle(IF sub.acc = NoOutcome THEN 421 ELSE map_outcomes(sub.acc))
    /\ sub' = Idle
    /\ UNCHANGED <<req, copies, crashes>>

\* The sidecar dies; Postfix sees the connection break and keeps the message.
SidecarCrash ==
    /\ sub.active
    /\ crashes < MaxCrashes
    /\ crashes' = crashes + 1
    /\ sub' = Idle
    /\ UNCHANGED <<fate, req, copies>>

-----------------------------------------------------------------------------
(* Sidecar: one tunnel.                                                    *)

\* handle_relay groups the recipients by domain.
DomainsOf(S) == {DomainOf[r] : r \in S}

\* try_one_tunnel: lease and send succeed, the edge has the whole request.
SendRelay(t) ==
    /\ sub.active /\ sub.wait = 0
    /\ sub.remaining # {}
    /\ t \in sub.todo
    /\ Len(req) < MaxRequests
    /\ req' = Append(req, [rcpts |-> sub.remaining,
                           todo |-> DomainsOf(sub.remaining), mx |-> MxCount,
                           results |-> NoOutcome, open |-> TRUE])
    /\ sub' = [sub EXCEPT !.todo = sub.todo \ {t}, !.wait = Len(req) + 1]
    /\ UNCHANGED <<fate, copies, crashes>>

\* The lease or the send failed: TunnelError, the next tunnel is tried.
TunnelError(t) ==
    /\ sub.active /\ sub.wait = 0
    /\ sub.remaining # {}
    /\ t \in sub.todo
    /\ sub' = [sub EXCEPT !.todo = sub.todo \ {t}]
    /\ UNCHANGED <<fate, req, copies, crashes>>

\* Mutant: the read of the result has no timeout.
GiveUpOnBreak ==
    /\ sub.wait # 0
    /\ ~req[sub.wait].open
    /\ sub' = [sub EXCEPT !.wait = 0]
    /\ UNCHANGED <<fate, req, copies, crashes>>

\* No answer in time, an Error frame, a broken connection, or a RelayResult
\* too large for one frame: TunnelError as well, and the connection is
\* discarded, so that a late answer is never read.
GiveUp ==
    /\ sub.wait # 0
    /\ sub' = [sub EXCEPT !.wait = 0]
    /\ UNCHANGED <<fate, req, copies, crashes>>

\* The RelayResult with the awaited request_id.
ReceiveResult ==
    /\ sub.wait # 0
    /\ LET q == req[sub.wait]
       IN  /\ q.open /\ q.todo = {}
           /\ sub' = [sub EXCEPT !.wait = 0,
                                 !.remaining = Remaining(q.results),
                                 !.acc = upsert_outcome(sub.acc, q.results)]
           /\ req' = [req EXCEPT ![sub.wait].open = FALSE]
    /\ UNCHANGED <<fate, copies, crashes>>

-----------------------------------------------------------------------------
(* Edge: one recipient domain after the other, one MX host after the other.*)

Busy(i) == req[i].open /\ req[i].todo # {}

Group(q) == {r \in q.rcpts : DomainOf[r] = Min(q.todo)}

\* The outcome of the domain in hand is placed back at its recipients.
Place(i, outcome) ==
    LET q == req[i]
    IN  req' = [req EXCEPT ![i] =
                  [q EXCEPT !.todo = q.todo \ {Min(q.todo)}, !.mx = MxCount,
                            !.results = [r \in Rcpts |-> IF r \in Group(q)
                                                         THEN outcome[r] ELSE q.results[r]]]]

\* The MX lookup failed, or every MX host was skipped: temporary failure.
NoUsableMx(i) ==
    /\ Busy(i)
    /\ req[i].mx \in {0, MxCount}
    /\ Place(i, [r \in Rcpts |-> "temp"])
    /\ UNCHANGED <<fate, sub, copies, crashes>>

\* deliver returns Skipped, or an I/O error before the body was accepted.
SkipMx(i) ==
    /\ Busy(i)
    /\ req[i].mx > 0
    /\ req' = [req EXCEPT ![i].mx = req[i].mx - 1]
    /\ UNCHANGED <<fate, sub, copies, crashes>>

\* Mutant: an accepted RCPT counts as delivered whatever follows.
DeliverMxAtRcpt(i, refused, final) ==
    /\ Busy(i)
    /\ req[i].mx > 0
    /\ LET accepted == {r \in Group(req[i]) : refused[r] = "none"}
       IN  /\ Place(i, [r \in Rcpts |-> IF r \in accepted THEN "delivered" ELSE refused[r]])
           /\ copies' = [r \in Rcpts |-> IF r \in accepted /\ final = "delivered"
                                         THEN copies[r] + 1 ELSE copies[r]]
    /\ UNCHANGED <<fate, sub, crashes>>

\* deliver reaches the recipients: refused ones have their RCPT verdict, the
\* accepted ones share the reply to DATA or to the end of the body.
DeliverMx(i, refused, final) ==
    /\ Busy(i)
    /\ req[i].mx > 0
    /\ LET accepted == {r \in Group(req[i]) : refused[r] = "none"}
       IN  /\ Place(i, [r \in Rcpts |-> IF r \in accepted THEN final ELSE refused[r]])
           /\ copies' = [r \in Rcpts |-> IF r \in accepted /\ final = "delivered"
                                         THEN copies[r] + 1 ELSE copies[r]]
    /\ UNCHANGED <<fate, sub, crashes>>

\* The MX accepted the body but its reply was lost: deliver returns an error
\* and handle_relay goes on with the next MX host.
LoseFinalReply(i, accepted) ==
    /\ Busy(i)
    /\ req[i].mx > 0
    /\ accepted \subseteq Group(req[i])
    /\ accepted # {}
    /\ copies' = [r \in Rcpts |-> IF r \in accepted THEN copies[r] + 1 ELSE copies[r]]
    /\ req' = [req EXCEPT ![i].mx = req[i].mx - 1]
    /\ UNCHANGED <<fate, sub, crashes>>

\* The edge rejects the request, restarts, or cannot write to the connection.
DropRequest(i) ==
    /\ req[i].open
    /\ req' = [req EXCEPT ![i].open = FALSE]
    /\ UNCHANGED <<fate, sub, copies, crashes>>

-----------------------------------------------------------------------------
DeliveryInit ==
    /\ fate = [r \in Rcpts |-> "queued"]
    /\ sub = Idle
    /\ req = <<>>
    /\ copies = [r \in Rcpts |-> 0]
    /\ crashes = 0

Refusals == [Rcpts -> {"none", "temp", "perm"}]

SidecarStep ==
    \/ Reply \/ GiveUp \/ ReceiveResult
    \/ \E t \in Tunnels : SendRelay(t) \/ TunnelError(t)

EdgeStep ==
    \E i \in 1..Len(req) :
       \/ DropRequest(i) \/ NoUsableMx(i) \/ SkipMx(i)
       \/ \E refused \in Refusals, final \in Verdict : DeliverMx(i, refused, final)
       \/ \E accepted \in SUBSET Rcpts : LoseFinalReply(i, accepted)

DeliveryNext ==
    \/ \E candidates \in SUBSET Tunnels, ordered \in BOOLEAN : Submit(candidates, ordered)
    \/ SidecarStep \/ EdgeStep \/ SidecarCrash

DeliverySpec == DeliveryInit /\ [][DeliveryNext]_deliveryVars

-----------------------------------------------------------------------------
TypeOK ==
    /\ fate \in [Rcpts -> {"queued", "sent", "bounced"}]
    /\ sub \in Submission
    /\ req \in Seq(Request) /\ Len(req) <= MaxRequests
    /\ copies \in [Rcpts -> Nat]
    /\ crashes \in 0..MaxCrashes

\* Postfix deletes a message only for recipients whose MX has accepted it:
\* across failover, overlapping requests and lost answers, a 250 under the
\* retry policy means that every recipient of the transaction has a copy.
SentWasDelivered == \A r \in Rcpts : fate[r] = "sent" => copies[r] > 0

\* Successful recipients of a previous tunnel are not sent again within the
\* submission ("only failed recipients are re-attempted").
OnlyFailedReattempted ==
    [][\A r \in Rcpts :
          (Len(req') > Len(req) /\ r \in req'[Len(req')].rcpts)
          => sub.acc[r] # "delivered"]_deliveryVars

\* Ordered failover changes the public IP only while no MX has given a
\* verdict to this submission.
VerdictIsFinal ==
    [][sub.ordered /\ Len(req') > Len(req) => sub.acc = NoOutcome]_deliveryVars

\* A message bounces only if every recipient of the transaction was refused
\* permanently by an MX, never because tunnels or edges failed.
BounceNeedsRefusal ==
    [][\A r \in Rcpts :
          (fate[r] # "bounced" /\ fate'[r] = "bounced")
          => \A s \in sub.rcpts :
                \E i \in 1..Len(req) : req[i].results[s] = "perm"]_deliveryVars

\* map_outcomes answers 250 only if some recipient of the transaction has the
\* message ("Partial: at least one Delivered, at least one non-Delivered").
AcceptedHasDelivery ==
    (\E r \in Rcpts : fate[r] = "sent") => \E r \in Rcpts : copies[r] > 0

\* The relay implements at-least-once delivery.
Abstract == INSTANCE AtLeastOnce WITH fate <- fate, copies <- copies
ImplementsAtLeastOnce == Abstract!Spec

-----------------------------------------------------------------------------
\* Postfix always gets an answer to a submission, unless the sidecar dies.
SubmissionAnswered == sub.active ~> ~sub.active

\* Every further attempt and every bounce has its reason in what the MX hosts
\* said: recipients that are served are not tried again, an ordered submission
\* stays at its first verdict, and nothing bounces without refusals.
AttemptsJustified == OnlyFailedReattempted /\ VerdictIsFinal /\ BounceNeedsRefusal

-----------------------------------------------------------------------------
\* Value of a run: both recipients at one domain: one SMTP session serves both.
SameDomain == [r \in Rcpts |-> 1]
=============================================================================
