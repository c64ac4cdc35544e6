----------------------------- MODULE SmtpClient -----------------------------
(***************************************************************************)
(* deliver: the edge's SMTP session with one MX host                       *)
(* (edge/src/smtp_client.rs), from the TCP connect to the reply after the  *)
(* body.  The MX answers each command with any reply class or not at all   *)
(* (timeout, close, malformed reply).                                      *)
(***************************************************************************)
EXTENDS Naturals, Sequences

CONSTANT NumRcpts    \* recipients of the envelope

VARIABLES
    opt,        \* SmtpDelivery: require_tls, probe_only
    stage,      \* next step of deliver
    tls,        \* Session::Tls
    outcomes,   \* status per recipient answered so far
    result,     \* "none", then Reached, Skipped or Err
    mx          \* environment: what the MX host has seen and keeps

vars == <<opt, stage, tls, outcomes, result, mx>>

\* Reply classes.  "io" stands for a timeout, a close or a malformed reply.
Class  == {"2xx", "3xx", "4xx", "5xx"}
Status == {"delivered", "temp", "perm"}
Stages == {"connect", "banner", "ehlo", "helo", "starttls", "reconnect", "banner2",
           "ehlo2", "mail", "rcpt", "data", "body", "done"}
Results == {"none", "reached", "skipped", "sender_rejected", "error"}

Failed(c) == IF c = "4xx" THEN "temp" ELSE "perm"

Goto(s) == stage' = s /\ UNCHANGED <<opt, tls, outcomes, result, mx>>
Finish(r) == stage' = "done" /\ result' = r /\ UNCHANGED <<opt, tls, outcomes, mx>>

-----------------------------------------------------------------------------
(* Up to MAIL FROM: failures skip this MX host.                            *)

Connect ==
    /\ stage = "connect"
    /\ Goto("banner") \/ Finish("skipped")

\* A banner that cannot be read skips the MX as well.
Banner(c) ==
    /\ stage = "banner"
    /\ IF c = "2xx" THEN Goto("ehlo") ELSE Finish("skipped")

\* After EHLO or HELO: upgrade when offered, else go on in the clear unless TLS
\* is required.
Greeted(offered) ==
    IF offered THEN Goto("starttls")
    ELSE IF opt.require_tls THEN Finish("skipped") ELSE Goto("mail")

Ehlo(c, offered) ==
    /\ stage = "ehlo"
    /\ CASE c = "io"  -> Finish("error")
         [] c = "2xx" -> Greeted(offered)
         [] OTHER     -> Goto("helo")

Helo(c) ==
    /\ stage = "helo"
    /\ CASE c = "io"  -> Finish("error")
         [] c = "2xx" -> Greeted(FALSE)
         [] OTHER     -> Finish("skipped")

\* attempt_starttls: command, handshake and the EHLO inside TLS, or any failure
\* of the three.
StartTls(ok) ==
    /\ stage = "starttls"
    /\ IF ok THEN /\ tls' = TRUE /\ stage' = "mail"
                  /\ UNCHANGED <<opt, outcomes, result, mx>>
       ELSE IF opt.require_tls THEN Finish("skipped") ELSE Goto("reconnect")

\* Plaintext fallback on a new connection.
Reconnect ==
    /\ stage = "reconnect"
    /\ Goto("banner2") \/ Finish("skipped")

FallbackBanner(c) ==
    /\ stage = "banner2"
    /\ CASE c = "io"  -> Finish("error")
         [] c = "2xx" -> Goto("ehlo2")
         [] OTHER     -> Finish("skipped")

FallbackEhlo(c) ==
    /\ stage = "ehlo2"
    /\ CASE c = "io"  -> Finish("error")
         [] c = "2xx" -> Goto("mail")
         [] OTHER     -> Finish("skipped")

\* probe_single tells this refusal from the others by its reason.
MailFrom(c) ==
    /\ stage = "mail"
    /\ mx' = [mx EXCEPT !.plain = @ \/ ~tls]
    /\ CASE c = "io"  -> stage' = "done" /\ result' = "error"
         [] c = "2xx" -> stage' = "rcpt" /\ UNCHANGED result
         [] OTHER     -> stage' = "done" /\ result' = "sender_rejected"
    /\ UNCHANGED <<opt, tls, outcomes>>

-----------------------------------------------------------------------------
(* Recipients, in order; then DATA and the body.                           *)

Accepted == {i \in 1..Len(outcomes) : outcomes[i] = "delivered"}

\* A refused DATA or end of data turns every accepted recipient into a failure.
Downgrade(c) == [i \in 1..Len(outcomes) |-> IF i \in Accepted THEN Failed(c) ELSE outcomes[i]]

Rcpt(c) ==
    /\ stage = "rcpt" /\ Len(outcomes) < NumRcpts /\ c # "io"
    /\ outcomes' = Append(outcomes, IF c = "2xx" THEN "delivered" ELSE Failed(c))
    /\ mx' = [mx EXCEPT !.envelope = IF c = "2xx" THEN @ \cup {Len(outcomes) + 1} ELSE @]
    /\ UNCHANGED <<opt, stage, tls, result>>

\* One unanswered RCPT fails the whole session.
RcptIo ==
    /\ stage = "rcpt" /\ Len(outcomes) < NumRcpts
    /\ Finish("error")

AllRcptsAnswered ==
    /\ stage = "rcpt" /\ Len(outcomes) = NumRcpts
    /\ IF Accepted = {} \/ opt.probe_only THEN Finish("reached") ELSE Goto("data")

Data(c) ==
    /\ stage = "data"
    /\ CASE c = "io"  -> stage' = "done" /\ result' = "error" /\ UNCHANGED outcomes
         [] c = "3xx" -> stage' = "body" /\ UNCHANGED <<result, outcomes>>
         [] OTHER     -> stage' = "done" /\ result' = "reached" /\ outcomes' = Downgrade(c)
    /\ mx' = [mx EXCEPT !.data = TRUE]
    /\ UNCHANGED <<opt, tls>>

\* Mutant: the RCPT replies stand, whatever the MX says of the body.
BodyTrustsRcpt(c) ==
    /\ stage = "body" /\ c # "io"
    /\ outcomes' = outcomes
    /\ mx' = [mx EXCEPT !.stored = IF c = "2xx" THEN mx.envelope ELSE {}]
    /\ stage' = "done" /\ result' = "reached"
    /\ UNCHANGED <<opt, tls>>

\* The body and its final reply.
Body(c) ==
    /\ stage = "body" /\ c # "io"
    /\ outcomes' = IF c = "2xx" THEN outcomes ELSE Downgrade(c)
    /\ mx' = [mx EXCEPT !.stored = IF c = "2xx" THEN mx.envelope ELSE {}]
    /\ stage' = "done" /\ result' = "reached"
    /\ UNCHANGED <<opt, tls>>

\* The final reply is not read; the MX may have taken the message.
BodyIo(stored) ==
    /\ stage = "body"
    /\ mx' = [mx EXCEPT !.stored = IF stored THEN mx.envelope ELSE {}]
    /\ stage' = "done" /\ result' = "error"
    /\ UNCHANGED <<opt, tls, outcomes>>

-----------------------------------------------------------------------------
Init ==
    /\ opt \in [require_tls : BOOLEAN, probe_only : BOOLEAN]
    /\ stage = "connect" /\ tls = FALSE /\ outcomes = <<>> /\ result = "none"
    /\ mx = [plain |-> FALSE, envelope |-> {}, data |-> FALSE, stored |-> {}]

Next ==
    \/ Connect \/ Reconnect \/ RcptIo \/ AllRcptsAnswered
    \/ \E ok \in BOOLEAN : StartTls(ok) \/ BodyIo(ok)
    \/ \E c \in Class \cup {"io"} :
          \/ Banner(c) \/ Helo(c) \/ FallbackBanner(c) \/ FallbackEhlo(c) \/ MailFrom(c)
          \/ Rcpt(c) \/ Data(c) \/ Body(c)
          \/ \E offered \in BOOLEAN : Ehlo(c, offered)

Spec == Init /\ [][Next]_vars

-----------------------------------------------------------------------------
TypeOK ==
    /\ opt \in [require_tls : BOOLEAN, probe_only : BOOLEAN]
    /\ stage \in Stages /\ tls \in BOOLEAN /\ result \in Results
    /\ outcomes \in Seq(Status) /\ Len(outcomes) <= NumRcpts
    /\ mx \in [plain : BOOLEAN, envelope : SUBSET (1..NumRcpts), data : BOOLEAN,
               stored : SUBSET (1..NumRcpts)]

\* With require_tls no envelope command crosses the network in the clear, on
\* whichever of the greeting, upgrade and fallback paths it is reached.
RequireTlsHonoured == opt.require_tls => ~mx.plain

\* The statuses handed to handle_relay are the truth: a recipient is reported
\* delivered exactly if the MX host keeps the message for it.
DeliveredIsStored ==
    (result = "reached" /\ ~opt.probe_only)
    => /\ Len(outcomes) = NumRcpts
       /\ {i \in 1..NumRcpts : outcomes[i] = "delivered"} = mx.stored

\* A session that validates recipients, or whose MX host handle_relay skips
\* for the next one, leaves no message behind that would be delivered twice.
SkipLeavesNothing ==
    (opt.probe_only \/ result \in {"skipped", "sender_rejected"}) => mx.stored = {}
=============================================================================
