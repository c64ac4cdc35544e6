-------------------------- MODULE TunnelEndsProofs --------------------------
(***************************************************************************)
(* Proofs about the ends of the tunnel: what deliver reports of an MX host *)
(* and what a probe says of a mailbox is true, for any number of           *)
(* recipients, MX hosts, controls and tunnels; and the two ends of a       *)
(* submission stay in step as long as the bodies fit, for any number of    *)
(* messages, recipients and body lines; and the edge keeps account of its  *)
(* permits, for any number of connections and keys.                        *)
(***************************************************************************)
EXTENDS TunnelEnds, FiniteSetTheorems, TLAPS

-----------------------------------------------------------------------------
(* One delivery (SmtpClient).                                              *)

\* Before MAIL the host has seen nothing.
Greeting == {"connect", "banner", "ehlo", "helo", "starttls", "reconnect", "banner2", "ehlo2", "mail"}
Nothing == [plain |-> FALSE, envelope |-> {}, data |-> FALSE, stored |-> {}]

\* What deliver knows at each stage: the fallback is never taken where TLS is
\* required, and while the envelope is open the accepted recipients are those
\* the host has in its envelope.
ClientStages ==
    /\ stage \in Greeting => outcomes = <<>> /\ mx = Nothing
    /\ stage \in {"reconnect", "banner2", "ehlo2"} => ~opt.require_tls
    /\ stage \in {"mail", "rcpt", "data", "body"} /\ opt.require_tls => tls
    /\ stage \in {"rcpt", "data", "body"} => Client!Accepted = mx.envelope
    /\ stage \in {"data", "body"} => Len(outcomes) = NumRcpts /\ ~opt.probe_only
    /\ stage # "done" => mx.stored = {} /\ result = "none"

ClientInv ==
    /\ Client!TypeOK /\ ClientStages
    /\ Client!RequireTlsHonoured /\ Client!DeliveredIsStored /\ Client!SkipLeavesNothing

\* The session ends before the body, or ends with an error.
LEMMA ClientFinish ==
    ASSUME ClientInv, NEW r \in {"skipped", "error"}, stage # "done", Client!Finish(r)
    PROVE  ClientInv'
BY DEF ClientInv, ClientStages, Greeting, Client!Finish, Client!TypeOK, Client!Stages, Client!Results,
       Client!RequireTlsHonoured, Client!DeliveredIsStored, Client!SkipLeavesNothing, Client!Accepted

\* The greeting goes on.
LEMMA ClientGoto ==
    ASSUME ClientInv, NEW s \in Greeting, stage \in Greeting, Client!Goto(s),
           s \in {"reconnect", "banner2", "ehlo2"} => ~opt.require_tls,
           s = "mail" /\ opt.require_tls => tls
    PROVE  ClientInv'
BY DEF ClientInv, ClientStages, Greeting, Client!Goto, Client!TypeOK, Client!Stages, Client!Results,
       Client!RequireTlsHonoured, Client!DeliveredIsStored, Client!SkipLeavesNothing, Client!Accepted

LEMMA ClientGreetingInv ==
    ASSUME ClientInv, NEW c \in Client!Class \cup {"io"}, NEW b \in BOOLEAN,
           \/ Client!Connect \/ Client!Banner(c) \/ Client!Ehlo(c, b) \/ Client!Helo(c)
           \/ Client!Reconnect \/ Client!FallbackBanner(c) \/ Client!FallbackEhlo(c)
    PROVE  ClientInv'
<1>1. /\ stage \in Greeting /\ stage # "done"
      /\ \/ \E r \in {"skipped", "error"} : Client!Finish(r)
         \/ \E s \in Greeting : /\ Client!Goto(s)
                                /\ s \in {"reconnect", "banner2", "ehlo2"} => ~opt.require_tls
                                /\ s = "mail" => ~opt.require_tls
  BY DEF ClientInv, ClientStages, Greeting, Client!Connect, Client!Banner, Client!Ehlo, Client!Helo,
         Client!Greeted, Client!Reconnect, Client!FallbackBanner, Client!FallbackEhlo
<1> QED
  BY <1>1, ClientFinish, ClientGoto

LEMMA ClientStartTlsInv ==
    ASSUME ClientInv, NEW ok \in BOOLEAN, Client!StartTls(ok)
    PROVE  ClientInv'
<1>1. CASE ok
  BY <1>1 DEF ClientInv, ClientStages, Greeting, Client!StartTls, Client!TypeOK, Client!Stages,
       Client!RequireTlsHonoured, Client!DeliveredIsStored, Client!SkipLeavesNothing, Client!Accepted
<1>2. CASE ~ok
  BY <1>2, ClientFinish, ClientGoto DEF Client!StartTls, Greeting
<1> QED
  BY <1>1, <1>2

\* MAIL FROM is the first command that shows the envelope.
LEMMA ClientMailInv ==
    ASSUME ClientInv, NEW c \in Client!Class \cup {"io"}, Client!MailFrom(c)
    PROVE  ClientInv'
<1>1. /\ stage = "mail" /\ outcomes = <<>> /\ mx = Nothing /\ UNCHANGED <<opt, tls, outcomes>>
      /\ opt.require_tls => tls
      /\ tls \in BOOLEAN /\ opt \in [require_tls : BOOLEAN, probe_only : BOOLEAN]
  BY DEF ClientInv, ClientStages, Greeting, Client!MailFrom, Client!TypeOK
<1>2. mx' = [plain |-> ~tls, envelope |-> {}, data |-> FALSE, stored |-> {}]
  BY <1>1 DEF Client!MailFrom, Nothing
<1>3. /\ mx'.plain = ~tls /\ mx'.envelope = {} /\ mx'.stored = {}
      /\ mx' \in [plain : BOOLEAN, envelope : SUBSET (1..NumRcpts), data : BOOLEAN,
                  stored : SUBSET (1..NumRcpts)]
  BY <1>1, <1>2
<1>4. \/ stage' = "rcpt" /\ result' = "none"
      \/ stage' = "done" /\ result' \in {"error", "sender_rejected"}
  BY <1>1 DEF Client!MailFrom, ClientInv, ClientStages
<1>5. Client!Accepted' = {}
  BY <1>1 DEF Client!Accepted
<1>6. Client!TypeOK'
  BY <1>1, <1>3, <1>4, TunnelEndsAssumption DEF ClientInv, Client!TypeOK, Client!Stages, Client!Results
<1>7. ClientStages'
  BY <1>1, <1>3, <1>4, <1>5 DEF ClientStages, Greeting
<1>8. (Client!RequireTlsHonoured /\ Client!DeliveredIsStored /\ Client!SkipLeavesNothing)'
  BY <1>1, <1>3, <1>4 DEF Client!RequireTlsHonoured, Client!DeliveredIsStored, Client!SkipLeavesNothing
<1> QED
  BY <1>6, <1>7, <1>8 DEF ClientInv

\* An RCPT is answered: the envelope and the outcomes grow together.
LEMMA ClientRcptInv ==
    ASSUME ClientInv, NEW c \in Client!Class \cup {"io"}, Client!Rcpt(c)
    PROVE  ClientInv'
<1> DEFINE n == Len(outcomes) + 1
           o == IF c = "2xx" THEN "delivered" ELSE Client!Failed(c)
           e == IF c = "2xx" THEN mx.envelope \cup {n} ELSE mx.envelope
<1>1. /\ stage = "rcpt" /\ outcomes \in Seq(Client!Status) /\ Len(outcomes) < NumRcpts
      /\ mx \in [plain : BOOLEAN, envelope : SUBSET (1..NumRcpts), data : BOOLEAN,
                 stored : SUBSET (1..NumRcpts)]
      /\ UNCHANGED <<opt, stage, tls, result>> /\ outcomes' = Append(outcomes, o)
  BY DEF ClientInv, Client!TypeOK, Client!Rcpt
<1>2. o \in Client!Status /\ (o = "delivered" <=> c = "2xx")
  BY DEF Client!Failed, Client!Status
<1>3. n \in 1..NumRcpts /\ e \in SUBSET (1..NumRcpts)
  BY <1>1, TunnelEndsAssumption
<1>4. mx' = [mx EXCEPT !.envelope = e]
  BY <1>1 DEF Client!Rcpt
<1> HIDE DEF e
<1>5. /\ mx'.plain = mx.plain /\ mx'.envelope = e /\ mx'.stored = mx.stored
      /\ mx' \in [plain : BOOLEAN, envelope : SUBSET (1..NumRcpts), data : BOOLEAN,
                  stored : SUBSET (1..NumRcpts)]
  BY <1>1, <1>3, <1>4
<1> HIDE DEF o
<1>6. /\ outcomes' \in Seq(Client!Status) /\ Len(outcomes') = n /\ outcomes'[n] = o
      /\ \A i \in 1..Len(outcomes) : outcomes'[i] = outcomes[i]
  BY <1>1, <1>2
<1>7. Client!Accepted = mx.envelope
  BY <1>1 DEF ClientInv, ClientStages
<1>8. Client!Accepted' = e
  BY <1>1, <1>2, <1>6, <1>7 DEF Client!Accepted, e
<1>9. Client!TypeOK'
  BY <1>1, <1>3, <1>5, <1>6, TunnelEndsAssumption DEF ClientInv, Client!TypeOK
<1>10. ClientStages'
  BY <1>1, <1>5, <1>8 DEF ClientInv, ClientStages, Greeting
<1>11. (Client!RequireTlsHonoured /\ Client!DeliveredIsStored /\ Client!SkipLeavesNothing)'
  BY <1>1, <1>5 DEF ClientInv, ClientStages, Client!RequireTlsHonoured, Client!DeliveredIsStored,
                    Client!SkipLeavesNothing
<1> QED
  BY <1>9, <1>10, <1>11 DEF ClientInv

LEMMA ClientAllAnsweredInv ==
    ASSUME ClientInv, Client!AllRcptsAnswered
    PROVE  ClientInv'
<1>1. /\ stage = "rcpt" /\ Len(outcomes) = NumRcpts /\ UNCHANGED <<opt, tls, outcomes, mx>>
      /\ mx.stored = {} /\ result = "none"
  BY DEF ClientInv, ClientStages, Client!AllRcptsAnswered, Client!Finish, Client!Goto
<1>2. \/ /\ stage' = "done" /\ result' = "reached" /\ (Client!Accepted = {} \/ opt.probe_only)
      \/ stage' = "data" /\ result' = result /\ ~opt.probe_only
  BY DEF Client!AllRcptsAnswered, Client!Finish, Client!Goto
<1>3. Client!TypeOK'
  BY <1>1, <1>2 DEF ClientInv, Client!TypeOK, Client!Stages, Client!Results
<1>4. ClientStages'
  BY <1>1, <1>2 DEF ClientInv, ClientStages, Greeting, Client!Accepted
<1>5. Client!DeliveredIsStored'
  BY <1>1, <1>2 DEF Client!DeliveredIsStored, Client!Accepted
<1>6. (Client!RequireTlsHonoured /\ Client!SkipLeavesNothing)'
  BY <1>1, <1>2 DEF ClientInv, Client!RequireTlsHonoured, Client!SkipLeavesNothing
<1> QED
  BY <1>3, <1>4, <1>5, <1>6 DEF ClientInv

\* A refusal of DATA or of the body leaves nobody delivered.
LEMMA DowngradeFacts ==
    ASSUME Client!TypeOK, NEW c
    PROVE  /\ Client!Downgrade(c) \in Seq(Client!Status) /\ Len(Client!Downgrade(c)) = Len(outcomes)
           /\ \A i \in 1..Len(outcomes) : Client!Downgrade(c)[i] # "delivered"
<1>1. outcomes \in Seq(Client!Status) /\ Len(outcomes) \in Nat
  BY DEF Client!TypeOK
<1>2. Client!Failed(c) \in {"temp", "perm"}
  BY DEF Client!Failed
<1> QED
  BY <1>1, <1>2 DEF Client!Downgrade, Client!Accepted, Client!Status

\* How a session that got as far as DATA ends: with the message kept for the
\* whole envelope, or for nobody.
LEMMA ClientEndInv ==
    ASSUME ClientInv, stage \in {"data", "body"}, stage' = "done", UNCHANGED <<opt, tls>>,
           mx' \in [plain : BOOLEAN, envelope : SUBSET (1..NumRcpts), data : BOOLEAN,
                    stored : SUBSET (1..NumRcpts)],
           mx'.plain = mx.plain,
           \/ result' = "error" /\ outcomes' = outcomes
           \/ result' = "reached" /\ outcomes' = outcomes /\ mx'.stored = mx.envelope
           \/ /\ result' = "reached" /\ mx'.stored = {}
              /\ \E c : outcomes' = Client!Downgrade(c)
    PROVE  ClientInv'
<1>1. /\ Len(outcomes) = NumRcpts /\ ~opt.probe_only /\ Client!Accepted = mx.envelope
      /\ outcomes \in Seq(Client!Status)
  BY DEF ClientInv, ClientStages, Client!TypeOK
<1>2. /\ outcomes' \in Seq(Client!Status) /\ Len(outcomes') = NumRcpts
      /\ result' = "reached" => {i \in 1..NumRcpts : outcomes'[i] = "delivered"} = mx'.stored
  BY <1>1, DowngradeFacts DEF ClientInv, Client!Accepted
<1>3. Client!TypeOK'
  BY <1>2, TunnelEndsAssumption DEF ClientInv, Client!TypeOK, Client!Stages, Client!Results
<1>4. ClientStages'
  BY DEF ClientStages, Greeting
<1>5. (Client!RequireTlsHonoured /\ Client!SkipLeavesNothing)'
  BY <1>1 DEF ClientInv, Client!RequireTlsHonoured, Client!SkipLeavesNothing
<1> QED
  BY <1>2, <1>3, <1>4, <1>5 DEF ClientInv, Client!DeliveredIsStored

LEMMA ClientDataInv ==
    ASSUME ClientInv, NEW c \in Client!Class \cup {"io"}, Client!Data(c)
    PROVE  ClientInv'
<1>1. /\ stage = "data" /\ UNCHANGED <<opt, tls>> /\ mx' = [mx EXCEPT !.data = TRUE]
      /\ mx \in [plain : BOOLEAN, envelope : SUBSET (1..NumRcpts), data : BOOLEAN,
                 stored : SUBSET (1..NumRcpts)] /\ mx.stored = {}
  BY DEF ClientInv, ClientStages, Client!TypeOK, Client!Data
<1>2. /\ mx'.plain = mx.plain /\ mx'.envelope = mx.envelope /\ mx'.stored = {}
      /\ mx' \in [plain : BOOLEAN, envelope : SUBSET (1..NumRcpts), data : BOOLEAN,
                  stored : SUBSET (1..NumRcpts)]
  BY <1>1
<1>3. CASE c = "3xx"
  <2>1. stage' = "body" /\ UNCHANGED <<result, outcomes>>
    BY <1>3 DEF Client!Data
  <2> QED
    BY <1>1, <1>2, <2>1 DEF ClientInv, ClientStages, Greeting, Client!TypeOK, Client!Stages,
       Client!Accepted, Client!RequireTlsHonoured, Client!DeliveredIsStored, Client!SkipLeavesNothing
<1>4. CASE c # "3xx"
  <2>1. /\ stage' = "done"
        /\ \/ result' = "error" /\ outcomes' = outcomes
           \/ result' = "reached" /\ outcomes' = Client!Downgrade(c)
    BY <1>4 DEF Client!Data
  <2> QED
    BY <1>1, <1>2, <2>1, ClientEndInv
<1> QED
  BY <1>3, <1>4

LEMMA ClientBodyInv ==
    ASSUME ClientInv,
           \/ \E c \in Client!Class \cup {"io"} : Client!Body(c)
           \/ \E stored \in BOOLEAN : Client!BodyIo(stored)
    PROVE  ClientInv'
<1>1. PICK kept \in {mx.envelope, {}} : mx' = [mx EXCEPT !.stored = kept]
        /\ \/ result' = "error" /\ outcomes' = outcomes
           \/ result' = "reached" /\ outcomes' = outcomes /\ kept = mx.envelope
           \/ result' = "reached" /\ (\E c : outcomes' = Client!Downgrade(c)) /\ kept = {}
  BY DEF Client!Body, Client!BodyIo
<1>2. /\ stage = "body" /\ stage' = "done" /\ UNCHANGED <<opt, tls>>
      /\ mx \in [plain : BOOLEAN, envelope : SUBSET (1..NumRcpts), data : BOOLEAN,
                 stored : SUBSET (1..NumRcpts)]
  BY DEF ClientInv, Client!TypeOK, Client!Body, Client!BodyIo
<1>3. /\ mx'.plain = mx.plain /\ mx'.stored = kept
      /\ mx' \in [plain : BOOLEAN, envelope : SUBSET (1..NumRcpts), data : BOOLEAN,
                  stored : SUBSET (1..NumRcpts)]
  BY <1>1, <1>2
<1> QED
  BY <1>1, <1>2, <1>3, ClientEndInv

LEMMA ClientStepInv ==
    ASSUME ClientInv, Client!Next
    PROVE  ClientInv'
<1>1. CASE Client!RcptIo
  BY <1>1, ClientFinish DEF Client!RcptIo
<1>2. CASE Client!Connect \/ Client!Reconnect \/ Client!AllRcptsAnswered
  BY <1>2, ClientGreetingInv, ClientAllAnsweredInv
<1>3. CASE \E ok \in BOOLEAN : Client!StartTls(ok) \/ Client!BodyIo(ok)
  BY <1>3, ClientStartTlsInv, ClientBodyInv
<1>4. CASE \E c \in Client!Class \cup {"io"} :
             \/ Client!Banner(c) \/ Client!Helo(c) \/ Client!FallbackBanner(c) \/ Client!FallbackEhlo(c)
             \/ \E offered \in BOOLEAN : Client!Ehlo(c, offered)
  BY <1>4, ClientGreetingInv
<1>5. CASE \E c \in Client!Class \cup {"io"} :
             Client!MailFrom(c) \/ Client!Rcpt(c) \/ Client!Data(c) \/ Client!Body(c)
  BY <1>5, ClientMailInv, ClientRcptInv, ClientDataInv, ClientBodyInv
<1> QED
  BY <1>1, <1>2, <1>3, <1>4, <1>5 DEF Client!Next

LEMMA ClientInit == Client!Init => ClientInv
<1> SUFFICES ASSUME Client!Init PROVE ClientInv
  OBVIOUS
<1>1. Client!TypeOK
  <2>1. mx \in [plain : BOOLEAN, envelope : SUBSET (1..NumRcpts), data : BOOLEAN,
                stored : SUBSET (1..NumRcpts)]
    BY DEF Client!Init
  <2>2. outcomes \in Seq(Client!Status) /\ Len(outcomes) = 0 /\ 0 <= NumRcpts
    BY TunnelEndsAssumption DEF Client!Init
  <2> QED
    BY <2>1, <2>2 DEF Client!Init, Client!TypeOK, Client!Stages, Client!Results
<1>2. ClientStages
  BY DEF Client!Init, ClientStages, Nothing
<1> QED
  BY <1>1, <1>2 DEF Client!Init, ClientInv, Client!RequireTlsHonoured, Client!DeliveredIsStored,
                    Client!SkipLeavesNothing

\* What deliver reports to handle_relay is true of the MX host, for any number
\* of recipients and whichever replies, timeouts and fallbacks happen: nothing
\* is reported delivered that the host does not keep, nothing is kept where the
\* next host will be tried, and no envelope goes in the clear against
\* require_tls.
THEOREM DeliveryAlwaysTruthful == Spec => []DeliveryTruthful
<1> DEFINE I == part = "client" => ClientInv
<1>1. Init => I
  BY ClientInit DEF Init
<1>2. I /\ [Next]_vars => I'
  <2> SUFFICES ASSUME I, [Next]_vars, part' = "client" PROVE ClientInv'
    OBVIOUS
  <2>1. part = "client" /\ (Client!Next \/ UNCHANGED clientVars)
    BY DEF Next, Only, vars
  <2>2. CASE Client!Next
    BY <2>1, <2>2, ClientStepInv
  <2>3. CASE UNCHANGED clientVars
    BY <2>1, <2>3 DEF clientVars, ClientInv, ClientStages, Client!TypeOK, Client!RequireTlsHonoured,
                      Client!DeliveredIsStored, Client!SkipLeavesNothing, Client!Accepted
  <2> QED
    BY <2>1, <2>2, <2>3
<1>3. I => DeliveryTruthful
  BY DEF ClientInv, DeliveryTruthful
<1> QED
  BY <1>1, <1>2, <1>3, PTL DEF Spec

-----------------------------------------------------------------------------
(* One probe (RecipientProbe).                                             *)

Kind(w) == world.kind[w.mx]
Throttles(w) == Kind(w) \notin {"validating", "accept_all"}
Talking == {"lead", "target", "more"}

\* Where a walk may be, and how much it has asked.
WalkPlace(w) ==
    /\ w.at \in Talking => w.mx <= NumMx
    /\ w.at = "lead" => NumControls > 0
    /\ w.at = "target" => Len(w.controls) <= 1 /\ (NumControls > 0 => Len(w.controls) > 0)
    /\ w.at = "more" => Len(w.controls) < NumControls /\ Len(w.controls) > 0
    /\ w.at \in {"idle", "lead"} => w.controls = <<>>
    /\ Len(w.controls) > 0 \/ w.target # "unknown" => w.mx <= NumMx

\* A throttling host has answered the first control, and then the target,
\* before it turns everybody away.
WalkThrottled(w) ==
    w.mx <= NumMx /\ Throttles(w) =>
        /\ w.at = "lead" => w.sessions = 0
        /\ w.at = "target" => w.sessions <= 1
        /\ Len(w.controls) > 0 => w.controls[1] = "accepted"

\* What the outcomes of a walk say of the host in hand and of the mailbox.
WalkTruth(w) ==
    /\ \A i \in 1..Len(w.controls) :
          /\ w.controls[i] = "accepted" => Kind(w) # "validating"
          /\ w.controls[i] = "rejected" => Kind(w) # "accept_all"
    /\ w.target = "accepted" => world.exists \/ Kind(w) # "validating"
    /\ w.target = "rejected" => ~world.exists

WalkOK(w) == w \in Probe!Walk /\ Len(w.controls) <= NumControls
             /\ WalkPlace(w) /\ WalkThrottled(w) /\ WalkTruth(w)

ProbeInv ==
    /\ world \in Probe!Worlds /\ reply \in {0, 250, 252, 451, 550}
    /\ walk \in [Racers -> Probe!Walk] /\ \A t \in Racers : WalkOK(walk[t])
    /\ Probe!ConfirmedExists /\ Probe!RejectedMeansAbsent /\ Probe!AcceptAllIsTrue

\* A host says "accepted" and "no such user" for the reasons it has.
LEMMA AnswerFacts ==
    ASSUME NEW w, NEW e \in BOOLEAN, NEW a, a \in Probe!Answers(w, e)
    PROVE  /\ Probe!Outcome(a) \in Probe!Status
           /\ Probe!Outcome(a) = "accepted" => Kind(w) # "validating" \/ e
           /\ Probe!Outcome(a) = "rejected" =>
                 \/ Kind(w) = "validating" /\ ~e
                 \/ Throttles(w) /\ ~(w.sessions < ThrottleAfter)
           /\ Throttles(w) => Probe!Reached(a)
           /\ Throttles(w) /\ w.sessions < ThrottleAfter => Probe!Outcome(a) = "accepted"
<1> DEFINE o == Probe!Outcome(a)
<1>1. o \in Probe!Status
  BY DEF Probe!Outcome, Probe!Status
<1>2. ASSUME a \in Probe!Unsure PROVE o = "unknown"
  <2>1. CASE a \in {<<"4xx", {}>>, <<"sender", {}>>, <<"unreachable", {}>>}
    <3>1. a[1] \notin {"2xx", "5xx"}
      BY <2>1
    <3> QED
      BY <3>1 DEF Probe!Outcome
  <2>2. CASE \E text \in HostRefusals : a = <<"5xx", text>>
    <3>1. PICK text \in HostRefusals : a = <<"5xx", text>>
      BY <2>2
    <3>2. a[1] = "5xx" /\ a[2] = text /\ ~Probe!definitive_recipient_rejection(text)
      BY <3>1, TunnelEndsAssumption
    <3> QED
      BY <3>2 DEF Probe!Outcome
  <2> QED
    BY <1>2, <2>1, <2>2 DEF Probe!Unsure
<1>3. ASSUME a = <<"2xx", {}>> PROVE o = "accepted" /\ Probe!Reached(a)
  <2>1. a[1] = "2xx"
    BY <1>3
  <2> QED
    BY <2>1 DEF Probe!Outcome, Probe!Reached
<1>4. ASSUME a \in Probe!Absent PROVE o # "accepted" /\ Probe!Reached(a)
  <2>1. a[1] = "5xx"
    BY <1>4 DEF Probe!Absent
  <2> QED
    BY <2>1 DEF Probe!Outcome, Probe!Reached
<1> HIDE DEF o
<1>5. CASE Kind(w) = "validating"
  <2>1. a \in Probe!Unsure \/ (e /\ a = <<"2xx", {}>>) \/ (~e /\ a \in Probe!Absent)
    BY <1>5 DEF Probe!Answers, Kind
  <2>2. (o = "accepted" => e) /\ (o = "rejected" => ~e) /\ ~Throttles(w)
    BY <1>2, <1>3, <1>4, <1>5, <2>1 DEF Throttles
  <2> QED
    BY <1>1, <1>5, <2>2 DEF o
<1>6. CASE Kind(w) = "accept_all"
  <2>1. a \in Probe!Unsure \/ a = <<"2xx", {}>>
    BY <1>6 DEF Probe!Answers, Kind
  <2>2. o # "rejected" /\ ~Throttles(w) /\ Kind(w) # "validating"
    BY <1>2, <1>3, <1>6, <2>1 DEF Throttles
  <2> QED
    BY <1>1, <2>2 DEF o
<1>7. CASE Throttles(w)
  <2>1. \/ w.sessions < ThrottleAfter /\ a = <<"2xx", {}>>
        \/ ~(w.sessions < ThrottleAfter) /\ a \in Probe!Absent
    BY <1>7 DEF Probe!Answers, Kind, Throttles
  <2>2. Kind(w) # "validating"
    BY <1>7 DEF Throttles
  <2> QED
    BY <1>1, <1>3, <1>4, <1>7, <2>1, <2>2 DEF o
<1> QED
  BY <1>5, <1>6, <1>7 DEF Throttles

\* A walk that starts at a host knows nothing.
LEMMA BeginFacts ==
    ASSUME NEW m \in 1..(NumMx + 1), NEW sender \in {0, 1}
    PROVE  /\ WalkOK(Probe!Begin(m, sender)) /\ WalkOK([Probe!Begin(m, sender) EXCEPT !.at = "idle"])
           /\ Probe!Begin(m, sender).at \in {"lead", "target", "result"}
           /\ \A n \in Nat : m <= NumMx /\ ~Throttles(Probe!Begin(m, sender)) =>
                 WalkOK([Probe!Begin(m, sender) EXCEPT !.sessions = n])
<1> DEFINE at == IF m > NumMx THEN "result" ELSE Probe!First
           W(x, n) == [at |-> x, mx |-> m, sender |-> sender, controls |-> <<>>,
                       target |-> "unknown", sessions |-> n]
<1>1. Probe!Begin(m, sender) = W(at, 0)
  BY DEF Probe!Begin
<1>2. [Probe!Begin(m, sender) EXCEPT !.at = "idle"] = W("idle", 0)
  BY DEF Probe!Begin
<1>3. \A n : [Probe!Begin(m, sender) EXCEPT !.sessions = n] = W(at, n)
  BY DEF Probe!Begin
<1>4. /\ at \in {"lead", "target", "result"} /\ (at \in Talking => m <= NumMx)
      /\ (at = "lead" => NumControls > 0) /\ (at = "target" => ~(NumControls > 0))
  BY TunnelEndsAssumption DEF Probe!First, Talking
<1> HIDE DEF at
<1>5. ASSUME NEW x \in {"idle", at}, NEW n \in Nat,
             n = 0 \/ (m <= NumMx /\ ~Throttles(W(x, n)))
      PROVE  WalkOK(W(x, n))
  <2> DEFINE w == W(x, n)
  <2>1. /\ w.at = x /\ w.mx = m /\ w.sender = sender /\ w.controls = <<>> /\ Len(w.controls) = 0
        /\ w.target = "unknown" /\ w.sessions = n
    OBVIOUS
  <2>2. w \in Probe!Walk
    BY <1>4, <1>5 DEF Probe!Walk, Probe!Steps, Probe!Status
  <2>3. n = 0 \/ ~Throttles(w)
    BY <1>5
  <2> HIDE DEF w
  <2>4. WalkPlace(w)
    BY <1>4, <1>5, <2>1, TunnelEndsAssumption DEF WalkPlace, Talking
  <2>5. WalkThrottled(w)
    BY <2>1, <2>3 DEF WalkThrottled
  <2>6. WalkTruth(w)
    BY <2>1 DEF WalkTruth
  <2>7. Len(w.controls) <= NumControls
    BY <2>1, TunnelEndsAssumption
  <2> QED
    BY <2>2, <2>4, <2>5, <2>6, <2>7 DEF WalkOK, w
<1>6. WalkOK(W(at, 0)) /\ WalkOK(W("idle", 0))
  BY <1>5
<1>7. ASSUME NEW n \in Nat, m <= NumMx, ~Throttles(W(at, 0)) PROVE WalkOK(W(at, n))
  <2>1. ~Throttles(W(at, n))
    BY <1>7 DEF Throttles, Kind
  <2> QED
    BY <1>5, <1>7, <2>1
<1> HIDE DEF W
<1> QED
  BY <1>1, <1>2, <1>3, <1>4, <1>6, <1>7 DEF W

LEMMA SetInv ==
    ASSUME ProbeInv, NEW t \in Racers, NEW w, WalkOK(w), Probe!Set(t, w)
    PROVE  ProbeInv'
<1>1. /\ walk \in [Racers -> Probe!Walk] /\ w \in Probe!Walk /\ UNCHANGED <<world, reply>>
      /\ walk' = [walk EXCEPT ![t] = w]
  BY DEF ProbeInv, WalkOK, Probe!Set
<1>2. walk' \in [Racers -> Probe!Walk] /\ walk'[t] = w /\ \A u \in Racers \ {t} : walk'[u] = walk[u]
  BY <1>1
<1>3. \A u \in Racers : WalkOK(walk'[u])
  BY <1>2 DEF ProbeInv
<1>4. \A u \in Racers : WalkOK(walk[u])'
  <2> TAKE u \in Racers
  <2>1. WalkOK(walk'[u])
    BY <1>3
  <2> QED
    BY <1>1, <2>1 DEF WalkOK, WalkPlace, WalkThrottled, WalkTruth, Kind, Throttles, Talking
<1> QED
  BY <1>1, <1>2, <1>4 DEF ProbeInv, Probe!Worlds, Probe!ConfirmedExists, Probe!RejectedMeansAbsent,
                          Probe!AcceptAllIsTrue

\* The next sender or the next host.
LEMMA AdvanceFacts ==
    ASSUME NEW w, WalkOK(w), w.at \in Talking, NEW e \in BOOLEAN, NEW a, a \in Probe!Answers(w, e),
           ~Probe!Reached(a)
    PROVE  WalkOK(Probe!Advance(w, a))
<1>1. w.mx \in 1..NumMx /\ w.sessions + 1 \in Nat /\ ~Throttles(w)
  BY AnswerFacts, TunnelEndsAssumption DEF WalkOK, WalkPlace, Probe!Walk
<1>2. Probe!Begin(w.mx, 1).mx = w.mx
  BY DEF Probe!Begin
<1>3. ~Throttles(Probe!Begin(w.mx, 1))
  BY <1>1, <1>2 DEF Throttles, Kind
<1>4. /\ w.mx \in 1..(NumMx + 1) /\ w.mx + 1 \in 1..(NumMx + 1) /\ w.mx <= NumMx
  BY <1>1, TunnelEndsAssumption
<1>5. WalkOK(Probe!Begin(w.mx + 1, 0))
  BY <1>4, BeginFacts
<1>6. WalkOK([Probe!Begin(w.mx, 1) EXCEPT !.sessions = w.sessions + 1])
  BY <1>1, <1>3, <1>4, BeginFacts
<1> QED
  BY <1>5, <1>6 DEF Probe!Advance

\* A walk that has an answer: the outcome joins the controls or is the target's.
LEMMA WalkGrows ==
    ASSUME NEW w, WalkOK(w), w.at \in Talking, NEW v \in Probe!Walk,
           v.mx = w.mx, v.sessions = w.sessions + 1,
           v.at \in {"target", "more", "result"}, Len(v.controls) <= NumControls,
           v.at = "target" => Len(v.controls) = 1,
           v.at = "target" /\ Throttles(w) => v.sessions <= 1,
           v.at = "more" => Len(v.controls) < NumControls /\ Len(v.controls) > 0,
           Throttles(w) /\ Len(v.controls) > 0 => v.controls[1] = "accepted",
           WalkTruth(v)
    PROVE  WalkOK(v)
<1>1. w.mx <= NumMx
  BY DEF WalkOK, WalkPlace
<1>2. v.at # "idle" /\ v.at # "lead"
  OBVIOUS
<1>3. Throttles(v) <=> Throttles(w)
  BY DEF Kind, Throttles
<1>4. ASSUME v.at = "target" PROVE Len(v.controls) <= 1 /\ Len(v.controls) > 0
  <2>1. Len(v.controls) = 1
    BY <1>4
  <2> QED
    BY <2>1
<1>5. WalkPlace(v)
  BY <1>1, <1>2, <1>4 DEF WalkPlace
<1>6. WalkThrottled(v)
  BY <1>2, <1>3 DEF WalkThrottled
<1> QED
  BY <1>5, <1>6 DEF WalkOK

LEMMA ProbeLeadInv ==
    ASSUME ProbeInv, NEW t \in Racers, NEW a, Probe!ProbeLead(t, a)
    PROVE  ProbeInv'
<1> DEFINE w == walk[t]
           o == Probe!Outcome(a)
<1>1. w.at = "lead" /\ a \in Probe!Answers(w, FALSE)
  BY DEF Probe!ProbeLead, Probe!Probing
<1>2. WalkOK(w)
  BY DEF ProbeInv
<1>3. IF Probe!Reached(a)
      THEN Probe!Set(t, [w EXCEPT !.at = "target", !.controls = <<o>>, !.sessions = w.sessions + 1])
      ELSE Probe!Set(t, Probe!Advance(w, a))
  BY DEF Probe!ProbeLead
<1> HIDE DEF w, o
<1>4. /\ w.at \in Talking /\ w \in Probe!Walk /\ NumControls > 0 /\ w.mx <= NumMx
      /\ Throttles(w) => w.sessions = 0
  BY <1>1, <1>2 DEF WalkOK, WalkPlace, WalkThrottled, Talking
<1>5. CASE ~Probe!Reached(a)
  BY <1>1, <1>2, <1>3, <1>4, <1>5, AdvanceFacts, SetInv
<1>6. CASE Probe!Reached(a)
  <2> DEFINE cs == <<o>>
             n == w.sessions + 1
             v == [w EXCEPT !.at = "target", !.controls = cs, !.sessions = n]
  <2>1. /\ o \in Probe!Status
        /\ o = "accepted" => Kind(w) # "validating"
        /\ o = "rejected" => Kind(w) = "validating" \/ (Throttles(w) /\ ~(w.sessions < ThrottleAfter))
        /\ Throttles(w) /\ w.sessions < ThrottleAfter => o = "accepted"
    BY <1>1, AnswerFacts DEF o
  <2>2. w.sessions \in Nat /\ w.sessions + 1 \in Nat /\ (w.sessions = 0 => w.sessions < ThrottleAfter)
    BY <1>4, TunnelEndsAssumption DEF Probe!Walk
  <2>3. cs \in Seq(Probe!Status) /\ Len(cs) = 1 /\ cs[1] = o
    BY <2>1
  <2> HIDE DEF cs
  <2>4. /\ v \in Probe!Walk /\ v.at = "target" /\ v.mx = w.mx /\ v.controls = cs
        /\ v.target = w.target /\ v.sessions = w.sessions + 1
    <3>1. "target" \in Probe!Steps
      BY DEF Probe!Steps
    <3>2. n \in Nat /\ w \in Probe!Walk
      BY <1>4, <2>2
    <3> HIDE DEF n
    <3>3. /\ v \in Probe!Walk /\ v.at = "target" /\ v.mx = w.mx /\ v.controls = cs
          /\ v.target = w.target /\ v.sessions = n
      BY <2>3, <3>1, <3>2 DEF Probe!Walk
    <3> QED
      BY <3>3 DEF n
  <2> HIDE DEF v
  <2>5. Throttles(w) => o = "accepted" /\ v.sessions <= 1
    BY <1>4, <2>1, <2>2, <2>4
  <2>6. WalkTruth(v)
    <3>1. Kind(v) = Kind(w)
      BY <2>4 DEF Kind
    <3>2. \A i \in 1..Len(v.controls) : v.controls[i] = o
      <4>1. v.controls = cs
        BY <2>4
      <4>2. \A i \in 1..Len(cs) : cs[i] = o
        BY <2>3
      <4> QED
        BY <4>1, <4>2
    <3>3. o = "rejected" => Kind(w) # "accept_all"
      BY <2>1 DEF Throttles
    <3> QED
      BY <1>2, <2>1, <2>4, <3>1, <3>2, <3>3 DEF WalkOK, WalkTruth
  <2>7. Len(v.controls) = 1 /\ v.controls[1] = o /\ Len(v.controls) <= NumControls
    <3>1. v.controls = cs
      BY <2>4
    <3>2. Len(v.controls) = 1
      BY <2>3, <3>1
    <3>3. v.controls[1] = o
      BY <2>3, <3>1
    <3>4. 1 <= NumControls
      BY <1>4, TunnelEndsAssumption
    <3> QED
      BY <3>2, <3>3, <3>4
  <2>8. WalkOK(v)
    BY <1>2, <1>4, <2>4, <2>5, <2>6, <2>7, WalkGrows
  <2>9. Probe!Set(t, v)
    BY <1>3, <1>6 DEF v, cs
  <2> QED
    BY <2>8, <2>9, SetInv
<1> QED
  BY <1>5, <1>6

LEMMA ProbeTargetInv ==
    ASSUME ProbeInv, NEW t \in Racers, NEW a, Probe!ProbeTarget(t, a)
    PROVE  ProbeInv'
<1> DEFINE w == walk[t]
           o == Probe!Outcome(a)
           x == IF o = "accepted" /\ NumControls > 1 THEN "more" ELSE "result"
<1>1. w.at = "target" /\ a \in Probe!Answers(w, world.exists)
  BY DEF Probe!ProbeTarget, Probe!Probing
<1>2. WalkOK(w) /\ world.exists \in BOOLEAN
  BY DEF ProbeInv, Probe!Worlds
<1>3. IF Probe!Reached(a)
      THEN Probe!Set(t, [w EXCEPT !.at = x, !.target = o, !.sessions = w.sessions + 1])
      ELSE Probe!Set(t, Probe!Advance(w, a))
  BY DEF Probe!ProbeTarget
<1>4. x \in {"more", "result"} /\ (x = "more" => NumControls > 1)
  OBVIOUS
<1> HIDE DEF w, o, x
<1>5. /\ w.at \in Talking /\ w \in Probe!Walk /\ w.mx <= NumMx
      /\ Throttles(w) => w.sessions <= 1
      /\ Len(w.controls) <= 1 /\ (NumControls > 0 => Len(w.controls) > 0)
      /\ Len(w.controls) <= NumControls
      /\ Throttles(w) /\ Len(w.controls) > 0 => w.controls[1] = "accepted"
  BY <1>1, <1>2 DEF WalkOK, WalkPlace, WalkThrottled, Talking
<1>6. CASE ~Probe!Reached(a)
  BY <1>1, <1>2, <1>3, <1>5, <1>6, AdvanceFacts, SetInv
<1>7. CASE Probe!Reached(a)
  <2> DEFINE n == w.sessions + 1
             v == [w EXCEPT !.at = x, !.target = o, !.sessions = n]
  <2>1. /\ o \in Probe!Status
        /\ o = "accepted" => Kind(w) # "validating" \/ world.exists
        /\ o = "rejected" => \/ Kind(w) = "validating" /\ ~world.exists
                             \/ Throttles(w) /\ ~(w.sessions < ThrottleAfter)
    BY <1>1, <1>2, AnswerFacts DEF o
  <2>2. n \in Nat /\ (Throttles(w) => w.sessions < ThrottleAfter)
    <3>1. w.sessions \in Nat /\ ThrottleAfter > 1 /\ ThrottleAfter \in Nat
      BY <1>5, TunnelEndsAssumption DEF Probe!Walk
    <3> QED
      BY <1>5, <3>1
  <2>3. x \in Probe!Steps
    BY <1>4 DEF Probe!Steps
  <2> HIDE DEF n
  <2>4. /\ v \in Probe!Walk /\ v.at = x /\ v.mx = w.mx /\ v.controls = w.controls
        /\ v.target = o /\ v.sessions = n
    BY <1>5, <2>1, <2>2, <2>3 DEF Probe!Walk
  <2> HIDE DEF v
  <2>5. WalkTruth(v)
    <3>1. Kind(v) = Kind(w)
      BY <2>4 DEF Kind
    <3>2. o = "rejected" => ~world.exists
      BY <2>1, <2>2
    <3> QED
      BY <1>2, <2>1, <2>4, <3>1, <3>2 DEF WalkOK, WalkTruth
  <2>6. v.at = "more" => Len(v.controls) < NumControls /\ Len(v.controls) > 0
    <3>1. Len(w.controls) \in Nat /\ NumControls \in Nat
      BY <1>5, TunnelEndsAssumption DEF Probe!Walk
    <3>2. NumControls > 1 => Len(w.controls) < NumControls /\ Len(w.controls) > 0
      BY <1>5, <3>1
    <3> QED
      BY <1>4, <2>4, <3>2
  <2>7. /\ v.at \in {"target", "more", "result"} /\ v.at # "target" /\ Len(v.controls) <= NumControls
        /\ Throttles(w) /\ Len(v.controls) > 0 => v.controls[1] = "accepted"
    BY <1>4, <1>5, <2>4
  <2>8. WalkOK(v)
    BY <1>2, <1>5, <2>4, <2>5, <2>6, <2>7, WalkGrows DEF n
  <2>9. Probe!Set(t, v)
    BY <1>3, <1>7 DEF v, n
  <2> QED
    BY <2>8, <2>9, SetInv
<1> QED
  BY <1>6, <1>7

LEMMA ProbeMoreInv ==
    ASSUME ProbeInv, NEW t \in Racers, NEW a, Probe!ProbeMore(t, a)
    PROVE  ProbeInv'
<1> DEFINE w == walk[t]
           o == IF Probe!Reached(a) THEN Probe!Outcome(a) ELSE "unknown"
           x == IF Probe!Reached(a) /\ Len(w.controls) + 1 < NumControls THEN "more" ELSE "result"
           cs == Append(w.controls, o)
           n == w.sessions + 1
           v == [w EXCEPT !.at = x, !.controls = cs, !.sessions = n]
<1>1. w.at = "more" /\ a \in Probe!Answers(w, FALSE) /\ Probe!Set(t, v)
  BY DEF Probe!ProbeMore, Probe!Probing
<1>2. WalkOK(w)
  BY DEF ProbeInv
<1>3. x \in {"more", "result"} /\ (x = "more" => Len(w.controls) + 1 < NumControls) /\ x \in Probe!Steps
  BY DEF Probe!Steps
<1> HIDE DEF w, x
<1>4. /\ w.at \in Talking /\ w \in Probe!Walk /\ w.mx <= NumMx
      /\ Len(w.controls) < NumControls /\ Len(w.controls) > 0
      /\ Throttles(w) => w.controls[1] = "accepted"
      /\ n \in Nat /\ Len(w.controls) \in Nat /\ w.controls \in Seq(Probe!Status)
  <2>1. w \in Probe!Walk
    BY <1>2 DEF WalkOK
  <2> QED
    BY <1>1, <1>2, <2>1 DEF WalkOK, WalkPlace, WalkThrottled, Talking, Probe!Walk
<1>5. /\ o \in Probe!Status
      /\ o = "accepted" => Kind(w) # "validating"
      /\ o = "rejected" => Kind(w) # "accept_all"
  <2>1. /\ Probe!Outcome(a) \in Probe!Status
        /\ Probe!Outcome(a) = "accepted" => Kind(w) # "validating"
        /\ Probe!Outcome(a) = "rejected" => Kind(w) = "validating" \/ Throttles(w)
    BY <1>1, AnswerFacts
  <2> QED
    BY <2>1 DEF Throttles, Probe!Status
<1> HIDE DEF o
<1>6. /\ cs \in Seq(Probe!Status) /\ Len(cs) = Len(w.controls) + 1 /\ cs[Len(w.controls) + 1] = o
      /\ \A i \in 1..Len(w.controls) : cs[i] = w.controls[i]
  BY <1>4, <1>5
<1> HIDE DEF cs, n
<1>7. /\ v \in Probe!Walk /\ v.at = x /\ v.mx = w.mx /\ v.controls = cs
      /\ v.target = w.target /\ v.sessions = n
  BY <1>3, <1>4, <1>6 DEF Probe!Walk
<1> HIDE DEF v
<1>8. WalkTruth(v)
  <2>1. Kind(v) = Kind(w)
    BY <1>7 DEF Kind
  <2>2. ASSUME NEW i \in 1..Len(cs)
        PROVE  /\ cs[i] = "accepted" => Kind(w) # "validating"
               /\ cs[i] = "rejected" => Kind(w) # "accept_all"
    <3>1. CASE i \in 1..Len(w.controls)
      <4>1. cs[i] = w.controls[i]
        BY <1>6, <3>1
      <4> QED
        BY <1>2, <3>1, <4>1 DEF WalkOK, WalkTruth
    <3>2. CASE i = Len(w.controls) + 1
      BY <1>5, <1>6, <3>2
    <3> QED
      BY <1>4, <1>6, <2>2, <3>1, <3>2
  <2>3. v.controls = cs /\ v.target = w.target
    BY <1>7
  <2> QED
    BY <1>2, <2>1, <2>2, <2>3 DEF WalkOK, WalkTruth
<1>9. /\ v.at = "more" => Len(v.controls) < NumControls
      /\ Len(v.controls) <= NumControls /\ Len(v.controls) > 0
      /\ Throttles(w) => v.controls[1] = "accepted"
  <2>1. v.controls = cs
    BY <1>7
  <2>2. /\ Len(cs) > 0 /\ Len(cs) <= NumControls /\ 1 \in 1..Len(w.controls)
    BY <1>4, <1>6, TunnelEndsAssumption
  <2>3. cs[1] = w.controls[1]
    BY <1>6, <2>2
  <2> QED
    BY <1>3, <1>4, <1>6, <1>7, <2>1, <2>2, <2>3
<1>10. v.at \in {"target", "more", "result"} /\ v.at # "target" /\ v.sessions = w.sessions + 1
  BY <1>3, <1>7 DEF n
<1>11. WalkOK(v)
  BY <1>2, <1>4, <1>7, <1>8, <1>9, <1>10, WalkGrows
<1> QED
  BY <1>1, <1>11, SetInv

LEMMA CountPositive ==
    ASSUME NEW cs, NEW o, Probe!Count(cs, o) # 0
    PROVE  \E i \in 1..Len(cs) : cs[i] = o
<1> SUFFICES ASSUME ~ \E i \in 1..Len(cs) : cs[i] = o PROVE FALSE
  OBVIOUS
<1> DEFINE S == {i \in 1..Len(cs) : cs[i] = o}
<1>1. S = {}
  OBVIOUS
<1>2. Cardinality({}) = 0
  BY FS_EmptySet
<1>3. Probe!Count(cs, o) = Cardinality(S)
  BY DEF Probe!Count, Probe!Cardinality, Cardinality
<1> HIDE DEF S
<1> QED
  BY <1>1, <1>2, <1>3

\* What a code says of the destination.
CodeTrue(code) ==
    /\ code = 250 => world.exists /\ \E i \in 1..NumMx : world.kind[i] = "validating"
    /\ code = 550 => ~world.exists
    /\ code = 252 => \E i \in 1..NumMx : world.kind[i] # "validating"

\* The code of a walk is true: accepted controls tell a host that accepts
\* everybody, refused ones a host that validates, unless it is degraded.
LEMMA ReplyFacts ==
    ASSUME NEW w, WalkOK(w)
    PROVE  /\ Probe!probe_smtp_reply(w.target, w.controls) \in {0, 250, 252, 550}
           /\ CodeTrue(Probe!probe_smtp_reply(w.target, w.controls))
<1> DEFINE code == Probe!probe_smtp_reply(w.target, w.controls)
           cs == w.controls
<1>1. /\ code \in {0, 250, 252, 550}
      /\ code = 550 => w.target = "rejected"
      /\ code = 252 => w.target = "accepted" /\ cs # <<>> /\ Probe!Count(cs, "accepted") = Len(cs)
      /\ code = 250 => w.target = "accepted" /\ Probe!Count(cs, "rejected") > 0 /\ ~Probe!degraded(cs)
  BY DEF Probe!probe_smtp_reply
<1> HIDE DEF code
<1>2. /\ w \in Probe!Walk /\ cs \in Seq(Probe!Status) /\ Len(cs) \in Nat
      /\ w.target # "unknown" => w.mx \in 1..NumMx
  <2>1. w \in Probe!Walk /\ (w.target # "unknown" => w.mx <= NumMx)
    BY DEF WalkOK, WalkPlace
  <2> QED
    BY <2>1, TunnelEndsAssumption DEF Probe!Walk
<1>3. WalkTruth(w) /\ WalkThrottled(w)
  BY DEF WalkOK
<1>4. ASSUME code = 550 PROVE ~world.exists
  BY <1>1, <1>3, <1>4 DEF WalkTruth
<1>5. ASSUME code = 252 PROVE \E i \in 1..NumMx : world.kind[i] # "validating"
  <2>1. w.mx \in 1..NumMx
    BY <1>1, <1>2, <1>5
  <2>2. Len(cs) # 0
    BY <1>1, <1>2, <1>5
  <2>3. PICK i \in 1..Len(cs) : cs[i] = "accepted"
    BY <1>1, <1>5, <2>2, CountPositive
  <2>4. world.kind[w.mx] # "validating"
    BY <1>3, <2>3 DEF WalkTruth, Kind
  <2> QED
    BY <2>1, <2>4
<1>6. ASSUME code = 250 PROVE world.exists /\ \E i \in 1..NumMx : world.kind[i] = "validating"
  <2>1. w.mx \in 1..NumMx /\ w.target = "accepted"
    BY <1>1, <1>2, <1>6
  <2>2. PICK i \in 1..Len(cs) : cs[i] = "rejected"
    BY <1>1, <1>6, CountPositive
  <2>3. Kind(w) # "accept_all"
    BY <1>3, <2>2 DEF WalkTruth
  <2>4. ~Throttles(w)
    <3> SUFFICES ASSUME Throttles(w) PROVE FALSE
      OBVIOUS
    <3>1. w.mx <= NumMx /\ Len(cs) > 0
      BY <1>2, <2>1, <2>2, TunnelEndsAssumption
    <3>2. cs[1] = "accepted"
      BY <1>3, <3>1 DEF WalkThrottled
    <3>3. i # 1
      BY <2>2, <3>2
    <3>4. i \in 2..Len(cs) /\ cs # <<>>
      BY <1>2, <2>2, <3>1, <3>3
    <3>5. Probe!degraded(cs)
      BY <2>2, <3>2, <3>4 DEF Probe!degraded
    <3> QED
      BY <1>1, <1>6, <3>5
  <2>5. Kind(w) = "validating"
    BY <2>3, <2>4 DEF Throttles
  <2>6. world.exists
    BY <1>3, <2>1, <2>5 DEF WalkTruth
  <2> QED
    BY <2>1, <2>5, <2>6 DEF Kind
<1> QED
  BY <1>1, <1>4, <1>5, <1>6 DEF CodeTrue, code

LEMMA FinishInv ==
    ASSUME ProbeInv, NEW t \in Racers, NEW code \in {0, 250, 252, 550}, CodeTrue(code),
           Probe!Finish(t, code)
    PROVE  ProbeInv'
<1> DEFINE w == walk[t]
           v == [w EXCEPT !.at = "done"]
<1>1. /\ walk \in [Racers -> Probe!Walk] /\ WalkOK(w) /\ UNCHANGED world
      /\ walk' = [walk EXCEPT ![t] = v]
  BY DEF ProbeInv, Probe!Finish
<1>2. w \in Probe!Walk /\ "done" \in Probe!Steps
  BY <1>1 DEF Probe!Steps
<1> HIDE DEF w
<1>3. /\ v \in Probe!Walk /\ v.at = "done" /\ v.mx = w.mx /\ v.controls = w.controls
      /\ v.target = w.target /\ v.sessions = w.sessions
  BY <1>2 DEF Probe!Walk
<1> HIDE DEF v
<1>4. WalkOK(v)
  <2>1. Kind(v) = Kind(w) /\ (Throttles(v) <=> Throttles(w))
    BY <1>3 DEF Kind, Throttles
  <2> QED
    BY <1>1, <1>3, <2>1 DEF WalkOK, WalkPlace, WalkThrottled, WalkTruth, Talking
<1>5. walk' \in [Racers -> Probe!Walk] /\ walk'[t] = v /\ \A u \in Racers \ {t} : walk'[u] = walk[u]
  BY <1>1, <1>3
<1>6. \A u \in Racers : WalkOK(walk[u])'
  <2> TAKE u \in Racers
  <2>1. WalkOK(walk'[u])
    BY <1>4, <1>5 DEF ProbeInv
  <2> QED
    BY <1>1, <2>1 DEF WalkOK, WalkPlace, WalkThrottled, WalkTruth, Kind, Throttles, Talking
<1>7. reply' \in {reply, code, 451, 0}
  BY DEF Probe!Finish
<1>8. /\ reply' \in {0, 250, 252, 451, 550}
      /\ (Probe!ConfirmedExists /\ Probe!RejectedMeansAbsent /\ Probe!AcceptAllIsTrue)'
  BY <1>1, <1>7 DEF ProbeInv, CodeTrue, Probe!ConfirmedExists, Probe!RejectedMeansAbsent,
                    Probe!AcceptAllIsTrue
<1> QED
  BY <1>1, <1>5, <1>6, <1>8 DEF ProbeInv, Probe!Worlds

LEMMA ProbeStartInv ==
    ASSUME ProbeInv, Probe!Start \/ Probe!Deadline
    PROVE  ProbeInv'
<1>1. /\ UNCHANGED world /\ (reply' = reply \/ reply' = 451)
      /\ \/ walk' = walk
         \/ walk' = [t \in Racers |-> IF t \in world.healthy THEN Probe!Begin(1, 0) ELSE walk[t]]
  BY DEF Probe!Start, Probe!Deadline
<1>2. 1 \in 1..(NumMx + 1)
  BY TunnelEndsAssumption
<1>3. WalkOK(Probe!Begin(1, 0))
  BY <1>2, BeginFacts
<1>4. \A u \in Racers : WalkOK(walk'[u])
  BY <1>1, <1>3 DEF ProbeInv
<1>5. walk' \in [Racers -> Probe!Walk]
  <2>1. Probe!Begin(1, 0) \in Probe!Walk
    BY <1>3 DEF WalkOK
  <2> QED
    BY <1>1, <2>1 DEF ProbeInv
<1>6. \A u \in Racers : WalkOK(walk[u])'
  <2> TAKE u \in Racers
  <2>1. WalkOK(walk'[u])
    BY <1>4
  <2> QED
    BY <1>1, <2>1 DEF WalkOK, WalkPlace, WalkThrottled, WalkTruth, Kind, Throttles, Talking
<1> QED
  BY <1>1, <1>5, <1>6 DEF ProbeInv, Probe!Worlds, Probe!ConfirmedExists, Probe!RejectedMeansAbsent,
                          Probe!AcceptAllIsTrue

LEMMA ProbeStepInv ==
    ASSUME ProbeInv, Probe!Next
    PROVE  ProbeInv'
<1>1. CASE Probe!Start \/ Probe!Deadline
  BY <1>1, ProbeStartInv
<1>2. ASSUME NEW t \in Racers, Probe!ReceiveProbe(t) PROVE ProbeInv'
  <2>1. WalkOK(walk[t]) /\ Probe!Finish(t, Probe!probe_smtp_reply(walk[t].target, walk[t].controls))
    BY <1>2 DEF ProbeInv, Probe!ReceiveProbe
  <2> QED
    BY <2>1, ReplyFacts, FinishInv
<1>3. ASSUME NEW t \in Racers, Probe!TunnelFails(t) PROVE ProbeInv'
  <2>1. CodeTrue(0)
    BY DEF CodeTrue
  <2> QED
    BY <1>3, <2>1, FinishInv DEF Probe!TunnelFails
<1>4. ASSUME NEW t \in Racers, NEW a,
             Probe!ProbeLead(t, a) \/ Probe!ProbeTarget(t, a) \/ Probe!ProbeMore(t, a)
      PROVE  ProbeInv'
  BY <1>4, ProbeLeadInv, ProbeTargetInv, ProbeMoreInv
<1> QED
  BY <1>1, <1>2, <1>3, <1>4 DEF Probe!Next

LEMMA ProbeInit == Probe!Init => ProbeInv
<1> SUFFICES ASSUME Probe!Init PROVE ProbeInv
  OBVIOUS
<1> DEFINE w == [Probe!Begin(1, 0) EXCEPT !.at = "idle"]
<1>1. 1 \in 1..(NumMx + 1)
  BY TunnelEndsAssumption
<1>2. WalkOK(w)
  BY <1>1, BeginFacts
<1>3. walk = [t \in Racers |-> w]
  BY DEF Probe!Init
<1> HIDE DEF w
<1>4. w \in Probe!Walk
  BY <1>2 DEF WalkOK
<1> QED
  BY <1>2, <1>3, <1>4 DEF Probe!Init, ProbeInv, Probe!ConfirmedExists, Probe!RejectedMeansAbsent,
                          Probe!AcceptAllIsTrue

\* Whatever probe_smtp_reply answers definitively is true of the mailbox and of
\* its hosts, for any number of tunnels, MX hosts and controls, although hosts
\* of a domain differ or throttle, the walks of the tunnels race, and tunnels
\* fail or the deadline passes.
THEOREM ProbeAlwaysTruthful == Spec => []ProbeTruthful
<1> DEFINE I == part = "probe" => ProbeInv
<1>1. Init => I
  BY ProbeInit DEF Init
<1>2. I /\ [Next]_vars => I'
  <2> SUFFICES ASSUME I, [Next]_vars, part' = "probe" PROVE ProbeInv'
    OBVIOUS
  <2>1. part = "probe" /\ (Probe!Next \/ UNCHANGED probeVars)
    BY DEF Next, Only, vars
  <2>2. CASE Probe!Next
    BY <2>1, <2>2, ProbeStepInv
  <2>3. CASE UNCHANGED probeVars
    <3>1. ProbeInv /\ UNCHANGED <<world, walk, reply>>
      BY <2>1, <2>3 DEF probeVars
    <3> QED
      BY <3>1 DEF ProbeInv, WalkOK, WalkPlace, WalkThrottled, WalkTruth, Kind, Throttles, Talking,
                  Probe!Worlds, Probe!ConfirmedExists, Probe!RejectedMeansAbsent, Probe!AcceptAllIsTrue
  <2> QED
    BY <2>1, <2>2, <2>3
<1>3. I => ProbeTruthful
  BY DEF ProbeInv, WalkOK, ProbeTruthful, Probe!TypeOK
<1> QED
  BY <1>1, <1>2, <1>3, PTL DEF Spec

-----------------------------------------------------------------------------
(* One submission (SmtpSession).                                           *)

\* What the two ends hold.
Line == [line : Session!Lines, msg : Nat]
Codes == {221, 250, 354, 421, 451, 452, 500, 501, 503, 552, 554}
Reply == [to : Line, code : Codes]
ServerState == [helo : BOOLEAN, from : Nat, rcpts : Nat, mode : {"command", "data", "closed"}, lines : Nat]
ClientState == [msg : Nat, sent : Seq(Line), from : BOOLEAN, ok : Nat, body : Seq(Nat),
                done : Seq({"open", "sent", "deferred", "bounced"})]
Relayed == [msg : Nat, rcpts : Nat, lines : Nat]

SessionTypes ==
    /\ wire \in Seq(Line) /\ back \in Seq(Reply) /\ server \in ServerState /\ client \in ClientState
    /\ relayed \in Seq(Relayed)
    /\ client.msg <= MaxMessages /\ Len(client.body) = client.msg /\ Len(client.done) = client.msg
    /\ \A i \in 1..Len(wire) : wire[i].msg <= MaxMessages
    /\ server.rcpts <= MaxRcpts /\ server.lines <= MaxBody /\ server.from <= MaxMessages

\* Each message has one MAIL, and the server takes them in order: those it has
\* relayed come before the one in hand, which comes before those on the wire.
Mails == {"MAIL", "MAIL bad"}
Once ==
    /\ \A i \in 1..Len(wire) : wire[i].line \in Mails =>
          /\ server.from < wire[i].msg /\ wire[i].msg <= client.msg
          /\ \A k \in 1..Len(relayed) : relayed[k].msg < wire[i].msg
          /\ \A j \in 1..Len(wire) : j < i /\ wire[j].line \in Mails => wire[j].msg < wire[i].msg
    /\ server.from <= client.msg
    /\ server.mode = "data" => server.from > 0 /\ server.rcpts > 0
    /\ \A k \in 1..Len(relayed) :
          /\ relayed[k].msg <= client.msg /\ relayed[k].rcpts > 0
          /\ server.from > 0 => relayed[k].msg < server.from
          /\ \A j \in 1..Len(relayed) : j < k => relayed[j].msg < relayed[k].msg

\* The commands without a reply: the rest of an envelope, or a single command.
Envelope == Mails \cup {"RCPT", "RCPT bad"}
Pipelined ==
    \A i \in 1..Len(client.sent) :
        /\ client.sent[i].msg = client.msg
        /\ client.sent[i].line \notin {"EHLO", "QUIT"} => client.msg > 0
        /\ i > 1 => client.sent[i].line \notin Mails
        /\ i < Len(client.sent) => client.sent[i].line \in Envelope
        /\ i = Len(client.sent) => client.sent[i].line \in {"EHLO", "DATA", ".", "RSET", "QUIT"}
        /\ i = Len(client.sent) /\ i > 1 => client.sent[i].line = "DATA"

\* The first command without a reply read by the client.
First(lines) == client.sent # <<>> /\ client.sent[1].line \in lines

\* In step: each open command is answered or on the wire.
Matched ==
    /\ Len(client.sent) = Len(back) + Len(wire)
    /\ \A i \in 1..Len(back) : back[i].to = client.sent[i]
    /\ \A i \in 1..Len(wire) : wire[i] = client.sent[Len(back) + i]

\* The server reads a body once it has answered 354 and until the client knows.
Prompted ==
    /\ \A i \in 1..Len(back) : back[i].code = 354 => i = Len(back) /\ server.mode = "data"
    /\ server.mode = "data" => wire = <<>> /\ back # <<>> /\ back[Len(back)].code = 354 /\ server.lines = 0

\* No transaction is open between two messages.
Resting ==
    \/ client.sent = <<>>
    \/ First({"EHLO", "QUIT"})
    \/ back = <<>> /\ First(Mails)
    \/ back # <<>> /\ First({".", "RSET"})
Cleared == Resting => server.from = 0 /\ server.rcpts = 0

\* The recipients the client will know of when it has read all replies.
Adds(b) == IF b.to.line \in {"RCPT", "RCPT bad"} /\ b.code = 250 THEN 1 ELSE 0
Count(f, ok, replies, rcpts) ==
    /\ f[0] = ok /\ f[Len(replies)] = rcpts
    /\ \A i \in 1..Len(replies) : f[i] = f[i - 1] + Adds(replies[i])
Tallied == First(Envelope \cup {"DATA"}) => \E f \in [0..Len(back) -> Nat] : Count(f, client.ok, back, server.rcpts)

\* An answer to the dot speaks of what was relayed.
Handed ==
    First({"."}) =>
        /\ back # <<>>
        /\ back[1].code = 250 =>
              \E k \in 1..Len(relayed) : /\ relayed[k].msg = client.msg /\ relayed[k].rcpts = client.ok
                                         /\ relayed[k].lines = client.body[client.msg]

Aligned == Matched /\ Prompted /\ Cleared /\ Tallied /\ Handed

\* The body is on the wire, up to its dot, unless the session broke off.
InBody ==
    /\ back = <<>> /\ Len(client.sent) = 1 /\ First({"."}) /\ server.mode # "command"
    /\ server.mode = "data" =>
          /\ wire # <<>> /\ wire[Len(wire)] = client.sent[1] /\ server.rcpts = client.ok
          /\ \A i \in 1..Len(wire) : i < Len(wire) => wire[i].line \in {"text", "8bit"}
          /\ server.lines + Len(wire) = client.body[client.msg] + 1

InStep == Pipelined /\ server.from \in {0, client.msg} /\ (Aligned \/ InBody)

\* The body in hand was too long: its dot is answered by the refusal.
Overrun ==
    /\ client.msg > 0 /\ client.body[client.msg] > MaxBody
    /\ \A i \in 1..Len(client.sent) : client.sent[i].line \in {".", "QUIT"}
    /\ client.done[client.msg] = "open" => First({"."}) /\ back # <<>> /\ back[1].code = 552

EarlierFit == \A i \in 1..Len(client.body) : i < client.msg => client.body[i] <= MaxBody
SessionInv == SessionTypes /\ Once /\ (EarlierFit => InStep \/ Overrun)

-----------------------------------------------------------------------------
(* Steps of the server.                                                    *)

LEMMA SessionParams == MaxRcpts \in Nat /\ MaxBody \in Nat /\ MaxMessages \in Nat
BY SubmissionAssumption

LEMMA TailFacts ==
    ASSUME NEW T, NEW s \in Seq(T), s # <<>>
    PROVE  /\ Tail(s) \in Seq(T) /\ Len(s) \in Nat /\ Len(s) > 0 /\ Len(Tail(s)) = Len(s) - 1
           /\ Head(s) = s[1] /\ s[1] \in T
           /\ \A i \in 1..Len(Tail(s)) : Tail(s)[i] = s[i + 1]
OBVIOUS

LEMMA AppendFacts ==
    ASSUME NEW T, NEW s \in Seq(T), NEW e \in T
    PROVE  /\ Append(s, e) \in Seq(T) /\ Len(s) \in Nat /\ Len(Append(s, e)) = Len(s) + 1
           /\ Append(s, e)[Len(s) + 1] = e
           /\ \A i \in 1..Len(s) : Append(s, e)[i] = s[i]
OBVIOUS

\* The server takes a line from the wire, and may answer it.
Took ==
    /\ wire # <<>> /\ wire' \in Seq(Line) /\ Len(wire) \in Nat /\ Len(wire) > 0 /\ wire[1] \in Line
    /\ Len(wire') = Len(wire) - 1 /\ \A i \in 1..Len(wire') : wire'[i] = wire[i + 1]
Answered(c) ==
    /\ back' \in Seq(Reply) /\ Len(back) \in Nat /\ Len(back') = Len(back) + 1
    /\ back'[Len(back) + 1].to = wire[1] /\ back'[Len(back) + 1].code = c
    /\ \A i \in 1..Len(back) : back'[i] = back[i]

LEMMA TakeFacts ==
    ASSUME SessionTypes, wire # <<>>, wire' = Tail(wire)
    PROVE  Took /\ Head(wire) = wire[1]
BY TailFacts DEF SessionTypes, Took

LEMMA AnswerFacts2 ==
    ASSUME SessionTypes, wire # <<>>, NEW c \in Codes, Session!Answer(c)
    PROVE  Answered(c)
<1> DEFINE r == [to |-> Head(wire), code |-> c]
<1>1. wire[1] \in Line /\ Head(wire) = wire[1]
  BY TailFacts DEF SessionTypes
<1>2. r \in Reply /\ r.to = wire[1] /\ r.code = c
  BY <1>1 DEF Reply
<1>3. back' = Append(back, r) /\ back \in Seq(Reply)
  BY DEF Session!Answer, SessionTypes
<1> HIDE DEF r
<1> QED
  BY <1>2, <1>3, AppendFacts DEF Answered

\* What is left to show of a step of the server: its own state.
Served == Took /\ client' = client /\ (back' = back \/ \E c \in Codes : Answered(c))

LEMMA ServedTypes ==
    ASSUME SessionTypes, Served, server' \in ServerState, relayed' \in Seq(Relayed),
           server'.rcpts <= MaxRcpts, server'.lines <= MaxBody, server'.from <= MaxMessages
    PROVE  SessionTypes'
<1>1. wire' \in Seq(Line) /\ client' = client /\ back' \in Seq(Reply)
  BY DEF Served, Took, Answered, SessionTypes
<1>2. \A i \in 1..Len(wire') : wire'[i].msg <= MaxMessages
  <2>1. ASSUME NEW i \in 1..Len(wire')
        PROVE  i + 1 \in 1..Len(wire) /\ wire'[i] = wire[i + 1]
    BY DEF Served, Took
  <2> QED
    BY <2>1 DEF SessionTypes
<1> QED
  BY <1>1, <1>2 DEF SessionTypes

LEMMA ServedOnce ==
    ASSUME SessionTypes, Once, Served, relayed' = relayed, server' \in ServerState,
           \/ server'.from \in {0, server.from}
           \/ wire[1].line \in Mails /\ server'.from = wire[1].msg,
           server'.mode = "data" => server'.from > 0 /\ server'.rcpts > 0
    PROVE  Once'
<1>1. server.from \in Nat /\ server'.from \in Nat /\ client.msg \in Nat /\ Len(wire) \in Nat /\ Len(relayed) \in Nat
  BY DEF SessionTypes, ServerState, ClientState
<1>0. /\ \A i \in 1..Len(wire) : wire[i] \in Line /\ wire[i].msg \in Nat
      /\ \A k \in 1..Len(relayed) : relayed[k].msg \in Nat
  <2>1. ASSUME NEW i \in 1..Len(wire)
        PROVE  wire[i] \in Line /\ wire[i].msg \in Nat
    <3>1. wire[i] \in Line
      BY DEF SessionTypes
    <3> QED
      BY <3>1 DEF Line
  <2>2. ASSUME NEW k \in 1..Len(relayed)
        PROVE  relayed[k].msg \in Nat
    <3>1. relayed[k] \in Relayed
      BY DEF SessionTypes
    <3> QED
      BY <3>1 DEF Relayed
  <2> QED
    BY <2>1, <2>2
<1>2. client' = client /\ Len(wire') = Len(wire) - 1 /\ Len(wire) > 0 /\ \A i \in 1..Len(wire') : wire'[i] = wire[i + 1]
  BY DEF Served, Took
<1>3. ASSUME NEW i \in 1..Len(wire'), wire'[i].line \in Mails
      PROVE  /\ server'.from < wire'[i].msg /\ wire'[i].msg <= client.msg
             /\ \A k \in 1..Len(relayed) : relayed[k].msg < wire'[i].msg
             /\ \A j \in 1..Len(wire') : j < i /\ wire'[j].line \in Mails => wire'[j].msg < wire'[i].msg
  <2>0. i + 1 \in 1..Len(wire) /\ 1 \in 1..Len(wire) /\ 1 < i + 1 /\ i \in Nat
    BY <1>1, <1>2
  <2>1. wire'[i] = wire[i + 1]
    BY <1>2
  <2>2. /\ server.from < wire[i + 1].msg /\ wire[i + 1].msg <= client.msg
        /\ \A k \in 1..Len(relayed) : relayed[k].msg < wire[i + 1].msg
        /\ \A j \in 1..Len(wire) : j < i + 1 /\ wire[j].line \in Mails => wire[j].msg < wire[i + 1].msg
    BY <1>3, <2>0, <2>1 DEF Once
  <2>3. server'.from < wire'[i].msg
    BY <1>0, <1>1, <2>0, <2>1, <2>2
  <2>4. ASSUME NEW j \in 1..Len(wire'), j < i, wire'[j].line \in Mails
        PROVE  wire'[j].msg < wire'[i].msg
    <3>1. j + 1 \in 1..Len(wire) /\ j + 1 < i + 1 /\ wire'[j] = wire[j + 1]
      BY <1>1, <1>2, <2>0, <2>4
    <3> QED
      BY <2>1, <2>2, <2>4, <3>1
  <2> QED
    BY <2>1, <2>2, <2>3, <2>4
<1>4. server'.from <= client.msg
  <2>1. server.from <= client.msg /\ 1 \in 1..Len(wire)
    BY <1>1, <1>2 DEF Once
  <2> QED
    BY <1>0, <1>1, <2>1 DEF Once
<1>5. ASSUME NEW k \in 1..Len(relayed), server'.from > 0
      PROVE  relayed[k].msg < server'.from
  <2>1. 1 \in 1..Len(wire)
    BY <1>1, <1>2
  <2> QED
    BY <1>0, <1>1, <1>5, <2>1 DEF Once
<1>6. \A k \in 1..Len(relayed) :
          /\ relayed[k].msg <= client.msg /\ relayed[k].rcpts > 0
          /\ \A j \in 1..Len(relayed) : j < k => relayed[j].msg < relayed[k].msg
  BY DEF Once
<1> QED
  BY <1>2, <1>3, <1>4, <1>5, <1>6 DEF Once

LEMMA ServedOverrun ==
    ASSUME SessionTypes, Overrun, Served
    PROVE  Overrun'
BY DEF Overrun, Served, Answered, First, SessionTypes

\* An answer to a command keeps the two ends in step.
LEMMA AnswerInStep ==
    ASSUME SessionTypes, InStep, Aligned, Took, NEW c \in Codes, Answered(c), client' = client, relayed' = relayed,
           server.mode = "command", server' \in ServerState, server'.from \in {0, client.msg},
           server'.mode = "data" <=> c = 354, c = 354 => Len(wire) = 1 /\ server'.lines = 0,
           First({"EHLO", "QUIT", "RSET"}) => server'.from = 0 /\ server'.rcpts = 0,
           First(Envelope \cup {"DATA"}) => server'.rcpts = server.rcpts + Adds([to |-> wire[1], code |-> c])
    PROVE  InStep'
<1> DEFINE n == Len(back)
<1>1. /\ n \in Nat /\ Len(wire) \in Nat /\ Len(wire) > 0 /\ Len(wire') = Len(wire) - 1 /\ Len(wire') \in Nat
      /\ Len(back') = n + 1 /\ back' # <<>> /\ 1 \in 1..Len(wire)
  BY DEF Took, Answered, SessionTypes
<1>2. /\ back'[n + 1].to = wire[1] /\ back'[n + 1].code = c /\ \A i \in 1..n : back'[i] = back[i]
      /\ \A i \in 1..Len(wire') : wire'[i] = wire[i + 1]
  BY DEF Took, Answered
<1>3. /\ Len(client.sent) = n + Len(wire) /\ Len(client.sent) \in Nat
      /\ \A i \in 1..n : back[i].to = client.sent[i]
      /\ \A i \in 1..Len(wire) : wire[i] = client.sent[n + i]
  BY DEF Aligned, Matched, SessionTypes, ClientState
<1> HIDE DEF n
<1>4. Matched'
  <2>1. ASSUME NEW i \in 1..(n + 1) PROVE back'[i].to = client.sent[i]
    <3>1. CASE i \in 1..n
      BY <1>2, <1>3, <3>1
    <3>2. CASE i = n + 1
      BY <1>1, <1>2, <1>3, <3>2
    <3> QED
      BY <1>1, <3>1, <3>2
  <2>2. ASSUME NEW i \in 1..Len(wire')
        PROVE  wire'[i] = client.sent[(n + 1) + i]
    <3>1. i + 1 \in 1..Len(wire) /\ n + (i + 1) = (n + 1) + i
      BY <1>1
    <3> QED
      BY <1>2, <1>3, <3>1
  <2> QED
    BY <1>1, <1>3, <2>1, <2>2 DEF Matched
<1>5. Prompted'
  <2>1. \A i \in 1..n : back[i].code # 354
    BY DEF Aligned, Prompted, n
  <2>2. c = 354 => wire' = <<>>
    BY <1>1 DEF Took
  <2> QED
    BY <1>1, <1>2, <2>1, <2>2 DEF Prompted
<1>6. ~First({"."})
  <2>1. ASSUME First({"."}) PROVE FALSE
    <3>1. client.sent[1].line = "." /\ 1 \in 1..Len(client.sent) /\ back # <<>>
      BY <1>1, <1>3, <2>1 DEF First, Aligned, Handed
    <3>2. n > 0
      BY <1>1, <3>1 DEF n, SessionTypes
    <3>3. 1 < Len(client.sent)
      BY <1>1, <1>3, <3>2
    <3> QED
      BY <3>1, <3>3 DEF InStep, Pipelined, Envelope, Mails
  <2> QED
    BY <2>1
<1>7. Cleared' /\ Handed'
  <2>1. client.sent # <<>>
    BY <1>1, <1>3
  <2> QED
    BY <1>1, <1>6, <2>1 DEF Cleared, Resting, Handed, First
<1>8. Tallied'
  <2> SUFFICES ASSUME First(Envelope \cup {"DATA"}) PROVE \E f \in [0..(n + 1) -> Nat] : Count(f, client.ok, back', server'.rcpts)
    BY <1>1 DEF Tallied, First
  <2>1. PICK f \in [0..n -> Nat] : Count(f, client.ok, back, server.rcpts)
    BY DEF Aligned, Tallied, n
  <2> DEFINE g == [i \in 0..(n + 1) |-> IF i = n + 1 THEN server'.rcpts ELSE f[i]]
  <2>2. g \in [0..(n + 1) -> Nat]
    BY <1>1, <2>1 DEF ServerState
  <2>3. g[0] = client.ok /\ g[n + 1] = server'.rcpts /\ f[n] = server.rcpts
    BY <1>1, <2>1 DEF Count, n
  <2>4. ASSUME NEW i \in 1..(n + 1)
        PROVE  g[i] = g[i - 1] + Adds(back'[i])
    <3>1. CASE i = n + 1
      <4>1. Adds(back'[n + 1]) = Adds([to |-> wire[1], code |-> c])
        BY <1>2 DEF Adds
      <4>2. g[n + 1] = server'.rcpts /\ g[n] = server.rcpts /\ i - 1 = n
        BY <1>1, <2>3, <3>1
      <4> QED
        BY <3>1, <4>1, <4>2
    <3>2. CASE i # n + 1
      <4>1. i \in 1..n /\ i - 1 \in 0..n /\ i # n + 1 /\ i - 1 # n + 1 /\ i \in 0..(n + 1) /\ i - 1 \in 0..(n + 1)
        BY <1>1, <3>2
      <4>2. f[i] = f[i - 1] + Adds(back[i])
        BY <2>1, <4>1 DEF Count, n
      <4>3. g[i] = f[i] /\ g[i - 1] = f[i - 1] /\ back'[i] = back[i]
        BY <1>2, <4>1
      <4> QED
        BY <4>2, <4>3
    <3> QED
      BY <3>1, <3>2
  <2> HIDE DEF g
  <2>5. Count(g, client.ok, back', server'.rcpts)
    BY <1>1, <2>3, <2>4 DEF Count
  <2> QED
    BY <2>2, <2>5
<1> QED
  BY <1>4, <1>5, <1>7, <1>8 DEF InStep, Aligned, Pipelined

\* What the server reads when it expects a command.
LEMMA Reading ==
    ASSUME SessionTypes, InStep, Took, server.mode = "command"
    PROVE  /\ Aligned /\ wire[1].msg = client.msg /\ client.sent # <<>>
           /\ wire[1].line \in Envelope \cup {"EHLO", "DATA", "RSET", "QUIT"}
           /\ wire[1].line \in Mails => First(Mails) /\ server.from = 0 /\ server.rcpts = 0
           /\ wire[1].line \notin Envelope => Len(wire) = 1
           /\ wire[1].line \notin Envelope \cup {"DATA"} => client.sent[1].line = wire[1].line
           /\ First({"EHLO", "QUIT", "RSET"}) => wire[1].line = client.sent[1].line
           /\ First({"QUIT"}) => server.from = 0 /\ server.rcpts = 0
<1> DEFINE n == Len(back)
           m == Len(client.sent)
           x == wire[1].line
<1>1. Aligned
  BY DEF InStep, InBody
<1>0. n \in Nat /\ m \in Nat /\ Len(wire) \in Nat /\ Len(wire) > 0 /\ m = n + Len(wire)
  BY <1>1 DEF Took, Aligned, Matched, SessionTypes, ClientState
<1>2. n + 1 \in 1..m /\ 1 \in 1..m /\ wire[1] = client.sent[n + 1] /\ x = client.sent[n + 1].line
  <2>1. 1 \in 1..Len(wire) /\ n + 1 \in 1..m /\ 1 \in 1..m
    BY <1>0
  <2>2. wire[1] = client.sent[n + 1]
    BY <1>1, <2>1 DEF Aligned, Matched
  <2> QED
    BY <2>1, <2>2
<1>3. \A i \in 1..m : /\ client.sent[i].msg = client.msg
                      /\ i > 1 => client.sent[i].line \notin Mails
                      /\ i < m => client.sent[i].line \in Envelope
                      /\ i = m => client.sent[i].line \in {"EHLO", "DATA", ".", "RSET", "QUIT"}
                      /\ i = m /\ i > 1 => client.sent[i].line = "DATA"
  BY DEF InStep, Pipelined
<1>4. (First({"."}) => back # <<>>) /\ (Resting => server.from = 0 /\ server.rcpts = 0)
      /\ (n = 0 <=> back = <<>>) /\ client.sent # <<>>
  BY <1>0, <1>1 DEF Aligned, Handed, Cleared, SessionTypes
<1> HIDE DEF n, m, x
<1>5. x \notin Envelope => n + 1 = m
  BY <1>0, <1>2, <1>3
<1>6. x \notin Envelope \cup {"DATA"} => n = 0 /\ m = 1
  BY <1>0, <1>2, <1>3, <1>5
<1>7. x \in Mails => n = 0
  BY <1>0, <1>2, <1>3
<1>8. x # "."
  <2>1. ASSUME x = "." PROVE FALSE
    <3>1. n = 0
      BY <1>6, <2>1 DEF Envelope, Mails
    <3>2. n + 1 = 1
      BY <3>1
    <3>3. client.sent[1].line = "."
      BY <1>2, <2>1, <3>2
    <3> QED
      BY <1>4, <3>1, <3>3 DEF First
  <2> QED
    BY <2>1
<1>9. client.sent[1].line \in {"EHLO", "QUIT", "RSET"} => m = 1 /\ n = 0
  <2>1. 1 < m => client.sent[1].line \in Envelope
    BY <1>2, <1>3
  <2>2. client.sent[1].line \in {"EHLO", "QUIT", "RSET"} => ~(1 < m)
    BY <2>1 DEF Envelope, Mails
  <2> QED
    BY <1>0, <1>2, <2>2
<1>10. x \in Envelope \cup {"EHLO", "DATA", "RSET", "QUIT"}
  BY <1>2, <1>3, <1>5, <1>8
<1>11. x \in Mails => First(Mails) /\ server.from = 0 /\ server.rcpts = 0
  <2>1. n = 0 => n + 1 = 1
    OBVIOUS
  <2> QED
    BY <1>2, <1>4, <1>7, <2>1 DEF First, Resting
<1>12. wire[1].msg = client.msg /\ (x \notin Envelope => Len(wire) = 1)
  <2>1. client.sent[n + 1].msg = client.msg
    BY <1>2, <1>3
  <2>2. ASSUME n + 1 = m PROVE Len(wire) = 1
    <3> DEFINE w == Len(wire)
    <3>1. n + 1 = n + w /\ n \in Nat /\ w \in Nat
      BY <1>0, <2>2
    <3> HIDE DEF w
    <3>2. w = 1
      BY <3>1
    <3> QED
      BY <3>2 DEF w
  <2> QED
    BY <1>2, <1>5, <2>1, <2>2
<1>13. x \notin Envelope \cup {"DATA"} => client.sent[1].line = x
  <2>1. n = 0 => n + 1 = 1
    OBVIOUS
  <2> QED
    BY <1>2, <1>6, <2>1
<1>14. First({"EHLO", "QUIT", "RSET"}) => x = client.sent[1].line
  <2>1. n = 0 => n + 1 = 1
    OBVIOUS
  <2> QED
    BY <1>2, <1>9, <2>1 DEF First
<1>15. First({"QUIT"}) => server.from = 0 /\ server.rcpts = 0
  BY <1>4 DEF First, Resting
<1> QED
  BY <1>1, <1>4, <1>10, <1>11, <1>12, <1>13, <1>14, <1>15 DEF x

LEMMA ServedInv ==
    ASSUME SessionInv, Served, relayed' = relayed, server' \in ServerState,
           server'.rcpts <= MaxRcpts, server'.lines <= MaxBody, server'.from <= MaxMessages,
           \/ server'.from \in {0, server.from}
           \/ wire[1].line \in Mails /\ server'.from = wire[1].msg,
           server'.mode = "data" => server'.from > 0 /\ server'.rcpts > 0,
           InStep => InStep' \/ Overrun'
    PROVE  SessionInv'
<1>1. SessionTypes /\ Once /\ relayed' \in Seq(Relayed)
  BY DEF SessionInv, SessionTypes
<1>2. SessionTypes' /\ Once' /\ (Overrun => Overrun')
  BY <1>1, ServedTypes, ServedOnce, ServedOverrun
<1>3. EarlierFit' = EarlierFit
  BY DEF EarlierFit, Served
<1> QED
  BY <1>2, <1>3 DEF SessionInv

\* One command, one reply.
Obeyed(c) ==
    /\ Took /\ Answered(c) /\ client' = client /\ relayed' = relayed
    /\ server.mode = "command" /\ server' \in ServerState /\ server'.rcpts <= MaxRcpts /\ server'.lines <= MaxBody
    /\ \/ server'.from \in {0, server.from}
       \/ wire[1].line \in Mails /\ server'.from = wire[1].msg
    /\ server'.mode = "data" => server'.from > 0 /\ server'.rcpts > 0
    /\ (server'.mode = "data") <=> (c = 354)
    /\ c = 354 => wire[1].line = "DATA" /\ server'.lines = 0
    /\ wire[1].line \in {"EHLO", "RSET"} => server'.from = 0 /\ server'.rcpts = 0
    /\ wire[1].line = "QUIT" => server'.from = server.from /\ server'.rcpts = server.rcpts
    /\ wire[1].line \in {"RCPT", "RCPT bad"} =>
          server'.rcpts = server.rcpts + Adds([to |-> wire[1], code |-> c])
    /\ wire[1].line \in Mails => server'.rcpts \in {0, server.rcpts}
    /\ wire[1].line = "DATA" => server'.rcpts = server.rcpts

LEMMA CommandInv ==
    ASSUME SessionInv, NEW c \in Codes, Obeyed(c)
    PROVE  SessionInv'
<1>1. SessionTypes /\ Served
  BY DEF SessionInv, Served, Obeyed
<1>2. server'.from <= MaxMessages
  <2>1. Len(wire) \in Nat /\ Len(wire) > 0
    BY <1>1 DEF Served, Took
  <2>0. MaxMessages \in Nat
    BY SessionParams
  <2>2. 1 \in 1..Len(wire) /\ 0 <= MaxMessages
    BY <2>0, <2>1
  <2>3. wire[1].msg <= MaxMessages /\ server.from <= MaxMessages
    BY <1>1, <2>2 DEF SessionTypes
  <2> QED
    BY <2>2, <2>3 DEF Obeyed
<1>3. ASSUME InStep
      PROVE  InStep'
  <2>1. /\ Aligned /\ wire[1].msg = client.msg /\ client.sent # <<>>
        /\ wire[1].line \in Envelope \cup {"EHLO", "DATA", "RSET", "QUIT"}
        /\ wire[1].line \in Mails => First(Mails) /\ server.from = 0 /\ server.rcpts = 0
        /\ wire[1].line \notin Envelope => Len(wire) = 1
        /\ wire[1].line \notin Envelope \cup {"DATA"} => client.sent[1].line = wire[1].line
        /\ First({"EHLO", "QUIT", "RSET"}) => wire[1].line = client.sent[1].line
        /\ First({"QUIT"}) => server.from = 0 /\ server.rcpts = 0
    BY <1>1, <1>3, Reading DEF Obeyed
  <2>2. server'.from \in {0, client.msg}
    BY <1>3, <2>1 DEF InStep, Obeyed
  <2>3. c = 354 => Len(wire) = 1
    BY <2>1 DEF Envelope, Mails, Obeyed
  <2>4. ASSUME First({"EHLO", "QUIT", "RSET"})
        PROVE  server'.from = 0 /\ server'.rcpts = 0
    <3>1. wire[1].line \in {"EHLO", "QUIT", "RSET"} /\ wire[1].line = client.sent[1].line
      BY <2>1, <2>4 DEF First
    <3>2. CASE wire[1].line = "QUIT"
      BY <2>1, <3>1, <3>2 DEF First, Obeyed
    <3>3. CASE wire[1].line \in {"EHLO", "RSET"}
      BY <3>3 DEF Obeyed
    <3> QED
      BY <3>1, <3>2, <3>3
  <2>5. ASSUME First(Envelope \cup {"DATA"})
        PROVE  server'.rcpts = server.rcpts + Adds([to |-> wire[1], code |-> c])
    <3>1. server.rcpts \in Nat
      BY <1>1 DEF SessionTypes, ServerState
    <3>2. wire[1].line \in Envelope \cup {"DATA"}
      BY <2>1, <2>5 DEF First, Envelope, Mails
    <3>3. CASE wire[1].line \in {"RCPT", "RCPT bad"}
      BY <3>3 DEF Obeyed
    <3>4. CASE wire[1].line \in Mails \cup {"DATA"}
      <4>1. server'.rcpts = server.rcpts
        BY <2>1, <3>4 DEF Obeyed, Mails
      <4>2. Adds([to |-> wire[1], code |-> c]) = 0
        BY <3>4 DEF Adds, Mails
      <4>3. server.rcpts + 0 = server.rcpts
        BY <3>1
      <4> QED
        BY <4>1, <4>2, <4>3
    <3> QED
      BY <3>2, <3>3, <3>4 DEF Envelope
  <2> QED
    BY <1>1, <1>3, <2>1, <2>2, <2>3, <2>4, <2>5, AnswerInStep DEF Obeyed
<1> QED
  BY <1>1, <1>2, <1>3, ServedInv DEF Obeyed

LEMMA CommandFacts ==
    ASSUME SessionInv, NEW l, Session!ServerReads(l), NEW c \in Codes, Session!Answer(c),
           UNCHANGED <<client, relayed>>
    PROVE  /\ Took /\ Answered(c) /\ client' = client /\ relayed' = relayed /\ server.mode = "command"
           /\ wire[1].line = l /\ Head(wire) = wire[1] /\ wire[1].msg \in Nat /\ wire[1].msg <= MaxMessages
           /\ server \in ServerState /\ server.rcpts <= MaxRcpts /\ server.lines <= MaxBody
           /\ server.mode = "data" => server.from > 0 /\ server.rcpts > 0
<1>1. SessionTypes /\ Once
  BY DEF SessionInv
<1>2. wire # <<>> /\ wire' = Tail(wire) /\ server.mode = "command" /\ Head(wire).line = l
  BY DEF Session!ServerReads
<1>3. Took /\ Head(wire) = wire[1] /\ Answered(c)
  BY <1>1, <1>2, TakeFacts, AnswerFacts2
<1>4. wire[1] \in Line /\ Len(wire) \in Nat /\ Len(wire) > 0
  BY <1>3 DEF Took
<1>5. 1 \in 1..Len(wire)
  BY <1>4
<1> QED
  BY <1>1, <1>2, <1>3, <1>4, <1>5 DEF SessionTypes, Line

LEMMA FreshFacts ==
    ASSUME NEW h \in BOOLEAN
    PROVE  LET s == [Session!Fresh EXCEPT !.helo = h]
           IN  /\ s \in ServerState /\ s.from = 0 /\ s.rcpts = 0 /\ s.mode = "command" /\ s.lines = 0
BY DEF Session!Fresh, ServerState

LEMMA ResetInv ==
    ASSUME SessionInv, Session!ServeEhlo \/ Session!ServeRset
    PROVE  SessionInv'
<1>1. PICK h \in BOOLEAN, l \in {"EHLO", "RSET"}, c \in {250} :
         /\ Session!ServerReads(l) /\ Session!Answer(c) /\ UNCHANGED <<client, relayed>>
         /\ server' = [Session!Fresh EXCEPT !.helo = h]
  <2>1. server.helo \in BOOLEAN
    BY DEF SessionInv, SessionTypes, ServerState
  <2> QED
    BY <2>1 DEF Session!ServeEhlo, Session!ServeRset
<1>2. c \in Codes /\ c # 354 /\ MaxRcpts \in Nat /\ MaxBody \in Nat
  BY SessionParams DEF Codes
<1>3. /\ Took /\ Answered(c) /\ client' = client /\ relayed' = relayed /\ server.mode = "command"
      /\ wire[1].line = l
  BY <1>1, <1>2, CommandFacts
<1>4. server' \in ServerState /\ server'.from = 0 /\ server'.rcpts = 0 /\ server'.mode = "command" /\ server'.lines = 0
  BY <1>1, FreshFacts
<1>5. Obeyed(c)
  <2>1. wire[1].line \in {"EHLO", "RSET"} /\ server'.mode # "data"
    BY <1>1, <1>3, <1>4
  <2>2. server'.rcpts <= MaxRcpts /\ server'.lines <= MaxBody
    BY <1>2, <1>4
  <2> QED
    BY <1>2, <1>3, <1>4, <2>1, <2>2 DEF Obeyed, Mails
<1> QED
  BY <1>2, <1>5, CommandInv

LEMMA MailInv ==
    ASSUME SessionInv, NEW l, Session!ServeMail(l)
    PROVE  SessionInv'
<1> DEFINE Reads(c) == /\ Session!ServerReads(l) /\ Session!Answer(c) /\ UNCHANGED <<client, relayed>> /\ l \in Mails
                       /\ \/ server' = server
                          \/ server' = [server EXCEPT !.from = Head(wire).msg, !.rcpts = 0]
<1>1. PICK c \in {250, 501, 503} : Reads(c)
  <2>1. l \in Mails /\ Session!ServerReads(l) /\ UNCHANGED <<client, relayed>>
    BY DEF Session!ServeMail, Mails
  <2>2. CASE ~server.helo
    <3>1. Session!Answer(503) /\ server' = server
      BY <2>2, Zenon DEF Session!ServeMail
    <3> QED
      <4>1. Reads(503)
        BY <2>1, <3>1, Zenon
      <4> HIDE DEF Reads
      <4> QED
        BY <4>1
  <2>3. CASE server.helo /\ l = "MAIL bad"
    <3>1. Session!Answer(501) /\ server' = server
      BY <2>3, Zenon DEF Session!ServeMail
    <3> QED
      <4>1. Reads(501)
        BY <2>1, <3>1, Zenon
      <4> HIDE DEF Reads
      <4> QED
        BY <4>1
  <2>4. CASE server.helo /\ l # "MAIL bad"
    <3>1. Session!Answer(250) /\ server' = [server EXCEPT !.from = Head(wire).msg, !.rcpts = 0]
      BY <2>4, Zenon DEF Session!ServeMail
    <3> QED
      <4>1. Reads(250)
        BY <2>1, <3>1, Zenon
      <4> HIDE DEF Reads
      <4> QED
        BY <4>1
  <2> QED
    BY <2>2, <2>3, <2>4
<1>2. c \in Codes /\ MaxRcpts \in Nat /\ c # 354
  BY SessionParams DEF Codes
<1>3. /\ Took /\ Answered(c) /\ client' = client /\ relayed' = relayed /\ server.mode = "command"
      /\ wire[1].line = l /\ Head(wire) = wire[1] /\ wire[1].msg \in Nat
      /\ server \in ServerState /\ server.rcpts <= MaxRcpts /\ server.lines <= MaxBody
  BY <1>1, <1>2, CommandFacts
<1>4. /\ server' \in ServerState /\ server'.mode = "command" /\ server'.lines = server.lines
      /\ server'.rcpts \in {0, server.rcpts} /\ server'.from \in {server.from, wire[1].msg}
  <2>1. CASE server' = server
    BY <1>3, <2>1
  <2>2. CASE server' = [server EXCEPT !.from = wire[1].msg, !.rcpts = 0]
    BY <1>3, <2>2 DEF ServerState
  <2> QED
    BY <1>1, <1>3, <2>1, <2>2
<1>5. server'.rcpts <= MaxRcpts
  BY <1>2, <1>3, <1>4
<1>6. Obeyed(c)
  <2>1. wire[1].line \in Mails /\ wire[1].line \notin {"EHLO", "RSET", "QUIT", "RCPT", "RCPT bad", "DATA"}
    BY <1>1, <1>3 DEF Mails
  <2>2. server'.mode # "data" /\ server'.lines <= MaxBody
    BY <1>3, <1>4
  <2> QED
    BY <1>2, <1>3, <1>4, <1>5, <2>1, <2>2 DEF Obeyed
<1> QED
  BY <1>2, <1>6, CommandInv

LEMMA RcptInv ==
    ASSUME SessionInv, NEW l, Session!ServeRcpt(l)
    PROVE  SessionInv'
<1>1. /\ l \in {"RCPT", "RCPT bad"} /\ Session!ServerReads(l) /\ UNCHANGED <<client, relayed>>
      /\ \/ (Session!Answer(503) \/ Session!Answer(452) \/ Session!Answer(501)) /\ server' = server
         \/ /\ server' = [server EXCEPT !.rcpts = @ + 1] /\ Session!Answer(250)
            /\ ~(server.rcpts >= MaxRcpts)
  <2>1. l \in {"RCPT", "RCPT bad"} /\ Session!ServerReads(l) /\ UNCHANGED <<client, relayed>>
    BY Zenon DEF Session!ServeRcpt
  <2>2. CASE server.from = 0
    <3>1. Session!Answer(503) /\ server' = server
      BY <2>2, Zenon DEF Session!ServeRcpt
    <3> QED
      BY <2>1, <3>1, Zenon
  <2>3. CASE server.from # 0 /\ server.rcpts >= MaxRcpts
    <3>1. Session!Answer(452) /\ server' = server
      BY <2>3, Zenon DEF Session!ServeRcpt
    <3> QED
      BY <2>1, <3>1, Zenon
  <2>4. CASE server.from # 0 /\ ~(server.rcpts >= MaxRcpts)
    <3>1. \/ Session!Answer(501) /\ server' = server
          \/ server' = [server EXCEPT !.rcpts = @ + 1] /\ Session!Answer(250)
      BY <2>4, Zenon DEF Session!ServeRcpt
    <3> QED
      BY <2>1, <2>4, <3>1, Zenon
  <2> QED
    BY <2>2, <2>3, <2>4
<1>2. MaxRcpts \in Nat
  BY SessionParams
<1>3. ASSUME NEW c \in Codes, Session!Answer(c), c # 354,
             \/ server' = server /\ c # 250
             \/ server' = [server EXCEPT !.rcpts = @ + 1] /\ c = 250 /\ ~(server.rcpts >= MaxRcpts)
      PROVE  SessionInv'
  <2>0. Session!ServerReads(l) /\ Session!Answer(c) /\ UNCHANGED <<client, relayed>>
    BY <1>1, <1>3, Zenon
  <2>1. /\ Took /\ Answered(c) /\ client' = client /\ relayed' = relayed /\ server.mode = "command"
        /\ wire[1].line = l
        /\ server \in ServerState /\ server.rcpts <= MaxRcpts /\ server.lines <= MaxBody
    BY <2>0, CommandFacts
  <2>2. Adds([to |-> wire[1], code |-> c]) = IF c = 250 THEN 1 ELSE 0
    BY <1>1, <2>1 DEF Adds
  <2>3. /\ server' \in ServerState /\ server'.mode = "command" /\ server'.lines = server.lines
        /\ server'.from = server.from /\ server'.rcpts <= MaxRcpts
        /\ server'.rcpts = server.rcpts + (IF c = 250 THEN 1 ELSE 0)
    <3>1. server.rcpts \in Nat
      BY <2>1 DEF ServerState
    <3>2. CASE server' = server /\ c # 250
      BY <2>1, <3>1, <3>2
    <3>3. CASE server' = [server EXCEPT !.rcpts = @ + 1] /\ c = 250 /\ ~(server.rcpts >= MaxRcpts)
      BY <1>2, <2>1, <3>1, <3>3 DEF ServerState
    <3> QED
      BY <1>3, <3>2, <3>3
  <2>4. /\ wire[1].line \notin {"EHLO", "RSET", "QUIT", "DATA", "MAIL", "MAIL bad"} /\ server'.mode # "data"
        /\ server'.rcpts = server.rcpts + Adds([to |-> wire[1], code |-> c])
    BY <1>1, <2>1, <2>2, <2>3
  <2>5. Obeyed(c)
    BY <1>3, <2>1, <2>3, <2>4 DEF Obeyed, Mails
  <2> QED
    BY <1>3, <2>5, CommandInv
<1>4. /\ 250 \in Codes /\ 452 \in Codes /\ 501 \in Codes /\ 503 \in Codes
      /\ 452 # 250 /\ 501 # 250 /\ 503 # 250 /\ 250 # 354 /\ 452 # 354 /\ 501 # 354 /\ 503 # 354
  BY DEF Codes
<1>5. CASE (Session!Answer(503) \/ Session!Answer(452) \/ Session!Answer(501)) /\ server' = server
  <2>1. CASE Session!Answer(503)
    BY <1>3, <1>4, <1>5, <2>1
  <2>2. CASE Session!Answer(452)
    BY <1>3, <1>4, <1>5, <2>2
  <2>3. CASE Session!Answer(501)
    BY <1>3, <1>4, <1>5, <2>3
  <2> QED
    BY <1>5, <2>1, <2>2, <2>3
<1>6. CASE server' = [server EXCEPT !.rcpts = @ + 1] /\ Session!Answer(250) /\ ~(server.rcpts >= MaxRcpts)
  BY <1>3, <1>4, <1>6
<1> QED
  BY <1>1, <1>5, <1>6, Zenon

LEMMA DataInv ==
    ASSUME SessionInv, Session!ServeData
    PROVE  SessionInv'
<1>1. PICK c \in {354, 503} :
         /\ Session!ServerReads("DATA") /\ Session!Answer(c) /\ UNCHANGED <<client, relayed>>
         /\ \/ server' = server /\ c = 503
            \/ /\ server' = [server EXCEPT !.mode = "data", !.lines = 0] /\ c = 354
               /\ server.from # 0 /\ server.rcpts # 0
  BY DEF Session!ServeData
<1>2. c \in Codes /\ MaxBody \in Nat
  BY SessionParams DEF Codes
<1>3. /\ Took /\ Answered(c) /\ client' = client /\ relayed' = relayed /\ server.mode = "command"
      /\ wire[1].line = "DATA"
      /\ server \in ServerState /\ server.rcpts <= MaxRcpts /\ server.lines <= MaxBody
  BY <1>1, <1>2, CommandFacts
<1>4. /\ server' \in ServerState /\ server'.from = server.from /\ server'.rcpts = server.rcpts
      /\ (server'.mode = "data" <=> c = 354) /\ (c = 354 => server'.lines = 0) /\ server'.lines <= MaxBody
      /\ (c = 354 => server'.from > 0 /\ server'.rcpts > 0)
  <2>1. server.from \in Nat /\ server.rcpts \in Nat /\ server.lines \in Nat
    BY <1>3 DEF ServerState
  <2>2. CASE server' = server /\ c = 503
    BY <1>3, <2>2
  <2>3. CASE /\ server' = [server EXCEPT !.mode = "data", !.lines = 0] /\ c = 354
             /\ server.from # 0 /\ server.rcpts # 0
    <3>1. /\ server' \in ServerState /\ server'.from = server.from /\ server'.rcpts = server.rcpts
          /\ server'.mode = "data" /\ server'.lines = 0
      <4>1. server' = [server EXCEPT !.mode = "data", !.lines = 0] /\ server \in ServerState
        BY <1>3, <2>3
      <4> QED
        BY <4>1 DEF ServerState
    <3>2. server.from > 0 /\ server.rcpts > 0 /\ 0 <= MaxBody
      BY <1>2, <2>1, <2>3
    <3> QED
      BY <2>3, <3>1, <3>2
  <2> QED
    BY <1>1, <2>2, <2>3
<1>6. Obeyed(c)
  BY <1>3, <1>4 DEF Obeyed, Mails
<1> QED
  BY <1>2, <1>6, CommandInv

LEMMA QuitInv ==
    ASSUME SessionInv, Session!ServeQuit
    PROVE  SessionInv'
<1>1. /\ Session!ServerReads("QUIT") /\ Session!Answer(221) /\ UNCHANGED <<client, relayed>>
      /\ server' = [server EXCEPT !.mode = "closed"]
  BY DEF Session!ServeQuit
<1>2. 221 \in Codes
  BY DEF Codes
<1>3. /\ Took /\ Answered(221) /\ client' = client /\ relayed' = relayed /\ server.mode = "command"
      /\ wire[1].line = "QUIT"
      /\ server \in ServerState /\ server.rcpts <= MaxRcpts /\ server.lines <= MaxBody
  BY <1>1, <1>2, CommandFacts
<1>4. /\ server' \in ServerState /\ server'.from = server.from /\ server'.rcpts = server.rcpts
      /\ server'.mode = "closed" /\ server'.lines = server.lines
  BY <1>1, <1>3 DEF ServerState
<1>6. Obeyed(221)
  BY <1>3, <1>4 DEF Obeyed, Mails
<1> QED
  BY <1>2, <1>6, CommandInv

\* A body line among the commands: only after the ends have lost step.
LEMMA UnknownInv ==
    ASSUME SessionInv, NEW l, Session!ServeUnknown(l)
    PROVE  SessionInv'
<1>1. /\ Session!ServerReads(l) /\ l \in {"text", ".", "8bit"} /\ UNCHANGED <<client, relayed>>
      /\ \/ server' = [server EXCEPT !.mode = "closed"] /\ back' = back
         \/ server' = server /\ Session!Answer(500)
  BY DEF Session!ServeUnknown
<1>2. SessionTypes /\ wire # <<>> /\ wire' = Tail(wire) /\ server.mode = "command" /\ Head(wire).line = l
  BY <1>1 DEF SessionInv, Session!ServerReads
<1>3. Took /\ Head(wire) = wire[1] /\ 500 \in Codes
  BY <1>2, TakeFacts DEF Codes
<1>4. Session!Answer(500) => Answered(500)
  BY <1>2, <1>3, AnswerFacts2
<1>5. Served /\ relayed' = relayed
  BY <1>1, <1>3, <1>4 DEF Served
<1>6. server \in ServerState /\ server.rcpts <= MaxRcpts /\ server.lines <= MaxBody /\ server.from <= MaxMessages
  BY <1>2 DEF SessionTypes
<1>7. /\ server' \in ServerState /\ server'.from = server.from /\ server'.rcpts = server.rcpts
      /\ server'.lines = server.lines /\ server'.mode # "data"
  BY <1>1, <1>2, <1>6 DEF ServerState
<1>8. ~InStep
  <2>1. ASSUME InStep PROVE FALSE
    <3>1. wire[1].line \in Envelope \cup {"EHLO", "DATA", "RSET", "QUIT"}
      BY <1>2, <1>3, <2>1, Reading
    <3> QED
      BY <1>1, <1>2, <1>3, <3>1 DEF Envelope, Mails
  <2> QED
    BY <2>1
<1> QED
  BY <1>5, <1>6, <1>7, <1>8, ServedInv

-----------------------------------------------------------------------------
(* Steps of the server: a body.                                            *)

LEMMA LengthFacts ==
    ASSUME NEW T, NEW s \in Seq(T)
    PROVE  Len(s) \in Nat /\ (s = <<>> <=> Len(s) = 0)
OBVIOUS

\* The server that reads a body in step has the body in hand.
LEMMA BodyFacts ==
    ASSUME SessionInv, server.mode = "data", wire # <<>>, wire' = Tail(wire)
    PROVE  /\ Took /\ Head(wire) = wire[1] /\ server.from \in Nat /\ server.from > 0 /\ server.rcpts > 0
           /\ server \in ServerState /\ server.rcpts <= MaxRcpts /\ server.lines <= MaxBody
           /\ server.from <= MaxMessages /\ server.lines \in Nat /\ server.rcpts \in Nat
           /\ InStep => InBody /\ Pipelined /\ server.from = client.msg /\ wire[Len(wire)] = client.sent[1]
                        /\ server.rcpts = client.ok /\ client.sent[1].line = "." /\ back = <<>> /\ Len(client.sent) = 1
                        /\ (\A i \in 1..Len(wire) : i < Len(wire) => wire[i].line \in {"text", "8bit"})
                        /\ server.lines + Len(wire) = client.body[client.msg] + 1
<1>1. SessionTypes /\ Once
  BY DEF SessionInv
<1>2. Took /\ Head(wire) = wire[1]
  BY <1>1, TakeFacts
<1>3. /\ server \in ServerState /\ server.rcpts <= MaxRcpts /\ server.lines <= MaxBody
      /\ server.from <= MaxMessages /\ server.lines \in Nat /\ server.rcpts \in Nat /\ server.from \in Nat
  BY <1>1 DEF SessionTypes, ServerState
<1>4. server.from > 0 /\ server.rcpts > 0
  BY <1>1 DEF Once
<1>5. ASSUME InStep
      PROVE  InBody /\ Pipelined /\ server.from = client.msg
  <2>1. ~Aligned
    BY DEF Aligned, Prompted
  <2> QED
    BY <1>3, <1>4, <1>5, <2>1 DEF InStep
<1> QED
  BY <1>2, <1>3, <1>4, <1>5 DEF InBody, First

LEMMA BodyLineInv ==
    ASSUME SessionInv, Session!ReadBodyLine
    PROVE  SessionInv'
<1>1. /\ server.mode = "data" /\ wire # <<>> /\ Head(wire).line \notin {".", "8bit"} /\ wire' = Tail(wire)
      /\ client' = client /\ relayed' = relayed
      /\ \/ /\ server.lines + 1 > MaxBody /\ Session!Answer(552)
            /\ server' = [server EXCEPT !.mode = "command", !.from = 0, !.rcpts = 0]
         \/ ~(server.lines + 1 > MaxBody) /\ server' = [server EXCEPT !.lines = @ + 1] /\ back' = back
  BY DEF Session!ReadBodyLine
<1>2. /\ Took /\ Head(wire) = wire[1] /\ server.from \in Nat /\ server.from > 0 /\ server.rcpts > 0
      /\ server \in ServerState /\ server.rcpts <= MaxRcpts /\ server.lines <= MaxBody
      /\ server.from <= MaxMessages /\ server.lines \in Nat /\ server.rcpts \in Nat
  BY <1>1, BodyFacts
<1>3. SessionTypes /\ 552 \in Codes /\ MaxBody \in Nat /\ MaxRcpts \in Nat /\ MaxMessages \in Nat
  BY SessionParams DEF SessionInv, Codes
<1>4. ASSUME InStep
      PROVE  /\ InBody /\ Pipelined /\ server.from = client.msg /\ wire[Len(wire)] = client.sent[1]
             /\ server.rcpts = client.ok /\ client.sent[1].line = "." /\ back = <<>> /\ Len(client.sent) = 1
             /\ \A i \in 1..Len(wire) : i < Len(wire) => wire[i].line \in {"text", "8bit"}
             /\ server.lines + Len(wire) = client.body[client.msg] + 1
             /\ Len(wire) \in Nat /\ Len(wire) > 1 /\ client.body[client.msg] \in Nat
  <2>1. /\ InBody /\ Pipelined /\ server.from = client.msg /\ wire[Len(wire)] = client.sent[1]
        /\ server.rcpts = client.ok /\ client.sent[1].line = "." /\ back = <<>> /\ Len(client.sent) = 1
        /\ \A i \in 1..Len(wire) : i < Len(wire) => wire[i].line \in {"text", "8bit"}
        /\ server.lines + Len(wire) = client.body[client.msg] + 1
    BY <1>1, <1>4, BodyFacts
  <2>2. Len(wire) \in Nat /\ Len(wire) > 0 /\ Len(wire) # 1
    BY <1>1, <1>2, <2>1 DEF Took
  <2>3. client.msg \in 1..Len(client.body) /\ client.body \in Seq(Nat)
    <3>1. client.body \in Seq(Nat) /\ client.msg = Len(client.body)
      BY <1>3 DEF SessionTypes, ClientState
    <3> QED
      BY <1>2, <2>1, <3>1
  <2>4. Len(wire) > 1
    <3> DEFINE w == Len(wire)
    <3>1. w \in Nat /\ w > 0 /\ w # 1
      BY <2>2
    <3> HIDE DEF w
    <3>2. w > 1
      BY <3>1
    <3> QED
      BY <3>2 DEF w
  <2>5. client.body[client.msg] \in Nat
    BY <2>3
  <2> QED
    BY <2>1, <2>2, <2>4, <2>5
<1>5. CASE server.lines + 1 > MaxBody
  <2>1. Answered(552) /\ server' = [server EXCEPT !.mode = "command", !.from = 0, !.rcpts = 0]
    BY <1>1, <1>3, <1>5, AnswerFacts2
  <2>2. Served
    BY <1>1, <1>2, <1>3, <2>1 DEF Served
  <2>3. /\ server' \in ServerState /\ server'.from = 0 /\ server'.rcpts = 0 /\ server'.lines = server.lines
        /\ server'.mode = "command"
    BY <1>2, <2>1 DEF ServerState
  <2>4. 0 <= MaxRcpts /\ 0 <= MaxMessages
    BY <1>3
  <2>5. ASSUME InStep
        PROVE  Overrun'
    <3>1. client.msg > 0 /\ client.body[client.msg] > MaxBody
      <4> DEFINE b == client.body[client.msg]
                 w == Len(wire)
      <4>1. server.lines + w = b + 1 /\ w \in Nat /\ w > 1 /\ b \in Nat
        BY <1>4, <2>5
      <4> HIDE DEF b, w
      <4>2. b > MaxBody
        BY <1>2, <1>3, <1>5, <4>1
      <4> QED
        BY <1>2, <1>4, <2>5, <4>2 DEF b
    <3>2. \A i \in 1..Len(client.sent) : client.sent[i].line \in {".", "QUIT"}
      BY <1>4, <2>5
    <3>3. First({"."})
      BY <1>3, <1>4, <2>5 DEF First, SessionTypes, ClientState
    <3>4. back' # <<>> /\ back'[1].code = 552
      <4>1. Len(back) = 0
        BY <1>4, <2>5
      <4>2. Len(back) + 1 = 1
        BY <4>1
      <4>3. back'[1].code = 552 /\ Len(back') # 0 /\ back' \in Seq(Reply)
        BY <2>1, <4>2 DEF Answered
      <4>4. back' # <<>>
        BY <4>3, LengthFacts
      <4> QED
        BY <4>3, <4>4
    <3> QED
      BY <1>1, <3>1, <3>2, <3>3, <3>4 DEF Overrun, First
  <2> QED
    BY <1>1, <1>2, <2>2, <2>3, <2>4, <2>5, ServedInv
<1>6. CASE ~(server.lines + 1 > MaxBody)
  <2>1. back' = back /\ server' = [server EXCEPT !.lines = @ + 1]
    BY <1>1, <1>6
  <2>2. Served
    BY <1>1, <1>2, <2>1 DEF Served
  <2>3. /\ server' \in ServerState /\ server'.from = server.from /\ server'.rcpts = server.rcpts
        /\ server'.lines = server.lines + 1 /\ server'.mode = "data"
    <3>1. server.lines + 1 \in Nat /\ server \in ServerState /\ server.mode = "data"
      BY <1>1, <1>2
    <3> QED
      BY <2>1, <3>1 DEF ServerState
  <2>4. server.lines + 1 <= MaxBody
    BY <1>2, <1>3, <1>6
  <2>5. ASSUME InStep
        PROVE  InStep'
    <3> DEFINE w == Len(wire)
               v == Len(wire')
               b == client.body[client.msg]
    <3>1. w \in Nat /\ w > 1 /\ v = w - 1 /\ server.lines + w = b + 1 /\ b \in Nat
      BY <1>2, <1>4, <2>5 DEF Took
    <3>2. \A i \in 1..v : wire'[i] = wire[i + 1]
      BY <1>2 DEF Took
    <3>3. wire' # <<>>
      <4>1. wire' \in Seq(Line) /\ v > 0
        BY <1>2, <3>1 DEF Took
      <4> QED
        BY <4>1
    <3>4. wire[w] = client.sent[1] /\ \A i \in 1..w : i < w => wire[i].line \in {"text", "8bit"}
      BY <1>4, <2>5
    <3> HIDE DEF w, v, b
    <3>5. server.lines + 1 + v = b + 1 /\ v \in Nat /\ v > 0 /\ v + 1 = w
      BY <1>2, <3>1
    <3>6. wire'[v] = client.sent[1]
      BY <3>2, <3>4, <3>5
    <3>7. \A i \in 1..v : i < v => wire'[i].line \in {"text", "8bit"}
      <4>1. ASSUME NEW i \in 1..v, i < v
            PROVE  wire'[i] = wire[i + 1] /\ i + 1 \in 1..w /\ i + 1 < w
        BY <3>2, <3>5, <4>1
      <4> QED
        BY <3>4, <4>1
    <3>8. InBody'
      <4>1. server'.lines + v = b + 1
        BY <2>3, <3>5
      <4> QED
        BY <1>1, <1>4, <2>1, <2>3, <2>5, <3>3, <3>6, <3>7, <4>1 DEF InBody, First, v, b
    <3> QED
      BY <1>1, <1>4, <2>3, <2>5, <3>8 DEF InStep, Pipelined
  <2> QED
    BY <1>1, <1>2, <2>2, <2>3, <2>4, <2>5, ServedInv
<1> QED
  BY <1>5, <1>6

LEMMA BadBytesInv ==
    ASSUME SessionInv, Session!ReadBadBytes
    PROVE  SessionInv'
<1>1. /\ server.mode = "data" /\ wire # <<>> /\ wire' = Tail(wire) /\ server' = [server EXCEPT !.mode = "closed"]
      /\ back' = back /\ client' = client /\ relayed' = relayed
  BY DEF Session!ReadBadBytes
<1>2. /\ Took /\ server \in ServerState /\ server.rcpts <= MaxRcpts /\ server.lines <= MaxBody
      /\ server.from <= MaxMessages
  BY <1>1, BodyFacts
<1>3. Served
  BY <1>1, <1>2 DEF Served
<1>4. /\ server' \in ServerState /\ server'.from = server.from /\ server'.rcpts = server.rcpts
      /\ server'.lines = server.lines /\ server'.mode = "closed"
  BY <1>1, <1>2 DEF ServerState
<1>5. ASSUME InStep
      PROVE  InStep'
  <2>1. InBody /\ Pipelined /\ server.from = client.msg
    BY <1>1, <1>5, BodyFacts
  <2> QED
    BY <1>1, <1>4, <2>1 DEF InStep, InBody, Pipelined, First
<1> QED
  BY <1>1, <1>2, <1>3, <1>4, <1>5, ServedInv

LEMMA DotInv ==
    ASSUME SessionInv, NEW code \in {250, 451, 554, 421}, Session!ReadDot(code)
    PROVE  SessionInv'
<1> DEFINE r == [msg |-> server.from, rcpts |-> server.rcpts, lines |-> server.lines]
           k0 == Len(relayed) + 1
<1>1. /\ server.mode = "data" /\ wire # <<>> /\ Head(wire).line = "." /\ wire' = Tail(wire)
      /\ client' = client /\ relayed' = Append(relayed, r) /\ Session!Answer(code)
      /\ server' = [Session!Fresh EXCEPT !.helo = server.helo]
  BY DEF Session!ReadDot
<1>2. /\ Took /\ Head(wire) = wire[1] /\ server.from \in Nat /\ server.from > 0 /\ server.rcpts > 0
      /\ server \in ServerState /\ server.rcpts <= MaxRcpts /\ server.lines <= MaxBody
      /\ server.from <= MaxMessages /\ server.lines \in Nat /\ server.rcpts \in Nat
  BY <1>1, BodyFacts
<1>3. SessionTypes /\ Once /\ code \in Codes /\ code # 354 /\ MaxBody \in Nat /\ MaxRcpts \in Nat /\ MaxMessages \in Nat
  BY SessionParams DEF SessionInv, Codes
<1>4. Answered(code)
  BY <1>1, <1>3, AnswerFacts2
<1>5. Served
  BY <1>1, <1>2, <1>3, <1>4 DEF Served
<1>6. /\ server' \in ServerState /\ server'.from = 0 /\ server'.rcpts = 0 /\ server'.lines = 0
      /\ server'.mode = "command"
  <2>1. server.helo \in BOOLEAN
    BY <1>2 DEF ServerState
  <2> QED
    BY <1>1, <2>1, FreshFacts
<1>7. r \in Relayed /\ r.msg = server.from /\ r.rcpts = server.rcpts /\ r.lines = server.lines
  BY <1>2 DEF Relayed
<1> HIDE DEF r
<1>8. /\ relayed' \in Seq(Relayed) /\ Len(relayed) \in Nat /\ Len(relayed') = k0 /\ relayed'[k0] = r
      /\ \A k \in 1..Len(relayed) : relayed'[k] = relayed[k]
  BY <1>1, <1>3, <1>7, AppendFacts DEF SessionTypes
<1>9. SessionTypes'
  <2>1. 0 <= MaxRcpts /\ 0 <= MaxBody /\ 0 <= MaxMessages
    BY <1>3
  <2> QED
    BY <1>3, <1>5, <1>6, <1>8, <2>1, ServedTypes
<1>10. Once'
  <2> DEFINE L == Len(relayed)
  <2>1. /\ L \in Nat /\ k0 = L + 1 /\ Len(wire) \in Nat /\ Len(wire') = Len(wire) - 1 /\ Len(wire) > 0
        /\ client.msg \in Nat
    BY <1>2, <1>3, <1>8 DEF Took, SessionTypes, ClientState
  <2>2. /\ server.from <= client.msg
        /\ \A k \in 1..L : /\ relayed[k].msg <= client.msg /\ relayed[k].rcpts > 0
                           /\ relayed[k].msg < server.from
                           /\ \A j \in 1..L : j < k => relayed[j].msg < relayed[k].msg
    BY <1>2, <1>3 DEF Once
  <2> HIDE DEF L, k0
  <2>3. ASSUME NEW i \in 1..Len(wire'), wire'[i].line \in Mails
        PROVE  /\ 0 < wire'[i].msg /\ wire'[i].msg <= client.msg
               /\ \A k \in 1..k0 : relayed'[k].msg < wire'[i].msg
               /\ \A j \in 1..Len(wire') : j < i /\ wire'[j].line \in Mails => wire'[j].msg < wire'[i].msg
    <3>0. i + 1 \in 1..Len(wire) /\ i \in Nat
      BY <2>1
    <3>1. wire'[i] = wire[i + 1]
      BY <1>2 DEF Took
    <3>2. /\ server.from < wire[i + 1].msg /\ wire[i + 1].msg <= client.msg
          /\ \A k \in 1..L : relayed[k].msg < wire[i + 1].msg
          /\ \A j \in 1..Len(wire) : j < i + 1 /\ wire[j].line \in Mails => wire[j].msg < wire[i + 1].msg
      BY <1>3, <2>3, <3>0, <3>1 DEF Once, L
    <3>3. wire[i + 1].msg \in Nat
      <4>1. wire[i + 1] \in Line
        BY <1>3, <3>0 DEF SessionTypes
      <4> QED
        BY <4>1 DEF Line
    <3>4. ASSUME NEW k \in 1..k0
          PROVE  relayed'[k].msg < wire'[i].msg
      <4>1. CASE k = k0
        BY <1>7, <1>8, <3>1, <3>2, <4>1
      <4>2. CASE k # k0
        <5>1. k \in 1..L
          BY <2>1, <4>2
        <5> QED
          BY <1>8, <3>1, <3>2, <5>1 DEF L
      <4> QED
        BY <4>1, <4>2
    <3>5. ASSUME NEW j \in 1..Len(wire'), j < i, wire'[j].line \in Mails
          PROVE  wire'[j].msg < wire'[i].msg
      <4>1. j + 1 \in 1..Len(wire) /\ j + 1 < i + 1
        BY <2>1, <3>0, <3>5
      <4>2. wire'[j] = wire[j + 1]
        BY <1>2 DEF Took
      <4> QED
        BY <3>1, <3>2, <3>5, <4>1, <4>2
    <3>6. 0 < wire'[i].msg
      BY <1>2, <3>1, <3>2, <3>3
    <3> QED
      BY <3>1, <3>2, <3>4, <3>5, <3>6
  <2>4. ASSUME NEW k \in 1..k0
        PROVE  /\ relayed'[k].msg <= client.msg /\ relayed'[k].rcpts > 0
               /\ \A j \in 1..k0 : j < k => relayed'[j].msg < relayed'[k].msg
    <3>1. CASE k = k0
      <4>1. ASSUME NEW j \in 1..k0, j < k
            PROVE  relayed'[j].msg < relayed'[k].msg
        <5>1. j \in 1..L
          BY <2>1, <3>1, <4>1
        <5> QED
          BY <1>7, <1>8, <2>2, <3>1, <5>1 DEF L
      <4> QED
        BY <1>2, <1>7, <1>8, <2>2, <3>1, <4>1
    <3>2. CASE k # k0
      <4>1. k \in 1..L
        BY <2>1, <3>2
      <4>2. ASSUME NEW j \in 1..k0, j < k
            PROVE  relayed'[j].msg < relayed'[k].msg
        <5>1. j \in 1..L
          BY <2>1, <4>1, <4>2
        <5> QED
          BY <1>8, <2>2, <4>1, <4>2, <5>1 DEF L
      <4> QED
        BY <1>8, <2>2, <4>1, <4>2 DEF L
    <3> QED
      BY <3>1, <3>2
  <2>5. 0 <= client.msg /\ ~(0 > 0)
    BY <2>1
  <2> QED
    BY <1>1, <1>6, <1>8, <2>3, <2>4, <2>5 DEF Once
<1>11. ASSUME InStep
       PROVE  InStep'
  <2>1. /\ Pipelined /\ server.from = client.msg /\ wire[Len(wire)] = client.sent[1]
        /\ server.rcpts = client.ok /\ client.sent[1].line = "." /\ back = <<>> /\ Len(client.sent) = 1
        /\ \A i \in 1..Len(wire) : i < Len(wire) => wire[i].line \in {"text", "8bit"}
        /\ server.lines + Len(wire) = client.body[client.msg] + 1
    BY <1>1, <1>11, BodyFacts
  <2>2. Len(wire) = 1
    <3> DEFINE w == Len(wire)
    <3>1. w \in Nat /\ w > 0 /\ wire[1].line = "."
      BY <1>1, <1>2 DEF Took
    <3>2. \A i \in 1..w : i < w => wire[i].line \in {"text", "8bit"}
      BY <2>1
    <3> HIDE DEF w
    <3>3. w = 1
      BY <3>1, <3>2
    <3> QED
      BY <3>3 DEF w
  <2>3. wire' = <<>> /\ wire[1] = client.sent[1] /\ Len(wire') = 0
    <3>1. Len(wire') = 0 /\ wire' \in Seq(Line)
      BY <1>2, <2>2 DEF Took
    <3> QED
      BY <2>1, <2>2, <3>1, LengthFacts
  <2>4. Len(back) = 0 /\ Len(back) + 1 = 1
    BY <2>1
  <2>5. Len(back') = 1 /\ back'[1].to = wire[1] /\ back'[1].code = code /\ back' \in Seq(Reply)
    BY <1>4, <2>4 DEF Answered
  <2>6. back' # <<>>
    <3>1. Len(back') # 0 /\ back' \in Seq(Reply)
      BY <2>5
    <3> QED
      BY <3>1, LengthFacts
  <2>7. client.sent # <<>>
    BY <2>1
  <2>8. server.lines = client.body[client.msg]
    <3> DEFINE b == client.body[client.msg]
    <3>1. b \in Nat
      <4>1. client.body \in Seq(Nat) /\ client.msg \in 1..Len(client.body)
        <5>1. client.body \in Seq(Nat) /\ client.msg = Len(client.body)
          BY <1>3 DEF SessionTypes, ClientState
        <5> QED
          BY <1>2, <2>1, <5>1
      <4> QED
        BY <4>1
    <3>2. server.lines + 1 = b + 1
      BY <2>1, <2>2
    <3> HIDE DEF b
    <3>3. server.lines = b
      BY <1>2, <3>1, <3>2
    <3> QED
      BY <3>3 DEF b
  <2>9. Matched'
    <3>1. \A i \in 1..1 : back'[i].to = client.sent[i]
      BY <2>3, <2>5
    <3>2. 1 = 1 + 0 /\ 1..0 = {}
      OBVIOUS
    <3> QED
      BY <1>1, <2>1, <2>3, <2>5, <3>1, <3>2 DEF Matched
  <2>10. Prompted' /\ Cleared'
    <3>1. \A i \in 1..1 : back'[i].code # 354
      BY <1>3, <2>5
    <3> QED
      BY <1>6, <2>5, <3>1 DEF Prompted, Cleared
  <2>11. Tallied'
    <3>1. "." \notin Envelope \cup {"DATA"}
      BY DEF Envelope, Mails
    <3> QED
      BY <1>1, <2>1, <3>1 DEF Tallied, First
  <2>12. Handed'
    <3>1. k0 \in 1..Len(relayed')
      BY <1>8
    <3>2. /\ relayed'[k0].msg = client.msg /\ relayed'[k0].rcpts = client.ok
          /\ relayed'[k0].lines = client.body[client.msg]
      BY <1>7, <1>8, <2>1, <2>8
    <3> QED
      BY <1>1, <2>6, <3>1, <3>2 DEF Handed
  <2> QED
    BY <1>1, <1>6, <2>1, <2>9, <2>10, <2>11, <2>12 DEF InStep, Aligned, Pipelined
<1>12. (Overrun => Overrun') /\ EarlierFit' = EarlierFit
  BY <1>1, <1>3, <1>5, ServedOverrun DEF EarlierFit
<1> QED
  BY <1>9, <1>10, <1>11, <1>12 DEF SessionInv

-----------------------------------------------------------------------------
(* Steps of the client.                                                    *)

LEMMA ConcatFacts ==
    ASSUME NEW T, NEW s \in Seq(T), NEW t \in Seq(T)
    PROVE  /\ s \o t \in Seq(T) /\ Len(s) \in Nat /\ Len(t) \in Nat /\ Len(s \o t) = Len(s) + Len(t)
           /\ \A i \in 1..Len(s) : (s \o t)[i] = s[i]
           /\ \A i \in 1..Len(t) : (s \o t)[Len(s) + i] = t[i]
<1>1. s \o t \in Seq(T) /\ Len(s) \in Nat /\ Len(t) \in Nat /\ Len(s \o t) = Len(s) + Len(t)
  OBVIOUS
<1>2. ASSUME NEW i \in 1..Len(s)
      PROVE  (s \o t)[i] = s[i]
  OBVIOUS
<1>3. ASSUME NEW i \in 1..Len(t)
      PROVE  (s \o t)[Len(s) + i] = t[i]
  OBVIOUS
<1> QED
  BY <1>1, <1>2, <1>3

LEMMA Places ==
    ASSUME NEW m \in Nat, NEW n \in Nat
    PROVE  \A i \in 1..(m + n) : i \in 1..m \/ \E j \in 1..n : i = m + j
<1>1. ASSUME NEW i \in 1..(m + n), i \notin 1..m
      PROVE  \E j \in 1..n : i = m + j
  <2>1. i - m \in 1..n /\ i = m + (i - m)
    BY <1>1
  <2> QED
    BY <2>1
<1> QED
  BY <1>1

LEMMA ExceptFacts ==
    ASSUME NEW T, NEW s \in Seq(T), NEW i, NEW e \in T
    PROVE  /\ [s EXCEPT ![i] = e] \in Seq(T) /\ Len([s EXCEPT ![i] = e]) = Len(s)
           /\ \A j \in 1..Len(s) : [s EXCEPT ![i] = e][j] = IF j = i THEN e ELSE s[j]
<1> DEFINE u == [s EXCEPT ![i] = e]
<1>1. s \in [1..Len(s) -> T] /\ Len(s) \in Nat
  OBVIOUS
<1>2. u \in [1..Len(s) -> T] /\ \A j \in 1..Len(s) : u[j] = IF j = i THEN e ELSE s[j]
  BY <1>1
<1> HIDE DEF u
<1>3. u \in Seq(T) /\ Len(u) = Len(s)
  BY <1>1, <1>2
<1> QED
  BY <1>2, <1>3 DEF u

LEMMA TagFacts ==
    ASSUME NEW n \in Nat, NEW ls \in Seq(Session!Lines)
    PROVE  LET t == [i \in 1..Len(ls) |-> [line |-> ls[i], msg |-> n]]
           IN  /\ t \in Seq(Line) /\ Len(t) = Len(ls)
               /\ \A i \in 1..Len(ls) : t[i] \in Line /\ t[i].line = ls[i] /\ t[i].msg = n
<1> DEFINE t == [i \in 1..Len(ls) |-> [line |-> ls[i], msg |-> n]]
<1>1. ASSUME NEW i \in 1..Len(ls)
      PROVE  [line |-> ls[i], msg |-> n] \in Line
  <2>1. ls[i] \in Session!Lines
    OBVIOUS
  <2> QED
    BY <2>1 DEF Line
<1>2. t \in [1..Len(ls) -> Line] /\ Len(ls) \in Nat
  BY <1>1
<1>3. t \in Seq(Line) /\ Len(t) = Len(ls)
  BY <1>2
<1> QED
  BY <1>1, <1>3

LEMMA ClientTypes ==
    ASSUME SessionTypes, server' = server, relayed' = relayed, back' \in Seq(Reply),
           client' \in ClientState, client'.msg <= MaxMessages,
           Len(client'.body) = client'.msg, Len(client'.done) = client'.msg,
           NEW t \in Seq(Line), wire' = wire \o t, \A i \in 1..Len(t) : t[i].msg <= MaxMessages
    PROVE  SessionTypes'
<1>1. /\ wire' \in Seq(Line)
      /\ \A i \in 1..Len(wire') : i \in 1..Len(wire) \/ \E j \in 1..Len(t) : i = Len(wire) + j
      /\ \A i \in 1..Len(wire) : wire'[i] = wire[i]
      /\ \A i \in 1..Len(t) : wire'[Len(wire) + i] = t[i]
  <2>1. wire \in Seq(Line)
    BY DEF SessionTypes
  <2>2. /\ wire \o t \in Seq(Line) /\ Len(wire) \in Nat /\ Len(t) \in Nat /\ Len(wire \o t) = Len(wire) + Len(t)
        /\ \A i \in 1..Len(wire) : (wire \o t)[i] = wire[i]
        /\ \A i \in 1..Len(t) : (wire \o t)[Len(wire) + i] = t[i]
    BY <2>1, ConcatFacts
  <2>3. \A i \in 1..(Len(wire) + Len(t)) : i \in 1..Len(wire) \/ \E j \in 1..Len(t) : i = Len(wire) + j
    BY <2>2, Places
  <2> QED
    BY <2>2, <2>3
<1>2. \A i \in 1..Len(wire') : wire'[i].msg <= MaxMessages
  <2>1. \A i \in 1..Len(wire) : wire[i].msg <= MaxMessages
    BY DEF SessionTypes
  <2> QED
    BY <1>1, <2>1
<1> QED
  BY <1>1, <1>2 DEF SessionTypes

\* Only a message of its own brings a MAIL, and one line of it.
LEMMA ClientOnce ==
    ASSUME SessionTypes, Once, server' = server, relayed' = relayed,
           client'.msg \in Nat, client.msg <= client'.msg,
           NEW t \in Seq(Line), wire' = wire \o t,
           \A i \in 1..Len(t) : t[i].line \in Mails => i = 1 /\ t[i].msg = client'.msg /\ client.msg < client'.msg
    PROVE  Once'
<1> DEFINE w == Len(wire)
           x == client'.msg
<1>1. /\ w \in Nat /\ Len(t) \in Nat /\ Len(wire') = w + Len(t)
      /\ \A i \in 1..Len(wire') : i \in 1..w \/ \E j \in 1..Len(t) : i = w + j
      /\ \A i \in 1..w : wire'[i] = wire[i]
      /\ \A i \in 1..Len(t) : wire'[w + i] = t[i]
  <2>1. wire \in Seq(Line)
    BY DEF SessionTypes
  <2>2. /\ w \in Nat /\ Len(t) \in Nat /\ Len(wire \o t) = w + Len(t)
        /\ \A i \in 1..w : (wire \o t)[i] = wire[i]
        /\ \A i \in 1..Len(t) : (wire \o t)[w + i] = t[i]
    BY <2>1, ConcatFacts
  <2>3. \A i \in 1..(w + Len(t)) : i \in 1..w \/ \E j \in 1..Len(t) : i = w + j
    BY <2>2, Places
  <2> QED
    BY <2>2, <2>3
<1>2. /\ client.msg \in Nat /\ server.from \in Nat /\ \A k \in 1..Len(relayed) : relayed[k].msg \in Nat
      /\ \A i \in 1..w : wire[i].msg \in Nat
  <2>1. \A k \in 1..Len(relayed) : relayed[k] \in Relayed
    BY DEF SessionTypes
  <2>2. \A i \in 1..w : wire[i] \in Line
    BY DEF SessionTypes
  <2> QED
    BY <2>1, <2>2 DEF SessionTypes, ServerState, ClientState, Relayed, Line
<1>3. /\ server.from <= client.msg
      /\ \A k \in 1..Len(relayed) : relayed[k].msg <= client.msg
      /\ \A i \in 1..w : wire[i].line \in Mails => wire[i].msg <= client.msg
  BY DEF Once
<1>9. x \in Nat /\ client.msg <= x
  OBVIOUS
<1> HIDE DEF w, x
<1>4. server.from <= x /\ \A k \in 1..Len(relayed) : relayed[k].msg <= x
  BY <1>2, <1>3, <1>9
<1>5. ASSUME NEW i \in 1..Len(wire'), wire'[i].line \in Mails
      PROVE  /\ server.from < wire'[i].msg /\ wire'[i].msg <= x
             /\ \A k \in 1..Len(relayed) : relayed[k].msg < wire'[i].msg
             /\ \A j \in 1..Len(wire') : j < i /\ wire'[j].line \in Mails => wire'[j].msg < wire'[i].msg
  <2>1. CASE i \in 1..w
    <3>1. wire'[i] = wire[i]
      BY <1>1, <2>1
    <3>2. /\ server.from < wire[i].msg /\ wire[i].msg <= client.msg
          /\ \A k \in 1..Len(relayed) : relayed[k].msg < wire[i].msg
          /\ \A j \in 1..w : j < i /\ wire[j].line \in Mails => wire[j].msg < wire[i].msg
      BY <1>5, <2>1, <3>1 DEF Once, w
    <3>3. wire[i].msg <= x
      BY <1>2, <1>9, <2>1, <3>2
    <3>4. ASSUME NEW j \in 1..Len(wire'), j < i, wire'[j].line \in Mails
          PROVE  wire'[j].msg < wire'[i].msg
      <4>1. j \in 1..w
        BY <1>1, <2>1, <3>4
      <4>2. wire'[j] = wire[j]
        BY <1>1, <4>1
      <4> QED
        BY <3>1, <3>2, <3>4, <4>1, <4>2
    <3> QED
      BY <3>1, <3>2, <3>3, <3>4
  <2>2. CASE i \notin 1..w
    <3>1. PICK j0 \in 1..Len(t) : i = w + j0
      BY <1>1, <2>2
    <3>2. wire'[i] = t[j0]
      BY <1>1, <3>1
    <3>3. j0 = 1 /\ wire'[i].msg = x /\ client.msg < x
      BY <1>5, <3>2 DEF x
    <3>4. ASSUME NEW j \in 1..Len(wire'), j < i, wire'[j].line \in Mails
          PROVE  wire'[j].msg < wire'[i].msg
      <4>1. j \in 1..w
        BY <1>1, <3>1, <3>3, <3>4
      <4>2. wire'[j] = wire[j]
        BY <1>1, <4>1
      <4>3. wire[j].msg <= client.msg /\ wire[j].msg \in Nat
        BY <1>2, <1>3, <3>4, <4>1, <4>2
      <4>4. client.msg < x /\ client.msg \in Nat /\ x \in Nat
        BY <1>2, <1>9, <3>3
      <4>5. wire[j].msg < x
        BY <4>3, <4>4
      <4> QED
        BY <3>3, <4>2, <4>5
    <3>5. server.from < x /\ \A k \in 1..Len(relayed) : relayed[k].msg < x
      BY <1>2, <1>3, <1>9, <3>3
    <3>6. x <= x
      BY <1>9
    <3> QED
      BY <3>3, <3>4, <3>5, <3>6
  <2> QED
    BY <2>1, <2>2
<1>6. /\ server.mode = "data" => server.from > 0 /\ server.rcpts > 0
      /\ \A k \in 1..Len(relayed) :
            /\ relayed[k].rcpts > 0
            /\ server.from > 0 => relayed[k].msg < server.from
            /\ \A j \in 1..Len(relayed) : j < k => relayed[j].msg < relayed[k].msg
  BY DEF Once
<1> QED
  BY <1>4, <1>5, <1>6 DEF Once, x

\* A reply is read.
LEMMA GotFacts ==
    ASSUME SessionTypes, Session!Got
    PROVE  /\ back # <<>> /\ client.sent # <<>> /\ back' \in Seq(Reply) /\ Len(back) \in Nat /\ Len(back) > 0
           /\ Len(back') = Len(back) - 1 /\ Head(back) = back[1] /\ back[1] \in Reply
           /\ \A i \in 1..Len(back') : back'[i] = back[i + 1]
           /\ Head(client.sent) = client.sent[1] /\ client.sent[1] \in Line
           /\ Tail(client.sent) \in Seq(Line) /\ Len(client.sent) \in Nat /\ Len(client.sent) > 0
           /\ Len(Tail(client.sent)) = Len(client.sent) - 1
           /\ \A i \in 1..Len(Tail(client.sent)) : Tail(client.sent)[i] = client.sent[i + 1]
<1>1. back \in Seq(Reply) /\ back # <<>> /\ back' = Tail(back) /\ client.sent \in Seq(Line) /\ client.sent # <<>>
  BY DEF Session!Got, SessionTypes, ClientState
<1>2. /\ back' \in Seq(Reply) /\ Len(back) \in Nat /\ Len(back) > 0
      /\ Len(back') = Len(back) - 1 /\ Head(back) = back[1] /\ back[1] \in Reply
      /\ \A i \in 1..Len(back') : back'[i] = back[i + 1]
  BY <1>1, TailFacts
<1>3. /\ Head(client.sent) = client.sent[1] /\ client.sent[1] \in Line
      /\ Tail(client.sent) \in Seq(Line) /\ Len(client.sent) \in Nat /\ Len(client.sent) > 0
      /\ Len(Tail(client.sent)) = Len(client.sent) - 1
      /\ \A i \in 1..Len(Tail(client.sent)) : Tail(client.sent)[i] = client.sent[i + 1]
  BY <1>1, TailFacts
<1> QED
  BY <1>1, <1>2, <1>3

\* A reply to a command that stands alone is the last under way.
LEMMA GotLast ==
    ASSUME SessionTypes, InStep, Session!Got, client.sent[1].line \notin Envelope
    PROVE  /\ Aligned /\ Pipelined /\ Len(client.sent) = 1 /\ Len(back) = 1 /\ wire = <<>> /\ back' = <<>>
           /\ Tail(client.sent) = <<>> /\ back[1].to = client.sent[1] /\ server.from \in {0, client.msg}
           /\ client.sent[1].msg = client.msg /\ (client.sent[1].line \notin {"EHLO", "QUIT"} => client.msg > 0)
<1> DEFINE s == Len(client.sent)
           b == Len(back)
           w == Len(wire)
<1>1. back # <<>> /\ s \in Nat /\ s > 0 /\ b \in Nat /\ b > 0 /\ Len(back') = b - 1 /\ back' \in Seq(Reply)
      /\ Tail(client.sent) \in Seq(Line) /\ Len(Tail(client.sent)) = s - 1
  BY GotFacts
<1>2. Aligned /\ Pipelined /\ server.from \in {0, client.msg}
  BY <1>1 DEF InStep, InBody
<1>3. s = b + w /\ w \in Nat
  BY <1>2 DEF Aligned, Matched, SessionTypes
<1>4. 1 \in 1..s /\ 1 \in 1..b
  BY <1>1
<1>5. ~(1 < s)
  BY <1>2, <1>4 DEF Pipelined
<1> HIDE DEF s, b, w
<1>6. s = 1 /\ b = 1 /\ w = 0
  BY <1>1, <1>3, <1>5
<1>7. Len(back') = 0 /\ Len(Tail(client.sent)) = 0
  BY <1>1, <1>6
<1>8. back' = <<>> /\ Tail(client.sent) = <<>>
  BY <1>1, <1>7, LengthFacts
<1>9. wire = <<>>
  BY <1>6, LengthFacts DEF SessionTypes, w
<1>10. back[1].to = client.sent[1] /\ client.sent[1].msg = client.msg
       /\ (client.sent[1].line \notin {"EHLO", "QUIT"} => client.msg > 0)
  BY <1>2, <1>4 DEF Aligned, Matched, Pipelined, s, b
<1> QED
  BY <1>2, <1>6, <1>8, <1>9, <1>10 DEF s, b

\* A step of the client that sends nothing and begins no message.
LEMMA ClientQuiet ==
    ASSUME SessionTypes, Once, server' = server, relayed' = relayed, wire' = wire, back' \in Seq(Reply),
           client' \in ClientState, client'.msg = client.msg,
           Len(client'.body) = Len(client.body), Len(client'.done) = Len(client.done)
    PROVE  SessionTypes' /\ Once'
BY DEF SessionTypes, Once

LEMMA EnvelopeReplyInv ==
    ASSUME SessionInv, Session!ReadEnvelopeReply
    PROVE  SessionInv'
<1> DEFINE m == Len(client.sent)
           n == Len(back)
           w == Len(wire)
           gain == IF client.sent[1].line \in {"RCPT", "RCPT bad"} /\ back[1].code = 250 THEN 1 ELSE 0
<1>1. /\ Session!Got /\ Head(client.sent).line \in Envelope /\ wire' = wire /\ server' = server /\ relayed' = relayed
  BY DEF Session!ReadEnvelopeReply, Session!Awaited, Envelope, Mails
<1>2. SessionTypes /\ Once /\ (EarlierFit => InStep \/ Overrun)
  BY DEF SessionInv
<1>3. /\ n \in Nat /\ n > 0 /\ m \in Nat /\ m > 0 /\ back # <<>> /\ client.sent # <<>> /\ back' \in Seq(Reply)
      /\ Len(back') = n - 1 /\ back[1] \in Reply /\ Head(back) = back[1] /\ Head(client.sent) = client.sent[1]
      /\ Tail(client.sent) \in Seq(Line) /\ Len(Tail(client.sent)) = m - 1
  BY <1>1, <1>2, GotFacts
<1>4. /\ \A i \in 1..Len(back') : back'[i] = back[i + 1]
      /\ \A i \in 1..Len(Tail(client.sent)) : Tail(client.sent)[i] = client.sent[i + 1]
  BY <1>1, <1>2, GotFacts
<1>5. /\ client' \in ClientState /\ client'.sent = Tail(client.sent) /\ client'.msg = client.msg
      /\ client'.body = client.body /\ client'.done = client.done /\ client'.ok = client.ok + gain
  <2> DEFINE good == Head(back).code = 250
             x == Head(client.sent).line
  <2>1. client \in ClientState /\ client.ok \in Nat
    BY <1>2 DEF SessionTypes, ClientState
  <2>2. client' = IF x \in {"MAIL", "MAIL bad"} THEN [[client EXCEPT !.sent = Tail(@)] EXCEPT !.from = good]
                  ELSE [[client EXCEPT !.sent = Tail(@)] EXCEPT !.ok = IF good THEN @ + 1 ELSE @]
    BY Zenon DEF Session!ReadEnvelopeReply, Session!Awaited, Session!Rest
  <2>3. x \in {"MAIL", "MAIL bad", "RCPT", "RCPT bad"} /\ good \in BOOLEAN
    BY <1>1 DEF Envelope, Mails
  <2>gain. gain = IF x \in {"RCPT", "RCPT bad"} /\ good THEN 1 ELSE 0
    BY <1>3
  <2> HIDE DEF good
  <2>4. CASE x \in {"MAIL", "MAIL bad"}
    <3>1. client' = [[client EXCEPT !.sent = Tail(@)] EXCEPT !.from = good] /\ gain = 0
      BY <2>2, <2>4, <2>gain
    <3>2. client.ok + 0 = client.ok
      BY <2>1
    <3> HIDE DEF gain
    <3> QED
      BY <1>3, <2>1, <2>3, <3>1, <3>2 DEF ClientState
  <2>5. CASE x \notin {"MAIL", "MAIL bad"}
    <3>1. client' = [[client EXCEPT !.sent = Tail(@)] EXCEPT !.ok = client.ok + gain]
      <4>1. (IF good THEN client.ok + 1 ELSE client.ok) = client.ok + gain
        <5>1. CASE good
          <6>1. gain = 1
            BY <2>3, <2>5, <2>gain, <5>1
          <6> HIDE DEF gain
          <6> QED
            BY <5>1, <6>1
        <5>2. CASE ~good
          <6>1. gain = 0
            BY <2>gain, <5>2
          <6>2. client.ok + 0 = client.ok
            BY <2>1
          <6> HIDE DEF gain
          <6> QED
            BY <5>2, <6>1, <6>2
        <5> QED
          BY <5>1, <5>2
      <4> QED
        BY <2>1, <2>2, <2>5, <4>1 DEF ClientState
    <3>2. client.ok + gain \in Nat
      <4>1. gain \in Nat
        OBVIOUS
      <4> HIDE DEF gain
      <4> QED
        BY <2>1, <4>1
    <3> HIDE DEF gain
    <3> QED
      BY <1>3, <2>1, <3>1, <3>2 DEF ClientState
  <2> QED
    BY <2>4, <2>5
<1>6. SessionTypes' /\ Once' /\ EarlierFit' = EarlierFit
  BY <1>1, <1>2, <1>3, <1>5, ClientQuiet DEF EarlierFit
<1>7. ~Overrun
  <2>1. 1 \in 1..m /\ client.sent[1].line \notin {".", "QUIT"}
    <3>1. 1 \in 1..m
      BY <1>3
    <3> HIDE DEF m
    <3>2. client.sent[1].line \in Envelope
      BY <1>1, <1>3
    <3> QED
      BY <3>1, <3>2 DEF Envelope, Mails
  <2> QED
    BY <2>1 DEF Overrun
<1>8. ASSUME InStep
      PROVE  InStep'
  <2>1. Aligned /\ Pipelined /\ server.from \in {0, client.msg}
    BY <1>3, <1>8 DEF InStep, InBody
  <2>2. m = n + w /\ w \in Nat /\ 1 \in 1..m /\ 1 \in 1..n
    BY <1>2, <1>3, <2>1 DEF Aligned, Matched, SessionTypes
  <2>3. /\ \A i \in 1..n : back[i].to = client.sent[i]
        /\ \A i \in 1..w : wire[i] = client.sent[n + i]
        /\ \A i \in 1..n : back[i].code = 354 => i = n /\ server.mode = "data"
        /\ server.mode = "data" => wire = <<>> /\ server.lines = 0 /\ back[n].code = 354
    BY <2>1 DEF Aligned, Matched, Prompted
  <2>4. \A i \in 1..m :
          /\ client.sent[i].msg = client.msg
          /\ client.sent[i].line \notin {"EHLO", "QUIT"} => client.msg > 0
          /\ i > 1 => client.sent[i].line \notin Mails
          /\ i < m => client.sent[i].line \in Envelope
          /\ i = m => client.sent[i].line \in {"EHLO", "DATA", ".", "RSET", "QUIT"}
          /\ i = m /\ i > 1 => client.sent[i].line = "DATA"
    BY <2>1 DEF Pipelined
  <2>5. client.sent[1].line \in Envelope
    BY <1>1, <1>3
  <2>gain. Adds(back[1]) = gain
    <3>1. back[1].to = client.sent[1]
      BY <2>2, <2>3
    <3> QED
      BY <3>1 DEF Adds
  <2> DEFINE v == Len(client'.sent)
             u == Len(back')
  <2>7. /\ \A i \in 1..u : back'[i] = back[i + 1]
        /\ \A i \in 1..v : client'.sent[i] = client.sent[i + 1]
    <3>1. client'.sent = Tail(client.sent)
      BY <1>5
    <3> QED
      BY <1>4, <3>1
  <2>8. v = m - 1 /\ u = n - 1
    BY <1>3, <1>5
  <2> HIDE DEF m, n, w, u, v, gain
  <2>9. m > 1
    <3>1. m # 1
      BY <2>2, <2>4, <2>5 DEF Envelope, Mails
    <3> QED
      BY <1>3, <3>1
  <2>10. /\ u \in Nat /\ v \in Nat /\ v > 0 /\ n = u + 1 /\ m = v + 1 /\ v = u + w
         /\ \A i \in 1..u : i + 1 \in 1..n
         /\ \A i \in 1..v : i + 1 \in 1..m /\ i + 1 > 1 /\ (i < v => i + 1 < m) /\ (i = v => i + 1 = m)
    BY <1>3, <2>2, <2>8, <2>9
  <2>11. \A i \in 1..v :
           /\ client'.sent[i].msg = client.msg
           /\ client'.sent[i].line \notin {"EHLO", "QUIT"} => client.msg > 0
           /\ client'.sent[i].line \notin Mails
           /\ i < v => client'.sent[i].line \in Envelope
           /\ i = v => client'.sent[i].line = "DATA"
    <3> SUFFICES ASSUME NEW i \in 1..v
                 PROVE  /\ client'.sent[i].msg = client.msg
                        /\ client'.sent[i].line \notin {"EHLO", "QUIT"} => client.msg > 0
                        /\ client'.sent[i].line \notin Mails
                        /\ i < v => client'.sent[i].line \in Envelope
                        /\ i = v => client'.sent[i].line = "DATA"
      OBVIOUS
    <3>1. i + 1 \in 1..m /\ i + 1 > 1 /\ (i < v => i + 1 < m) /\ (i = v => i + 1 = m)
      BY <2>10
    <3>2. client'.sent[i] = client.sent[i + 1]
      BY <2>7
    <3> QED
      BY <2>4, <3>1, <3>2
  <2>12. Pipelined'
    BY <1>5, <2>11 DEF Pipelined, v
  <2>13. client'.sent # <<>> /\ client'.sent[1].line \in Envelope \cup {"DATA"} /\ client'.sent[1].line \notin Mails
    <3>1. 1 \in 1..v /\ (1 = v \/ 1 < v)
      BY <2>10
    <3>2. client'.sent # <<>>
      <4>1. client'.sent \in Seq(Line) /\ v # 0
        BY <1>3, <1>5, <2>10
      <4> QED
        BY <4>1, LengthFacts DEF v
    <3> QED
      BY <2>11, <3>1, <3>2
  <2>14. Matched'
    <3>1. \A i \in 1..u : back'[i].to = client'.sent[i]
      <4>1. ASSUME NEW i \in 1..u
            PROVE  back'[i].to = client'.sent[i]
        <5>1. i \in 1..v /\ i + 1 \in 1..n
          BY <2>2, <2>10
        <5> QED
          BY <2>3, <2>7, <5>1
      <4> QED
        BY <4>1
    <3>2. \A i \in 1..w : wire[i] = client'.sent[u + i]
      <4>1. ASSUME NEW i \in 1..w
            PROVE  wire[i] = client'.sent[u + i]
        <5>1. u + i \in 1..v /\ (u + i) + 1 = n + i
          BY <2>2, <2>10
        <5> QED
          BY <2>3, <2>7, <5>1
      <4> QED
        BY <4>1
    <3> QED
      BY <1>1, <2>10, <3>1, <3>2 DEF Matched, u, v, w
  <2>15. Prompted'
    <3>1. ASSUME NEW i \in 1..u, back'[i].code = 354
          PROVE  i = u /\ server.mode = "data"
      <4>1. i + 1 \in 1..n /\ back[i + 1].code = 354
        BY <2>7, <2>10, <3>1
      <4>2. i + 1 = n /\ server.mode = "data"
        BY <2>3, <4>1
      <4> QED
        BY <2>10, <4>2
    <3>2. ASSUME server.mode = "data"
          PROVE  back' # <<>> /\ back'[u].code = 354
      <4>1. w = 0
        BY <2>3, <3>2 DEF w
      <4>2. u > 0 /\ u \in 1..u /\ u + 1 = n
        BY <2>2, <2>10, <4>1
      <4>3. back' # <<>>
        <5>1. Len(back') # 0
          BY <2>10, <4>2 DEF u
        <5> QED
          BY <1>3, <5>1, LengthFacts
      <4> QED
        BY <2>3, <2>7, <3>2, <4>2, <4>3
    <3> QED
      BY <1>1, <2>3, <3>1, <3>2 DEF Prompted, u
  <2>16. Cleared' /\ Handed'
    <3>1. client'.sent[1].line \notin {"EHLO", "QUIT", ".", "RSET"} \cup Mails
      BY <2>13 DEF Envelope, Mails
    <3> QED
      BY <2>13, <3>1 DEF Cleared, Resting, Handed, First
  <2>17. Tallied'
    <3>1. First(Envelope \cup {"DATA"})
      BY <1>3, <2>5 DEF First
    <3>2. PICK f \in [0..n -> Nat] : Count(f, client.ok, back, server.rcpts)
      BY <2>1, <3>1 DEF Aligned, Tallied, n
    <3>3. /\ f[0] = client.ok /\ f[n] = server.rcpts
          /\ \A i \in 1..n : f[i] = f[i - 1] + Adds(back[i])
      BY <3>2 DEF Count, n
    <3> DEFINE g == [i \in 0..u |-> f[i + 1]]
    <3>4. g \in [0..u -> Nat]
      <4>1. \A i \in 0..u : i + 1 \in 0..n
        BY <2>10
      <4> QED
        BY <3>2, <4>1
    <3>5. g[0] = client.ok + gain
      <4>1. 0 \in 0..u /\ 0 + 1 = 1 /\ 1 - 1 = 0 /\ 1 \in 1..n
        BY <2>2, <2>10
      <4>2. g[0] = f[1] /\ f[1] = f[0] + Adds(back[1])
        BY <3>3, <4>1
      <4> QED
        BY <2>gain, <3>3, <4>2
    <3>6. g[u] = server.rcpts
      <4>1. u \in 0..u /\ u + 1 = n
        BY <2>10
      <4> QED
        BY <3>3, <4>1
    <3>7. ASSUME NEW i \in 1..u
          PROVE  g[i] = g[i - 1] + Adds(back'[i])
      <4>1. i \in 0..u /\ i - 1 \in 0..u /\ (i - 1) + 1 = i /\ (i + 1) - 1 = i /\ i + 1 \in 1..n
        BY <2>10
      <4>2. g[i] = f[i + 1] /\ g[i - 1] = f[i] /\ back'[i] = back[i + 1]
        BY <2>7, <4>1
      <4>3. f[i + 1] = f[i] + Adds(back[i + 1])
        BY <3>3, <4>1
      <4> QED
        BY <4>2, <4>3
    <3> HIDE DEF g
    <3>8. Count(g, client'.ok, back', server.rcpts)
      BY <1>5, <3>5, <3>6, <3>7 DEF Count, u
    <3> QED
      BY <1>1, <3>4, <3>8 DEF Tallied, u
  <2> QED
    BY <1>1, <1>5, <2>1, <2>12, <2>14, <2>15, <2>16, <2>17 DEF InStep, Aligned
<1> QED
  BY <1>2, <1>6, <1>7, <1>8 DEF SessionInv

LEMMA SizeFacts ==
    ASSUME NEW s \in Seq(Nat), NEW i, NEW e \in Nat
    PROVE  /\ [s EXCEPT ![i] = e] \in Seq(Nat) /\ Len([s EXCEPT ![i] = e]) = Len(s)
           /\ \A j \in 1..Len(s) : [s EXCEPT ![i] = e][j] = IF j = i THEN e ELSE s[j]
<1> DEFINE T == Nat
<1>1. s \in Seq(T) /\ e \in T
  OBVIOUS
<1> HIDE DEF T
<1>2. /\ [s EXCEPT ![i] = e] \in Seq(T) /\ Len([s EXCEPT ![i] = e]) = Len(s)
      /\ \A j \in 1..Len(s) : [s EXCEPT ![i] = e][j] = IF j = i THEN e ELSE s[j]
  BY <1>1, ExceptFacts
<1> QED
  BY <1>2 DEF T

LEMMA SeqWider ==
    ASSUME NEW S, NEW T, S \subseteq T, NEW s \in Seq(S)
    PROVE  s \in Seq(T) /\ Len(s) \in Nat /\ \A i \in 1..Len(s) : s[i] \in S
<1>1. s \in [1..Len(s) -> S] /\ Len(s) \in Nat
  OBVIOUS
<1>2. s \in [1..Len(s) -> T]
  BY <1>1
<1>3. s \in Seq(T)
  BY <1>1, <1>2
<1> QED
  BY <1>1, <1>3

LEMMA SingleTag ==
    ASSUME NEW x \in Session!Lines, client.msg \in Nat
    PROVE  LET e == Session!Tag(<<x>>)
           IN  /\ e \in Seq(Line) /\ Len(e) = 1 /\ e # <<>> /\ <<>> \o e = e
               /\ e[1] \in Line /\ e[1].line = x /\ e[1].msg = client.msg
<1> DEFINE s == <<x>>
<1>1. s \in Seq(Session!Lines) /\ Len(s) = 1 /\ s[1] = x
  OBVIOUS
<1> HIDE DEF s
<1> DEFINE e == [i \in 1..Len(s) |-> [line |-> s[i], msg |-> client.msg]]
<1>2. e \in Seq(Line) /\ Len(e) = Len(s) /\ \A i \in 1..Len(s) : e[i] \in Line /\ e[i].line = s[i] /\ e[i].msg = client.msg
  BY <1>1, TagFacts
<1> HIDE DEF e
<1>3. e \in Seq(Line) /\ Len(e) = 1
  BY <1>1, <1>2
<1>4. 1 \in 1..Len(s)
  BY <1>1
<1>5. e[1] \in Line /\ e[1].line = x /\ e[1].msg = client.msg
  BY <1>1, <1>2, <1>4
<1>6. e # <<>> /\ <<>> \o e = e
  BY <1>3
<1> QED
  BY <1>3, <1>5, <1>6 DEF e, s, Session!Tag

\* The only command without a reply is a new one that stands alone.
LEMMA SinglePipelined ==
    ASSUME Len(client'.sent) = 1, client'.sent[1].msg = client'.msg,
           client'.sent[1].line \in {".", "RSET", "QUIT"}, client'.sent[1].line # "QUIT" => client'.msg > 0
    PROVE  Pipelined'
<1>1. \A i \in 1..1 : i = 1 /\ ~(i > 1) /\ ~(i < 1)
  OBVIOUS
<1> QED
  BY <1>1 DEF Pipelined

\* An answer to DATA: the body follows, or the transaction is reset.
LEMMA DataReplyInv ==
    ASSUME SessionInv, NEW body \in Bodies, Session!ReadDataReply(body)
    PROVE  SessionInv'
<1> DEFINE L == Len(body)
           ls == body \o <<".">>
<1>1. /\ Session!Got /\ Head(client.sent).line = "DATA" /\ server' = server /\ relayed' = relayed
      /\ \/ /\ Head(back).code = 354 /\ wire' = wire \o Session!Tag(body \o <<".">>)
            /\ client' = [[client EXCEPT !.sent = Tail(@)] EXCEPT !.sent = @ \o Session!Tag(<<".">>),
                                                                 !.body[client.msg] = Len(body)]
         \/ /\ Head(back).code # 354 /\ wire' = wire \o Session!Tag(<<"RSET">>)
            /\ client' = Session!Close([[client EXCEPT !.sent = Tail(@)] EXCEPT !.sent = @ \o Session!Tag(<<"RSET">>)],
                                       "deferred")
  BY DEF Session!ReadDataReply, Session!Awaited, Session!Rest
<1>2. SessionTypes /\ Once /\ (EarlierFit => InStep \/ Overrun) /\ client.msg \in Nat /\ client.msg <= MaxMessages
      /\ client \in ClientState /\ client.body \in Seq(Nat)
      /\ client.done \in Seq({"open", "sent", "deferred", "bounced"})
  BY DEF SessionInv, SessionTypes, ClientState
<1>3. /\ back' \in Seq(Reply) /\ Head(back) = back[1] /\ Head(client.sent) = client.sent[1]
      /\ Tail(client.sent) \in Seq(Line) /\ client.sent[1] \in Line /\ client.sent # <<>>
  BY <1>1, <1>2, GotFacts
<1>4. client.sent[1].line = "DATA" /\ client.sent[1].line \notin Envelope
  BY <1>1, <1>3 DEF Envelope, Mails
<1>5. ~Overrun
  <2>1. 1 \in 1..Len(client.sent)
    <3>1. Len(client.sent) \in Nat /\ Len(client.sent) > 0
      BY <1>1, <1>2, GotFacts
    <3> QED
      BY <3>1
  <2> QED
    BY <1>4, <2>1 DEF Overrun
<1>6. CASE Head(back).code = 354
  <2> DEFINE t == Session!Tag(ls)
             e == Session!Tag(<<".">>)
  <2>1. /\ wire' = wire \o t
        /\ client' = [client EXCEPT !.sent = Tail(client.sent) \o e, !.body = [client.body EXCEPT ![client.msg] = L]]
    BY <1>1, <1>2, <1>6 DEF ClientState
  <2>2. /\ L \in Nat /\ ls \in Seq(Session!Lines) /\ Len(ls) = L + 1 /\ ls[L + 1] = "."
        /\ \A i \in 1..L : ls[i] \in {"text", "8bit"}
        /\ <<".">> \in Seq(Session!Lines) /\ Len(<<".">>) = 1 /\ <<".">>[1] = "."
    <3>1. body \in Seq({"text", "8bit"}) /\ {"text", "8bit"} \subseteq Session!Lines /\ "." \in Session!Lines
      BY SubmissionAssumption DEF Session!Lines
    <3>2. body \in Seq(Session!Lines) /\ L \in Nat
      BY <3>1, SeqWider
    <3>2a. <<".">> \in Seq(Session!Lines)
      BY <3>1
    <3>3. Len(<<".">>) = 1 /\ <<".">>[1] = "." /\ 1 \in 1..1
      OBVIOUS
    <3>4. \A i \in 1..L : body[i] \in {"text", "8bit"}
      BY <3>1, SeqWider
    <3>5. /\ ls \in Seq(Session!Lines) /\ Len(ls) = L + Len(<<".">>)
          /\ \A i \in 1..L : ls[i] = body[i]
          /\ \A i \in 1..Len(<<".">>) : ls[L + i] = <<".">>[i]
      BY <3>2, <3>2a, ConcatFacts
    <3> QED
      BY <3>2, <3>2a, <3>3, <3>4, <3>5
  <2> HIDE DEF L, ls
  <2>3. /\ t \in Seq(Line) /\ Len(t) = L + 1 /\ \A i \in 1..(L + 1) : t[i].line = ls[i] /\ t[i].msg = client.msg
    BY <1>2, <2>2, TagFacts DEF Session!Tag
  <2>4. /\ e \in Seq(Line) /\ Len(e) = 1 /\ e # <<>> /\ <<>> \o e = e
        /\ e[1] \in Line /\ e[1].line = "." /\ e[1].msg = client.msg
    <3>1. "." \in Session!Lines
      BY DEF Session!Lines
    <3> QED
      BY <1>2, <3>1, SingleTag
  <2> HIDE DEF t, e
  <2>5. Tail(client.sent) \o e \in Seq(Line)
    BY <1>3, <2>4, ConcatFacts
  <2>6. /\ [client.body EXCEPT ![client.msg] = L] \in Seq(Nat)
        /\ Len([client.body EXCEPT ![client.msg] = L]) = Len(client.body)
        /\ \A j \in 1..Len(client.body) :
             [client.body EXCEPT ![client.msg] = L][j] = IF j = client.msg THEN L ELSE client.body[j]
    <3>1. client.body \in Seq(Nat) /\ L \in Nat
      BY <1>2, <2>2
    <3> DEFINE s == client.body
               i0 == client.msg
    <3> HIDE DEF s, i0
    <3>2. /\ [s EXCEPT ![i0] = L] \in Seq(Nat) /\ Len([s EXCEPT ![i0] = L]) = Len(s)
          /\ \A j \in 1..Len(s) : [s EXCEPT ![i0] = L][j] = IF j = i0 THEN L ELSE s[j]
      <4>1. s \in Seq(Nat) /\ L \in Nat
        BY <3>1 DEF s
      <4> QED
        BY <4>1, SizeFacts
    <3> QED
      BY <3>2 DEF s, i0
  <2>7. /\ client' \in ClientState /\ client'.sent = Tail(client.sent) \o e /\ client'.msg = client.msg
        /\ client'.body = [client.body EXCEPT ![client.msg] = L] /\ client'.done = client.done /\ client'.ok = client.ok
    BY <1>2, <2>1, <2>5, <2>6 DEF ClientState
  <2>8. \A i \in 1..Len(t) : t[i].msg <= MaxMessages /\ t[i].line \notin Mails
    <3>1. ASSUME NEW i \in 1..Len(t)
          PROVE  t[i].msg <= MaxMessages /\ t[i].line \notin Mails
      <4>1. i \in 1..(L + 1) /\ (i \in 1..L \/ i = L + 1)
        BY <2>2, <2>3
      <4>2. ls[i] \in {"text", "8bit", "."}
        BY <2>2, <4>1
      <4> QED
        BY <1>2, <2>3, <4>1, <4>2 DEF Mails
    <3> QED
      BY <3>1
  <2>9. SessionTypes'
    <3>1. Len(client.body) = client.msg /\ Len(client.done) = client.msg
      BY <1>2 DEF SessionTypes
    <3> QED
      <4>1. /\ SessionTypes /\ server' = server /\ relayed' = relayed /\ back' \in Seq(Reply)
            /\ client' \in ClientState /\ client'.msg <= MaxMessages
        BY <1>1, <1>2, <1>3, <2>7
      <4>2. Len(client'.body) = client'.msg /\ Len(client'.done) = client'.msg
        BY <2>6, <2>7, <3>1
      <4> QED
        BY <4>1, <4>2, <2>1, <2>3, <2>8, ClientTypes
  <2>10. Once'
    <3>1. client.msg <= client.msg
      BY <1>2
    <3> QED
      BY <1>1, <1>2, <2>1, <2>3, <2>7, <2>8, <3>1, ClientOnce
  <2>11. EarlierFit' => EarlierFit
    <3>1. ASSUME EarlierFit', NEW i \in 1..Len(client.body), i < client.msg
          PROVE  client.body[i] <= MaxBody
      <4>1. client'.body[i] = client.body[i] /\ i \in 1..Len(client'.body)
        BY <1>2, <2>6, <2>7, <3>1
      <4> QED
        BY <2>7, <3>1, <4>1 DEF EarlierFit
    <3> QED
      BY <3>1 DEF EarlierFit
  <2>12. ASSUME InStep
         PROVE  InStep'
    <3>1. /\ Aligned /\ Pipelined /\ Len(client.sent) = 1 /\ Len(back) = 1 /\ wire = <<>> /\ back' = <<>>
          /\ Tail(client.sent) = <<>> /\ back[1].to = client.sent[1] /\ server.from \in {0, client.msg}
          /\ client.msg > 0
      BY <1>1, <1>2, <1>4, <2>12, GotLast
    <3>2. server.mode = "data" /\ server.lines = 0
      <4>1. 1 \in 1..Len(back) /\ back[1].code = 354
        BY <1>3, <1>6, <3>1
      <4> QED
        BY <3>1, <4>1 DEF Aligned, Prompted
    <3>3. server.rcpts = client.ok
      <4>1. First(Envelope \cup {"DATA"})
        BY <1>3, <1>4 DEF First
      <4>2. PICK f \in [0..1 -> Nat] : Count(f, client.ok, back, server.rcpts)
        BY <3>1, <4>1 DEF Aligned, Tallied
      <4>3. 1 \in 1..1 /\ 1 - 1 = 0
        OBVIOUS
      <4>4. f[0] = client.ok /\ f[1] = server.rcpts /\ f[1] = f[0] + Adds(back[1])
        BY <3>1, <4>2, <4>3 DEF Count
      <4>5. Adds(back[1]) = 0
        BY <1>4, <3>1 DEF Adds
      <4>6. f[0] \in Nat /\ f[0] + 0 = f[0]
        BY <4>2
      <4> QED
        BY <4>4, <4>5, <4>6
    <3>4. client'.sent = e /\ wire' = t
      <4>1. <<>> \o t = t
        BY <2>3
      <4> QED
        BY <2>1, <2>4, <2>7, <3>1, <4>1
    <3>5. Pipelined'
      BY <2>4, <2>7, <3>1, <3>4, SinglePipelined
    <3>6. e # <<>> /\ t # <<>>
      <4>1. Len(t) # 0
        BY <2>2, <2>3
      <4> QED
        BY <2>3, <2>4, <4>1, LengthFacts
    <3>7. t[Len(t)] = e[1]
      <4>1. t[L + 1].line = "." /\ t[L + 1].msg = client.msg /\ t[L + 1] \in Line
        <5>1. L + 1 \in 1..(L + 1)
          BY <2>2
        <5> QED
          BY <2>2, <2>3, <5>1
      <4>2. e[1].line = "." /\ e[1].msg = client.msg /\ e[1] \in Line
        BY <2>4
      <4>3. \A x, y \in Line : x.line = y.line /\ x.msg = y.msg => x = y
        BY DEF Line
      <4> QED
        BY <2>3, <4>1, <4>2, <4>3
    <3>8. \A i \in 1..Len(t) : i < Len(t) => t[i].line \in {"text", "8bit"}
      <4>1. ASSUME NEW i \in 1..Len(t), i < Len(t)
            PROVE  t[i].line \in {"text", "8bit"}
        <5>1. i \in 1..(L + 1) /\ i \in 1..L
          BY <2>2, <2>3, <4>1
        <5> QED
          BY <2>2, <2>3, <5>1
      <4> QED
        BY <4>1
    <3>9. client'.body[client.msg] = L
      <4>1. client.msg \in 1..Len(client.body)
        BY <1>2, <3>1 DEF SessionTypes
      <4> QED
        BY <2>6, <2>7, <4>1
    <3>10. 0 + (L + 1) = L + 1
      BY <2>2
    <3>11. InBody'
      <4>1. First({"."})'
        BY <2>4, <3>4, <3>6 DEF First
      <4>2. server'.lines + Len(wire') = client'.body[client'.msg] + 1
        BY <1>1, <2>3, <2>7, <3>2, <3>4, <3>9, <3>10
      <4> QED
        BY <1>1, <2>4, <2>7, <3>1, <3>2, <3>3, <3>4, <3>6, <3>7, <3>8, <4>1, <4>2 DEF InBody
    <3> QED
      BY <1>1, <2>7, <3>1, <3>5, <3>11 DEF InStep
  <2> QED
    BY <1>2, <1>5, <2>9, <2>10, <2>11, <2>12 DEF SessionInv
<1>7. CASE Head(back).code # 354
  <2> DEFINE e == Session!Tag(<<"RSET">>)
             d == [client.done EXCEPT ![client.msg] = "deferred"]
  <2>1. wire' = wire \o e /\ client' = [client EXCEPT !.sent = Tail(client.sent) \o e, !.done = d]
    BY <1>1, <1>2, <1>7 DEF ClientState, Session!Close
  <2>2. "RSET" \in Session!Lines
    BY DEF Session!Lines
  <2>3. /\ e \in Seq(Line) /\ Len(e) = 1 /\ e # <<>> /\ <<>> \o e = e
        /\ e[1] \in Line /\ e[1].line = "RSET" /\ e[1].msg = client.msg
    BY <1>2, <2>2, SingleTag
  <2>4. d \in Seq({"open", "sent", "deferred", "bounced"}) /\ Len(d) = Len(client.done)
    <3>1. "deferred" \in {"open", "sent", "deferred", "bounced"}
      OBVIOUS
    <3> QED
      BY <1>2, <3>1, ExceptFacts
  <2> HIDE DEF e, d
  <2>5. Tail(client.sent) \o e \in Seq(Line)
    BY <1>3, <2>3, ConcatFacts
  <2>6. /\ client' \in ClientState /\ client'.sent = Tail(client.sent) \o e /\ client'.msg = client.msg
        /\ client'.body = client.body /\ client'.done = d /\ client'.ok = client.ok
    BY <1>2, <2>1, <2>4, <2>5 DEF ClientState
  <2>7. \A i \in 1..Len(e) : e[i].msg <= MaxMessages /\ e[i].line \notin Mails
    <3>1. e[1].msg <= MaxMessages /\ e[1].line \notin Mails
      BY <1>2, <2>3 DEF Mails
    <3>2. \A i \in 1..1 : i = 1
      OBVIOUS
    <3> QED
      BY <2>3, <3>1, <3>2
  <2>8. SessionTypes'
    <3>1. Len(client.body) = client.msg /\ Len(client.done) = client.msg
      BY <1>2 DEF SessionTypes
    <3> QED
      <4>1. /\ SessionTypes /\ server' = server /\ relayed' = relayed /\ back' \in Seq(Reply)
            /\ client' \in ClientState /\ client'.msg <= MaxMessages
        BY <1>1, <1>2, <1>3, <2>6
      <4>2. Len(client'.body) = client'.msg /\ Len(client'.done) = client'.msg
        BY <2>4, <2>6, <3>1
      <4> QED
        BY <4>1, <4>2, <2>1, <2>3, <2>7, ClientTypes
  <2>9. Once'
    <3>1. client.msg <= client.msg
      BY <1>2
    <3> QED
      BY <1>1, <1>2, <2>1, <2>3, <2>6, <2>7, <3>1, ClientOnce
  <2>10. EarlierFit' = EarlierFit
    BY <2>6 DEF EarlierFit
  <2>11. ASSUME InStep
         PROVE  InStep'
    <3>1. /\ Aligned /\ Pipelined /\ Len(client.sent) = 1 /\ Len(back) = 1 /\ wire = <<>> /\ back' = <<>>
          /\ Tail(client.sent) = <<>> /\ back[1].to = client.sent[1] /\ server.from \in {0, client.msg}
          /\ client.msg > 0
      BY <1>1, <1>2, <1>4, <2>11, GotLast
    <3>2. server.mode # "data"
      BY <1>3, <1>7, <3>1 DEF Aligned, Prompted
    <3>3. client'.sent = e /\ wire' = e
      BY <2>1, <2>3, <2>6, <3>1
    <3>4. e # <<>>
      BY <2>3
    <3>5. Pipelined'
      BY <2>3, <2>6, <3>1, <3>3, SinglePipelined
    <3>6. Matched'
      <4>1. Len(back') = 0 /\ 1 = 0 + 1 /\ (\A i \in 1..1 : 0 + i = i) /\ 1..0 = {}
        BY <3>1
      <4> QED
        BY <2>3, <3>3, <4>1 DEF Matched
    <3>7. Prompted'
      BY <1>1, <3>1, <3>2 DEF Prompted
    <3>8. Cleared' /\ Tallied' /\ Handed'
      <4>1. client'.sent[1].line = "RSET" /\ client'.sent # <<>>
        BY <2>3, <3>3, <3>4
      <4> QED
        BY <3>1, <4>1 DEF Cleared, Resting, Tallied, Handed, First, Envelope, Mails
    <3> QED
      BY <1>1, <2>6, <3>1, <3>5, <3>6, <3>7, <3>8 DEF InStep, Aligned
  <2> QED
    BY <1>2, <1>5, <2>8, <2>9, <2>10, <2>11 DEF SessionInv
<1> QED
  BY <1>6, <1>7

\* The end of what stands alone: the two ends are at rest.
LEMMA RestInStep ==
    ASSUME SessionTypes, Once, InStep, Session!Got, client.sent[1].line \in {"EHLO", "QUIT", "RSET", "."},
           wire' = wire, server' = server, relayed' = relayed,
           client'.sent = Tail(client.sent), client'.msg = client.msg
    PROVE  InStep'
<1>1. /\ Aligned /\ Len(client.sent) = 1 /\ Len(back) = 1 /\ wire = <<>> /\ back' = <<>>
      /\ Tail(client.sent) = <<>> /\ server.from \in {0, client.msg} /\ back # <<>> /\ client.sent # <<>>
  <2>1. client.sent[1].line \notin Envelope
    BY DEF Envelope, Mails
  <2> QED
    BY <2>1, GotLast, GotFacts
<1>2. server.from = 0 /\ server.rcpts = 0
  BY <1>1 DEF Aligned, Cleared, Resting, First
<1>3. server.mode # "data"
  <2>1. ~(0 > 0)
    OBVIOUS
  <2> QED
    BY <1>2, <2>1 DEF Once
<1>4. client'.sent = <<>> /\ Len(client'.sent) = 0 /\ Len(back') = 0 /\ Len(wire) = 0 /\ 0 + 0 = 0 /\ 1..0 = {}
  BY <1>1
<1>5. Pipelined' /\ Matched'
  BY <1>4 DEF Pipelined, Matched
<1>6. Prompted' /\ Cleared' /\ Tallied' /\ Handed'
  BY <1>1, <1>2, <1>3, <1>4 DEF Prompted, Cleared, Tallied, Handed, First
<1> QED
  BY <1>1, <1>2, <1>5, <1>6 DEF InStep, Aligned

LEMMA FinalReplyInv ==
    ASSUME SessionInv, Session!ReadFinalReply
    PROVE  SessionInv'
<1>1. PICK o \in {"sent", "bounced", "deferred"} :
        /\ Session!Got /\ Head(client.sent).line = "." /\ wire' = wire /\ server' = server /\ relayed' = relayed
        /\ client' = [[client EXCEPT !.sent = Tail(@)] EXCEPT !.done[client.msg] = o]
  <2> DEFINE o == CASE Head(back).code = 250 -> "sent"
                    [] Head(back).code \in {552, 554} -> "bounced"
                    [] OTHER -> "deferred"
  <2>1. o \in {"sent", "bounced", "deferred"}
    OBVIOUS
  <2>2. client' = Session!Close([client EXCEPT !.sent = Tail(@)], o)
    BY DEF Session!ReadFinalReply, Session!Rest
  <2>3. /\ Session!Got /\ Head(client.sent).line = "." /\ wire' = wire /\ server' = server /\ relayed' = relayed
    BY DEF Session!ReadFinalReply, Session!Awaited
  <2>4. client \in ClientState
    BY DEF SessionInv, SessionTypes
  <2> HIDE DEF o
  <2>5. client' = [[client EXCEPT !.sent = Tail(@)] EXCEPT !.done[client.msg] = o]
    BY <2>2, <2>4 DEF Session!Close, ClientState
  <2> QED
    BY <2>1, <2>3, <2>5
<1> DEFINE d == [client.done EXCEPT ![client.msg] = o]
<1>2. /\ SessionTypes /\ Once /\ (EarlierFit => InStep \/ Overrun) /\ client \in ClientState
      /\ client.done \in Seq({"open", "sent", "deferred", "bounced"}) /\ client.msg \in Nat
      /\ Len(client.done) = client.msg
  BY DEF SessionInv, SessionTypes, ClientState
<1>3. /\ back' \in Seq(Reply) /\ Head(client.sent) = client.sent[1] /\ client.sent # <<>>
      /\ Tail(client.sent) \in Seq(Line)
  BY <1>1, <1>2, GotFacts
<1>4. /\ d \in Seq({"open", "sent", "deferred", "bounced"}) /\ Len(d) = Len(client.done)
      /\ (client.msg > 0 => d[client.msg] = o)
  <2> DEFINE s == client.done
             i0 == client.msg
  <2>1. s \in Seq({"open", "sent", "deferred", "bounced"}) /\ o \in {"open", "sent", "deferred", "bounced"}
        /\ i0 \in Nat /\ Len(s) = i0
    BY <1>1, <1>2
  <2> HIDE DEF s, i0
  <2>2. /\ [s EXCEPT ![i0] = o] \in Seq({"open", "sent", "deferred", "bounced"})
        /\ Len([s EXCEPT ![i0] = o]) = Len(s)
        /\ \A j \in 1..Len(s) : [s EXCEPT ![i0] = o][j] = IF j = i0 THEN o ELSE s[j]
    BY <2>1, ExceptFacts
  <2>3. i0 > 0 => i0 \in 1..Len(s)
    BY <2>1
  <2>4. i0 > 0 => [s EXCEPT ![i0] = o][i0] = o
    BY <2>2, <2>3
  <2> QED
    BY <2>2, <2>4 DEF s, i0
<1>5. client' = [client EXCEPT !.sent = Tail(client.sent), !.done = d]
  BY <1>1, <1>2 DEF ClientState
<1> HIDE DEF d
<1>6. /\ client' \in ClientState /\ client'.sent = Tail(client.sent) /\ client'.msg = client.msg
      /\ client'.body = client.body /\ client'.done = d
  BY <1>2, <1>3, <1>4, <1>5 DEF ClientState
<1>7. SessionTypes' /\ Once' /\ EarlierFit' = EarlierFit
  BY <1>1, <1>2, <1>3, <1>4, <1>6, ClientQuiet DEF EarlierFit
<1>8. ASSUME InStep
      PROVE  InStep'
  BY <1>1, <1>2, <1>3, <1>6, <1>8, RestInStep
<1>9. ASSUME Overrun
      PROVE  Overrun'
  <2>1. /\ client.msg > 0 /\ client.body[client.msg] > MaxBody
        /\ \A i \in 1..Len(client.sent) : client.sent[i].line \in {".", "QUIT"}
    BY <1>9 DEF Overrun
  <2>2. \A i \in 1..Len(client'.sent) : client'.sent[i].line \in {".", "QUIT"}
    <3>1. ASSUME NEW i \in 1..Len(Tail(client.sent))
          PROVE  i + 1 \in 1..Len(client.sent) /\ Tail(client.sent)[i] = client.sent[i + 1]
      BY <1>1, <1>2, GotFacts
    <3> QED
      BY <1>6, <2>1, <3>1
  <2>3. client'.done[client.msg] # "open"
    BY <1>1, <1>4, <1>6, <2>1
  <2> QED
    BY <1>6, <2>1, <2>2, <2>3 DEF Overrun
<1> QED
  BY <1>2, <1>7, <1>8, <1>9 DEF SessionInv

LEMMA OtherReplyInv ==
    ASSUME SessionInv, Session!ReadOtherReply
    PROVE  SessionInv'
<1>1. /\ Session!Got /\ Head(client.sent).line \in {"EHLO", "RSET", "QUIT"} /\ wire' = wire /\ server' = server
      /\ relayed' = relayed /\ client' = [client EXCEPT !.sent = Tail(@)]
  BY DEF Session!ReadOtherReply, Session!Awaited, Session!Rest
<1>2. SessionTypes /\ Once /\ (EarlierFit => InStep \/ Overrun) /\ client \in ClientState
  BY DEF SessionInv, SessionTypes
<1>3. /\ back' \in Seq(Reply) /\ Head(client.sent) = client.sent[1] /\ client.sent # <<>>
      /\ Tail(client.sent) \in Seq(Line) /\ Len(client.sent) \in Nat /\ Len(client.sent) > 0
  BY <1>1, <1>2, GotFacts
<1>6. /\ client' \in ClientState /\ client'.sent = Tail(client.sent) /\ client'.msg = client.msg
      /\ client'.body = client.body /\ client'.done = client.done
  BY <1>1, <1>2, <1>3 DEF ClientState
<1>7. SessionTypes' /\ Once' /\ EarlierFit' = EarlierFit
  BY <1>1, <1>2, <1>3, <1>6, ClientQuiet DEF EarlierFit
<1>8. ASSUME InStep
      PROVE  InStep'
  BY <1>1, <1>2, <1>3, <1>6, <1>8, RestInStep
<1>9. ASSUME Overrun
      PROVE  Overrun'
  <2>1. /\ client.msg > 0 /\ client.body[client.msg] > MaxBody
        /\ \A i \in 1..Len(client.sent) : client.sent[i].line \in {".", "QUIT"}
    BY <1>9 DEF Overrun
  <2>2. \A i \in 1..Len(client'.sent) : client'.sent[i].line \in {".", "QUIT"}
    <3>1. ASSUME NEW i \in 1..Len(Tail(client.sent))
          PROVE  i + 1 \in 1..Len(client.sent) /\ Tail(client.sent)[i] = client.sent[i + 1]
      BY <1>1, <1>2, GotFacts
    <3> QED
      BY <1>6, <2>1, <3>1
  <2>3. client'.done[client.msg] # "open"
    BY <1>1, <1>3, <1>6, <1>9 DEF Overrun, First
  <2> QED
    BY <1>6, <2>1, <2>2, <2>3 DEF Overrun
<1> QED
  BY <1>2, <1>7, <1>8, <1>9 DEF SessionInv

LEMMA SendQuitInv ==
    ASSUME SessionInv, Session!SendQuit
    PROVE  SessionInv'
<1> DEFINE e == Session!Tag(<<"QUIT">>)
<1>1. /\ client.sent = <<>> /\ wire' = wire \o e /\ client' = [client EXCEPT !.sent = client.sent \o e]
      /\ back' = back /\ server' = server /\ relayed' = relayed
  <2>1. client \in ClientState
    BY DEF SessionInv, SessionTypes
  <2> HIDE DEF e
  <2> QED
    BY <2>1 DEF Session!SendQuit, Session!Send, e, ClientState
<1>2. SessionTypes /\ Once /\ (EarlierFit => InStep \/ Overrun) /\ client.msg \in Nat /\ client \in ClientState
      /\ back \in Seq(Reply) /\ wire \in Seq(Line)
  BY DEF SessionInv, SessionTypes, ClientState
<1>3. /\ e \in Seq(Line) /\ Len(e) = 1 /\ e # <<>> /\ <<>> \o e = e
      /\ e[1] \in Line /\ e[1].line = "QUIT" /\ e[1].msg = client.msg
  <2>1. "QUIT" \in Session!Lines
    BY DEF Session!Lines
  <2> QED
    BY <1>2, <2>1, SingleTag
<1> HIDE DEF e
<1>4. client' = [client EXCEPT !.sent = e]
  BY <1>1, <1>3
<1>5. /\ client' \in ClientState /\ client'.sent = e /\ client'.msg = client.msg
      /\ client'.body = client.body /\ client'.done = client.done
  BY <1>2, <1>3, <1>4 DEF ClientState
<1>6. \A i \in 1..Len(e) : e[i].msg <= MaxMessages /\ e[i].line \notin Mails
  <2>1. e[1].msg <= MaxMessages /\ e[1].line \notin Mails
    BY <1>2, <1>3 DEF SessionTypes, Mails
  <2>2. \A i \in 1..1 : i = 1
    OBVIOUS
  <2> QED
    BY <1>3, <2>1, <2>2
<1>7. SessionTypes'
  <2>1. /\ client.msg <= MaxMessages /\ Len(client.body) = client.msg /\ Len(client.done) = client.msg
    BY <1>2 DEF SessionTypes
  <2> QED
    BY <1>1, <1>2, <1>3, <1>5, <1>6, <2>1, ClientTypes
<1>8. Once'
  <2>1. client.msg <= client.msg
    BY <1>2
  <2> QED
    BY <1>1, <1>2, <1>3, <1>5, <1>6, <2>1, ClientOnce
<1>9. EarlierFit' = EarlierFit
  BY <1>5 DEF EarlierFit
<1>10. ASSUME InStep
       PROVE  InStep'
  <2>1. Aligned /\ server.from \in {0, client.msg}
    <3>1. Len(client.sent) = 0
      BY <1>1
    <3> QED
      BY <1>10, <3>1 DEF InStep, InBody
  <2>2. back = <<>> /\ wire = <<>>
    <3> DEFINE b == Len(back)
               w == Len(wire)
    <3>1. b \in Nat /\ w \in Nat /\ 0 = b + w
      <4>1. Len(client.sent) = 0
        BY <1>1
      <4> QED
        BY <1>2, <2>1, <4>1 DEF Aligned, Matched
    <3> HIDE DEF b, w
    <3>2. b = 0 /\ w = 0
      BY <3>1
    <3> QED
      BY <1>2, <3>2, LengthFacts DEF b, w
  <2>3. server.from = 0 /\ server.rcpts = 0 /\ server.mode # "data"
    BY <1>1, <2>1, <2>2 DEF Aligned, Cleared, Resting, Prompted
  <2>4. wire' = e
    BY <1>1, <1>3, <2>2
  <2>5. Pipelined'
    BY <1>3, <1>5, SinglePipelined
  <2>6. Matched'
    <3>1. Len(back) = 0 /\ 1 = 0 + 1 /\ (\A i \in 1..1 : 0 + i = i) /\ 1..0 = {}
      BY <2>2
    <3> QED
      BY <1>1, <1>3, <1>5, <2>4, <3>1 DEF Matched
  <2>7. Prompted'
    <3>1. Len(back) = 0 /\ 1..0 = {}
      BY <2>2
    <3> QED
      BY <1>1, <2>3, <3>1 DEF Prompted
  <2>8. Cleared' /\ Tallied' /\ Handed'
    <3>1. client'.sent[1].line = "QUIT"
      BY <1>3, <1>5
    <3> QED
      BY <1>1, <2>3, <3>1 DEF Cleared, Tallied, Handed, First, Envelope, Mails
  <2> QED
    BY <1>1, <1>5, <2>1, <2>5, <2>6, <2>7, <2>8 DEF InStep, Aligned
<1>11. ASSUME Overrun
       PROVE  Overrun'
  <2>1. \A i \in 1..Len(client'.sent) : client'.sent[i].line \in {".", "QUIT"}
    <3>1. \A i \in 1..1 : i = 1
      OBVIOUS
    <3> QED
      BY <1>3, <1>5, <3>1
  <2>2. client.done[client.msg] # "open"
    BY <1>1, <1>11 DEF Overrun, First
  <2> QED
    BY <1>5, <1>11, <2>1, <2>2 DEF Overrun
<1> QED
  BY <1>2, <1>7, <1>8, <1>9, <1>10, <1>11 DEF SessionInv

\* The envelope of a message, sent in one go.
Sent(mail, rcpts, n) ==
    LET ls == <<mail>> \o rcpts \o <<"DATA">>
    IN  [i \in 1..Len(ls) |-> [line |-> ls[i], msg |-> n]]

Shaped(t, n) ==
    /\ t \in Seq(Line) /\ Len(t) \in Nat /\ Len(t) > 1
    /\ \A i \in 1..Len(t) : /\ t[i].msg = n
                            /\ i = 1 => t[i].line \in Mails
                            /\ i > 1 /\ i < Len(t) => t[i].line \in {"RCPT", "RCPT bad"}
                            /\ i = Len(t) => t[i].line = "DATA"

LEMMA EnvelopeFacts ==
    ASSUME NEW mail \in Mails, NEW rcpts \in RcptLists, NEW n \in Nat
    PROVE  Shaped(Sent(mail, rcpts, n), n)
<1> DEFINE T == Session!Lines
           R == Len(rcpts)
           a == <<mail>>
           z == <<"DATA">>
           ls == a \o rcpts \o z
           t  == [i \in 1..Len(ls) |-> [line |-> ls[i], msg |-> n]]
<1>1. rcpts \in Seq(T) /\ R \in Nat /\ \A i \in 1..R : rcpts[i] \in {"RCPT", "RCPT bad"}
  <2>1. rcpts \in Seq({"RCPT", "RCPT bad"}) /\ {"RCPT", "RCPT bad"} \subseteq T
    BY SubmissionAssumption DEF Session!Lines
  <2> QED
    BY <2>1, SeqWider
<1>2. a \in Seq(T) /\ Len(a) = 1 /\ a[1] = mail
  <2>1. mail \in T
    BY DEF Mails, Session!Lines
  <2> HIDE DEF T
  <2> QED
    BY <2>1
<1>3. z \in Seq(T) /\ Len(z) = 1 /\ z[1] = "DATA"
  <2>1. "DATA" \in T
    BY DEF Session!Lines
  <2> HIDE DEF T
  <2> QED
    BY <2>1
<1>1a. R \in Nat
  BY <1>1
<1>1b. rcpts \in Seq(T) /\ a \in Seq(T) /\ z \in Seq(T) /\ Len(rcpts) = R
  BY <1>1, <1>2, <1>3
<1> HIDE DEF R, a, z
<1> DEFINE u == a \o rcpts
<1>4. /\ u \in Seq(T) /\ Len(u) = 1 + R /\ u[1] = mail /\ \A i \in 1..R : u[1 + i] = rcpts[i]
  <2>0. /\ a \o rcpts \in Seq(T) /\ Len(a \o rcpts) = Len(a) + Len(rcpts)
        /\ \A i \in 1..Len(a) : (a \o rcpts)[i] = a[i]
        /\ \A i \in 1..Len(rcpts) : (a \o rcpts)[Len(a) + i] = rcpts[i]
    <3>1. a \in Seq(T) /\ rcpts \in Seq(T)
      BY <1>1b
    <3> HIDE DEF T
    <3> QED
      BY <3>1, ConcatFacts
  <2>1. /\ u \in Seq(T) /\ Len(u) = Len(a) + R
        /\ \A i \in 1..Len(a) : u[i] = a[i]
        /\ \A i \in 1..R : u[Len(a) + i] = rcpts[i]
    BY <1>1b, <2>0
  <2>2. 1 \in 1..1
    OBVIOUS
  <2> QED
    BY <1>2, <2>1, <2>2
<1> HIDE DEF u
<1>5. /\ ls \in Seq(T) /\ Len(ls) = (1 + R) + 1 /\ \A i \in 1..(1 + R) : ls[i] = u[i]
      /\ ls[(1 + R) + 1] = "DATA"
  <2>1. /\ u \o z \in Seq(T) /\ Len(u \o z) = Len(u) + Len(z)
        /\ \A i \in 1..Len(u) : (u \o z)[i] = u[i]
        /\ \A i \in 1..Len(z) : (u \o z)[Len(u) + i] = z[i]
    <3>1. u \in Seq(T) /\ z \in Seq(T)
      BY <1>1b, <1>4
    <3> HIDE DEF T
    <3> QED
      BY <3>1, ConcatFacts
  <2>2. ls = u \o z /\ 1 \in 1..1
    BY DEF u
  <2> HIDE DEF ls
  <2> QED
    BY <1>3, <1>4, <2>1, <2>2
<1> HIDE DEF ls
<1>6. /\ ls[1] = mail /\ ls[R + 2] = "DATA" /\ Len(ls) = R + 2 /\ R + 2 > 1 /\ R + 2 \in Nat
      /\ \A i \in 1..(R + 2) : i > 1 /\ i < R + 2 => ls[i] \in {"RCPT", "RCPT bad"}
  <2>1. (1 + R) + 1 = R + 2 /\ 1 \in 1..(1 + R) /\ R + 2 > 1 /\ R + 2 \in Nat
    BY <1>1a
  <2>2. ASSUME NEW i \in 1..(R + 2), i > 1, i < R + 2
        PROVE  ls[i] \in {"RCPT", "RCPT bad"}
    <3>1. i - 1 \in 1..R /\ 1 + (i - 1) = i /\ i \in 1..(1 + R)
      BY <1>1a, <2>2
    <3>2. ls[i] = u[i] /\ u[i] = rcpts[i - 1]
      BY <1>4, <1>5, <3>1
    <3> QED
      BY <1>1, <3>1, <3>2
  <2> QED
    BY <1>4, <1>5, <2>1, <2>2
<1>7. t \in Seq(Line) /\ Len(t) = Len(ls) /\ \A i \in 1..Len(ls) : t[i].line = ls[i] /\ t[i].msg = n
  BY <1>5, TagFacts
<1> HIDE DEF t
<1>8. ASSUME NEW i \in 1..Len(t)
      PROVE  /\ t[i].msg = n
             /\ i = 1 => t[i].line \in Mails
             /\ i > 1 /\ i < Len(t) => t[i].line \in {"RCPT", "RCPT bad"}
             /\ i = Len(t) => t[i].line = "DATA"
  <2>1. Len(t) = R + 2 /\ i \in 1..(R + 2) /\ t[i].msg = n /\ t[i].line = ls[i]
    BY <1>6, <1>7
  <2> QED
    BY <1>6, <2>1
<1>9. t \in Seq(Line) /\ Len(t) \in Nat /\ Len(t) > 1
  BY <1>6, <1>7
<1> QED
  BY <1>8, <1>9 DEF t, ls, a, z, Sent, Shaped

LEMMA SendEnvelopeInv ==
    ASSUME SessionInv, NEW mail \in Mails, NEW rcpts \in RcptLists, Session!SendEnvelope(mail, rcpts)
    PROVE  SessionInv'
<1> DEFINE n == client.msg + 1
           t == Sent(mail, rcpts, n)
           q == Len(t)
           bs == Append(client.body, 0)
           ds == Append(client.done, "open")
<1>1. /\ client.sent = <<>> /\ client.msg < MaxMessages /\ wire' = wire \o t
      /\ back' = back /\ server' = server /\ relayed' = relayed
      /\ client' = [client EXCEPT !.msg = n, !.sent = t, !.from = FALSE, !.ok = 0, !.body = bs, !.done = ds]
  BY DEF Session!SendEnvelope, Sent
<1>2. /\ SessionTypes /\ Once /\ (EarlierFit => InStep \/ Overrun) /\ client.msg \in Nat /\ client \in ClientState
      /\ client.body \in Seq(Nat) /\ client.done \in Seq({"open", "sent", "deferred", "bounced"})
      /\ back \in Seq(Reply) /\ wire \in Seq(Line) /\ Len(client.body) = client.msg /\ Len(client.done) = client.msg
  BY DEF SessionInv, SessionTypes, ClientState
<1>3. n \in Nat /\ client.msg < n /\ client.msg <= n /\ n > 0 /\ n <= MaxMessages
  <2>1. client.msg \in Nat /\ client.msg < MaxMessages
    BY <1>1, <1>2
  <2> QED
    BY <2>1, SessionParams
<1>4. /\ bs \in Seq(Nat) /\ Len(bs) = n /\ \A i \in 1..Len(client.body) : bs[i] = client.body[i]
  <2>1. 0 \in Nat
    OBVIOUS
  <2> QED
    BY <1>2, <2>1, AppendFacts
<1>5. ds \in Seq({"open", "sent", "deferred", "bounced"}) /\ Len(ds) = n
  <2>1. "open" \in {"open", "sent", "deferred", "bounced"}
    OBVIOUS
  <2> QED
    BY <1>2, <2>1, AppendFacts
<1>6. /\ t \in Seq(Line) /\ Len(t) \in Nat /\ Len(t) > 1
      /\ \A i \in 1..Len(t) : /\ t[i].msg = n
                              /\ i = 1 => t[i].line \in Mails
                              /\ i > 1 /\ i < Len(t) => t[i].line \in {"RCPT", "RCPT bad"}
                              /\ i = Len(t) => t[i].line = "DATA"
  <2>1. n \in Nat /\ mail \in Mails /\ rcpts \in RcptLists
    BY <1>3
  <2>2. Shaped(t, n)
    BY <2>1, EnvelopeFacts
  <2> HIDE DEF n, t
  <2> QED
    BY <2>2 DEF Shaped
<1>6a. q \in Nat /\ q > 1
  BY <1>6
<1>6b. \A i \in 1..q :
         /\ t[i].msg = n
         /\ i = 1 => t[i].line \in Mails
         /\ i > 1 /\ i < q => t[i].line \in {"RCPT", "RCPT bad"}
         /\ i = q => t[i].line = "DATA"
  BY <1>6
<1>6c. t \in Seq(Line) /\ Len(t) = q
  BY <1>6
<1> HIDE DEF t, bs, ds, q
<1>7. /\ client' \in ClientState /\ client'.sent = t /\ client'.msg = n /\ client'.ok = 0
      /\ client'.body = bs /\ client'.done = ds
  <2> HIDE DEF n
  <2>1. 0 \in Nat /\ FALSE \in BOOLEAN
    OBVIOUS
  <2> QED
    BY <1>1, <1>2, <1>3, <1>4, <1>5, <1>6, <2>1 DEF ClientState
<1>8. \A i \in 1..Len(t) : t[i].msg <= MaxMessages /\ (t[i].line \in Mails => i = 1 /\ t[i].msg = n)
  <2>1. ASSUME NEW i \in 1..q
        PROVE  t[i].msg = n /\ (t[i].line \in Mails => i = 1)
    <3>1. i = 1 \/ i = q \/ (i > 1 /\ i < q)
      BY <1>6a
    <3> QED
      BY <1>6b, <3>1 DEF Mails
  <2> QED
    BY <1>3, <1>6c, <2>1
<1> HIDE DEF n
<1>9. SessionTypes'
  BY <1>1, <1>2, <1>3, <1>4, <1>5, <1>6, <1>7, <1>8, ClientTypes
<1>10. Once'
  BY <1>1, <1>2, <1>3, <1>6, <1>7, <1>8, ClientOnce
<1>11. ASSUME EarlierFit'
       PROVE  InStep'
  <2>1. \A i \in 1..client.msg : client.body[i] <= MaxBody
    <3>1. ASSUME NEW i \in 1..client.msg
          PROVE  client.body[i] <= MaxBody
      <4>0. client.msg \in Nat /\ n = client.msg + 1 /\ Len(bs) = n /\ Len(client.body) = client.msg
        BY <1>2, <1>4 DEF n
      <4>1. i \in 1..Len(bs) /\ i < n /\ i \in 1..Len(client.body)
        BY <4>0
      <4>2. bs[i] <= MaxBody
        BY <1>7, <1>11, <4>1 DEF EarlierFit
      <4> QED
        BY <1>4, <4>1, <4>2
    <3> QED
      BY <3>1
  <2>2. EarlierFit
    BY <1>2, <2>1 DEF EarlierFit
  <2>3. ~Overrun
    <3>1. ASSUME Overrun PROVE FALSE
      <4>1. client.msg > 0 /\ client.body[client.msg] > MaxBody
        BY <3>1 DEF Overrun
      <4>2. client.msg \in 1..client.msg
        BY <1>2, <4>1
      <4>3. client.body[client.msg] <= MaxBody /\ client.body[client.msg] \in Nat
        BY <1>2, <2>1, <4>2
      <4> QED
        BY <4>1, <4>3, SessionParams
    <3> QED
      BY <3>1
  <2>4. Aligned
    <3>1. Len(client.sent) = 0
      BY <1>1
    <3> QED
      BY <1>2, <2>2, <2>3, <3>1 DEF InStep, InBody
  <2>5. back = <<>> /\ wire = <<>>
    <3> DEFINE b == Len(back)
               w == Len(wire)
    <3>1. b \in Nat /\ w \in Nat /\ 0 = b + w
      <4>1. Len(client.sent) = 0
        BY <1>1
      <4> QED
        BY <1>2, <2>4, <4>1 DEF Aligned, Matched
    <3> HIDE DEF b, w
    <3>2. b = 0 /\ w = 0
      BY <3>1
    <3> QED
      BY <1>2, <3>2, LengthFacts DEF b, w
  <2>6. server.from = 0 /\ server.rcpts = 0 /\ server.mode # "data"
    BY <1>1, <2>4, <2>5 DEF Aligned, Cleared, Resting, Prompted
  <2>7. wire' = t /\ t # <<>>
    <3>1. <<>> \o t = t
      BY <1>6c
    <3>2. t # <<>>
      <4>1. q # 0
        BY <1>6a
      <4> QED
        BY <1>6c, <4>1, LengthFacts
    <3> QED
      BY <1>1, <2>5, <3>1, <3>2
  <2>8. Pipelined'
    <3>1. ASSUME NEW i \in 1..q
          PROVE  /\ t[i].msg = n
                 /\ i > 1 => t[i].line \notin Mails
                 /\ i < q => t[i].line \in Envelope
                 /\ i = q => t[i].line = "DATA"
      <4>1. i = 1 \/ i = q \/ (i > 1 /\ i < q)
        BY <1>6a
      <4>2. (i = 1 => i < q /\ ~(i > 1) /\ i # q) /\ (i = q => i > 1 /\ ~(i < q))
        BY <1>6a
      <4>3. CASE i = 1
        BY <1>6b, <4>2, <4>3 DEF Envelope
      <4>4. CASE i = q
        BY <1>6b, <4>2, <4>4 DEF Mails
      <4>5. CASE i > 1 /\ i < q
        BY <1>6b, <4>5 DEF Envelope, Mails
      <4> QED
        BY <4>1, <4>3, <4>4, <4>5
    <3> QED
      BY <1>3, <1>6c, <1>7, <3>1 DEF Pipelined
  <2>9. Matched'
    <3>1. Len(back) = 0 /\ 1..0 = {}
      BY <2>5
    <3>2. q = 0 + q /\ \A i \in 1..q : 0 + i = i
      BY <1>6a
    <3> QED
      BY <1>1, <1>6c, <1>7, <2>7, <3>1, <3>2 DEF Matched
  <2>10. Prompted' /\ Cleared'
    <3>1. Len(back) = 0 /\ 1..0 = {}
      BY <2>5
    <3> QED
      BY <1>1, <2>6, <3>1 DEF Prompted, Cleared
  <2>11. Tallied'
    <3>1. Len(back) = 0 /\ 1..0 = {}
      BY <2>5
    <3> DEFINE f == [i \in 0..0 |-> 0]
    <3>2. f \in [0..0 -> Nat] /\ f[0] = 0
      OBVIOUS
    <3> HIDE DEF f
    <3>3. Count(f, 0, back, 0)
      BY <3>1, <3>2 DEF Count
    <3> QED
      BY <1>1, <1>7, <2>6, <3>1, <3>2, <3>3 DEF Tallied
  <2>12. Handed'
    <3>1. t[1].line \in Mails
      <4>1. 1 \in 1..q
        BY <1>6a
      <4> QED
        BY <1>6b, <4>1
    <3> QED
      BY <1>7, <3>1 DEF Handed, First, Mails
  <2> QED
    BY <1>1, <1>7, <2>6, <2>8, <2>9, <2>10, <2>11, <2>12 DEF InStep, Aligned
<1> QED
  BY <1>9, <1>10, <1>11 DEF SessionInv

-----------------------------------------------------------------------------
(* The session as a whole.                                                 *)

LEMMA SessionInit == Session!Init => SessionInv
<1> SUFFICES ASSUME Session!Init PROVE SessionInv
  OBVIOUS
<1> DEFINE e == [line |-> "EHLO", msg |-> 0]
<1>1. wire = <<e>> /\ back = <<>> /\ server = Session!Fresh /\ relayed = <<>>
      /\ client = [msg |-> 0, sent |-> <<e>>, from |-> FALSE, ok |-> 0, body |-> <<>>, done |-> <<>>]
  BY DEF Session!Init, Session!NoMessage
<1>2. e \in Line /\ e.line = "EHLO" /\ e.msg = 0
  BY DEF Line, Session!Lines
<1> HIDE DEF e
<1>3. <<e>> \in Seq(Line) /\ Len(<<e>>) = 1 /\ <<e>>[1] = e /\ <<e>> # <<>>
  BY <1>2
<1>4. /\ 0 <= MaxRcpts /\ 0 <= MaxBody /\ 0 <= MaxMessages /\ (\A i \in 1..1 : i = 1 /\ 0 + i = i)
      /\ 1..0 = {} /\ 1 = 0 + 1 /\ ~(0 > 0) /\ ~(1 > 1) /\ ~(1 < 1)
  BY SessionParams
<1>5. /\ server \in ServerState /\ server.from = 0 /\ server.rcpts = 0 /\ server.lines = 0 /\ server.mode = "command"
  BY <1>1 DEF Session!Fresh, ServerState
<1>6. /\ client \in ClientState /\ client.msg = 0 /\ client.sent = <<e>> /\ client.body = <<>> /\ client.done = <<>>
  <2>1. <<>> \in Seq(Nat) /\ <<>> \in Seq({"open", "sent", "deferred", "bounced"})
    OBVIOUS
  <2> QED
    BY <1>1, <1>3, <2>1 DEF ClientState
<1>7. back \in Seq(Reply) /\ relayed \in Seq(Relayed) /\ Len(back) = 0 /\ Len(relayed) = 0
      /\ Len(client.body) = 0 /\ Len(client.done) = 0
  BY <1>1, <1>6
<1>8. SessionTypes
  BY <1>1, <1>2, <1>3, <1>4, <1>5, <1>6, <1>7 DEF SessionTypes
<1>9. Once
  <2>1. Len(wire) = 1 /\ wire[1].line \notin Mails /\ server.mode # "data" /\ server.from = 0 /\ client.msg = 0
    BY <1>1, <1>2, <1>3, <1>5, <1>6 DEF Mails
  <2>2. \A i \in 1..Len(wire) : wire[i].line \notin Mails
    BY <1>4, <2>1
  <2>3. 0 <= 0
    OBVIOUS
  <2> QED
    BY <1>4, <1>7, <2>1, <2>2, <2>3 DEF Once
<1>10. InStep
  <2>1. First({"EHLO", "QUIT"}) /\ ~First(Envelope \cup {"DATA"}) /\ ~First({"."})
    BY <1>2, <1>3, <1>6 DEF First, Envelope, Mails
  <2>2. Pipelined
    BY <1>2, <1>3, <1>4, <1>6 DEF Pipelined
  <2>3. Matched
    BY <1>1, <1>3, <1>4, <1>6, <1>7 DEF Matched
  <2>4. Prompted /\ Cleared /\ Tallied /\ Handed
    BY <1>4, <1>5, <1>7, <2>1 DEF Prompted, Cleared, Tallied, Handed
  <2> QED
    BY <1>5, <2>2, <2>3, <2>4 DEF InStep, Aligned
<1> QED
  BY <1>8, <1>9, <1>10 DEF SessionInv

LEMMA SessionStepInv == SessionInv /\ Session!Next => SessionInv'
<1> SUFFICES ASSUME SessionInv, Session!Next PROVE SessionInv'
  OBVIOUS
<1>1. CASE Session!ServerStep
  <2>1. CASE Session!ServeEhlo \/ Session!ServeRset
    BY <2>1, ResetInv
  <2>2. CASE Session!ServeData
    BY <2>2, DataInv
  <2>3. CASE Session!ReadBodyLine
    BY <2>3, BodyLineInv
  <2>4. CASE Session!ReadBadBytes
    BY <2>4, BadBytesInv
  <2>5. CASE Session!ServeQuit
    BY <2>5, QuitInv
  <2>6. CASE \E l \in Session!Lines : Session!ServeMail(l) \/ Session!ServeRcpt(l) \/ Session!ServeUnknown(l)
    BY <2>6, MailInv, RcptInv, UnknownInv
  <2>7. CASE \E code \in {250, 451, 554, 421} : Session!ReadDot(code)
    BY <2>7, DotInv
  <2> QED
    BY <1>1, <2>1, <2>2, <2>3, <2>4, <2>5, <2>6, <2>7 DEF Session!ServerStep
<1>2. CASE Session!ClientStep
  <2>1. CASE Session!ReadEnvelopeReply
    BY <2>1, EnvelopeReplyInv
  <2>2. CASE Session!ReadFinalReply
    BY <2>2, FinalReplyInv
  <2>3. CASE Session!ReadOtherReply
    BY <2>3, OtherReplyInv
  <2>4. CASE Session!SendQuit
    BY <2>4, SendQuitInv
  <2>5. CASE \E body \in Bodies : Session!ReadDataReply(body)
    BY <2>5, DataReplyInv
  <2>6. CASE \E mail \in {"MAIL", "MAIL bad"}, rcpts \in RcptLists : Session!SendEnvelope(mail, rcpts)
    BY <2>6, SendEnvelopeInv DEF Mails
  <2> QED
    BY <1>2, <2>1, <2>2, <2>3, <2>4, <2>5, <2>6 DEF Session!ClientStep
<1> QED
  BY <1>1, <1>2 DEF Session!Next

LEMMA SessionStutter == SessionInv /\ UNCHANGED sessionVars => SessionInv'
<1> SUFFICES ASSUME SessionInv, UNCHANGED <<wire, back, server, client, relayed>> PROVE SessionInv'
  BY DEF sessionVars
<1>1. SessionTypes' /\ Once' /\ EarlierFit' = EarlierFit
  BY DEF SessionInv, SessionTypes, Once, EarlierFit
<1>2. Pipelined' = Pipelined /\ Aligned' = Aligned
  BY DEF Pipelined, Aligned, Matched, Prompted, Cleared, Resting, Tallied, Handed, First, Count
<1>3. InBody' = InBody /\ Overrun' = Overrun
  BY DEF InBody, Overrun, First
<1> QED
  BY <1>1, <1>2, <1>3 DEF SessionInv, InStep

\* What the invariant says of the session.
LEMMA SessionTruth == SessionInv => Session!TypeOK /\ Session!RepliesMatchCommands /\ Session!RelayedOnce
<1> SUFFICES ASSUME SessionInv PROVE Session!TypeOK /\ Session!RepliesMatchCommands /\ Session!RelayedOnce
  OBVIOUS
<1>1. SessionTypes /\ Once /\ (EarlierFit => InStep \/ Overrun)
  BY DEF SessionInv
<1>2. Session!TypeOK
  <2> DEFINE S == [line : Session!Lines, msg : 0..MaxMessages]
  <2>1. wire \in Seq(S)
    <3>1. wire \in [1..Len(wire) -> Line] /\ Len(wire) \in Nat
      BY <1>1 DEF SessionTypes
    <3>2. ASSUME NEW i \in 1..Len(wire)
          PROVE  wire[i] \in S
      <4>1. wire[i] \in Line /\ wire[i].msg <= MaxMessages
        BY <1>1, <3>1 DEF SessionTypes
      <4> QED
        BY <4>1, SessionParams DEF Line
    <3> HIDE DEF S
    <3>3. wire \in [1..Len(wire) -> S]
      BY <3>1, <3>2
    <3> QED
      BY <3>1, <3>3
  <2>2. \A i \in 1..Len(back) : back[i].code \in {221, 250, 354, 421, 451, 452, 500, 501, 503, 552, 554}
    <3>1. \A i \in 1..Len(back) : back[i] \in Reply
      BY <1>1 DEF SessionTypes
    <3> QED
      BY <3>1 DEF Reply, Codes
  <2>3. /\ server.rcpts \in 0..MaxRcpts /\ server.lines \in 0..MaxBody
        /\ server.mode \in {"command", "data", "closed"} /\ server.from \in 0..MaxMessages
    BY <1>1, SessionParams DEF SessionTypes, ServerState
  <2>4. client.ok \in Nat /\ Len(client.done) \in 0..MaxMessages
    <3>1. client.ok \in Nat /\ client.msg \in Nat /\ client.msg <= MaxMessages /\ Len(client.done) = client.msg
      BY <1>1 DEF SessionTypes, ClientState
    <3> QED
      BY <3>1, SessionParams
  <2> QED
    BY <2>1, <2>2, <2>3, <2>4 DEF Session!TypeOK
<1>3. Session!RepliesMatchCommands
  <2> SUFFICES ASSUME Session!BodiesFit, NEW i \in 1..Len(back)
               PROVE  i <= Len(client.sent) /\ back[i].to = client.sent[i]
    BY DEF Session!RepliesMatchCommands
  <2>1. ~Overrun
    <3> SUFFICES ASSUME Overrun PROVE FALSE
      OBVIOUS
    <3>1. client.msg > 0 /\ client.body[client.msg] > MaxBody /\ client.body \in Seq(Nat)
          /\ Len(client.body) = client.msg /\ client.msg \in Nat
      BY <1>1 DEF Overrun, SessionTypes, ClientState
    <3>2. client.msg \in 1..Len(client.body)
      BY <3>1
    <3>3. client.body[client.msg] \in Nat /\ client.body[client.msg] <= MaxBody
      BY <3>1, <3>2 DEF Session!BodiesFit
    <3> QED
      BY <3>1, <3>3, SessionParams
  <2>2. InStep
    BY <1>1, <2>1 DEF EarlierFit, Session!BodiesFit
  <2>3. Aligned
    <3>1. ASSUME InBody PROVE FALSE
      <4>1. Len(back) = 0 /\ 1..0 = {}
        BY <3>1 DEF InBody
      <4> QED
        BY <4>1
    <3> QED
      BY <2>2, <3>1 DEF InStep
  <2>4. Len(client.sent) = Len(back) + Len(wire) /\ back[i].to = client.sent[i]
    BY <2>3 DEF Aligned, Matched
  <2> DEFINE b == Len(back)
             w == Len(wire)
  <2>5. b \in Nat /\ w \in Nat /\ i \in 1..b
    BY <1>1 DEF SessionTypes
  <2> HIDE DEF b, w
  <2>6. i <= b + w
    BY <2>5
  <2> QED
    BY <2>4, <2>6 DEF b, w
<1>4. Session!RelayedOnce
  <2>1. /\ \A k \in 1..Len(relayed) : relayed[k].rcpts > 0
        /\ \A k, j \in 1..Len(relayed) : j < k => relayed[j].msg < relayed[k].msg
        /\ \A k \in 1..Len(relayed) : relayed[k].msg \in Nat
    <3>1. \A k \in 1..Len(relayed) : relayed[k] \in Relayed
      BY <1>1 DEF SessionTypes
    <3> QED
      BY <1>1, <3>1 DEF Once, Relayed
  <2>2. ASSUME NEW i \in 1..Len(relayed), NEW j \in 1..Len(relayed), relayed[i].msg = relayed[j].msg, i # j
        PROVE  FALSE
    <3>1. i < j \/ j < i
      <4>1. i \in Int /\ j \in Int
        OBVIOUS
      <4> QED
        BY <2>2, <4>1
    <3> QED
      BY <2>1, <2>2, <3>1
  <2> QED
    BY <2>1, <2>2 DEF Session!RelayedOnce
<1> QED
  BY <1>2, <1>3, <1>4

\* A message becomes "sent" by the answer to its dot only.
LEMMA SentByDot ==
    ASSUME SessionInv, Session!Next, NEW i \in 1..Len(client.done),
           client.done[i] = "open", client'.done[i] = "sent"
    PROVE  /\ Session!Got /\ Head(client.sent).line = "." /\ back[1].code = 250 /\ relayed' = relayed
           /\ i = client.msg
<1>1. /\ SessionTypes /\ client \in ClientState /\ Len(client.done) = client.msg /\ client.msg \in Nat
      /\ client.done \in Seq({"open", "sent", "deferred", "bounced"})
  BY DEF SessionInv, SessionTypes, ClientState
<1>2. client'.done # client.done
  OBVIOUS
<1>3. ASSUME NEW o,
             client'.done = [client.done EXCEPT ![client.msg] = o]
      PROVE  i = client.msg /\ o = "sent"
  <2> DEFINE s == client.done
             i0 == client.msg
  <2>1. s \in Seq({"open", "sent", "deferred", "bounced"}) /\ i \in 1..Len(s)
    BY <1>1
  <2>2. [s EXCEPT ![i0] = o][i] = "sent" /\ s[i] = "open"
    BY <1>3
  <2> HIDE DEF s, i0
  <2>3. s \in [1..Len(s) -> {"open", "sent", "deferred", "bounced"}]
    BY <2>1
  <2>4. [s EXCEPT ![i0] = o][i] = IF i = i0 THEN o ELSE s[i]
    BY <2>1, <2>3
  <2>5. i = i0 /\ o = "sent"
    BY <2>2, <2>4
  <2> QED
    BY <2>5 DEF i0
<1>4. ~Session!ServerStep
  <2>1. ASSUME Session!ServerStep PROVE client' = client
    <3>1. CASE Session!ServeEhlo \/ Session!ServeData \/ Session!ReadBodyLine \/ Session!ReadBadBytes
      BY <3>1, Zenon DEF Session!ServeEhlo, Session!ServeData, Session!ReadBodyLine, Session!ReadBadBytes
    <3>2. CASE Session!ServeRset \/ Session!ServeQuit
      BY <3>2, Zenon DEF Session!ServeRset, Session!ServeQuit
    <3>3. CASE \E l \in Session!Lines : Session!ServeMail(l) \/ Session!ServeRcpt(l) \/ Session!ServeUnknown(l)
      BY <3>3, Zenon DEF Session!ServeMail, Session!ServeRcpt, Session!ServeUnknown
    <3>4. CASE \E code \in {250, 451, 554, 421} : Session!ReadDot(code)
      <4>1. PICK code \in {250, 451, 554, 421} : Session!ReadDot(code)
        BY <3>4
      <4> QED
        BY <4>1, Zenon DEF Session!ReadDot
    <3> QED
      BY <2>1, <3>1, <3>2, <3>3, <3>4 DEF Session!ServerStep
  <2> QED
    BY <1>2, <2>1
<1>5. ~Session!ReadEnvelopeReply /\ ~Session!ReadOtherReply /\ ~Session!SendQuit
  BY <1>1, <1>2 DEF Session!ReadEnvelopeReply, Session!ReadOtherReply, Session!SendQuit, Session!Send, Session!Rest,
                    ClientState
<1>6. ASSUME NEW body \in Bodies, Session!ReadDataReply(body) PROVE FALSE
  <2>1. client'.done = client.done \/ client'.done = [client.done EXCEPT ![client.msg] = "deferred"]
    <3>1. CASE Head(back).code = 354
      <4>1. \E t : client' = [Session!Rest EXCEPT !.sent = t, !.body[client.msg] = Len(body)]
        BY <1>6, <3>1, Zenon DEF Session!ReadDataReply
      <4> QED
        BY <1>1, <4>1 DEF Session!Rest, ClientState
    <3>2. CASE Head(back).code # 354
      <4>1. \E t : client' = Session!Close([Session!Rest EXCEPT !.sent = t], "deferred")
        BY <1>6, <3>2, Zenon DEF Session!ReadDataReply
      <4> QED
        BY <1>1, <4>1 DEF Session!Rest, Session!Close, ClientState
    <3> QED
      BY <3>1, <3>2
  <2> QED
    BY <1>2, <1>3, <2>1
<1>7. ASSUME NEW mail \in Mails, NEW rcpts \in RcptLists, Session!SendEnvelope(mail, rcpts) PROVE FALSE
  <2>1. client'.done = Append(client.done, "open")
    BY <1>1, <1>7 DEF Session!SendEnvelope, ClientState
  <2>2. Append(client.done, "open")[i] = client.done[i]
    BY <1>1
  <2> QED
    BY <2>1, <2>2
<1>8. Session!ReadFinalReply
  BY <1>4, <1>5, <1>6, <1>7 DEF Session!Next, Session!ClientStep, Mails
<1>9. /\ Session!Got /\ Head(client.sent).line = "." /\ relayed' = relayed
  BY <1>8 DEF Session!ReadFinalReply, Session!Awaited
<1> DEFINE o == CASE Head(back).code = 250 -> "sent"
                  [] Head(back).code \in {552, 554} -> "bounced"
                  [] OTHER -> "deferred"
<1>10. client'.done = [client.done EXCEPT ![client.msg] = o]
  <2>1. client' = Session!Close([client EXCEPT !.sent = Tail(@)], o)
    BY <1>8 DEF Session!ReadFinalReply, Session!Rest
  <2> HIDE DEF o
  <2> QED
    BY <1>1, <2>1 DEF Session!Close, ClientState
<1>11. i = client.msg /\ o = "sent"
  <2> HIDE DEF o
  <2> QED
    BY <1>3, <1>10
<1>12. Head(back).code = 250
  BY <1>11
<1>13. Head(back) = back[1]
  BY <1>1, <1>9, GotFacts
<1> QED
  BY <1>9, <1>11, <1>12, <1>13

\* It was relayed whole, to the recipients that were accepted.
LEMMA SentWasRelayed ==
    ASSUME SessionInv, Session!Next, NEW i \in 1..Len(client.done),
           client.done[i] = "open", client'.done[i] = "sent",
           \A j \in 1..(i - 1) : client.body[j] <= MaxBody
    PROVE  \E k \in 1..Len(relayed) : /\ relayed[k].msg = i /\ relayed[k].rcpts = client.ok
                                      /\ relayed[k].lines = client.body[i]
<1>1. /\ Session!Got /\ Head(client.sent).line = "." /\ back[1].code = 250 /\ i = client.msg
  BY SentByDot
<1>2. SessionTypes /\ (EarlierFit => InStep \/ Overrun) /\ client.msg \in Nat
  BY DEF SessionInv, SessionTypes, ClientState
<1>3. client.sent # <<>> /\ Head(client.sent) = client.sent[1] /\ back # <<>>
  BY <1>1, <1>2, GotFacts
<1>4. First({"."})
  BY <1>1, <1>3 DEF First
<1>5. EarlierFit
  <2>1. ASSUME NEW j \in 1..Len(client.body), j < client.msg
        PROVE  client.body[j] <= MaxBody
    <3>1. j \in 1..(i - 1)
      <4>1. j \in Nat /\ j >= 1
        OBVIOUS
      <4> QED
        BY <1>1, <1>2, <2>1, <4>1
    <3> QED
      BY <3>1
  <2> QED
    BY <2>1 DEF EarlierFit
<1>6. ~Overrun
  BY <1>1 DEF Overrun
<1>7. Aligned
  BY <1>2, <1>3, <1>5, <1>6 DEF InStep, InBody
<1> QED
  BY <1>1, <1>4, <1>7 DEF Aligned, Handed

\* The two ends of the submission stay in step until a body is too long; until then
\* what counts as sent was relayed whole, and nothing is ever relayed twice
\* (handle_session and read_data of the sidecar's submission server).
THEOREM SubmissionAlwaysFaithful == Spec => SubmissionFaithful
<1> DEFINE P == part = "session" => Session!TypeOK /\ Session!RepliesMatchCommands /\ Session!RelayedOnce
           A == \A i \in 1..Len(client.done) :
                  (/\ client.done[i] = "open" /\ client'.done[i] = "sent"
                   /\ \A j \in 1..(i - 1) : client.body[j] <= MaxBody)
                  => \E k \in 1..Len(relayed) :
                        /\ relayed[k].msg = i
                        /\ relayed[k].rcpts = client.ok /\ relayed[k].lines = client.body[i]
<1>1. Init => SessionInv
  BY SessionInit DEF Init
<1>2. SessionInv /\ [Next]_vars => SessionInv' /\ [A]_(Session!vars)
  <2> SUFFICES ASSUME SessionInv, [Next]_vars PROVE SessionInv' /\ [A]_(Session!vars)
    OBVIOUS
  <2>1. Session!Next \/ UNCHANGED sessionVars
    BY DEF Next, Only, vars
  <2>2. CASE Session!Next
    <3>1. A
      BY <2>2, SentWasRelayed
    <3> QED
      BY <2>2, <3>1, SessionStepInv
  <2>3. CASE UNCHANGED sessionVars
    <3>1. UNCHANGED Session!vars
      BY <2>3 DEF sessionVars, Session!vars
    <3> QED
      BY <2>3, <3>1, SessionStutter
  <2> QED
    BY <2>1, <2>2, <2>3
<1>3. SessionInv => P
  BY SessionTruth
<1>4. Spec => []P
  BY <1>1, <1>2, <1>3, PTL DEF Spec
<1>5. Spec => [][A]_(Session!vars)
  BY <1>1, <1>2, PTL DEF Spec
<1> QED
  BY <1>4, <1>5 DEF SubmissionFaithful, Session!RelayedAsAccepted

-----------------------------------------------------------------------------
(* The edge's connections (EdgeServer).                                    *)

Busy(k) == {c \in Conns : conn[c].st = "working" /\ conn[c].key = k}

EdgeTypes ==
    /\ allow \subseteq Keys /\ conn \in [Conns -> Edge!Task]
    /\ free \in [Keys -> Nat] /\ queue \in [Keys -> Seq(Conns)]
    /\ phase \in {"serving", "draining", "stopped"} /\ edits \in 0..MaxEdits

\* The queue of a key holds its waiting tasks, each at one place.
Waits(c, k) == conn[c].st = "waiting" /\ conn[c].key = k
QueueOf(k) ==
    /\ \A i \in 1..Len(queue[k]) : Waits(queue[k][i], k)
    /\ \A i, j \in 1..Len(queue[k]) : queue[k][i] = queue[k][j] => i = j
    /\ \A c \in Conns : Waits(c, k) => \E i \in 1..Len(queue[k]) : queue[k][i] = c

\* Whoever is past the allow-list has a semaphore, whose permits are free or held.
Before == {"new", "handshake", "closed"}
PermitsOf(k) ==
    /\ free[k] = Edge!NoSemaphore => \A c \in Conns : conn[c].key = k => conn[c].st \in Before
    /\ free[k] # Edge!NoSemaphore => free[k] + Cardinality(Busy(k)) = Edge!Permits

EdgeInv == EdgeTypes /\ \A k \in Keys : QueueOf(k) /\ PermitsOf(k)

LEMMA EdgeParams ==
    /\ IsFiniteSet(Conns) /\ Conns \subseteq Nat /\ Edge!Permits \in Nat /\ Edge!Permits > 0
    /\ Edge!NoSemaphore = Edge!Permits + 1 /\ Edge!NoSemaphore # Edge!Permits /\ MaxEdits \in Nat
BY TunnelEndsAssumption DEF Edge!Permits, Edge!NoSemaphore

LEMMA BusyFinite ==
    ASSUME NEW k
    PROVE  IsFiniteSet(Busy(k)) /\ Cardinality(Busy(k)) \in Nat
<1>1. Busy(k) \subseteq Conns
  BY DEF Busy
<1> QED
  BY <1>1, EdgeParams, FS_Subset, FS_CardinalityType

LEMMA BusyFiniteNext ==
    ASSUME NEW k
    PROVE  IsFiniteSet(Busy(k)') /\ Cardinality(Busy(k)') \in Nat
<1>1. Busy(k)' \subseteq Conns
  BY DEF Busy
<1> QED
  BY <1>1, EdgeParams, FS_Subset, FS_CardinalityType

LEMMA TaskFacts ==
    ASSUME EdgeInv, NEW c \in Conns
    PROVE  /\ conn[c] \in Edge!Task /\ conn[c].key \in Keys /\ conn[c].st \in Edge!States
           /\ queue[conn[c].key] \in Seq(Conns) /\ free[conn[c].key] \in Nat
           /\ QueueOf(conn[c].key) /\ PermitsOf(conn[c].key)
BY DEF EdgeInv, EdgeTypes, Edge!Task

\* A task moves to another state and stays with its key.
Moves(c, k, st) ==
    /\ conn' \in [Conns -> Edge!Task] /\ conn'[c].st = st /\ conn'[c].key = k
    /\ \A d \in Conns : d # c => conn'[d] = conn[d]

LEMMA PutFacts ==
    ASSUME EdgeTypes, NEW c \in Conns, NEW k \in Keys, NEW st \in Edge!States,
           conn' = [conn EXCEPT ![c] = [st |-> st, key |-> k]]
    PROVE  Moves(c, k, st)
<1>1. [st |-> st, key |-> k] \in Edge!Task
  BY DEF Edge!Task
<1>2. conn \in [Conns -> Edge!Task]
  BY DEF EdgeTypes
<1>3. conn' \in [Conns -> Edge!Task] /\ conn'[c] = [st |-> st, key |-> k]
  BY <1>1, <1>2
<1>4. \A d \in Conns : d # c => conn'[d] = conn[d]
  BY <1>2
<1> QED
  BY <1>3, <1>4 DEF Moves

LEMMA SetFacts ==
    ASSUME EdgeTypes, NEW c \in Conns, NEW st \in Edge!States, Edge!Set(c, st)
    PROVE  Moves(c, conn[c].key, st)
<1>1. conn \in [Conns -> Edge!Task]
  BY DEF EdgeTypes
<1>2. conn' = [conn EXCEPT ![c].st = st]
  BY DEF Edge!Set
<1>3. conn[c] \in Edge!Task
  BY <1>1
<1>4. [conn[c] EXCEPT !.st = st] \in Edge!Task
  BY <1>3 DEF Edge!Task
<1>5. conn' \in [Conns -> Edge!Task] /\ conn'[c] = [conn[c] EXCEPT !.st = st]
  BY <1>1, <1>2, <1>4
<1>6. [conn[c] EXCEPT !.st = st].st = st /\ [conn[c] EXCEPT !.st = st].key = conn[c].key
  BY <1>3 DEF Edge!Task
<1>7. \A d \in Conns : d # c => conn'[d] = conn[d]
  BY <1>1, <1>2
<1> QED
  BY <1>5, <1>6, <1>7 DEF Moves

\* What a step does not touch of a key stays as it was.
LEMMA QueueKept ==
    ASSUME NEW k \in Keys, EdgeTypes, QueueOf(k), queue'[k] = queue[k],
           \A d \in Conns : (Waits(d, k))' = Waits(d, k)
    PROVE  (QueueOf(k))'
<1>1. \A i \in 1..Len(queue[k]) : queue[k][i] \in Conns
  BY DEF EdgeTypes
<1>3. \A i \in 1..Len(queue[k]) : Waits(queue[k][i], k)
  BY DEF QueueOf
<1>4. \A i \in 1..Len(queue[k]) : conn'[queue[k][i]].st = "waiting" /\ conn'[queue[k][i]].key = k
  BY <1>1, <1>3 DEF Waits
<1>5. \A i, j \in 1..Len(queue[k]) : queue[k][i] = queue[k][j] => i = j
  BY DEF QueueOf
<1>6. \A c \in Conns : conn'[c].st = "waiting" /\ conn'[c].key = k => \E i \in 1..Len(queue[k]) : queue[k][i] = c
  BY DEF QueueOf, Waits
<1> QED
  BY <1>4, <1>5, <1>6 DEF QueueOf, Waits

LEMMA PermitsKept ==
    ASSUME NEW k \in Keys, PermitsOf(k), free'[k] = free[k], Busy(k)' = Busy(k),
           free[k] = Edge!NoSemaphore => \A d \in Conns : conn'[d].key = k => conn'[d].st \in Before
    PROVE  (PermitsOf(k))'
BY DEF PermitsOf

\* A key whose connections all stay as they are, in a step of one task of another key.
LEMMA OtherKeys ==
    ASSUME EdgeInv, NEW c \in Conns, NEW k \in Keys, k # conn[c].key, NEW st, Moves(c, conn[c].key, st),
           queue'[k] = queue[k], free'[k] = free[k]
    PROVE  (QueueOf(k))' /\ (PermitsOf(k))'
<1>1. EdgeTypes /\ QueueOf(k) /\ PermitsOf(k)
  BY DEF EdgeInv
<1>2. \A d \in Conns : d # c => conn'[d] = conn[d]
  BY DEF Moves
<1>3. conn'[c].key = conn[c].key
  BY DEF Moves
<1>4. \A d \in Conns : (Waits(d, k))' = Waits(d, k)
  BY <1>2, <1>3 DEF Waits
<1>5. Busy(k)' = Busy(k)
  BY <1>2, <1>3 DEF Busy
<1>6. free[k] = Edge!NoSemaphore => \A d \in Conns : conn'[d].key = k => conn'[d].st \in Before
  BY <1>1, <1>2, <1>3 DEF PermitsOf
<1> QED
  BY <1>1, <1>4, <1>5, <1>6, QueueKept, PermitsKept

\* A step of one task that neither waits nor works before and after.
Idling == {"new", "handshake", "hello", "ready", "closed"}
LEMMA IdlingInv ==
    ASSUME EdgeInv, NEW c \in Conns, NEW n \in Keys, NEW st \in Idling, Moves(c, n, st),
           conn[c].st \in Idling, queue' = queue, allow' = allow, phase' = phase, edits' = edits,
           free' \in [Keys -> Nat],
           \A k \in Keys : free'[k] = free[k] \/ (free[k] = Edge!NoSemaphore /\ free'[k] = Edge!Permits),
           st \notin Before => free'[n] # Edge!NoSemaphore
    PROVE  EdgeInv'
<1>1. EdgeTypes /\ EdgeTypes'
  BY DEF EdgeInv, EdgeTypes, Moves
<1>2. /\ \A d \in Conns : d # c => conn'[d] = conn[d]
      /\ conn'[c].st = st /\ conn'[c].key = n
  BY DEF Moves
<1>3. ASSUME NEW k \in Keys
      PROVE  (QueueOf(k))' /\ (PermitsOf(k))'
  <2>1. QueueOf(k) /\ PermitsOf(k)
    BY DEF EdgeInv
  <2>2. \A d \in Conns : (Waits(d, k))' = Waits(d, k)
    BY <1>2 DEF Waits, Idling
  <2>3. (QueueOf(k))'
    BY <1>1, <2>1, <2>2, QueueKept
  <2>4. Busy(k)' = Busy(k)
    BY <1>2 DEF Busy, Idling
  <2>5. CASE free'[k] = free[k]
    <3>1. free[k] = Edge!NoSemaphore => \A d \in Conns : conn'[d].key = k => conn'[d].st \in Before
      BY <1>2, <2>1, <2>5 DEF PermitsOf
    <3> QED
      BY <2>1, <2>3, <2>4, <2>5, <3>1, PermitsKept
  <2>6. CASE free[k] = Edge!NoSemaphore /\ free'[k] = Edge!Permits
    <3>1. Busy(k) = {}
      BY <2>1, <2>6 DEF PermitsOf, Busy, Before
    <3>2. Cardinality(Busy(k)') = 0
      BY <2>4, <3>1, FS_EmptySet
    <3>3. free'[k] + Cardinality(Busy(k)') = Edge!Permits /\ free'[k] # Edge!NoSemaphore
      BY <2>6, <3>2, EdgeParams
    <3>4. (PermitsOf(k))'
      BY <3>3 DEF PermitsOf, Edge!Permits, Edge!NoSemaphore
    <3> QED
      BY <2>3, <3>4
  <2> QED
    BY <1>3, <2>5, <2>6
<1> QED
  BY <1>1, <1>3 DEF EdgeInv

\* A step that changes no task and no semaphore.
LEMMA TasksKept ==
    ASSUME EdgeInv, UNCHANGED <<conn, free, queue>>, allow' \subseteq Keys,
           phase' \in {"serving", "draining", "stopped"}, edits' \in 0..MaxEdits
    PROVE  EdgeInv'
<1>1. EdgeTypes /\ EdgeTypes'
  BY DEF EdgeInv, EdgeTypes
<1>2. ASSUME NEW k \in Keys
      PROVE  (QueueOf(k))' /\ (PermitsOf(k))'
  <2>1. QueueOf(k) /\ PermitsOf(k)
    BY DEF EdgeInv
  <2> QED
    BY <2>1 DEF QueueOf, PermitsOf, Waits, Busy
<1> QED
  BY <1>1, <1>2 DEF EdgeInv

LEMMA EdgeIdleSteps ==
    ASSUME EdgeInv, NEW c \in Conns,
           Edge!Authorize(c) \/ Edge!Hello(c) \/ Edge!Leave(c) \/ \E k \in Keys : Edge!Accept(c, k)
    PROVE  EdgeInv'
<1>1. /\ conn[c] \in Edge!Task /\ conn[c].key \in Keys /\ EdgeTypes
      /\ free \in [Keys -> Nat] /\ conn \in [Conns -> Edge!Task] /\ allow' = allow
  BY TaskFacts DEF EdgeInv, EdgeTypes, Edge!Authorize, Edge!Hello, Edge!Leave, Edge!Accept
<1> DEFINE k == conn[c].key
<1>2. CASE Edge!Authorize(c)
  <2>0. conn[c].st = "handshake" /\ queue' = queue /\ phase' = phase /\ edits' = edits
    BY <1>2 DEF Edge!Authorize
  <2>1. CASE k \in allow
    <3>1. /\ Edge!Set(c, "hello")
          /\ free' = [free EXCEPT ![k] = IF @ = Edge!NoSemaphore THEN Edge!Permits ELSE @]
      BY <1>2, <2>1 DEF Edge!Authorize
    <3>2. Moves(c, k, "hello")
      BY <1>1, <3>1, SetFacts DEF Edge!States
    <3>3. free' \in [Keys -> Nat] /\ free'[k] # Edge!NoSemaphore
      BY <1>1, <3>1, EdgeParams
    <3>4. \A x \in Keys : free'[x] = free[x] \/ (free[x] = Edge!NoSemaphore /\ free'[x] = Edge!Permits)
      BY <1>1, <3>1
    <3> HIDE DEF k
    <3> QED
      BY <1>1, <2>0, <3>2, <3>3, <3>4, IdlingInv DEF Idling, k
  <2>2. CASE k \notin allow
    <3>1. Edge!Set(c, "closed") /\ free' = free
      BY <1>2, <2>2 DEF Edge!Authorize
    <3>2. Moves(c, k, "closed")
      BY <1>1, <3>1, SetFacts DEF Edge!States
    <3> QED
      BY <1>1, <2>0, <3>1, <3>2, IdlingInv DEF Idling, Before
  <2> QED
    BY <2>1, <2>2
<1>3. CASE Edge!Hello(c)
  <2>1. /\ conn[c].st = "hello" /\ Edge!Set(c, "ready") /\ free' = free
        /\ queue' = queue /\ phase' = phase /\ edits' = edits
    BY <1>3 DEF Edge!Hello
  <2>2. Moves(c, k, "ready")
    BY <1>1, <2>1, SetFacts DEF Edge!States
  <2>3. free'[k] # Edge!NoSemaphore
    BY <2>1, TaskFacts DEF PermitsOf, Before
  <2> QED
    BY <1>1, <2>1, <2>2, <2>3, IdlingInv DEF Idling
<1>4. CASE Edge!Leave(c)
  <2>1. /\ conn[c].st \in {"handshake", "hello", "ready"} /\ Edge!Set(c, "closed") /\ free' = free
        /\ queue' = queue /\ phase' = phase /\ edits' = edits
    BY <1>4 DEF Edge!Leave
  <2>2. Moves(c, k, "closed")
    BY <1>1, <2>1, SetFacts DEF Edge!States
  <2> QED
    BY <1>1, <2>1, <2>2, IdlingInv DEF Idling, Before
<1>5. ASSUME NEW n \in Keys, Edge!Accept(c, n) PROVE EdgeInv'
  <2>1. /\ conn[c].st = "new" /\ conn' = [conn EXCEPT ![c] = [st |-> "handshake", key |-> n]] /\ free' = free
        /\ queue' = queue /\ phase' = phase /\ edits' = edits
    BY <1>5 DEF Edge!Accept
  <2>2. Moves(c, n, "handshake")
    BY <1>1, <2>1, PutFacts DEF Edge!States
  <2> QED
    BY <1>1, <2>1, <2>2, IdlingInv DEF Idling, Before
<1> QED
  BY <1>2, <1>3, <1>4, <1>5

\* A task takes a permit of its key: at once, or as the first of those that wait.
LEMMA TakesPermit ==
    ASSUME EdgeInv, NEW c \in Conns, NEW k, k = conn[c].key, Moves(c, k, "working"),
           conn[c].st \in {"ready", "waiting"}, free[k] > 0, free' = [free EXCEPT ![k] = @ - 1],
           queue' \in [Keys -> Seq(Conns)], allow' = allow, phase' = phase, edits' = edits,
           \A x \in Keys : x # k => queue'[x] = queue[x], (QueueOf(k))'
    PROVE  EdgeInv'
<1>1. /\ EdgeTypes /\ k \in Keys /\ free[k] \in Nat /\ PermitsOf(k) /\ free \in [Keys -> Nat]
  BY TaskFacts DEF EdgeInv, EdgeTypes
<1>2. free'[k] = free[k] - 1 /\ free' \in [Keys -> Nat] /\ \A x \in Keys : x # k => free'[x] = free[x]
  BY <1>1
<1>3. EdgeTypes'
  BY <1>1, <1>2 DEF EdgeTypes, Moves
<1>4. /\ \A d \in Conns : d # c => conn'[d] = conn[d]
      /\ conn'[c].st = "working" /\ conn'[c].key = k
  BY DEF Moves
<1>5. Busy(k)' = Busy(k) \cup {c} /\ c \notin Busy(k)
  BY <1>4 DEF Busy
<1>6. Cardinality(Busy(k)') = Cardinality(Busy(k)) + 1
  BY <1>5, BusyFinite, FS_AddElement
<1>7. free[k] + Cardinality(Busy(k)) = Edge!Permits
  BY <1>1 DEF PermitsOf, Before
<1>8. /\ free'[k] + Cardinality(Busy(k)') = Edge!Permits /\ free'[k] # Edge!NoSemaphore
  <2>1. /\ free[k] \in Nat /\ Cardinality(Busy(k)) \in Nat /\ Edge!Permits \in Nat
        /\ Edge!NoSemaphore = Edge!Permits + 1
    BY <1>1, BusyFinite, EdgeParams
  <2> QED
    BY <1>2, <1>6, <1>7, <2>1
<1>9. (PermitsOf(k))'
  BY <1>8 DEF PermitsOf, Edge!Permits, Edge!NoSemaphore
<1>10. \A x \in Keys : x # k => (QueueOf(x))' /\ (PermitsOf(x))'
  BY <1>2, OtherKeys
<1> QED
  BY <1>3, <1>9, <1>10 DEF EdgeInv

\* A task that was granted its permit drops it.
LEMMA DropsPermit ==
    ASSUME EdgeInv, NEW c \in Conns, NEW k, k = conn[c].key,
           NEW stays \in BOOLEAN, Edge!Complete(c, stays)
    PROVE  EdgeInv'
<1> DEFINE st == IF stays THEN "ready" ELSE "closed"
<1>1. /\ EdgeTypes /\ k \in Keys /\ free[k] \in Nat /\ PermitsOf(k) /\ QueueOf(k) /\ free \in [Keys -> Nat]
  BY TaskFacts DEF EdgeInv, EdgeTypes
<1>2. /\ conn[c].st = "working" /\ Edge!Set(c, st) /\ free' = [free EXCEPT ![k] = @ + 1]
      /\ allow' = allow /\ queue' = queue /\ phase' = phase /\ edits' = edits
  BY DEF Edge!Complete
<1>3. Moves(c, k, st)
  BY <1>1, <1>2, SetFacts DEF Edge!States
<1>4. free'[k] = free[k] + 1 /\ free' \in [Keys -> Nat] /\ \A x \in Keys : x # k => free'[x] = free[x]
  BY <1>1, <1>2
<1>5. EdgeTypes'
  BY <1>1, <1>2, <1>3, <1>4 DEF EdgeTypes, Moves
<1>6. /\ \A d \in Conns : d # c => conn'[d] = conn[d]
      /\ conn'[c].st \in {"ready", "closed"} /\ conn'[c].key = k
  BY <1>3 DEF Moves
<1>7. Busy(k)' = Busy(k) \ {c} /\ c \in Busy(k)
  BY <1>2, <1>6 DEF Busy
<1>8. Cardinality(Busy(k)') = Cardinality(Busy(k)) - 1 /\ Cardinality(Busy(k)') \in Nat
  BY <1>7, BusyFinite, BusyFiniteNext, FS_RemoveElement
<1>9. free[k] + Cardinality(Busy(k)) = Edge!Permits
  BY <1>1, <1>2 DEF PermitsOf, Before
<1>10. free'[k] + Cardinality(Busy(k)') = Edge!Permits /\ free'[k] # Edge!NoSemaphore
  <2>1. /\ free[k] \in Nat /\ Cardinality(Busy(k)) \in Nat /\ Edge!Permits \in Nat
        /\ Edge!NoSemaphore = Edge!Permits + 1
    BY <1>1, BusyFinite, EdgeParams
  <2> QED
    BY <1>4, <1>8, <1>9, <2>1
<1>11. (PermitsOf(k))'
  BY <1>10 DEF PermitsOf, Edge!Permits, Edge!NoSemaphore
<1>12. \A d \in Conns : (Waits(d, k))' = Waits(d, k)
  BY <1>2, <1>6 DEF Waits
<1>13. (QueueOf(k))'
  BY <1>1, <1>2, <1>12, QueueKept
<1>14. \A x \in Keys : x # k => (QueueOf(x))' /\ (PermitsOf(x))'
  BY <1>2, <1>3, <1>4, OtherKeys
<1> QED
  BY <1>5, <1>11, <1>13, <1>14 DEF EdgeInv

LEMMA JoinsQueue ==
    ASSUME EdgeInv, NEW c \in Conns, NEW k, k = conn[c].key, conn[c].st = "ready",
           Moves(c, k, "waiting"), queue' = [queue EXCEPT ![k] = Append(@, c)], free' = free,
           allow' = allow, phase' = phase, edits' = edits
    PROVE  EdgeInv'
<1> DEFINE q == queue[k]
<1>1. /\ EdgeTypes /\ k \in Keys /\ q \in Seq(Conns) /\ PermitsOf(k) /\ QueueOf(k)
      /\ queue \in [Keys -> Seq(Conns)]
  BY TaskFacts DEF EdgeInv, EdgeTypes
<1>2. /\ queue'[k] = Append(q, c) /\ \A x \in Keys : x # k => queue'[x] = queue[x]
      /\ queue' \in [Keys -> Seq(Conns)]
  BY <1>1
<1>3. /\ Len(queue'[k]) = Len(q) + 1 /\ Len(q) \in Nat /\ queue'[k][Len(q) + 1] = c
      /\ \A i \in 1..Len(q) : queue'[k][i] = q[i]
  BY <1>1, <1>2
<1>4. EdgeTypes'
  BY <1>1, <1>2 DEF EdgeTypes, Moves
<1>5. /\ \A d \in Conns : d # c => conn'[d] = conn[d]
      /\ conn'[c].st = "waiting" /\ conn'[c].key = k
  BY DEF Moves
<1>6. ~Waits(c, k)
  BY DEF Waits
<1>7. \A i \in 1..Len(q) : q[i] \in Conns /\ q[i] # c /\ Waits(q[i], k)
  BY <1>1, <1>6 DEF QueueOf
<1>8. \A i, j \in 1..Len(q) : q[i] = q[j] => i = j
  BY <1>1 DEF QueueOf
<1>9. \A d \in Conns : Waits(d, k) => \E i \in 1..Len(q) : q[i] = d
  BY <1>1 DEF QueueOf
<1>10. (QueueOf(k))'
  <2> HIDE DEF q
  <2>1. ASSUME NEW i \in 1..Len(queue'[k]) PROVE (Waits(queue[k][i], k))'
    <3>1. CASE i \in 1..Len(q)
      <4>1. queue'[k][i] = q[i] /\ q[i] \in Conns /\ q[i] # c /\ Waits(q[i], k)
        BY <1>3, <1>7, <3>1
      <4>2. conn'[q[i]] = conn[q[i]]
        BY <1>5, <4>1
      <4> QED
        BY <4>1, <4>2 DEF Waits
    <3>2. CASE i = Len(q) + 1
      BY <1>3, <1>5, <3>2 DEF Waits
    <3> QED
      BY <1>3, <2>1, <3>1, <3>2
  <2>2. ASSUME NEW i \in 1..Len(queue'[k]), NEW j \in 1..Len(queue'[k]), queue'[k][i] = queue'[k][j]
        PROVE  i = j
    <3>1. (i \in 1..Len(q) \/ i = Len(q) + 1) /\ (j \in 1..Len(q) \/ j = Len(q) + 1)
      BY <1>3
    <3> QED
      BY <1>3, <1>7, <1>8, <2>2, <3>1
  <2>3. ASSUME NEW d \in Conns, (Waits(d, k))' PROVE \E i \in 1..Len(queue'[k]) : queue'[k][i] = d
    <3>1. CASE d = c
      BY <1>3, <3>1
    <3>2. CASE d # c
      <4>1. PICK i \in 1..Len(q) : q[i] = d
        BY <1>5, <1>9, <2>3, <3>2 DEF Waits
      <4>2. i \in 1..Len(queue'[k]) /\ queue'[k][i] = d
        BY <1>3, <4>1
      <4> QED
        BY <4>2
    <3> QED
      BY <3>1, <3>2
  <2> QED
    BY <2>1, <2>2, <2>3 DEF QueueOf
<1>11. Busy(k)' = Busy(k)
  BY <1>5 DEF Busy
<1>12. (PermitsOf(k))'
  <2>1. free[k] # Edge!NoSemaphore
    BY <1>1 DEF PermitsOf, Before
  <2> QED
    BY <1>1, <1>11, <2>1, PermitsKept
<1>13. \A x \in Keys : x # k => (QueueOf(x))' /\ (PermitsOf(x))'
  BY <1>2, OtherKeys
<1> QED
  BY <1>4, <1>10, <1>12, <1>13 DEF EdgeInv

LEMMA LeavesQueue ==
    ASSUME EdgeInv, NEW c \in Conns, NEW k, k = conn[c].key, conn[c].st = "waiting",
           Moves(c, k, "working"), Head(queue[k]) = c, queue' = [queue EXCEPT ![k] = Tail(@)]
    PROVE  (QueueOf(k))' /\ queue' \in [Keys -> Seq(Conns)] /\ \A x \in Keys : x # k => queue'[x] = queue[x]
<1> DEFINE q == queue[k]
<1>1. /\ EdgeTypes /\ k \in Keys /\ q \in Seq(Conns) /\ QueueOf(k) /\ queue \in [Keys -> Seq(Conns)]
  BY TaskFacts DEF EdgeInv, EdgeTypes
<1>2. \E i \in 1..Len(q) : q[i] = c
  BY <1>1 DEF QueueOf, Waits
<1>3. q # <<>> /\ Len(q) \in Nat /\ Len(q) > 0 /\ q[1] = c
  BY <1>1, <1>2
<1>4. /\ Tail(q) \in Seq(Conns) /\ Len(Tail(q)) = Len(q) - 1
      /\ \A i \in 1..(Len(q) - 1) : Tail(q)[i] = q[i + 1]
  BY <1>1, <1>3
<1>5. /\ queue'[k] = Tail(q) /\ queue' \in [Keys -> Seq(Conns)]
      /\ \A x \in Keys : x # k => queue'[x] = queue[x]
  BY <1>1, <1>4
<1>6. /\ \A d \in Conns : d # c => conn'[d] = conn[d]
      /\ conn'[c].st = "working" /\ conn'[c].key = k
  BY DEF Moves
<1>7. \A i \in 1..Len(q) : q[i] \in Conns /\ Waits(q[i], k)
  BY <1>1 DEF QueueOf
<1>8. \A i, j \in 1..Len(q) : q[i] = q[j] => i = j
  BY <1>1 DEF QueueOf
<1>9. \A d \in Conns : Waits(d, k) => \E i \in 1..Len(q) : q[i] = d
  BY <1>1 DEF QueueOf
<1>10. (QueueOf(k))'
  <2> HIDE DEF q
  <2>1. ASSUME NEW i \in 1..Len(queue'[k]) PROVE (Waits(queue[k][i], k))'
    <3>1. i \in 1..(Len(q) - 1) /\ queue'[k][i] = q[i + 1]
      BY <1>4, <1>5
    <3>2. i + 1 \in 1..Len(q) /\ i + 1 # 1 /\ 1 \in 1..Len(q)
      BY <1>3, <3>1
    <3>3. q[i + 1] # c
      BY <1>3, <1>8, <3>2
    <3> QED
      BY <1>6, <1>7, <3>1, <3>2, <3>3 DEF Waits
  <2>2. ASSUME NEW i \in 1..Len(queue'[k]), NEW j \in 1..Len(queue'[k]), queue'[k][i] = queue'[k][j]
        PROVE  i = j
    <3>1. i \in 1..(Len(q) - 1) /\ j \in 1..(Len(q) - 1) /\ q[i + 1] = q[j + 1]
      BY <1>4, <1>5, <2>2
    <3>2. i + 1 \in 1..Len(q) /\ j + 1 \in 1..Len(q)
      BY <1>3, <3>1
    <3>3. i + 1 = j + 1
      BY <1>8, <3>1, <3>2
    <3> QED
      BY <3>1, <3>3
  <2>3. ASSUME NEW d \in Conns, (Waits(d, k))' PROVE \E i \in 1..Len(queue'[k]) : queue'[k][i] = d
    <3>1. d # c /\ Waits(d, k)
      BY <1>6, <2>3 DEF Waits
    <3>2. PICK i \in 1..Len(q) : q[i] = d
      BY <1>9, <3>1
    <3>3. i # 1 /\ i - 1 \in 1..(Len(q) - 1) /\ (i - 1) + 1 = i
      BY <1>3, <3>1, <3>2
    <3>4. i - 1 \in 1..Len(queue'[k]) /\ queue'[k][i - 1] = d
      BY <1>4, <1>5, <3>2, <3>3
    <3> QED
      BY <3>4
  <2> QED
    BY <2>1, <2>2, <2>3 DEF QueueOf
<1> QED
  BY <1>5, <1>10

LEMMA EdgePermitSteps ==
    ASSUME EdgeInv, NEW c \in Conns, NEW k, k = conn[c].key, Edge!Request(c) \/ Edge!Grant(c)
    PROVE  EdgeInv'
<1>1. EdgeTypes /\ k \in Keys /\ QueueOf(k) /\ queue \in [Keys -> Seq(Conns)]
  BY TaskFacts DEF EdgeInv, EdgeTypes
<1>2. CASE Edge!Request(c)
  <2>1. conn[c].st = "ready" /\ allow' = allow /\ phase' = phase /\ edits' = edits
    BY <1>2 DEF Edge!Request
  <2>2. CASE free[k] > 0 /\ queue[k] = <<>>
    <3>1. Edge!Set(c, "working") /\ free' = [free EXCEPT ![k] = @ - 1] /\ queue' = queue
      BY <1>2, <2>2 DEF Edge!Request
    <3>2. Moves(c, k, "working")
      BY <1>1, <3>1, SetFacts DEF Edge!States
    <3>3. \A d \in Conns : (Waits(d, k))' = Waits(d, k)
      BY <2>1, <3>2 DEF Waits, Moves
    <3>4. (QueueOf(k))'
      BY <1>1, <3>1, <3>3, QueueKept
    <3>5. \A x \in Keys : x # k => queue'[x] = queue[x]
      BY <3>1
    <3> QED
      BY <1>1, <2>1, <2>2, <3>1, <3>2, <3>4, <3>5, TakesPermit
  <2>3. CASE ~(free[k] > 0 /\ queue[k] = <<>>)
    <3>1. Edge!Set(c, "waiting") /\ queue' = [queue EXCEPT ![k] = Append(@, c)] /\ free' = free
      BY <1>2, <2>3 DEF Edge!Request
    <3>2. Moves(c, k, "waiting")
      BY <1>1, <3>1, SetFacts DEF Edge!States
    <3> QED
      BY <2>1, <3>1, <3>2, JoinsQueue
  <2> QED
    BY <2>2, <2>3
<1>3. CASE Edge!Grant(c)
  <2>1. /\ conn[c].st = "waiting" /\ free[k] > 0 /\ Head(queue[k]) = c /\ Edge!Set(c, "working")
        /\ free' = [free EXCEPT ![k] = @ - 1] /\ queue' = [queue EXCEPT ![k] = Tail(@)]
        /\ allow' = allow /\ phase' = phase /\ edits' = edits
    BY <1>3 DEF Edge!Grant
  <2>2. Moves(c, k, "working")
    BY <1>1, <2>1, SetFacts DEF Edge!States
  <2>3. (QueueOf(k))' /\ queue' \in [Keys -> Seq(Conns)] /\ \A x \in Keys : x # k => queue'[x] = queue[x]
    BY <2>1, <2>2, LeavesQueue
  <2> QED
    BY <2>1, <2>2, <2>3, TakesPermit
<1> QED
  BY <1>2, <1>3

LEMMA AbortInv ==
    ASSUME EdgeInv, Edge!Abort
    PROVE  EdgeInv'
<1>1. /\ EdgeTypes /\ conn \in [Conns -> Edge!Task] /\ free \in [Keys -> Nat]
  BY DEF EdgeInv, EdgeTypes
<1>2. /\ conn' = [c \in Conns |-> IF Edge!Live(c) THEN Edge!Closed(conn[c]) ELSE conn[c]]
      /\ free' = [k \in Keys |-> IF free[k] = Edge!NoSemaphore THEN free[k] ELSE Edge!Permits]
      /\ queue' = [k \in Keys |-> <<>>]
      /\ phase' = "stopped" /\ allow' = allow /\ edits' = edits
  BY DEF Edge!Abort
<1>3. ASSUME NEW c \in Conns
      PROVE  /\ conn'[c] \in Edge!Task /\ conn'[c].st \in {"new", "closed"} /\ conn'[c].key = conn[c].key
  <2>1. conn[c] \in Edge!Task /\ conn'[c] = IF Edge!Live(c) THEN Edge!Closed(conn[c]) ELSE conn[c]
    BY <1>1, <1>2
  <2>2. /\ Edge!Closed(conn[c]) \in Edge!Task /\ Edge!Closed(conn[c]).st = "closed"
        /\ Edge!Closed(conn[c]).key = conn[c].key
    BY <2>1 DEF Edge!Closed, Edge!Task, Edge!States
  <2> QED
    BY <2>1, <2>2 DEF Edge!Live
<1>4. EdgeTypes'
  <2>1. conn' \in [Conns -> Edge!Task]
    BY <1>2, <1>3
  <2>2. free' \in [Keys -> Nat]
    BY <1>1, <1>2, EdgeParams
  <2>3. queue' \in [Keys -> Seq(Conns)]
    BY <1>2
  <2> QED
    BY <1>1, <1>2, <2>1, <2>2, <2>3 DEF EdgeTypes
<1>5. ASSUME NEW k \in Keys
      PROVE  (QueueOf(k))' /\ (PermitsOf(k))'
  <2>1. queue'[k] = <<>> /\ \A c \in Conns : ~(Waits(c, k))'
    BY <1>2, <1>3 DEF Waits
  <2>2. (QueueOf(k))'
    BY <2>1 DEF QueueOf
  <2>3. Cardinality(Busy(k)') = 0
    <3>1. Busy(k)' = {}
      BY <1>3 DEF Busy
    <3> QED
      BY <3>1, FS_EmptySet
  <2>4. \A c \in Conns : conn'[c].st \in Before
    BY <1>3 DEF Before
  <2>5. free'[k] # Edge!NoSemaphore => free'[k] + Cardinality(Busy(k)') = Edge!Permits
    BY <1>2, <2>3, EdgeParams
  <2> QED
    BY <2>2, <2>4, <2>5 DEF PermitsOf, Edge!Permits, Edge!NoSemaphore
<1> QED
  BY <1>4, <1>5 DEF EdgeInv

LEMMA EdgeInitInv ==
    ASSUME Edge!Init
    PROVE  EdgeInv
<1>1. /\ allow = Keys /\ edits = 0 /\ phase = "serving"
      /\ conn = [c \in Conns |-> [st |-> "new", key |-> CHOOSE k \in Keys : TRUE]]
      /\ free = [k \in Keys |-> Edge!NoSemaphore] /\ queue = [k \in Keys |-> <<>>]
  BY DEF Edge!Init
<1>2. (CHOOSE k \in Keys : TRUE) \in Keys
  BY TunnelEndsAssumption
<1>3. \A c \in Conns : conn[c] \in Edge!Task /\ conn[c].st = "new"
  BY <1>1, <1>2 DEF Edge!Task, Edge!States
<1>4. conn \in [Conns -> Edge!Task]
  BY <1>1, <1>3
<1>5. free \in [Keys -> Nat] /\ queue \in [Keys -> Seq(Conns)] /\ 0 \in 0..MaxEdits
  BY <1>1, EdgeParams
<1>6. EdgeTypes
  BY <1>1, <1>4, <1>5 DEF EdgeTypes
<1>7. \A k \in Keys : QueueOf(k) /\ PermitsOf(k)
  BY <1>1, <1>3 DEF QueueOf, PermitsOf, Waits, Before
<1> QED
  BY <1>6, <1>7 DEF EdgeInv

LEMMA EdgeNextInv ==
    ASSUME EdgeInv, Edge!Next
    PROVE  EdgeInv'
<1>1. allow \subseteq Keys /\ phase \in {"serving", "draining", "stopped"} /\ edits \in 0..MaxEdits /\ MaxEdits \in Nat
  BY EdgeParams DEF EdgeInv, EdgeTypes
<1>2. CASE Edge!Shutdown \/ Edge!Drained
  <2>1. /\ conn' = conn /\ free' = free /\ queue' = queue /\ allow' = allow /\ edits' = edits
        /\ phase' \in {"serving", "draining", "stopped"}
    BY <1>2 DEF Edge!Shutdown, Edge!Drained
  <2> QED
    BY <1>1, <2>1, TasksKept
<1>3. CASE \E new \in SUBSET Keys : Edge!EditAllow(new)
  <2>1. /\ conn' = conn /\ free' = free /\ queue' = queue /\ phase' = phase
        /\ allow' \subseteq Keys /\ edits < MaxEdits /\ edits' = edits + 1
    BY <1>3 DEF Edge!EditAllow
  <2>2. edits' \in 0..MaxEdits
    BY <1>1, <2>1
  <2> QED
    BY <1>1, <2>1, <2>2, TasksKept
<1>4. CASE Edge!Abort
  BY <1>4, AbortInv
<1>5. CASE \E c \in Conns : Edge!TaskStep(c) \/ Edge!Leave(c)
  <2>1. PICK c \in Conns : Edge!TaskStep(c) \/ Edge!Leave(c)
    BY <1>5
  <2> QED
    BY <2>1, EdgeIdleSteps, EdgePermitSteps, DropsPermit DEF Edge!TaskStep
<1>6. CASE \E c \in Conns, k \in Keys : Edge!Accept(c, k)
  BY <1>6, EdgeIdleSteps
<1> QED
  BY <1>2, <1>3, <1>4, <1>5, <1>6 DEF Edge!Next

LEMMA SameCardinality ==
    ASSUME NEW S
    PROVE  Edge!Cardinality(S) = Cardinality(S)
BY Zenon DEF Edge!Cardinality, Cardinality, Edge!IsFiniteSet, IsFiniteSet

\* The queue names each waiting task once, so its length is their number.
LEMMA QueueCounts ==
    ASSUME NEW S, NEW q \in Seq(S), \A i, j \in 1..Len(q) : q[i] = q[j] => i = j
    PROVE  Len(q) = Cardinality(Edge!ToSet(q))
<1>1. Len(q) \in Nat /\ DOMAIN q = 1..Len(q)
  OBVIOUS
<1>2. Edge!ToSet(q) = {q[i] : i \in 1..Len(q)}
  BY <1>1 DEF Edge!ToSet
<1> DEFINE f == [i \in 1..Len(q) |-> q[i]]
<1>3. f \in [1..Len(q) -> Edge!ToSet(q)]
  BY <1>2
<1>4. \A i, j \in 1..Len(q) : f[i] = f[j] => i = j
  OBVIOUS
<1>5. \A x \in Edge!ToSet(q) : \E i \in 1..Len(q) : f[i] = x
  BY <1>2
<1>6. f \in Bijection(1..Len(q), Edge!ToSet(q))
  BY <1>3, <1>4, <1>5 DEF Bijection, Injection, Surjection, IsInjective
<1>7. ExistsBijection(1..Len(q), Edge!ToSet(q))
  BY <1>6 DEF ExistsBijection
<1> QED
  BY <1>1, <1>7, FS_CountingElements

LEMMA EdgeInvSuffices ==
    ASSUME EdgeInv
    PROVE  Edge!TypeOK /\ Edge!PermitsConserved
<1>1. ASSUME NEW k \in Keys
      PROVE  /\ free[k] \in 0..Edge!NoSemaphore
             /\ Edge!ToSet(queue[k]) = {c \in Edge!With("waiting") : conn[c].key = k}
             /\ Len(queue[k]) = Cardinality(Edge!ToSet(queue[k]))
             /\ IF free[k] = Edge!NoSemaphore THEN Cardinality(Busy(k)) = 0 ELSE free[k] + Cardinality(Busy(k)) = Edge!Permits
  <2>1. QueueOf(k) /\ PermitsOf(k) /\ free[k] \in Nat /\ queue[k] \in Seq(Conns)
    BY DEF EdgeInv, EdgeTypes
  <2>2. free[k] \in 0..Edge!NoSemaphore
    BY <2>1, BusyFinite, EdgeParams DEF PermitsOf
  <2>3. Edge!ToSet(queue[k]) = {c \in Edge!With("waiting") : conn[c].key = k}
    <3>1. Edge!ToSet(queue[k]) = {queue[k][i] : i \in 1..Len(queue[k])}
      BY <2>1 DEF Edge!ToSet
    <3>2. \A i \in 1..Len(queue[k]) : queue[k][i] \in Conns
      BY <2>1
    <3> QED
      BY <2>1, <3>1, <3>2 DEF QueueOf, Waits, Edge!With
  <2>4. Len(queue[k]) = Cardinality(Edge!ToSet(queue[k]))
    <3>1. \A i, j \in 1..Len(queue[k]) : queue[k][i] = queue[k][j] => i = j
      BY <2>1 DEF QueueOf
    <3> QED
      BY <2>1, <3>1, QueueCounts
  <2>5. free[k] = Edge!NoSemaphore => Cardinality(Busy(k)) = 0
    <3>1. ASSUME free[k] = Edge!NoSemaphore PROVE Busy(k) = {}
      BY <2>1, <3>1 DEF PermitsOf, Busy, Before
    <3> QED
      BY <3>1, FS_EmptySet
  <2> QED
    BY <2>1, <2>2, <2>3, <2>4, <2>5 DEF PermitsOf
<1>2. Edge!TypeOK
  <2>1. free \in [Keys -> 0..Edge!NoSemaphore]
    BY <1>1 DEF EdgeInv, EdgeTypes
  <2>2. /\ allow \subseteq Keys /\ conn \in [Conns -> Edge!Task] /\ queue \in [Keys -> Seq(Conns)]
        /\ phase \in {"serving", "draining", "stopped"} /\ edits \in 0..MaxEdits
    BY DEF EdgeInv, EdgeTypes
  <2>3. \A k \in Keys : /\ Edge!ToSet(queue[k]) = {c \in Edge!With("waiting") : conn[c].key = k}
                        /\ Len(queue[k]) = Cardinality(Edge!ToSet(queue[k]))
    BY <1>1
  <2> QED
    BY <2>1, <2>2, <2>3, SameCardinality DEF Edge!TypeOK
<1>3. ASSUME NEW k \in Keys
      PROVE  {c \in Edge!With("working") : conn[c].key = k} = Busy(k)
  BY DEF Busy, Edge!With
<1>4. Edge!PermitsConserved
  <2> SUFFICES ASSUME NEW k \in Keys
               PROVE  IF free[k] = Edge!NoSemaphore THEN Cardinality(Busy(k)) = 0
                      ELSE free[k] + Cardinality(Busy(k)) = Edge!Permits
    BY <1>3, SameCardinality DEF Edge!PermitsConserved
  <2> QED
    BY <1>1
<1> QED
  BY <1>2, <1>4

\* Only Authorize brings a connection past the handshake, and it reads the list.
LEMMA RevocationStep ==
    ASSUME EdgeInv, Edge!Next, NEW k \in Keys, k \notin allow
    PROVE  Edge!Past(k)' \subseteq Edge!Past(k)
<1>1. EdgeTypes /\ conn \in [Conns -> Edge!Task]
  BY DEF EdgeInv, EdgeTypes
<1>2. CASE conn' = conn
  BY <1>2 DEF Edge!Past, Edge!Live
<1>3. ASSUME NEW c \in Conns, NEW n \in Keys, NEW st, Moves(c, n, st),
             \/ st \in {"handshake", "closed"}
             \/ n = conn[c].key /\ (n \in allow \/ conn[c].st \in {"hello", "ready", "waiting", "working"})
      PROVE  Edge!Past(k)' \subseteq Edge!Past(k)
  BY <1>3 DEF Moves, Edge!Past, Edge!Live
<1>4. CASE Edge!Abort
  <2>1. \A c \in Conns : ~(Edge!Live(c))'
    <3> SUFFICES ASSUME NEW c \in Conns PROVE conn'[c].st \in {"new", "closed"}
      BY DEF Edge!Live
    <3>1. conn[c] \in Edge!Task /\ conn'[c] = IF Edge!Live(c) THEN Edge!Closed(conn[c]) ELSE conn[c]
      BY <1>1, <1>4 DEF Edge!Abort
    <3>2. Edge!Closed(conn[c]).st = "closed"
      BY <3>1 DEF Edge!Closed, Edge!Task
    <3> QED
      BY <3>1, <3>2 DEF Edge!Live
  <2> QED
    BY <2>1 DEF Edge!Past
<1>5. CASE Edge!Shutdown \/ Edge!Drained \/ \E new \in SUBSET Keys : Edge!EditAllow(new)
  BY <1>2, <1>5 DEF Edge!Shutdown, Edge!Drained, Edge!EditAllow
<1>6. ASSUME NEW c \in Conns, Edge!TaskStep(c) \/ Edge!Leave(c)
      PROVE  Edge!Past(k)' \subseteq Edge!Past(k)
  <2>1. conn[c].key \in Keys
    BY TaskFacts
  <2>2. /\ Edge!Authorize(c) => \/ Edge!Set(c, "closed")
                                \/ Edge!Set(c, "hello") /\ conn[c].key \in allow
        /\ Edge!Leave(c) => Edge!Set(c, "closed")
        /\ Edge!Hello(c) => Edge!Set(c, "ready") /\ conn[c].st = "hello"
        /\ Edge!Request(c) => (Edge!Set(c, "working") \/ Edge!Set(c, "waiting")) /\ conn[c].st = "ready"
        /\ Edge!Grant(c) => Edge!Set(c, "working") /\ conn[c].st = "waiting"
        /\ \A stays \in BOOLEAN : Edge!Complete(c, stays) =>
              (Edge!Set(c, "ready") \/ Edge!Set(c, "closed")) /\ conn[c].st = "working"
    BY DEF Edge!Authorize, Edge!Leave, Edge!Hello, Edge!Request, Edge!Grant, Edge!Complete
  <2>3. \E st \in Edge!States :
           /\ Edge!Set(c, st)
           /\ st = "closed" \/ conn[c].key \in allow \/ conn[c].st \in {"hello", "ready", "waiting", "working"}
    BY <1>6, <2>2 DEF Edge!TaskStep, Edge!States
  <2> QED
    BY <1>1, <1>3, <2>1, <2>3, SetFacts
<1>7. ASSUME NEW c \in Conns, NEW n \in Keys, Edge!Accept(c, n)
      PROVE  Edge!Past(k)' \subseteq Edge!Past(k)
  <2>1. Moves(c, n, "handshake")
    BY <1>1, <1>7, PutFacts DEF Edge!Accept, Edge!States
  <2> QED
    BY <1>3, <2>1
<1> QED
  BY <1>4, <1>5, <1>6, <1>7 DEF Edge!Next

\* For all keys, connections and limits: no permit of a client is lost or handed out
\* twice, whichever way requests, disconnections and an abort interleave; waiting
\* requests are queued once each; and while a key is off the list it gets no new
\* connection (handle_connection in edge/src/main.rs).
THEOREM EdgeAlwaysAccounts ==
    Spec => [](part = "edge" => Edge!TypeOK /\ Edge!PermitsConserved) /\ Edge!RevocationTakesEffect
<1> DEFINE P == part = "edge" => Edge!TypeOK /\ Edge!PermitsConserved
           A == \A k \in Keys : k \notin allow => Edge!Past(k)' \subseteq Edge!Past(k)
<1>1. Init => EdgeInv
  BY EdgeInitInv DEF Init
<1>2. EdgeInv /\ [Next]_vars => EdgeInv' /\ [A]_(Edge!vars)
  <2> SUFFICES ASSUME EdgeInv, [Next]_vars PROVE EdgeInv' /\ [A]_(Edge!vars)
    OBVIOUS
  <2>1. Edge!Next \/ UNCHANGED edgeVars
    BY DEF Next, Only, vars
  <2>2. CASE Edge!Next
    <3>1. A
      BY <2>2, RevocationStep
    <3> QED
      BY <2>2, <3>1, EdgeNextInv
  <2>3. CASE UNCHANGED edgeVars
    <3>1. /\ UNCHANGED <<conn, free, queue>> /\ allow' \subseteq Keys
          /\ phase' \in {"serving", "draining", "stopped"} /\ edits' \in 0..MaxEdits
      BY <2>3 DEF edgeVars, EdgeInv, EdgeTypes
    <3>2. UNCHANGED Edge!vars
      BY <2>3 DEF edgeVars, Edge!vars
    <3> QED
      BY <3>1, <3>2, TasksKept
  <2> QED
    BY <2>1, <2>2, <2>3
<1>3. EdgeInv => P
  BY EdgeInvSuffices
<1>4. Spec => []P /\ [][A]_(Edge!vars)
  BY <1>1, <1>2, <1>3, PTL DEF Spec
<1> QED
  BY <1>4 DEF Edge!RevocationTakesEffect
=============================================================================
