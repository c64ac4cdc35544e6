----------------------------- MODULE Validation -----------------------------
(***************************************************************************)
(* Validation of one address (emails/validation.py, smtp_reply.py), the    *)
(* reading of delivery notifications (dsn.py), validation of a list        *)
(* (batch_validation.py), and the outcomes that are learnt from deliveries *)
(* (validation_feedback.py, validation_router.py).                         *)
(*                                                                         *)
(* An address comes with what the network answers about it and, to compare *)
(* with, with the truth: does the mailbox exist, what kind of host is it.  *)
(* A reply of a mail host is its class and the markers that its text       *)
(* contains.  In a batch the first address of a domain is probed with      *)
(* controls, then the others concurrently; scores are thousandths.         *)
(***************************************************************************)
EXTENDS Requests, Integers, SequencesExt, FiniteSetsExt

CONSTANTS
    Submitted,          \* the list: [email, faults]
    DomainOf,           \* email -> domain
    Accepting,          \* domains whose host accepts everything
    Existing,           \* mailboxes that exist
    Estimate,           \* email -> score of the risk model, of accept-all addresses
    DomainSlots, AddressSlots,   \* _DOMAIN_CONCURRENCY, _ADDRESS_CONCURRENCY
    TargetRate,         \* target_bounce_rate
    Users, Notifications,
    MinObservations,    \* _SUPPRESSION_MIN_OBSERVATIONS
    Unset

VARIABLES
    task,        \* domain -> where its coroutine is
    asked,       \* members whose probe is under way
    results,     \* email -> response, Unset before
    items,       \* the answer as it is put together
    chosen,      \* emails selected within the budget, Unset before the end
    rows,        \* EmailValidationFeedback: id -> [user, email, outcome, old, recent]
    suppressed,  \* DomainSendSuppression: domain -> [expired]
    fresh,       \* history: domains whose latest news is a hard bounce
    cut          \* history: a request was cut off

batchVars == <<task, asked, results, items, chosen>>
feedbackVars == <<rows, suppressed, fresh, cut>>

Domains == Range(DomainOf)

-----------------------------------------------------------------------------
(* One address *)

Faults == {"at_sign", "length", "idn", "pattern", "dots", "labels", "tld", "reserved"}

validate_syntax(a) == a.faults \cap Faults = {}

\* A failed lookup leaves the question open unless another record is a route.
validate_dns(dns) ==
    LET route == "hosts" \in {dns.mx, dns.a, dns.aaaa}
    IN CASE dns.mx = "null" -> "invalid"
         [] dns.mx # "null" /\ route -> "valid"
         [] dns.mx # "null" /\ ~route /\ "error" \in {dns.mx, dns.ns, dns.a, dns.aaaa} -> "undetermined"
         [] OTHER -> "invalid"

-----------------------------------------------------------------------------
(* One conversation with a mail host *)

\* "sender": neither envelope sender was taken, so there is no answer at all.
classify_rcpt_response(r) ==
    CASE r.class = "2xx" -> "present"
      [] r.class = "4xx" -> "temporary"
      [] r.class = "5xx" /\ r.text \cap {"universal_code", "provider_code", "strong"} # {} -> "absent"
      [] r.class = "5xx" /\ r.text \cap {"universal_code", "provider_code", "strong", "policy"} = {} /\ "weak" \in r.text -> "absent"
      [] r.class = "sender" -> "none"
      [] OTHER -> "policy"

\* Mutant: later refusals are always taken for recipient validation.
NeverDegraded(controls) == FALSE
\* The first control was accepted and a later one refused.
order_degraded(controls) ==
    controls # <<>> /\ controls[1] = "present" /\ \E i \in 2..Len(controls) : controls[i] = "absent"

\* One control ahead of the target; the others only if the target is accepted, up to
\* the first that gets no envelope.
ProbeSession(verdicts, count) ==
    LET lead == IF verdicts[1] = "none" THEN <<>> ELSE <<verdicts[1]>>
        reached == {n \in 2..(count + 1) : \A i \in 3..n : verdicts[i] # "none"}
        trail == SubSeq(verdicts, 3, Max(reached))
        controls == IF verdicts[2] = "present" THEN lead \o trail ELSE lead
    IN IF count = 0 THEN [target |-> verdicts[1], controls |-> <<>>, degraded |-> FALSE]
       ELSE [target |-> verdicts[2], controls |-> controls,
             degraded |-> verdicts[2] = "present" /\ order_degraded(controls)]

run_probe_session(replies, count) == ProbeSession([i \in DOMAIN replies |-> classify_rcpt_response(replies[i])], count)

NoAnswer == [valid |-> "unknown", catch_all |-> "unknown", selective |-> FALSE]

mailbox_from_session(s) ==
    LET refused == ~s.degraded /\ \E i \in DOMAIN s.controls : s.controls[i] = "absent"
        all == s.controls # <<>> /\ \A i \in DOMAIN s.controls : s.controls[i] = "present"
    IN CASE s.target = "absent" -> [valid |-> "no", catch_all |-> "no", selective |-> refused]
         [] s.target = "present" -> [valid |-> "yes", catch_all |-> IF all THEN "yes" ELSE IF refused THEN "no" ELSE "unknown",
                                     selective |-> refused]
         [] OTHER -> NoAnswer

\* The addresses of the hosts in order, until one gives a definite answer; those that are
\* not public are never asked.
validate_mailbox(tries, count) ==
    LET Answer(t) == IF t.reached = "session" THEN mailbox_from_session(run_probe_session(t.replies, count)) ELSE NoAnswer
        definite == {i \in DOMAIN tries : Answer(tries[i]).valid # "unknown"}
    IN IF definite = {} THEN NoAnswer ELSE Answer(tries[Min(definite)])

\* What the sidecar reports (see RecipientProbe).
validate_mailbox_via_tunnel(reply) ==
    CASE reply.code = 250 -> [valid |-> "yes", catch_all |-> "no", selective |-> reply.rejected > 0 /\ ~reply.degraded]
      [] reply.code = 252 -> [valid |-> "yes", catch_all |-> "yes", selective |-> FALSE]
      [] reply.code = 550 -> [valid |-> "no", catch_all |-> "no", selective |-> FALSE]
      [] OTHER -> NoAnswer

-----------------------------------------------------------------------------
(* The response *)

Response(status, deliverable, confidence, mailbox) ==
    [status |-> status, deliverable |-> deliverable, confidence |-> confidence, catch_all |-> mailbox.catch_all]

is_disposable_domain(a) == a.listed /\ ~a.alias_service

\* The domain cannot take mail, or nobody knows.
UnroutedResponse(a) ==
    LET open == validate_dns(a.dns) = "undetermined"
    IN Response(IF is_disposable_domain(a) THEN "disposable" ELSE IF open THEN "undetermined" ELSE "invalid",
                IF open THEN "unknown" ELSE "no", IF open THEN 20 ELSE 95, NoAnswer)

overall_status(a, m) ==
    CASE is_disposable_domain(a) -> Response("disposable", m.valid, 80, m)
      [] ~is_disposable_domain(a) /\ m.valid = "no" -> Response("invalid", "no", 98, m)
      [] ~is_disposable_domain(a) /\ m.valid # "no" /\ m.catch_all = "yes" -> Response("catch_all", "unknown", 50, m)
      [] ~is_disposable_domain(a) /\ m.valid = "unknown" -> Response("undetermined", "unknown", 20, m)
      [] OTHER -> Response("valid", "yes", IF m.selective THEN 97 ELSE 95, m)

validate_email_detailed(a, count) ==
    LET mailbox == IF a.timeout THEN NoAnswer
                   ELSE IF a.tunnel THEN validate_mailbox_via_tunnel(a.reply) ELSE validate_mailbox(a.tries, count)
    IN IF ~validate_syntax(a) THEN Response("invalid", "no", 100, NoAnswer)
       ELSE IF validate_dns(a.dns) # "valid" THEN UnroutedResponse(a)
       ELSE overall_status(a, mailbox)

-----------------------------------------------------------------------------
(* Delivery notifications: structured blocks, or what the text of an        *)
(* automatic message suggests.                                              *)

Failed(e) == CASE e.status = "5" -> "hard_bounce" [] e.status = "4" -> "soft_bounce"
               [] e.status = "-" /\ e.code = 4 -> "soft_bounce" [] OTHER -> "hard_bounce"
dsn_outcome(e) ==
    CASE e.action \in {"delivered", "relayed", "expanded"} -> "delivered"
      [] e.action = "delayed" -> "soft_bounce"
      [] e.action = "failed" -> Failed(e)
      [] OTHER -> "none"

\* A block without an action counts as failed; one without an address is skipped.
parse_delivery_status(m) ==
    LET Named(e) == e.recipient # "-"
        Filled(e) == IF e.action = "-" THEN [e EXCEPT !.action = "failed"] ELSE e
        found == SelectSeq(m.blocks, Named)
    IN [i \in DOMAIN found |-> Filled(found[i])]

heuristic_parse(m) ==
    IF ~m.failure_phrase \/ (m.status = "-" /\ m.code = 0) THEN <<>>
    ELSE [i \in DOMAIN m.addresses |-> [recipient |-> m.addresses[i], action |-> "failed", status |-> m.status, code |-> m.code]]

parse_dsn(m) ==
    LET found == parse_delivery_status(m)
    IN IF found # <<>> THEN found ELSE IF m.automated \/ m.blocks # <<>> THEN heuristic_parse(m) ELSE <<>>

-----------------------------------------------------------------------------
(* What validation promises *)

\* The MX lookup failed while another record is a route: a host that does not take the
\* domain's mail is asked in its place.
Misrouted(a) == a.dns.mx = "error" /\ validate_dns(a.dns) = "valid"

\* What is taken of the hosts: an existing mailbox has an address that can be written and
\* routed, and no host refuses it as unknown; of the hosts that accept it, one that
\* checks its recipients refuses controls, one that does not accepts all it answers, and
\* one that degrades does so after the first.
HonestSession(a, replies, count) ==
    LET verdict == [i \in DOMAIN replies |-> classify_rcpt_response(replies[i])]
        target == IF count = 0 THEN 1 ELSE 2
    IN /\ DOMAIN replies = 1..(count + 1)
       /\ verdict[target] = "absent" => ~a.exists
       /\ verdict[target] = "present" =>
              /\ a.kind = "validating" => a.exists /\ \A i \in DOMAIN replies \ {target} : verdict[i] # "present"
              /\ a.kind = "accept_all" => \A i \in DOMAIN replies : verdict[i] # "absent"
              /\ a.kind = "degrading" => verdict[1] # "absent"

\* The sidecar's replies are true (RecipientProbe).
Honest(a, count) ==
    /\ count \in Nat /\ a.kind \in {"validating", "accept_all", "degrading"}
    /\ a.exists => validate_syntax(a) /\ a.dns.mx # "null" /\ {"hosts", "error"} \cap {a.dns.mx, a.dns.a, a.dns.aaaa} # {}
    /\ a.tunnel => /\ a.reply.code = 250 => a.exists /\ a.kind = "validating"
                   /\ a.reply.code = 252 => a.kind # "validating"
                   /\ a.reply.code = 550 => ~a.exists
    /\ DOMAIN a.tries \subseteq Nat
    /\ \A i \in DOMAIN a.tries : a.tries[i].reached = "session" => HonestSession(a, a.tries[i].replies, count)

\* No mailbox that exists is called undeliverable, whatever fails on the way; "accept
\* all" is said of no host that checks its recipients; full confidence is only in
\* mailboxes that exist, unless a host stops accepting after the first recipients and the
\* control sent ahead got no acceptance; and a missing one is called valid only at a host that does not
\* check, when some control got no acceptance to compare with.
Supported(a, count) ==
    LET r == validate_email_detailed(a, count)
    IN ~Misrouted(a) =>
        /\ r.deliverable = "no" => ~a.exists
        /\ r.status = "catch_all" => a.kind # "validating"
        /\ r.confidence = 97 => \/ a.exists /\ a.kind = "validating"
                                \/ a.kind = "degrading" /\ \E i \in DOMAIN a.tries : a.tries[i].replies[1].class # "2xx"
        /\ (r.status = "valid" /\ ~a.exists) =>
               /\ a.kind # "validating" /\ ~a.tunnel
               /\ count = 0 \/ \E i \in DOMAIN a.tries : \E j \in DOMAIN a.tries[i].replies : a.tries[i].replies[j].class # "2xx"

-----------------------------------------------------------------------------
(* The batch *)

\* The list without repetitions.
Distinct ==
    SelectSeq([i \in DOMAIN Submitted |-> [Submitted[i] EXCEPT !.faults = IF \E j \in 1..(i - 1) : Submitted[j].email = Submitted[i].email THEN {"repeated"} ELSE @]],
              LAMBDA e : "repeated" \notin e.faults)
Work == SelectSeq(Distinct, validate_syntax)
Emails(list) == [i \in DOMAIN list |-> list[i].email]
Members(d) == SelectSeq(Emails(Work), LAMBDA e : DomainOf[e] = d)
Lead(d) == Head(Members(d))

BatchInit ==
    /\ task = [d \in Domains |-> IF Members(d) = <<>> THEN "done" ELSE "new"]
    /\ asked = {} /\ results = [e \in DOMAIN DomainOf |-> Unset] /\ items = <<>> /\ chosen = Unset

\* What validate_email_detailed can answer here: the host tells the truth, some or all
\* controls may stay unanswered, and so may the address.
Answers(e, controls) ==
    LET open == IF DomainOf[e] \in Accepting \/ e \in Existing THEN {Response("valid", "yes", 95, NoAnswer)} ELSE {}
        known == CASE DomainOf[e] \in Accepting -> {Response("catch_all", "unknown", 50, [catch_all |-> "yes"])}
                   [] DomainOf[e] \notin Accepting /\ e \in Existing -> {Response("valid", "yes", 97, [catch_all |-> "no"])}
                   [] OTHER -> {}
        absent == IF DomainOf[e] \in Accepting \/ e \in Existing THEN {} ELSE {Response("invalid", "no", 98, [catch_all |-> "no"])}
    IN open \cup absent \cup (IF controls THEN known ELSE {}) \cup {Response("undetermined", "unknown", 20, NoAnswer)}

process_domain(d) ==
    /\ task[d] = "new" /\ Cardinality({e \in Domains : task[e] \in {"lead", "members"}}) < DomainSlots
    /\ task' = [task EXCEPT ![d] = "lead"] /\ UNCHANGED <<requestVars, asked, results, items, chosen>>

\* An exception ends the whole domain.
LeadAnswers(d, r) ==
    /\ task[d] = "lead"
    /\ results' = [results EXCEPT ![Lead(d)] = r]
    /\ task' = [task EXCEPT ![d] = IF r # Unset /\ Len(Members(d)) > 1 THEN "members" ELSE "done"]
    /\ UNCHANGED <<requestVars, asked, items, chosen>>

process_address(e) ==
    /\ task[DomainOf[e]] = "members" /\ e # Lead(DomainOf[e]) /\ e \in Range(Members(DomainOf[e]))
    /\ e \notin asked /\ results[e] = Unset
    /\ Cardinality({f \in asked : results[f] = Unset}) < AddressSlots
    /\ asked' = asked \cup {e} /\ UNCHANGED <<requestVars, task, results, items, chosen>>

\* Mutant: members are taken as answered, without what the first address showed.
OwnAnswer(r, lead) == r

\* What the lead found out about the host counts for members that did not find out.
inherited(r, lead) ==
    LET all == IF r.catch_all = "unknown" THEN lead.catch_all ELSE r.catch_all
    IN IF r.catch_all = "unknown" /\ all = "yes" /\ r.status = "valid"
       THEN [r EXCEPT !.status = "catch_all", !.deliverable = "unknown", !.catch_all = "yes"]
       ELSE [r EXCEPT !.catch_all = all]

\* r is Unset when the probe raises; the address then has no result.
MemberAnswers(e, r) ==
    LET d == DomainOf[e]
        lead == results[Lead(d)]
        left == {f \in Range(Tail(Members(d))) \ {e} : f \notin asked \/ results[f] = Unset}
    IN /\ e \in asked /\ results[e] = Unset
       /\ results' = [results EXCEPT ![e] = IF r = Unset THEN Response("failed", "unknown", 0, NoAnswer) ELSE inherited(r, lead)]
       /\ task' = [task EXCEPT ![d] = IF left = {} THEN "done" ELSE @]
       /\ UNCHANGED <<requestVars, asked, items, chosen>>

\* Probes of members skip the controls once the host is known.
Controlled(e) == e = Lead(DomainOf[e]) \/ results[Lead(DomainOf[e])].catch_all = "unknown"

-----------------------------------------------------------------------------
(* Scores *)

\* A delivery counts only while it is recent.
exact_recipient_risk(r) ==
    CASE r.outcome = "hard_bounce" -> 980 [] r.outcome = "delivered" /\ r.recent -> 20
      [] r.outcome = "soft_bounce" -> 200 [] OTHER -> Unset

\* The caller's own latest outcome decides, else the model.
assess_catch_all_risk(user, e) ==
    LET own == {i \in DOMAIN rows : rows[i].user = user /\ rows[i].email = e /\ ~rows[i].old}
        exact == IF own = {} THEN Unset ELSE exact_recipient_risk(rows[Max(own)])
    IN IF exact = Unset THEN Estimate[e] ELSE exact

baseline_risk(r) == CASE r.deliverable = "no" -> 1000 [] r.deliverable # "no" /\ r.status = "valid" -> 5
                      [] r.deliverable # "no" /\ r.status = "disposable" -> 500 [] OTHER -> 250

Item(e, r, score) == [email |-> e, status |-> r.status, deliverable |-> r.deliverable, score |-> score]
Invalid == SelectSeq(Distinct, LAMBDA e : ~validate_syntax(e))

\* Malformed addresses first, then the others, one after the other.
AddItem(user) ==
    LET i == Len(items) + 1 - Len(Invalid)
        e == IF i > 0 THEN Work[i].email ELSE Invalid[Len(items) + 1].email
        r == IF i <= 0 THEN Response("invalid", "no", 100, NoAnswer)
             ELSE IF results[e] = Unset \/ results[e].status = "failed" THEN Response("undetermined", "unknown", 0, NoAnswer) ELSE results[e]
    IN /\ \A d \in Domains : task[d] = "done"
       /\ Len(items) < Len(Distinct)
       /\ items' = Append(items, Item(e, r, IF r.status = "catch_all" THEN assess_catch_all_risk(user, e) ELSE baseline_risk(r)))
       /\ UNCHANGED <<requestVars, task, asked, results, chosen>>

\* In the order of their risk, as long as the mean stays within the target.
select_within_budget(list, target) ==
    LET ordered == SetToSortSeq(DOMAIN list, LAMBDA i, j : list[i].score < list[j].score \/ (list[i].score = list[j].score /\ i < j))
        Take(sum, i) == IF sum.total + list[i].score <= target * (sum.count + 1)
                        THEN [total |-> sum.total + list[i].score, count |-> sum.count + 1, taken |-> sum.taken \cup {list[i].email}] ELSE sum
    IN FoldLeft(Take, [total |-> 0, count |-> 0, taken |-> {}], ordered).taken

validate_batch ==
    /\ Len(items) = Len(Distinct) /\ chosen = Unset
    /\ chosen' = select_within_budget(SelectSeq(items, LAMBDA x : x.deliverable # "no"), TargetRate)
    /\ UNCHANGED <<requestVars, task, asked, results, items>>

-----------------------------------------------------------------------------
(* Feedback *)

FeedbackInit(known) == rows \in known /\ suppressed = <<>> /\ fresh = {} /\ cut = FALSE

Decisive(d) == {i \in DOMAIN rows : DomainOf[rows[i].email] = d /\ ~rows[i].old /\ rows[i].outcome # "soft_bounce"}
counts_for(d) ==
    [decisive |-> Cardinality(Decisive(d)), hard |-> Cardinality({i \in Decisive(d) : rows[i].outcome = "hard_bounce"})]

\* At least 30 of 100 decisive outcomes are hard bounces.
Crossed(c) == c.decisive >= MinObservations /\ 100 * c.hard >= 30 * c.decisive

create_email_validation_feedback(s, u, e, o) ==
    Begin(s, [op |-> "insert", user |-> u, todo |-> <<[email |-> e, outcome |-> o]>>]) /\ UNCHANGED feedbackVars

\* Every recipient of the notification with an outcome.
ingest_bounce(s, u, m) ==
    LET entries == parse_dsn(m)
        known == SelectSeq([i \in DOMAIN entries |-> [email |-> entries[i].recipient, outcome |-> dsn_outcome(entries[i])]], LAMBDA e : e.outcome # "none")
    IN known # <<>> /\ Begin(s, [op |-> "insert", user |-> u, todo |-> known]) /\ UNCHANGED feedbackVars

\* On to the next recipient of the request.
Proceed(s) == IF Len(req[s].todo) > 1 THEN Goto(s, [op |-> "insert", user |-> req[s].user, todo |-> Tail(req[s].todo)]) ELSE End(s)

\* The caller's rows beyond the history go with the same commit.
record_validation_feedback(s) ==
    LET q == req[s]
        o == Head(q.todo).outcome
        d == DomainOf[Head(q.todo).email]
        kept == {i \in DOMAIN rows : rows[i].user # q.user \/ ~rows[i].old}
        id == Max(kept \cup {0}) + 1
    IN /\ At(s, "insert")
       /\ rows' = [i \in kept \cup {id} |-> IF i # id THEN rows[i] ELSE
                     [user |-> q.user, email |-> Head(q.todo).email, outcome |-> o, old |-> FALSE, recent |-> TRUE]]
       /\ fresh' = IF o = "hard_bounce" THEN fresh \cup {d} ELSE fresh \ {d}
       /\ IF o = "hard_bounce" THEN Step(s, "count") ELSE Proceed(s)
       /\ UNCHANGED <<suppressed, cut>>

\* Mutant: only the outcomes of the caller are counted.
CountOwn(s) ==
    LET d == DomainOf[Head(req[s].todo).email]
        own == {i \in Decisive(d) : rows[i].user = req[s].user}
        c == [decisive |-> Cardinality(own), hard |-> Cardinality({i \in own : rows[i].outcome = "hard_bounce"})]
    IN /\ At(s, "count") /\ (IF Crossed(c) THEN Step(s, "look") ELSE Proceed(s)) /\ UNCHANGED feedbackVars

maybe_suppress_domain(s) ==
    LET d == DomainOf[Head(req[s].todo).email]
    IN /\ At(s, "count") /\ (IF Crossed(counts_for(d)) THEN Step(s, "look") ELSE Proceed(s)) /\ UNCHANGED feedbackVars

LookSuppression(s) ==
    LET d == DomainOf[Head(req[s].todo).email]
    IN /\ At(s, "look") /\ Step(s, IF d \in DOMAIN suppressed THEN "renew" ELSE "add") /\ UNCHANGED feedbackVars

\* A second row for the domain is refused; the request fails with its remaining recipients.
StoreSuppression(s) ==
    LET d == DomainOf[Head(req[s].todo).email]
        refused == At(s, "add") /\ d \in DOMAIN suppressed
    IN /\ At(s, "add") \/ At(s, "renew")
       /\ suppressed' = IF refused THEN suppressed ELSE [x \in DOMAIN suppressed \cup {d} |-> IF x = d THEN [expired |-> FALSE] ELSE suppressed[x]]
       /\ IF refused THEN End(s) ELSE Proceed(s)
       /\ UNCHANGED <<rows, fresh, cut>>

\* What staged sends ask before they send.
domain_suppression(d) == d \in DOMAIN suppressed /\ ~suppressed[d].expired

\* Time: outcomes leave the history, suppressions end.
AgeFeedback ==
    /\ \E i \in DOMAIN rows : ~rows[i].old /\ rows' = [rows EXCEPT ![i].old = TRUE] /\ fresh' = fresh \ {DomainOf[rows[i].email]}
    /\ Serve /\ UNCHANGED <<suppressed, cut>>
ExpireSuppression ==
    /\ \E d \in DOMAIN suppressed : domain_suppression(d) /\ suppressed' = [suppressed EXCEPT ![d].expired = TRUE] /\ fresh' = fresh \ {d}
    /\ Serve /\ UNCHANGED <<rows, cut>>
CutOff(s) == req[s] # Idle /\ End(s) /\ cut' = TRUE /\ UNCHANGED <<rows, suppressed, fresh>>

-----------------------------------------------------------------------------
(* Properties *)

Mean(S, list) == MapThenSumSet(LAMBDA i : list[i].score, S)
Fits(S, list) == Mean(S, list) <= TargetRate * Cardinality(S)

\* batch_validation.py:149-211, :310-342: the answer has one item for every distinct
\* address, calls no existing mailbox invalid, and selects as many sendable addresses as
\* the target allows and no more.  A missing address is called valid only where neither
\* its own controls nor the first address at the domain found out that the host accepts
\* everything; that another address found out is not looked at.
BatchFaithful ==
    (part = "batch" /\ chosen # Unset) =>
        LET sendable == {i \in DOMAIN items : items[i].deliverable # "no"}
            taken == {i \in DOMAIN items : items[i].email \in chosen}
        IN /\ Len(items) = Cardinality(Range(Emails(Submitted))) /\ Range(Emails(items)) = Range(Emails(Submitted))
           /\ \A i \in DOMAIN items :
                  LET e == items[i].email
                  IN /\ items[i].status = "invalid" => e \notin Existing
                     /\ items[i].status = "valid" /\ e \notin Existing => \A f \in {e, Lead(DomainOf[e])} : results[f].catch_all = "unknown"
           /\ taken \subseteq sendable /\ Fits(taken, items)
           /\ \A S \in SUBSET sendable : Fits(S, items) => Cardinality(S) <= Cardinality(taken)

\* When no request is under way, a domain whose latest news is a hard bounce and whose
\* outcomes crossed the limit is suppressed, for every tenant, however the requests that
\* reported them interleaved.
SuppressedWhenDue ==
    (part = "feedback" /\ Quiet /\ ~cut) =>
        \A d \in fresh : Crossed(counts_for(d)) => domain_suppression(d)
=============================================================================
