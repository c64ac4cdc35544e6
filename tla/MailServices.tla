---------------------------- MODULE MailServices ----------------------------
(***************************************************************************)
(* The backend's work on mail: event streams, the bounce scanner, address  *)
(* and batch validation with its feedback, mailboxes and forwarding.  They *)
(* share one process; a behaviour exercises one of them ("part").          *)
(***************************************************************************)
EXTENDS Validation, Mail

CONSTANTS
    Clients, Mailboxes, Listeners, QueueSize, MaxEvents, MaxOpens,        \* EventBus
    Page, MaxMsgs, MaxFaults,                                             \* BounceScan
    Worlds,          \* addresses to validate: [a, count]
    Known,           \* feedback that batches may find
    Reports,         \* feedback that callers give: [user, email, outcome]
    Existent, Changes,   \* forwarding rules, and changes of them
    Requested        \* bound: requests by part

\* A rule belongs to a user, and no change gives it to another.
ASSUME ForwardAssumption ==
    /\ MaxMail \in Nat /\ Owners # {} /\ Gone \notin Owners
    /\ \A known \in Existent :
           /\ known = [r \in RuleIds |-> known[r]]
           /\ \A r \in RuleIds : known[r] # Gone => "user" \in DOMAIN known[r] /\ known[r].user \in Owners
    /\ \A change \in Changes : "user" \notin DOMAIN change

\* The listeners are those that were registered; an event without a mailbox has None.
ASSUME BusAssumption == QueueSize \in Nat /\ IsFiniteSet(Listeners) /\ "-" \notin Mailboxes

\* Hosts are as Validation takes them to be, whatever fails on the way to them.
ASSUME WorldsAssumption == \A w \in Worlds : Honest(w.a, w.count)

VARIABLES
    subscribers, allowed, queue, stream, log, from, got, todo, called, opens,
    uid, dsn, present, nextUid, last, scan, recorded, overflow, fails, fetchFails, crashes, recreates,
    world            \* the address under validation

Bus == INSTANCE EventBus
Scanner == INSTANCE BounceScan

busVars == <<subscribers, allowed, queue, stream, log, from, got, todo, called, opens>>
scanVars == <<uid, dsn, present, nextUid, last, scan, recorded, overflow, fails, fetchFails, crashes, recreates>>
vars == <<requestVars, busVars, scanVars, batchVars, feedbackVars, mailVars, world>>

\* The parts that name does not touch.
Only(name) ==
    /\ part = name
    /\ name # "bus" => UNCHANGED busVars
    /\ name # "scan" => UNCHANGED scanVars
    /\ name # "batch" => UNCHANGED batchVars
    /\ name # "feedback" => UNCHANGED feedbackVars
    /\ name \notin {"mail", "forward"} => UNCHANGED mailVars
    /\ name # "address" => UNCHANGED world

Init ==
    /\ \E name \in DOMAIN Requested : RequestsInit(name, Requested[name])
    /\ Bus!Init /\ Scanner!Init /\ BatchInit
    /\ MailInit(IF part = "mail" THEN 1 ELSE 0, IF part = "forward" THEN Existent ELSE {[r \in RuleIds |-> Gone]})
    /\ FeedbackInit(IF part = "batch" THEN Known ELSE {<<>>})
    /\ world = Unset

BusNext == Only("bus") /\ Bus!Next /\ UNCHANGED requestVars
ScanNext == Only("scan") /\ Scanner!Next /\ UNCHANGED requestVars

\* POST /emails/validate; the answer depends on nothing that is kept.
validate_email_endpoint == Only("address") /\ Serve /\ world' \in Worlds

BatchNext ==
    /\ Only("batch")
    /\ \/ \E d \in Domains : process_domain(d)
       \/ \E d \in Domains : task[d] = "lead" /\ \E r \in Answers(Lead(d), TRUE) \cup {Unset} : LeadAnswers(d, r)
       \/ \E e \in DOMAIN DomainOf : process_address(e)
       \/ \E e \in asked : \E r \in Answers(e, Controlled(e)) \cup {Unset} : MemberAnswers(e, r)
       \/ AddItem(CHOOSE u \in Users : TRUE)
       \/ validate_batch

FeedbackNext ==
    /\ Only("feedback")
    /\ \/ \E s \in Slots, r \in Reports : create_email_validation_feedback(s, r.user, r.email, r.outcome)
       \/ \E s \in Slots, m \in Notifications : ingest_bounce(s, CHOOSE u \in Users : TRUE, m)
       \/ \E s \in Slots : record_validation_feedback(s) \/ maybe_suppress_domain(s) \/ LookSuppression(s) \/ StoreSuppression(s) \/ CutOff(s)
       \/ AgeFeedback \/ ExpireSuppression

Folder == {"INBOX", "Junk", "Trash"}

MailNext ==
    /\ Only("mail")
    /\ \/ \E s \in Slots, f \in {"INBOX", "Trash"} : \E u \in Uids(f) : mark_email_as_spam(s, f, u)
       \/ \E s \in Slots : \E u \in Uids("Junk") : mark_email_as_not_spam(s, u)
       \/ \E s \in Slots, f \in Folder : box[f] # {} /\ \E us \in {Newest(f)} \cup {<<u>> : u \in Uids(f)} : bulk_delete_emails(s, f, us)
       \/ \E s \in Slots : purge_mailbox(s) \/ PurgeSearch(s) \/ PurgeStore(s) \/ PurgeExpunge(s)
       \/ \E s \in Slots : Copy(s) \/ CopyRefused(s) \/ Store(s) \/ Expunge(s) \/ DeleteFails(s)
       \/ \E f \in Folder : \E u \in Uids(f) : get_email(f, u) \/ set_email_flags(f, u, FALSE)
       \/ \E s \in Slots : bulk_inject(s, 1) \/ inject_email(s) \/ InjectFails(s) \/ process_incoming_email(s) \/ SelectRules(s) \/ Abandon(s)
       \/ \E s \in Slots, asks \in {{}, {"sign", "encrypt"}} : send_email(s, asks)
       \/ \E s \in Slots : Protect(s, "sign", "encrypt") \/ Protect(s, "encrypt", "submit") \/ Submit(s)
       \/ \E set \in {{"sign"}, {"sign", "encrypt"}} : ChangeKeys(set)

ForwardNext ==
    /\ Only("forward")
    /\ \/ \E s \in Slots, n \in 1..2 : bulk_inject(s, n)
       \/ \E s \in Slots : inject_email(s) \/ InjectFails(s) \/ process_incoming_email(s) \/ SelectRules(s) \/ FetchPayload(s) \/ Abandon(s)
       \/ \E s \in Slots, net \in {"ok", "error", "private"} : Fire(s, net)
       \/ \E r \in RuleIds, user \in Owners, shape \in Shapes : create_rule(r, user, shape, "webhook")
       \/ \E s \in Slots, r \in RuleIds, change \in Changes : update_rule(s, r, change)
       \/ \E s \in Slots : CommitRule(s)
       \/ \E r \in RuleIds : delete_rule(r)
       \/ \E user \in Owners \cup {Gone} : ChangeOwner(user)

Next == BusNext \/ ScanNext \/ validate_email_endpoint \/ BatchNext \/ FeedbackNext \/ MailNext \/ ForwardNext

\* scanner_loop scans again every five minutes, for ever.
Scanning == Only("scan") /\ Scanner!Scan /\ UNCHANGED requestVars
Spec == Init /\ [][Next]_vars /\ WF_vars(Scanning)

-----------------------------------------------------------------------------
(* Properties of the parts that are modelled apart *)

\* What the streams and the listeners of the event bus receive (see EventBus).
EventsDelivered == Bus!TypeOK /\ Bus!NoGap /\ Bus!EveryListenerCalled

\* An outcome is recorded once, but for crashes and errors, and every notification is
\* read in the end (see BounceScan).
BouncesRead == []Scanner!RecordedOnce /\ Scanner!EveryBounceRead

\* No address is given a verdict that the answers of its hosts do not support (see
\* Validation).
VerdictsSupported == (part = "address" /\ world # Unset) => Supported(world.a, world.count)

-----------------------------------------------------------------------------
(* Values of the run: hosts of three kinds whose answers fail in every      *)
(* place, two domains in a batch, two tenants that report outcomes, three   *)
(* messages in one mailbox, two forwarding rules.                           *)

Accepted == [class |-> "2xx", text |-> {}]
Unknown == [class |-> "5xx", text |-> {"weak"}]
Noise == {[class |-> "4xx", text |-> {"weak"}], [class |-> "5xx", text |-> {"policy", "weak"}], [class |-> "sender", text |-> {}]}
Calm == [class |-> "calm", text |-> {}]

\* The true answer at position i of a session: one control, the target, more controls.
Truth(kind, exists, target, i) ==
    CASE kind = "accept_all" \/ (kind = "validating" /\ exists /\ i = target) \/ (kind = "degrading" /\ i <= 2) -> Accepted
      [] OTHER -> [Unknown EXCEPT !.text = IF i = target THEN {"strong"} ELSE @]
Session(kind, exists, noise) ==
    [reached |-> "session",
     replies |-> [i \in DOMAIN noise |-> IF noise[i] = Calm THEN Truth(kind, exists, IF Len(noise) = 1 THEN 1 ELSE 2, i) ELSE noise[i]]]
Disturbed(n) == [1..n -> Noise \cup {Calm}]

Routed == [mx |-> "hosts", ns |-> "hosts", a |-> "none", aaaa |-> "none"]
Address(kind, exists, dns, tries) ==
    [faults |-> {}, dns |-> dns, timeout |-> FALSE, tunnel |-> FALSE, reply |-> Unset, tries |-> tries,
     kind |-> kind, exists |-> exists, listed |-> FALSE, alias_service |-> FALSE]
Kinds == {"validating", "accept_all", "degrading"}
OneHost == {[a |-> Address(k, e, Routed, <<Session(k, e, n)>>), count |-> Len(n) - 1] : k \in Kinds, e \in BOOLEAN, n \in UNION {Disturbed(m) : m \in 1..4}}
TwoHosts ==
    {[a |-> Address(k, e, Routed, <<t, Session(k, e, n)>>), count |-> 2] :
        k \in Kinds, e \in BOOLEAN, n \in Disturbed(3),
        t \in {[reached |-> "private", replies |-> <<Calm>>], Session("validating", TRUE, <<Calm, [class |-> "4xx", text |-> {}], Calm>>)}}
Open(d) == d.mx # "null" /\ {"hosts", "error"} \cap {d.mx, d.a, d.aaaa} # {}
Lookups ==
    {[a |-> [Address("validating", e, d, <<Session("validating", e, <<Calm, Calm>>)>>) EXCEPT !.faults = f, !.listed = l, !.alias_service = s], count |-> 1] :
        d \in {x \in [DOMAIN Routed -> {"none", "hosts", "null", "error"}] : {x.ns, x.a, x.aaaa} \cap {"null"} = {}},
        e, l, s \in BOOLEAN, f \in {{}, {"dots"}}}
MCWorlds ==
    OneHost \cup TwoHosts \cup {w \in Lookups : w.a.exists => w.a.faults = {} /\ Open(w.a.dns)}
    \cup {[a |-> [Address(IF r.code = 252 THEN "accept_all" ELSE "validating", r.code = 250, Routed, <<>>) EXCEPT !.tunnel = TRUE, !.reply = r, !.timeout = t], count |-> 2] :
             r \in [code : {250, 252, 550, 451}, rejected : {0, 2}, degraded : BOOLEAN], t \in BOOLEAN}

\* Two tenants, a notification of two recipients, one that only its text gives away.
Entry(e, action, status) == [recipient |-> e, action |-> action, status |-> status, code |-> 5]
MCNotifications ==
    {[blocks |-> <<Entry("b1", "failed", "5"), Entry("b2", "delayed", "4"), Entry("-", "failed", "5")>>, automated |-> TRUE, failure_phrase |-> TRUE, status |-> "5", code |-> 5, addresses |-> <<>>],
     [blocks |-> <<>>, automated |-> TRUE, failure_phrase |-> TRUE, status |-> "-", code |-> 5, addresses |-> <<"b1", "b2">>]}
MCSubmitted == <<[email |-> "a1", faults |-> {}], [email |-> "b1", faults |-> {}], [email |-> "a2", faults |-> {}], [email |-> "a1", faults |-> {}],
                 [email |-> "x", faults |-> {"dots"}], [email |-> "a3", faults |-> {}], [email |-> "b2", faults |-> {}]>>
MCDomainOf == [e \in {"a1", "a2", "a3", "b1", "b2"} |-> IF e \in {"b1", "b2"} THEN "B" ELSE "A"]
MCEstimate == [e \in DOMAIN MCDomainOf |-> CASE e = "a1" -> 300 [] e = "a2" -> 60 [] OTHER -> 10]
Fed(u, e, o, recent) == [user |-> u, email |-> e, outcome |-> o, old |-> FALSE, recent |-> recent]
MCKnown == {<<>>, <<Fed("u1", "a2", "hard_bounce", TRUE), Fed("u2", "a3", "hard_bounce", TRUE), Fed("u1", "a1", "delivered", FALSE)>>}
MCReports == {[user |-> u, email |-> "b1", outcome |-> o] : u \in Users, o \in {"hard_bounce", "delivered"}}

Everything == [f \in Fields |-> NoPattern]
MCShapes == {Everything, [Everything EXCEPT !["match_subject"] = {1, 3}]}
MCExistent ==
    {[r \in RuleIds |-> [user |-> "u1", on |-> TRUE, match |-> shape, type |-> "webhook", config |-> IF shape = Everything THEN "webhook" ELSE "smtp_forward"]] :
        shape \in MCShapes}
MCChanges == {[type |-> "smtp_forward"], [config |-> "smtp_forward"], [on |-> FALSE]}
MCRequested == [bus |-> 0, scan |-> 0, address |-> 1, batch |-> 0, feedback |-> 3, mail |-> 3, forward |-> 2]
=============================================================================
