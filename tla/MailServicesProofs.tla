------------------------- MODULE MailServicesProofs -------------------------
(***************************************************************************)
(* Proofs about the backend's work on mail: the forwarding rules, what     *)
(* moves, deletions and purges leave in a mailbox, the event streams, the  *)
(* suppression of domains and the verdicts on addresses, for any number of *)
(* requests, messages, rules, streams, listeners, outcomes and hosts.      *)
(***************************************************************************)
EXTENDS MailServices, FiniteSetTheorems, SequenceTheorems, WellFoundedInduction, TLAPS

-----------------------------------------------------------------------------
(* A behaviour exercises one part and stays with it.                       *)

LEMMA Rest ==
    ASSUME UNCHANGED vars
    PROVE  UNCHANGED requestVars /\ UNCHANGED mailVars /\ UNCHANGED busVars
BY DEF vars

LEMMA PartStays ==
    ASSUME [Next]_vars
    PROVE  part' = part
<1>1. CASE UNCHANGED vars  BY <1>1 DEF vars, requestVars
<1>2. CASE BusNext \/ ScanNext  BY <1>2 DEF BusNext, ScanNext, requestVars
<1>3. CASE validate_email_endpoint  BY <1>3 DEF validate_email_endpoint, Serve
<1>4. CASE BatchNext  BY <1>4 DEF BatchNext, process_domain, LeadAnswers, process_address, MemberAnswers, AddItem, validate_batch, requestVars
<1>5. CASE FeedbackNext
  <2>1. CASE \E s \in Slots, r \in Reports : create_email_validation_feedback(s, r.user, r.email, r.outcome)
    BY <2>1 DEF create_email_validation_feedback, Begin
  <2>2. CASE \E s \in Slots, m \in Notifications : ingest_bounce(s, CHOOSE u \in Users : TRUE, m)
    BY <2>2 DEF ingest_bounce, Begin
  <2>3. ASSUME NEW s \in Slots PROVE Proceed(s) => part' = part  BY DEF Proceed, Goto, End
  <2>4. CASE \E s \in Slots : record_validation_feedback(s) \/ maybe_suppress_domain(s) \/ LookSuppression(s) \/ StoreSuppression(s) \/ CutOff(s)
    BY <2>3, <2>4 DEF record_validation_feedback, maybe_suppress_domain, LookSuppression, StoreSuppression, CutOff, Step, Goto, End
  <2>5. CASE AgeFeedback \/ ExpireSuppression  BY <2>5 DEF AgeFeedback, ExpireSuppression, Serve
  <2> QED  BY <1>5, <2>1, <2>2, <2>4, <2>5 DEF FeedbackNext
<1>6. CASE MailNext
  <2>1. ASSUME NEW s \in Slots PROVE NextUid(s) \/ NextInject(s) \/ Skip(s) \/ Handled(s) => part' = part
    BY DEF NextUid, NextInject, Skip, Handled, Goto, End
  <2>2. part' = part \/ ~(\E s \in Slots : (\E asks \in {{}, {"sign", "encrypt"}} : send_email(s, asks)) \/ Protect(s, "sign", "encrypt") \/ Protect(s, "encrypt", "submit") \/ Submit(s))
    BY DEF send_email, Protect, Submit, Begin, Goto, End, Step
  <2>3. part' = part \/ ~(\E s \in Slots : bulk_inject(s, 1) \/ inject_email(s) \/ InjectFails(s) \/ process_incoming_email(s) \/ SelectRules(s) \/ Abandon(s))
    BY <2>1 DEF bulk_inject, inject_email, InjectFails, process_incoming_email, SelectRules, Abandon, Begin, Goto, End, Step
  <2>4. part' = part \/ ~(\E s \in Slots : purge_mailbox(s) \/ PurgeSearch(s) \/ PurgeStore(s) \/ PurgeExpunge(s))
    BY <2>1 DEF purge_mailbox, PurgeSearch, PurgeStore, PurgeExpunge, Begin, Goto, End, Step
  <2>5. part' = part \/ ~(\E s \in Slots : Copy(s) \/ CopyRefused(s) \/ Store(s) \/ Expunge(s) \/ DeleteFails(s))
    BY <2>1 DEF Copy, CopyRefused, Store, Expunge, DeleteFails, Goto, End, Step
  <2>6. ASSUME NEW s, NEW f, NEW u, mark_email_as_spam(s, f, u) \/ mark_email_as_not_spam(s, u) \/ bulk_delete_emails(s, f, u) PROVE part' = part
    BY <2>6 DEF mark_email_as_spam, mark_email_as_not_spam, bulk_delete_emails, move_email_to_folder, Begin
  <2>7. ASSUME NEW f, NEW u, get_email(f, u) \/ set_email_flags(f, u, FALSE) \/ ChangeKeys(u) PROVE part' = part
    BY <2>7 DEF get_email, set_email_flags, ChangeKeys, Serve
  <2> QED  BY <1>6, <2>2, <2>3, <2>4, <2>5, <2>6, <2>7 DEF MailNext
<1>7. CASE ForwardNext
  <2>1. ASSUME NEW s \in Slots PROVE NextInject(s) \/ Handled(s) => part' = part  BY DEF NextInject, Handled, Goto, End
  <2> QED
    BY <1>7, <2>1 DEF ForwardNext, bulk_inject, inject_email, InjectFails, process_incoming_email, SelectRules, FetchPayload, Abandon, Fire,
       create_rule, update_rule, CommitRule, delete_rule, ChangeOwner, Begin, Goto, End, Step, Serve
<1> QED  BY <1>1, <1>2, <1>3, <1>4, <1>5, <1>6, <1>7 DEF Next

-----------------------------------------------------------------------------
(* Forwarding: the inductive invariant.                                    *)

InjectOps == {"append", "owner", "rules", "fetch", "fire"}
Injecting(q) ==
    /\ DOMAIN q = {"op", "todo", "uid", "user", "fire"}
    /\ q.op \in InjectOps /\ q.todo \in Seq(Mail) /\ q.todo # <<>> /\ IsInjective(q.todo)
Updating(q) == q.op = "update" /\ "user" \notin DOMAIN q.change

\* The messages that a request still has to deal with, and the rules that it still has to
\* try on the first of them.
Msgs(q) == IF q.op \in InjectOps THEN Range(q.todo) ELSE {}
Left(q) == {x[1] : x \in q.fire}

ForwardTypes ==
    /\ req = [s \in Slots |-> req[s]]
    /\ \A s \in Slots : req[s] = Idle \/ Injecting(req[s]) \/ Updating(req[s])
    /\ issued \in 0..MaxMail /\ expected \in [Mail -> SUBSET RuleIds]
    /\ tried \in Seq(RuleIds \X Mail)
RulesOwned ==
    /\ rules = [r \in RuleIds |-> rules[r]]
    /\ \A r \in RuleIds : rules[r] # Gone => "user" \in DOMAIN rules[r] /\ rules[r].user \in Owners

\* A message is dealt with by one request, and not again.
OneRequestEach ==
    /\ \A s \in Slots : Msgs(req[s]) \subseteq 1..issued /\ Msgs(req[s]) \cap handled = {}
    /\ \A s, t \in Slots : s # t => Msgs(req[s]) \cap Msgs(req[t]) = {}
    /\ handled \subseteq 1..issued /\ \A k \in DOMAIN tried : tried[k][2] \in 1..issued

\* What was tried on a message in progress is not tried again.
TriedOnce ==
    /\ IsInjective(tried)
    /\ \A s \in Slots, k \in DOMAIN tried : tried[k][2] \in Msgs(req[s]) =>
           req[s].op = "fire" /\ tried[k][2] = Head(req[s].todo) /\ tried[k][1] \notin Left(req[s])
    /\ \A s \in Slots : req[s].op \in {"fetch", "fire"} =>
           /\ \A x \in req[s].fire : x[1] \in RuleIds
           /\ \A x, y \in req[s].fire : x[1] = y[1] => x = y

\* A rule that is expected is found by the step that is next, is chosen, or was tried.
TriedOn(m) == {r \in RuleIds : <<r, m>> \in Range(tried)}
Awaited(q) ==
    LET m == Head(q.todo)
    IN  /\ q.op = "owner" => expected[m] \subseteq Eligible(owner, m)
        /\ q.op = "rules" => expected[m] \subseteq Eligible(q.user, m)
        /\ q.op = "fetch" => expected[m] \subseteq Left(q)
        /\ q.op = "fire" => expected[m] \subseteq Left(q) \cup TriedOn(m)
AllTried ==
    /\ \A s \in Slots : Awaited(req[s])
    /\ \A m \in handled : expected[m] \subseteq TriedOn(m)

ForwardInv == ForwardTypes /\ RulesOwned /\ OneRequestEach /\ TriedOnce /\ AllTried

-----------------------------------------------------------------------------
(* Forwarding: the proof.                                                  *)

LEMMA ForwardStart == Init => (part = "forward" => ForwardInv)
<1> SUFFICES ASSUME Init, part = "forward" PROVE ForwardInv  OBVIOUS
<1>2. req = [s \in Slots |-> Idle]  BY DEF Init, RequestsInit
<1>3. MailInit(0, Existent)  BY DEF Init
<1>4. \A s \in Slots : req[s] = Idle /\ req[s].op = "idle"  BY <1>2 DEF Idle
<1>5. issued = 0 /\ rules \in Existent /\ tried = <<>> /\ handled = {} /\ expected = [m \in Mail |-> {}]
  BY <1>3 DEF MailInit
<1>6. ForwardTypes  BY <1>2, <1>4, <1>5, ForwardAssumption DEF ForwardTypes
<1>7. RulesOwned  BY <1>5, ForwardAssumption DEF RulesOwned
<1>8. \A s \in Slots : Msgs(req[s]) = {}  BY <1>4 DEF Msgs, InjectOps
<1>9. OneRequestEach
  <2>1. DOMAIN tried = {} /\ handled = {}  BY <1>5
  <2> QED  BY <2>1, <1>8 DEF OneRequestEach
<1>10. TriedOnce  BY <1>4, <1>5 DEF TriedOnce, IsInjective
<1>11. AllTried  BY <1>4, <1>5 DEF AllTried, Awaited
<1> QED  BY <1>6, <1>7, <1>9, <1>10, <1>11 DEF ForwardInv
\* What is left to inject after the first message.
LEMMA TailFacts ==
    ASSUME NEW S, NEW w \in Seq(S), w # <<>>, Len(w) # 1
    PROVE  /\ Tail(w) \in Seq(S) /\ Tail(w) # <<>> /\ Len(w) \in Nat /\ Len(w) > 1
           /\ DOMAIN Tail(w) = 1..(Len(w) - 1) /\ \A i \in 1..(Len(w) - 1) : Tail(w)[i] = w[i + 1]
<1>0. \A n \in Nat : n # 0 /\ n # 1 => n > 1  OBVIOUS
<1>1. Len(w) \in Nat /\ Len(w) # 0  OBVIOUS
<1>5. Len(w) > 1  BY <1>0, <1>1
<1>2. Tail(w) \in Seq(S) /\ Len(Tail(w)) = Len(w) - 1 /\ \A i \in 1..(Len(w) - 1) : Tail(w)[i] = w[i + 1]  BY <1>1, <1>5
<1>3. DOMAIN Tail(w) = 1..(Len(w) - 1)  BY <1>1, <1>2, <1>5
<1>4. Tail(w) # <<>>
  <2>1. 1 \in DOMAIN Tail(w)  BY <1>1, <1>3, <1>5
  <2>2. DOMAIN <<>> = {}  OBVIOUS
  <2> QED  BY <2>1, <2>2
<1> QED  BY <1>1, <1>2, <1>3, <1>4, <1>5

LEMMA FirstOfTodo ==
    ASSUME NEW q, Injecting(q)
    PROVE  /\ Head(q.todo) \in Mail /\ Head(q.todo) \in Msgs(q) /\ Msgs(q) \subseteq Mail
           /\ Len(q.todo) = 1 => Msgs(q) = {Head(q.todo)}
<1>1. q.todo \in Seq(Mail) /\ q.todo # <<>> /\ Msgs(q) = Range(q.todo)  BY DEF Injecting, Msgs
<1>2. Len(q.todo) \in Nat /\ Len(q.todo) # 0 /\ DOMAIN q.todo = 1..Len(q.todo) /\ Head(q.todo) = q.todo[1]  BY <1>1
<1>3. \A i \in DOMAIN q.todo : q.todo[i] \in Mail  BY <1>1
<1> QED  BY <1>1, <1>2, <1>3 DEF Range

LEMMA RestOfTodo ==
    ASSUME NEW q, Injecting(q), Len(q.todo) # 1, NEW r,
           r = [op |-> "append", todo |-> Tail(q.todo), uid |-> 0, user |-> Gone, fire |-> {}]
    PROVE  Injecting(r) /\ Msgs(r) = Msgs(q) \ {Head(q.todo)}
<1>1. q.todo \in Seq(Mail) /\ q.todo # <<>> /\ IsInjective(q.todo) /\ Msgs(q) = Range(q.todo)  BY DEF Injecting, Msgs
<1>2. DOMAIN q.todo = 1..Len(q.todo) /\ Head(q.todo) = q.todo[1]  BY <1>1
<1>3. /\ Tail(q.todo) \in Seq(Mail) /\ DOMAIN Tail(q.todo) = 1..(Len(q.todo) - 1)
      /\ Len(q.todo) \in Nat /\ Len(q.todo) > 1
      /\ \A i \in 1..(Len(q.todo) - 1) : Tail(q.todo)[i] = q.todo[i + 1]
  BY <1>1, TailFacts
<1>4. Tail(q.todo) # <<>>  BY <1>1, TailFacts
<1>5. IsInjective(Tail(q.todo))
  <2> SUFFICES ASSUME NEW i \in 1..(Len(q.todo) - 1), NEW j \in 1..(Len(q.todo) - 1), Tail(q.todo)[i] = Tail(q.todo)[j] PROVE i = j
    BY <1>3 DEF IsInjective
  <2>1. i + 1 \in DOMAIN q.todo /\ j + 1 \in DOMAIN q.todo  BY <1>2, <1>3
  <2>2. q.todo[i + 1] = q.todo[j + 1]  BY <1>3
  <2>3. i + 1 = j + 1  BY <1>1, <2>1, <2>2 DEF IsInjective
  <2> QED  BY <2>3
<1>6. Range(Tail(q.todo)) = Range(q.todo) \ {Head(q.todo)}
  <2>1. ASSUME NEW m \in Range(Tail(q.todo)) PROVE m \in Range(q.todo) \ {Head(q.todo)}
    <3>1. PICK i \in 1..(Len(q.todo) - 1) : m = Tail(q.todo)[i]  BY <1>3, <2>1 DEF Range
    <3>2. i + 1 \in DOMAIN q.todo /\ 1 \in DOMAIN q.todo /\ m = q.todo[i + 1] /\ i + 1 # 1  BY <1>2, <1>3, <3>1
    <3> QED  BY <1>1, <1>2, <3>2 DEF Range, IsInjective
  <2>2. ASSUME NEW m \in Range(q.todo), m # Head(q.todo) PROVE m \in Range(Tail(q.todo))
    <3>1. PICK i \in 1..Len(q.todo) : m = q.todo[i]  BY <1>2, <2>2 DEF Range
    <3>2. i - 1 \in 1..(Len(q.todo) - 1) /\ (i - 1) + 1 = i  BY <1>2, <1>3, <2>2, <3>1
    <3> QED  BY <1>3, <3>1, <3>2 DEF Range
  <2> QED  BY <2>1, <2>2
<1>7. r.op = "append" /\ r.op \in InjectOps /\ r.todo = Tail(q.todo)  BY DEF InjectOps
<1> QED  BY <1>1, <1>3, <1>4, <1>5, <1>6, <1>7 DEF Injecting, Msgs

LEMMA NextInjectStep ==
    ASSUME NEW s \in Slots, Injecting(req[s]), NextInject(s)
    PROVE  \E r : /\ req' = [req EXCEPT ![s] = r] /\ (r = Idle \/ (Injecting(r) /\ r.op = "append"))
                  /\ Msgs(r) = Msgs(req[s]) \ {Head(req[s].todo)}
<1>1. CASE Len(req[s].todo) = 1
  <2>1. req' = [req EXCEPT ![s] = Idle]  BY <1>1 DEF NextInject, End, Goto
  <2>2. Msgs(Idle) = {}  BY DEF Idle, Msgs, InjectOps
  <2> QED  BY <1>1, <2>1, <2>2, FirstOfTodo
<1>2. CASE Len(req[s].todo) # 1
  <2> DEFINE r == [op |-> "append", todo |-> Tail(req[s].todo), uid |-> 0, user |-> Gone, fire |-> {}]
  <2>1. req' = [req EXCEPT ![s] = r]  BY <1>2 DEF NextInject, Goto
  <2>2. r.op = "append"  OBVIOUS
  <2> HIDE DEF r
  <2>3. Injecting(r) /\ Msgs(r) = Msgs(req[s]) \ {Head(req[s].todo)}  BY <1>2, RestOfTodo DEF r
  <2> QED  BY <2>1, <2>2, <2>3
<1> QED  BY <1>1, <1>2

\* Requests whose message did not change keep what was awaited, when rules and history allow.
LEMMA Moves ==
    ASSUME ForwardInv, NEW s \in Slots, NEW r, req' = [req EXCEPT ![s] = r],
           r = Idle \/ Injecting(r), Msgs(r) \subseteq Msgs(req[s]), issued' = issued
    PROVE  /\ req'[s] = r /\ \A t \in Slots \ {s} : req'[t] = req[t]
           /\ expected' \in [Mail -> SUBSET RuleIds] /\ tried' \in Seq(RuleIds \X Mail) => ForwardTypes'
           /\ (\A k \in DOMAIN tried' : tried'[k][2] \in 1..issued) /\ handled' \subseteq handled \cup (Msgs(req[s]) \ Msgs(r)) => OneRequestEach'
<1>1. req'[s] = r /\ (\A t \in Slots \ {s} : req'[t] = req[t]) /\ req' = [t \in Slots |-> req'[t]]
  BY DEF ForwardInv, ForwardTypes
<1>2. ASSUME expected' \in [Mail -> SUBSET RuleIds] /\ tried' \in Seq(RuleIds \X Mail) PROVE ForwardTypes'
  BY <1>1, <1>2 DEF ForwardInv, ForwardTypes
<1>3. ASSUME \A k \in DOMAIN tried' : tried'[k][2] \in 1..issued, handled' \subseteq handled \cup (Msgs(req[s]) \ Msgs(r)) PROVE OneRequestEach'
  <2>1. \A t \in Slots : Msgs(req'[t]) \subseteq Msgs(req[t]) /\ Msgs(req[t]) \subseteq 1..issued /\ Msgs(req[t]) \cap handled = {}
    BY <1>1 DEF ForwardInv, OneRequestEach
  <2>2. \A t, u \in Slots : t # u => Msgs(req[t]) \cap Msgs(req[u]) = {}  BY DEF ForwardInv, OneRequestEach
  <2>3. handled' \subseteq 1..issued  BY <1>3, <2>1 DEF ForwardInv, OneRequestEach
  <2>4. \A t \in Slots : Msgs(req'[t]) \cap handled' = {}  BY <1>1, <1>3, <2>1, <2>2
  <2> QED  BY <1>3, <2>1, <2>2, <2>3, <2>4 DEF OneRequestEach
<1> QED  BY <1>1, <1>2, <1>3
\* Steps that touch none of what forwarding is about.
LEMMA ForwardSame ==
    ASSUME ForwardInv, req' = req, issued' = issued, UNCHANGED <<owner, rules, tried, expected, handled>>
    PROVE  ForwardInv'
<1>1. ForwardTypes' /\ RulesOwned' /\ OneRequestEach' /\ TriedOnce'
  BY DEF ForwardInv, ForwardTypes, RulesOwned, OneRequestEach, TriedOnce
<1>2. AllTried'  BY DEF ForwardInv, AllTried, Awaited, Eligible, TriedOn, Left
<1> QED  BY <1>1, <1>2 DEF ForwardInv

\* A request is on its way, or done: the message is the same, and so are rules and history.
LEMMA ForwardMoves ==
    ASSUME ForwardInv, NEW s \in Slots, NEW r, req' = [req EXCEPT ![s] = r], issued' = issued,
           r = Idle \/ Injecting(r), Msgs(r) \subseteq Msgs(req[s]), UNCHANGED <<owner, rules, tried, expected>>,
           handled' \subseteq handled \cup (Msgs(req[s]) \ Msgs(r)),
           \A m \in handled' \ handled : expected[m] \subseteq TriedOn(m),
           Awaited(r),
           \A k \in DOMAIN tried : tried[k][2] \in Msgs(r) => r.op = "fire" /\ tried[k][2] = Head(r.todo) /\ tried[k][1] \notin Left(r),
           r.op \in {"fetch", "fire"} => /\ \A x \in r.fire : x[1] \in RuleIds
                                        /\ \A x, y \in r.fire : x[1] = y[1] => x = y
    PROVE  ForwardInv'
<1>1. ForwardTypes' /\ OneRequestEach' /\ req'[s] = r /\ \A t \in Slots \ {s} : req'[t] = req[t]
  BY Moves DEF ForwardInv, ForwardTypes, OneRequestEach
<1>2. RulesOwned'  BY DEF ForwardInv, RulesOwned
<1>3. TriedOnce'
  <2>1. \A t \in Slots : t = s \/ req'[t] = req[t]  BY <1>1
  <2> QED  BY <1>1, <2>1 DEF ForwardInv, TriedOnce, Left
<1>4. AllTried'
  <2>1. \A m : TriedOn(m)' = TriedOn(m)  BY DEF TriedOn
  <2>2. \A q : Awaited(q) => Awaited(q)'  BY <2>1 DEF Awaited, Eligible, Left
  <2>3. \A t \in Slots : Awaited(req[t])'
    <3> TAKE t \in Slots
    <3>1. CASE t = s
      <4>1. Awaited(r)'  BY <2>2
      <4> QED  BY <1>1, <3>1, <4>1 DEF Awaited, Left
    <3>2. CASE t # s
      <4>1. req'[t] = req[t] /\ Awaited(req[t])  BY <1>1, <3>2 DEF ForwardInv, AllTried
      <4> QED  BY <4>1, <2>1 DEF Awaited, Eligible, Left
    <3> QED  BY <3>1, <3>2
  <2> QED  BY <2>1, <2>3 DEF ForwardInv, AllTried
<1> QED  BY <1>1, <1>2, <1>3, <1>4 DEF ForwardInv
\* The kind of request that a step works on.
LEMMA AtInject ==
    ASSUME ForwardInv, NEW s \in Slots, req[s].op \in InjectOps
    PROVE  /\ Injecting(req[s]) /\ Awaited(req[s]) /\ Msgs(req[s]) = Range(req[s].todo)
           /\ Head(req[s].todo) \in Mail /\ Head(req[s].todo) \in 1..issued /\ Head(req[s].todo) \in Msgs(req[s])
           /\ Head(req[s].todo) \notin handled
           /\ \A k \in DOMAIN tried : tried[k][2] \in Msgs(req[s]) =>
                  req[s].op = "fire" /\ tried[k][2] = Head(req[s].todo) /\ tried[k][1] \notin Left(req[s])
<1>1. Idle.op = "idle"  BY DEF Idle
<1>2. Injecting(req[s])
  <2>1. req[s] # Idle  BY <1>1 DEF InjectOps
  <2>2. ~Updating(req[s])  BY DEF Updating, InjectOps
  <2> QED  BY <2>1, <2>2 DEF ForwardInv, ForwardTypes
<1>3. Awaited(req[s]) /\ Msgs(req[s]) = Range(req[s].todo)  BY DEF ForwardInv, AllTried, Msgs
<1>4. Head(req[s].todo) \in Mail /\ Head(req[s].todo) \in Msgs(req[s])  BY <1>2, FirstOfTodo
<1> QED  BY <1>2, <1>3, <1>4 DEF ForwardInv, OneRequestEach, TriedOnce

\* A message is done with, whatever became of it.
LEMMA ForwardNextInject ==
    ASSUME ForwardInv, NEW s \in Slots, req[s].op \in InjectOps, NextInject(s), issued' = issued,
           UNCHANGED <<owner, rules, tried, expected>>,
           handled' = handled \/ (handled' = handled \cup {Head(req[s].todo)} /\ expected[Head(req[s].todo)] \subseteq TriedOn(Head(req[s].todo)))
    PROVE  ForwardInv'
<1>1. Injecting(req[s]) /\ Head(req[s].todo) \in Msgs(req[s])  BY AtInject
<1>2. PICK r : /\ req' = [req EXCEPT ![s] = r] /\ (r = Idle \/ (Injecting(r) /\ r.op = "append"))
               /\ Msgs(r) = Msgs(req[s]) \ {Head(req[s].todo)}
  BY <1>1, NextInjectStep
<1>3. r.op \in {"idle", "append"}  BY <1>2 DEF Idle
<1>4. Awaited(r)  BY <1>3 DEF Awaited
<1>5. \A k \in DOMAIN tried : tried[k][2] \notin Msgs(r)  BY <1>2, AtInject
<1> QED  BY <1>1, <1>2, <1>3, <1>4, <1>5, ForwardMoves

LEMMA BulkInjectKeeps ==
    ASSUME ForwardInv, NEW s \in Slots, NEW n \in 1..2, bulk_inject(s, n)
    PROVE  ForwardInv'
<1> DEFINE todo1 == [i \in 1..n |-> issued + i]
           r == [op |-> "append", todo |-> todo1, uid |-> 0, user |-> Gone, fire |-> {}]
<1>1. /\ req[s] = Idle /\ req' = [req EXCEPT ![s] = r]
      /\ issued + n <= MaxMail /\ issued' = issued + n /\ UNCHANGED <<owner, rules, tried, expected, handled>>
  BY DEF bulk_inject, Begin, NewMail, ruleVars
<1>2. r.op = "append" /\ r.todo = todo1  OBVIOUS
<1>3. issued \in Nat /\ issued <= MaxMail /\ MaxMail \in Nat /\ issued' \in 0..MaxMail
  BY <1>1, ForwardAssumption DEF ForwardInv, ForwardTypes
<1>4. todo1 \in Seq(Mail) /\ todo1 # <<>> /\ IsInjective(todo1) /\ Range(todo1) \subseteq (issued + 1)..issued'
  <2>1. \A i \in 1..n : todo1[i] \in Mail /\ todo1[i] \in (issued + 1)..issued'  BY <1>1, <1>3 DEF Mail
  <2>2. DOMAIN todo1 = 1..n /\ 1 \in 1..n /\ DOMAIN <<>> = {}  OBVIOUS
  <2>3. todo1 \in Seq(Mail)  BY <2>1
  <2>4. IsInjective(todo1)  BY <1>3 DEF IsInjective
  <2> QED  BY <2>1, <2>2, <2>3, <2>4 DEF Range
<1>5. Injecting(r) /\ Msgs(r) = Range(todo1)  BY <1>2, <1>4 DEF Injecting, Msgs, InjectOps
<1> HIDE DEF todo1, r
<1>6. req'[s] = r /\ (\A t \in Slots \ {s} : req'[t] = req[t]) /\ req' = [t \in Slots |-> req'[t]]
  BY <1>1 DEF ForwardInv, ForwardTypes
<1>7. ForwardTypes'  BY <1>1, <1>3, <1>5, <1>6 DEF ForwardInv, ForwardTypes
<1>8. RulesOwned'  BY <1>1 DEF ForwardInv, RulesOwned
<1>9. \A t \in Slots : /\ Msgs(req[t]) \subseteq 1..issued /\ Msgs(req[t]) \cap handled = {}
                        /\ \A u \in Slots : t # u => Msgs(req[t]) \cap Msgs(req[u]) = {}
  BY DEF ForwardInv, OneRequestEach
<1>10. handled \subseteq 1..issued /\ \A k \in DOMAIN tried : tried[k][2] \in 1..issued  BY DEF ForwardInv, OneRequestEach
<1>11. 1..issued \subseteq 1..issued' /\ (issued + 1)..issued' \subseteq 1..issued' /\ 1..issued \cap (issued + 1)..issued' = {}
  BY <1>1, <1>3
<1>12. Msgs(r) \subseteq (issued + 1)..issued'  BY <1>4, <1>5
<1>13. OneRequestEach'
  <2>1. \A t \in Slots : Msgs(req'[t]) \subseteq 1..issued' /\ Msgs(req'[t]) \cap handled' = {}
    BY <1>1, <1>6, <1>9, <1>10, <1>11, <1>12
  <2>2. \A t, u \in Slots : t # u => Msgs(req'[t]) \cap Msgs(req'[u]) = {}  BY <1>6, <1>9, <1>11, <1>12
  <2> QED  BY <1>1, <1>10, <1>11, <2>1, <2>2 DEF OneRequestEach
<1>14. TriedOnce'
  <2>1. \A k \in DOMAIN tried : tried[k][2] \notin Msgs(req'[s])  BY <1>6, <1>10, <1>11, <1>12
  <2>2. req'[s].op = "append"  BY <1>2, <1>6 DEF r
  <2>3. \A t \in Slots : t = s \/ req'[t] = req[t]  BY <1>6
  <2> QED  BY <1>1, <2>1, <2>2, <2>3 DEF ForwardInv, TriedOnce, Left
<1>15. AllTried'
  <2>1. Awaited(r)'  BY <1>2 DEF Awaited, r
  <2>2. \A t \in Slots : Awaited(req[t])  BY DEF ForwardInv, AllTried
  <2>3. \A m : TriedOn(m)' = TriedOn(m)  BY <1>1 DEF TriedOn
  <2>4. \A t \in Slots \ {s} : Awaited(req[t])'  BY <1>1, <1>6, <2>2, <2>3 DEF Awaited, Eligible, Left
  <2> QED  BY <1>1, <1>2, <1>6, <2>1, <2>3, <2>4 DEF ForwardInv, AllTried, Awaited, r
<1> QED  BY <1>7, <1>8, <1>13, <1>14, <1>15 DEF ForwardInv
\* A request goes on with the same messages.
LEMMA SameTodo ==
    ASSUME NEW q, Injecting(q), NEW r, DOMAIN r = DOMAIN q, r.op \in InjectOps, r.todo = q.todo
    PROVE  Injecting(r) /\ Msgs(r) = Msgs(q) /\ Head(r.todo) = Head(q.todo)
BY DEF Injecting, Msgs

LEMMA InjectKeeps ==
    ASSUME ForwardInv, NEW s \in Slots, inject_email(s)
    PROVE  ForwardInv'
<1>0. PICK m : m = Head(req[s].todo)  OBVIOUS
<1>1. /\ req[s].op = "append" /\ expected' = [expected EXCEPT ![m] = Eligible(owner, m)]
      /\ req' = [req EXCEPT ![s] = [req[s] EXCEPT !.op = "owner", !.uid = uidNext["INBOX"]]]
      /\ issued' = issued /\ UNCHANGED <<owner, rules, tried, handled>>
  BY <1>0 DEF inject_email, At, Goto
<1>2. /\ Injecting(req[s]) /\ m \in Mail /\ m \in 1..issued /\ m \in Msgs(req[s]) /\ m \notin handled
      /\ \A k \in DOMAIN tried : tried[k][2] \notin Msgs(req[s])
  BY <1>0, <1>1, AtInject DEF InjectOps
<1>3. PICK r : r = [req[s] EXCEPT !.op = "owner", !.uid = uidNext["INBOX"]]  OBVIOUS
<1>4. "owner" \in InjectOps  BY DEF InjectOps
<1>5. Injecting(r) /\ Msgs(r) = Msgs(req[s]) /\ Head(r.todo) = m /\ r.op = "owner"
  <2>1. DOMAIN r = DOMAIN req[s] /\ r.op = "owner" /\ r.todo = req[s].todo  BY <1>2, <1>3 DEF Injecting
  <2> QED  BY <1>0, <1>2, <1>4, <2>1, SameTodo
<1>6. Eligible(owner, m) \subseteq RuleIds /\ expected \in [Mail -> SUBSET RuleIds]  BY DEF Eligible, ForwardInv, ForwardTypes
<1>7. /\ expected' \in [Mail -> SUBSET RuleIds] /\ expected'[m] = Eligible(owner, m)
      /\ \A n : n # m => expected'[n] = expected[n]
  BY <1>1, <1>2, <1>6
<1>8. tried' \in Seq(RuleIds \X Mail) /\ \A k \in DOMAIN tried' : tried'[k][2] \in 1..issued
  BY <1>1 DEF ForwardInv, ForwardTypes, OneRequestEach
<1>9. ForwardTypes' /\ OneRequestEach' /\ req'[s] = r /\ \A t \in Slots \ {s} : req'[t] = req[t]
  <2>1. req' = [req EXCEPT ![s] = r] /\ issued' = issued /\ handled' = handled  BY <1>1, <1>3
  <2> QED  BY <2>1, <1>5, <1>7, <1>8, Moves
<1>10. RulesOwned'  BY <1>1 DEF ForwardInv, RulesOwned
<1>11. TriedOnce'
  <2>1. tried' = tried /\ IsInjective(tried)  BY <1>1 DEF ForwardInv, TriedOnce
  <2>2. \A k \in DOMAIN tried : tried[k][2] \notin Msgs(req'[s])  BY <1>2, <1>5, <1>9
  <2>3. req'[s].op = "owner"  BY <1>5, <1>9
  <2>4. \A t \in Slots : t = s \/ req'[t] = req[t]  BY <1>9
  <2> QED  BY <2>1, <2>2, <2>3, <2>4 DEF ForwardInv, TriedOnce, Left
<1>12. AllTried'
  <2>1. \A n : TriedOn(n)' = TriedOn(n)  BY <1>1 DEF TriedOn
  <2>2. Eligible(owner, m)' = Eligible(owner, m)  BY <1>1 DEF Eligible
  <2>3. Awaited(req[s])'
    <3>1. req'[s].op = "owner" /\ Head(req'[s].todo) = m /\ owner' = owner  BY <1>1, <1>5, <1>9
    <3> QED  BY <3>1, <1>7, <2>2 DEF Awaited
  <2>4. ASSUME NEW t \in Slots \ {s} PROVE Awaited(req[t])'
    <3>1. req'[t] = req[t] /\ Awaited(req[t])  BY <1>9 DEF ForwardInv, AllTried
    <3>2. CASE req[t].op \notin InjectOps  BY <3>1, <3>2 DEF Awaited, InjectOps
    <3>3. CASE req[t].op \in InjectOps
      <4>1. Head(req[t].todo) \in Msgs(req[t])  BY <3>3, AtInject
      <4>2. Head(req[t].todo) # m  BY <1>2, <4>1 DEF ForwardInv, OneRequestEach
      <4> QED  BY <1>1, <1>7, <2>1, <3>1, <4>2 DEF Awaited, Eligible, Left
    <3> QED  BY <3>2, <3>3
  <2> QED  BY <1>1, <1>2, <1>7, <2>1, <2>3, <2>4 DEF ForwardInv, AllTried
<1> QED  BY <1>9, <1>10, <1>11, <1>12 DEF ForwardInv

LEMMA OwnerKeeps ==
    ASSUME ForwardInv, NEW s \in Slots, process_incoming_email(s)
    PROVE  ForwardInv'
<1>0. PICK m : m = Head(req[s].todo)  OBVIOUS
<1>1. req[s].op = "owner" /\ issued' = issued /\ UNCHANGED <<owner, rules, tried, expected>>
  BY DEF process_incoming_email, At, folderVars
<1>2. Injecting(req[s]) /\ Awaited(req[s]) /\ req[s].op \in InjectOps /\ \A k \in DOMAIN tried : tried[k][2] \notin Msgs(req[s])
  BY <1>1, AtInject DEF InjectOps
<1>3. CASE owner = Gone
  <2>1. handled' = handled \cup {m} /\ NextInject(s)  BY <1>0, <1>3 DEF process_incoming_email, Handled
  <2>2. expected[m] \subseteq Eligible(Gone, m)  BY <1>0, <1>1, <1>2, <1>3 DEF Awaited
  <2>3. Eligible(Gone, m) = {}  BY ForwardAssumption DEF Eligible, ForwardInv, RulesOwned
  <2>4. expected[m] \subseteq TriedOn(m)  BY <2>2, <2>3
  <2> QED  BY <1>0, <1>1, <1>2, <2>1, <2>4, ForwardNextInject
<1>4. CASE owner # Gone
  <2>1. req' = [req EXCEPT ![s] = [req[s] EXCEPT !.op = "rules", !.user = owner]] /\ handled' = handled
    BY <1>4 DEF process_incoming_email, Goto
  <2>2. PICK r : r = [req[s] EXCEPT !.op = "rules", !.user = owner]  OBVIOUS
  <2>3. "rules" \in InjectOps  BY DEF InjectOps
  <2>4. Injecting(r) /\ Msgs(r) = Msgs(req[s]) /\ Head(r.todo) = m /\ r.op = "rules" /\ r.user = owner
    <3>1. DOMAIN r = DOMAIN req[s] /\ r.op = "rules" /\ r.todo = req[s].todo /\ r.user = owner  BY <1>2, <2>2 DEF Injecting
    <3> QED  BY <1>0, <1>2, <2>3, <3>1, SameTodo
  <2>5. Awaited(r)  BY <1>0, <1>1, <1>2, <2>4 DEF Awaited
  <2> QED  BY <1>1, <1>2, <2>1, <2>2, <2>4, <2>5, ForwardMoves
<1> QED  BY <1>3, <1>4
LEMMA SelectKeeps ==
    ASSUME ForwardInv, NEW s \in Slots, SelectRules(s)
    PROVE  ForwardInv'
<1>0. PICK m : m = Head(req[s].todo)  OBVIOUS
<1>1. PICK found : found = Eligible(req[s].user, m)  OBVIOUS
<1>2. /\ req[s].op = "rules" /\ issued' = issued /\ UNCHANGED <<owner, rules, tried, expected>>
      /\ IF found = {} THEN Handled(s)
         ELSE Goto(s, [req[s] EXCEPT !.op = "fetch", !.fire = {<<r, rules[r]>> : r \in found}]) /\ UNCHANGED handled
  BY <1>0, <1>1 DEF SelectRules, At, folderVars
<1>3. Injecting(req[s]) /\ Awaited(req[s]) /\ req[s].op \in InjectOps /\ \A k \in DOMAIN tried : tried[k][2] \notin Msgs(req[s])
  BY <1>2, AtInject DEF InjectOps
<1>4. expected[m] \subseteq found /\ found \subseteq RuleIds
  <2>1. expected[m] \subseteq found  BY <1>0, <1>1, <1>2, <1>3 DEF Awaited
  <2>2. found \subseteq RuleIds  BY <1>1 DEF Eligible
  <2> QED  BY <2>1, <2>2
<1>5. CASE found = {}
  <2>1. handled' = handled \cup {m} /\ NextInject(s)  BY <1>0, <1>2, <1>5 DEF Handled
  <2> QED  BY <1>0, <1>2, <1>3, <1>4, <1>5, <2>1, ForwardNextInject
<1>6. CASE found # {}
  <2>1. PICK set : set = {<<r, rules[r]>> : r \in found}  OBVIOUS
  <2>2. PICK r : r = [req[s] EXCEPT !.op = "fetch", !.fire = set]  OBVIOUS
  <2>3. req' = [req EXCEPT ![s] = r] /\ handled' = handled  BY <1>2, <1>6, <2>1, <2>2 DEF Goto
  <2>4. DOMAIN r = DOMAIN req[s] /\ r.op = "fetch" /\ r.todo = req[s].todo /\ r.fire = set  BY <1>3, <2>2 DEF Injecting
  <2>5. "fetch" \in InjectOps  BY DEF InjectOps
  <2>6. Injecting(r) /\ Msgs(r) = Msgs(req[s]) /\ Head(r.todo) = m  BY <1>0, <1>3, <2>4, <2>5, SameTodo
  <2>7. \A x \in set : x[1] \in found /\ x = <<x[1], rules[x[1]]>>  BY <2>1
  <2>8. \A f \in found : f \in Left(r)
    <3> SUFFICES ASSUME NEW f \in found PROVE f \in Left(r)  OBVIOUS
    <3>1. <<f, rules[f]>> \in set  BY <2>1
    <3>2. <<f, rules[f]>>[1] = f  OBVIOUS
    <3> QED  BY <2>4, <3>1, <3>2 DEF Left
  <2>9. Awaited(r)  BY <1>4, <2>4, <2>6, <2>8 DEF Awaited
  <2>10. (\A x \in r.fire : x[1] \in RuleIds) /\ \A x, y \in r.fire : x[1] = y[1] => x = y
    BY <1>4, <2>4, <2>7
  <2> QED  BY <1>2, <1>3, <2>3, <2>4, <2>6, <2>9, <2>10, ForwardMoves
<1> QED  BY <1>5, <1>6

LEMMA FetchKeeps ==
    ASSUME ForwardInv, NEW s \in Slots, FetchPayload(s)
    PROVE  ForwardInv'
<1>1. /\ req[s].op = "fetch" /\ issued' = issued /\ UNCHANGED <<owner, rules, tried, expected, handled>>
      /\ req' = [req EXCEPT ![s] = [req[s] EXCEPT !.op = "fire"]]
  BY DEF FetchPayload, At, Step, Goto, ruleVars
<1>2. Injecting(req[s]) /\ Awaited(req[s]) /\ req[s].op \in InjectOps /\ \A k \in DOMAIN tried : tried[k][2] \notin Msgs(req[s])
  BY <1>1, AtInject DEF InjectOps
<1>3. PICK r : r = [req[s] EXCEPT !.op = "fire"]  OBVIOUS
<1>4. DOMAIN r = DOMAIN req[s] /\ r.op = "fire" /\ r.todo = req[s].todo /\ r.fire = req[s].fire  BY <1>2, <1>3 DEF Injecting
<1>5. "fire" \in InjectOps  BY DEF InjectOps
<1>6. Injecting(r) /\ Msgs(r) = Msgs(req[s]) /\ Head(r.todo) = Head(req[s].todo)  BY <1>2, <1>4, <1>5, SameTodo
<1>7. Left(r) = Left(req[s])  BY <1>4 DEF Left
<1>8. Awaited(r)  BY <1>1, <1>2, <1>4, <1>6, <1>7 DEF Awaited
<1>9. (\A x \in r.fire : x[1] \in RuleIds) /\ \A x, y \in r.fire : x[1] = y[1] => x = y
  BY <1>1, <1>4 DEF ForwardInv, TriedOnce
<1>10. req' = [req EXCEPT ![s] = r]  BY <1>1, <1>3
<1> QED  BY <1>1, <1>2, <1>4, <1>6, <1>8, <1>9, <1>10, ForwardMoves

\* A rule is tried: it was not before, and those left still will be.
LEMMA FireKeeps ==
    ASSUME ForwardInv, NEW s \in Slots, NEW net, Fire(s, net)
    PROVE  ForwardInv'
<1>0. PICK m : m = Head(req[s].todo)  OBVIOUS
<1>1. PICK x \in req[s].fire :
          /\ tried' = Append(tried, <<x[1], m>>)
          /\ IF req[s].fire \ {x} # {}
             THEN Goto(s, [req[s] EXCEPT !.fire = @ \ {x}]) /\ UNCHANGED handled ELSE Handled(s)
  BY <1>0 DEF Fire, GoOn
<1>2. req[s].op = "fire" /\ issued' = issued /\ UNCHANGED <<owner, rules, expected>>  BY DEF Fire, At, folderVars
<1>3. /\ Injecting(req[s]) /\ Awaited(req[s]) /\ m \in Mail /\ m \in 1..issued /\ m \in Msgs(req[s]) /\ m \notin handled
      /\ \A k \in DOMAIN tried : tried[k][2] \in Msgs(req[s]) => tried[k][2] = m /\ tried[k][1] \notin Left(req[s])
  BY <1>0, <1>2, AtInject DEF InjectOps
<1>4. (\A y \in req[s].fire : y[1] \in RuleIds) /\ \A y, z \in req[s].fire : y[1] = z[1] => y = z
  BY <1>2 DEF ForwardInv, TriedOnce
<1>5. x[1] \in RuleIds /\ x[1] \in Left(req[s])  BY <1>4 DEF Left
<1>6. /\ tried \in Seq(RuleIds \X Mail) /\ Len(tried) \in Nat /\ DOMAIN tried = 1..Len(tried)
      /\ IsInjective(tried) /\ \A k \in DOMAIN tried : tried[k][2] \in 1..issued
  BY DEF ForwardInv, ForwardTypes, TriedOnce, OneRequestEach
<1>7. PICK pair : pair = <<x[1], m>>  OBVIOUS
<1>8. pair \in RuleIds \X Mail /\ pair[1] = x[1] /\ pair[2] = m  BY <1>3, <1>5, <1>7
<1>9. /\ tried' \in Seq(RuleIds \X Mail) /\ DOMAIN tried' = 1..(Len(tried) + 1) /\ tried'[Len(tried) + 1] = pair
      /\ \A k \in 1..Len(tried) : tried'[k] = tried[k]
  BY <1>1, <1>6, <1>7, <1>8
<1>10. \A k \in DOMAIN tried' : k \in DOMAIN tried \/ k = Len(tried) + 1  BY <1>6, <1>9
<1>11. \A k \in DOMAIN tried' : tried'[k][2] \in 1..issued  BY <1>3, <1>6, <1>8, <1>9, <1>10
<1>12. \A k \in DOMAIN tried : tried[k] # pair  BY <1>3, <1>5, <1>8
<1>13. IsInjective(tried')  BY <1>6, <1>9, <1>10, <1>12 DEF IsInjective
<1>14. \A n : TriedOn(n) \subseteq TriedOn(n)'
  <2>1. Range(tried) \subseteq Range(tried')  BY <1>6, <1>9 DEF Range
  <2> QED  BY <2>1 DEF TriedOn
<1>15. x[1] \in TriedOn(m)'
  <2>1. pair \in Range(tried')  BY <1>6, <1>9 DEF Range
  <2> QED  BY <1>5, <1>7, <2>1 DEF TriedOn
<1>16. expected[m] \subseteq Left(req[s]) \cup TriedOn(m)  BY <1>0, <1>2, <1>3 DEF Awaited
<1>17. \E r : /\ req' = [req EXCEPT ![s] = r] /\ (r = Idle \/ Injecting(r)) /\ Msgs(r) \subseteq Msgs(req[s])
              /\ \/ /\ r.op = "fire" /\ Head(r.todo) = m /\ r.fire = req[s].fire \ {x} /\ handled' = handled
                 \/ /\ r.op \in {"idle", "append"} /\ Msgs(r) = Msgs(req[s]) \ {m} /\ handled' = handled \cup {m}
                    /\ req[s].fire = {x}
  <2>1. CASE req[s].fire \ {x} = {}
    <3>1. NextInject(s) /\ handled' = handled \cup {m}  BY <1>0, <1>1, <2>1 DEF Handled
    <3>2. PICK r : /\ req' = [req EXCEPT ![s] = r] /\ (r = Idle \/ (Injecting(r) /\ r.op = "append"))
                   /\ Msgs(r) = Msgs(req[s]) \ {m}
      BY <1>0, <1>3, <3>1, NextInjectStep
    <3>3. r.op \in {"idle", "append"}  BY <3>2 DEF Idle
    <3> QED  BY <2>1, <3>1, <3>2, <3>3
  <2>2. CASE req[s].fire \ {x} # {}
    <3>1. PICK set : set = req[s].fire \ {x}  OBVIOUS
    <3>2. PICK r : r = [req[s] EXCEPT !.fire = set]  OBVIOUS
    <3>3. req' = [req EXCEPT ![s] = r] /\ handled' = handled  BY <1>1, <2>2, <3>1, <3>2 DEF Goto
    <3>4. DOMAIN r = DOMAIN req[s] /\ r.op = "fire" /\ r.todo = req[s].todo /\ r.fire = set  BY <1>2, <1>3, <3>2 DEF Injecting
    <3>5. "fire" \in InjectOps  BY DEF InjectOps
    <3>6. Injecting(r) /\ Msgs(r) = Msgs(req[s]) /\ Head(r.todo) = m  BY <1>0, <1>3, <3>4, <3>5, SameTodo
    <3> QED  BY <3>1, <3>3, <3>4, <3>6
  <2> QED  BY <2>1, <2>2
<1>18. PICK r : /\ req' = [req EXCEPT ![s] = r] /\ (r = Idle \/ Injecting(r)) /\ Msgs(r) \subseteq Msgs(req[s])
               /\ \/ /\ r.op = "fire" /\ Head(r.todo) = m /\ r.fire = req[s].fire \ {x} /\ handled' = handled
                  \/ /\ r.op \in {"idle", "append"} /\ Msgs(r) = Msgs(req[s]) \ {m} /\ handled' = handled \cup {m}
                     /\ req[s].fire = {x}
  BY <1>17
<1>19. expected' \in [Mail -> SUBSET RuleIds] /\ handled' \subseteq handled \cup {m} BY <1>2, <1>18 DEF ForwardInv, ForwardTypes
<1>20. ForwardTypes' /\ OneRequestEach' /\ req'[s] = r /\ \A t \in Slots \ {s} : req'[t] = req[t]
  <2>1. handled' \subseteq handled \cup (Msgs(req[s]) \ Msgs(r))  BY <1>3, <1>18
  <2>2. issued' = issued  BY <1>2
  <2> QED  BY <1>9, <1>11, <1>18, <1>19, <2>1, <2>2, Moves
<1>21. RulesOwned'  BY <1>2 DEF ForwardInv, RulesOwned
<1>22. r.op = "fire" => x[1] \notin Left(r) /\ Left(r) \subseteq Left(req[s]) /\ Left(req[s]) \subseteq Left(r) \cup {x[1]}
  BY <1>4, <1>18 DEF Left
<1>23. TriedOnce'
  <2>1. \A k \in DOMAIN tried : tried[k][2] \in Msgs(r) => r.op = "fire" /\ tried[k][2] = Head(r.todo) /\ tried[k][1] \notin Left(r)
    BY <1>3, <1>18, <1>22
  <2>2. m \in Msgs(r) => r.op = "fire" /\ m = Head(r.todo) /\ x[1] \notin Left(r)  BY <1>18, <1>22
  <2>3. \A t \in Slots \ {s} : m \notin Msgs(req[t])  BY <1>3 DEF ForwardInv, OneRequestEach
  <2>4. \A t \in Slots, k \in DOMAIN tried' : tried'[k][2] \in Msgs(req'[t]) =>
           req'[t].op = "fire" /\ tried'[k][2] = Head(req'[t].todo) /\ tried'[k][1] \notin Left(req'[t])
    <3> TAKE t \in Slots, k \in DOMAIN tried'
    <3>1. CASE t = s  BY <3>1, <1>6, <1>8, <1>9, <1>10, <1>20, <2>1, <2>2
    <3>2. CASE t # s
      <4>1. req'[t] = req[t]  BY <1>20, <3>2
      <4>2. CASE k = Len(tried) + 1  BY <1>8, <1>9, <2>3, <3>2, <4>1, <4>2
      <4>3. CASE k \in DOMAIN tried
        <5>1. tried'[k] = tried[k]  BY <1>6, <1>9, <4>3
        <5> QED  BY <4>1, <4>3, <5>1 DEF ForwardInv, TriedOnce
      <4> QED  BY <1>10, <4>2, <4>3
    <3> QED  BY <3>1, <3>2
  <2>5. \A t \in Slots : req'[t].op \in {"fetch", "fire"} =>
           /\ \A y \in req'[t].fire : y[1] \in RuleIds
           /\ \A y, z \in req'[t].fire : y[1] = z[1] => y = z
    <3>1. r.op \in {"fetch", "fire"} => (\A y \in r.fire : y[1] \in RuleIds) /\ \A y, z \in r.fire : y[1] = z[1] => y = z
      BY <1>4, <1>18
    <3>2. \A t \in Slots : t = s \/ req'[t] = req[t]  BY <1>20
    <3> QED  BY <1>20, <3>1, <3>2 DEF ForwardInv, TriedOnce
  <2> QED  BY <1>13, <2>4, <2>5 DEF TriedOnce, Left
<1>24. AllTried'
  <2>1. Awaited(req[s])'
    <3>1. CASE r.op = "fire"
      <4>1. Head(r.todo) = m  BY <1>18, <3>1
      <4>2. expected[m] \subseteq Left(r) \cup TriedOn(m)'  BY <1>14, <1>15, <1>16, <1>22, <3>1
      <4> QED  BY <1>2, <1>20, <3>1, <4>1, <4>2 DEF Awaited, Left
    <3>2. CASE r.op \in {"idle", "append"}  BY <1>20, <3>2 DEF Awaited
    <3> QED  BY <1>18, <3>1, <3>2
  <2>2. \A t \in Slots \ {s} : Awaited(req[t])'
    <3> TAKE t \in Slots \ {s}
    <3>1. req'[t] = req[t] /\ Awaited(req[t])  BY <1>20 DEF ForwardInv, AllTried
    <3> QED  BY <1>2, <1>14, <3>1 DEF Awaited, Eligible, Left
  <2>3. m \in handled' => expected[m] \subseteq TriedOn(m)'
    <3> SUFFICES ASSUME m \in handled' PROVE expected[m] \subseteq TriedOn(m)'  OBVIOUS
    <3>1. req[s].fire = {x}  BY <1>3, <1>18
    <3>2. Left(req[s]) = {x[1]}  BY <3>1 DEF Left
    <3> QED  BY <1>14, <1>15, <1>16, <3>2
  <2>4. \A n \in handled' : expected'[n] \subseteq TriedOn(n)'
    BY <1>2, <1>14, <1>19, <2>3 DEF ForwardInv, AllTried
  <2> QED  BY <2>1, <2>2, <2>4 DEF AllTried
<1> QED  BY <1>20, <1>21, <1>23, <1>24 DEF ForwardInv
\* Rules or the owner change: what is still expected is still found.
LEMMA RulesChange ==
    ASSUME ForwardInv, NEW s, req' = req \/ req' = [req EXCEPT ![s] = Idle],
           UNCHANGED <<issued, tried, handled>>, RulesOwned',
           expected' \in [Mail -> SUBSET RuleIds], \A m \in Mail : expected'[m] \subseteq expected[m],
           \A m \in Mail : owner' = owner \/ expected'[m] = {},
           \A u, r : \A m \in Mail : r \in Eligible(u, m) /\ r \in expected'[m] => r \in Eligible(u, m)'
    PROVE  ForwardInv'
<1>1. Idle.op = "idle" /\ Msgs(Idle) = {}  BY DEF Idle, Msgs, InjectOps
<1>2. /\ req' = [t \in Slots |-> req'[t]]
      /\ \A t \in Slots : req'[t] = req[t] \/ req'[t] = Idle
  BY DEF ForwardInv, ForwardTypes
<1>3. ForwardTypes'  BY <1>2 DEF ForwardInv, ForwardTypes
<1>4. \A t \in Slots : Msgs(req'[t]) \subseteq Msgs(req[t])  BY <1>1, <1>2
<1>5. OneRequestEach'  BY <1>4 DEF ForwardInv, OneRequestEach
<1>6. TriedOnce'
  <2>1. tried' = tried /\ IsInjective(tried)  BY DEF ForwardInv, TriedOnce
  <2>2. \A t \in Slots : req'[t] = req[t] \/ (req'[t].op = "idle" /\ Msgs(req'[t]) = {})  BY <1>1, <1>2
  <2>3. \A t \in Slots, k \in DOMAIN tried' : tried'[k][2] \in Msgs(req'[t]) =>
            req'[t].op = "fire" /\ tried'[k][2] = Head(req'[t].todo) /\ tried'[k][1] \notin Left(req'[t])
    <3> TAKE t \in Slots, k \in DOMAIN tried'
    <3>1. CASE req'[t] = req[t]  BY <2>1, <3>1 DEF ForwardInv, TriedOnce, Left
    <3>2. CASE Msgs(req'[t]) = {}  BY <3>2
    <3> QED  BY <2>2, <3>1, <3>2
  <2>4. \A t \in Slots : req'[t].op \in {"fetch", "fire"} =>
            /\ \A x \in req'[t].fire : x[1] \in RuleIds
            /\ \A x, y \in req'[t].fire : x[1] = y[1] => x = y
    BY <2>2 DEF ForwardInv, TriedOnce
  <2> QED  BY <2>1, <2>3, <2>4 DEF TriedOnce, Left, Msgs
<1>7. \A n : TriedOn(n)' = TriedOn(n)  BY DEF TriedOn
<1>8. \A t \in Slots : Awaited(req[t])'
  <2> TAKE t \in Slots
  <2>1. CASE req'[t].op \notin InjectOps  BY <2>1 DEF Awaited, InjectOps
  <2>2. CASE req'[t].op \in InjectOps
    <3>1. req'[t] = req[t]  BY <1>1, <1>2, <2>2 DEF InjectOps
    <3>2. Awaited(req[t]) /\ Head(req[t].todo) \in Mail  BY <2>2, <3>1, AtInject
    <3>3. PICK m \in Mail : m = Head(req[t].todo)  BY <3>2
    <3>4. expected'[m] \subseteq expected[m] /\ (owner' = owner \/ expected'[m] = {})  BY <3>3
    <3>5. req[t].op = "owner" => expected'[m] \subseteq Eligible(owner, m)'
      <4>1. CASE expected'[m] = {}  BY <4>1
      <4>2. CASE owner' = owner /\ req[t].op = "owner"
        <5>1. PICK u : u = owner /\ u = owner'  BY <4>2
        <5>2. expected[m] \subseteq Eligible(u, m)  BY <3>2, <3>3, <4>2, <5>1 DEF Awaited
        <5>3. expected'[m] \subseteq Eligible(u, m)'  BY <3>4, <5>2
        <5> QED  BY <5>1, <5>3 DEF Eligible
      <4> QED  BY <3>4, <4>1, <4>2
    <3>6. req[t].op = "rules" => expected'[m] \subseteq Eligible(req[t].user, m)'
      <4>1. PICK u : u = req[t].user /\ u = req'[t].user  BY <3>1
      <4>2. req[t].op = "rules" => expected[m] \subseteq Eligible(u, m)  BY <3>2, <3>3, <4>1 DEF Awaited
      <4>3. req[t].op = "rules" => expected'[m] \subseteq Eligible(u, m)'  BY <3>4, <4>2
      <4> QED  BY <4>1, <4>3 DEF Eligible
    <3>7. /\ req[t].op = "fetch" => expected[m] \subseteq Left(req[t])
          /\ req[t].op = "fire" => expected[m] \subseteq Left(req[t]) \cup TriedOn(m)
      BY <3>2, <3>3 DEF Awaited
    <3>8. Left(req[t])' = Left(req[t]) /\ Head(req'[t].todo) = m  BY <3>1, <3>3 DEF Left
    <3> QED  BY <1>7, <3>1, <3>4, <3>5, <3>6, <3>7, <3>8 DEF Awaited
  <2> QED  BY <2>1, <2>2
<1>9. \A m \in handled' : expected'[m] \subseteq TriedOn(m)'
  <2>1. handled \subseteq Mail
    BY ForwardAssumption DEF ForwardInv, OneRequestEach, ForwardTypes, Mail
  <2> QED  BY <1>7, <2>1 DEF ForwardInv, AllTried
<1>10. AllTried'  BY <1>8, <1>9 DEF AllTried
<1> QED  BY <1>3, <1>5, <1>6, <1>10 DEF ForwardInv

LEMMA UnexpectFacts ==
    ASSUME ForwardInv, NEW r \in RuleIds, Unexpect(r)
    PROVE  /\ expected' \in [Mail -> SUBSET RuleIds]
           /\ \A m \in Mail : expected'[m] \subseteq expected[m] /\ r \notin expected'[m]
BY DEF Unexpect, ForwardInv, ForwardTypes

LEMMA CreateRuleKeeps ==
    ASSUME ForwardInv, NEW r \in RuleIds, NEW user \in Owners, NEW shape, NEW type, create_rule(r, user, shape, type)
    PROVE  ForwardInv'
<1>1. PICK new : new = [user |-> user, on |-> TRUE, match |-> shape, type |-> type, config |-> type]  OBVIOUS
<1>2. /\ rules[r] = Gone /\ rules' = [rules EXCEPT ![r] = new] /\ req' = req
      /\ UNCHANGED <<issued, tried, handled, expected, owner>>
  BY <1>1 DEF create_rule, Serve, folderVars
<1>3. "user" \in DOMAIN new /\ new.user = user  BY <1>1
<1>4. \A t \in RuleIds \ {r} : rules'[t] = rules[t]  BY <1>2 DEF ForwardInv, RulesOwned
<1>5. RulesOwned'  BY <1>2, <1>3 DEF ForwardInv, RulesOwned
<1>6. \A m, u, t : t \in Eligible(u, m) => t \in Eligible(u, m)'  BY <1>2, <1>4 DEF Eligible
<1> QED  BY <1>2, <1>5, <1>6, RulesChange DEF ForwardInv, ForwardTypes

LEMMA BeginUpdateKeeps ==
    ASSUME ForwardInv, NEW s \in Slots, NEW r \in RuleIds, NEW change \in Changes, update_rule(s, r, change)
    PROVE  ForwardInv'
<1>1. PICK q : q = [op |-> "update", rule |-> r, change |-> change]  OBVIOUS
<1>2. /\ req[s] = Idle /\ req' = [req EXCEPT ![s] = q] /\ UNCHANGED <<issued, owner, rules, tried, expected, handled>>
  BY <1>1 DEF update_rule, Begin, mailVars
<1>3. Updating(q) /\ q.op = "update" /\ Msgs(q) = {}  BY <1>1, ForwardAssumption DEF Updating, Msgs, InjectOps
<1>4. req'[s] = q /\ (\A t \in Slots \ {s} : req'[t] = req[t]) /\ req' = [t \in Slots |-> req'[t]]
  BY <1>2 DEF ForwardInv, ForwardTypes
<1>5. ForwardTypes' /\ RulesOwned'  BY <1>2, <1>3, <1>4 DEF ForwardInv, ForwardTypes, RulesOwned
<1>6. \A t \in Slots : Msgs(req'[t]) \subseteq Msgs(req[t])  BY <1>3, <1>4
<1>7. OneRequestEach'  BY <1>2, <1>6 DEF ForwardInv, OneRequestEach
<1>8. \A t \in Slots : req'[t] = req[t] \/ (req'[t].op = "update" /\ Msgs(req'[t]) = {})  BY <1>3, <1>4
<1>9. TriedOnce'  BY <1>2, <1>8 DEF ForwardInv, TriedOnce, Left
<1>10. \A n : TriedOn(n)' = TriedOn(n)  BY <1>2 DEF TriedOn
<1>11. \A t \in Slots : Awaited(req[t])'
  <2> TAKE t \in Slots
  <2>1. CASE req'[t].op = "update"  BY <2>1 DEF Awaited
  <2>2. CASE req'[t] = req[t]  BY <1>2, <1>10, <2>2 DEF ForwardInv, AllTried, Awaited, Eligible, Left
  <2> QED  BY <1>8, <2>1, <2>2
<1>12. AllTried'  BY <1>2, <1>10, <1>11 DEF ForwardInv, AllTried
<1> QED  BY <1>5, <1>7, <1>9, <1>12 DEF ForwardInv

\* No change of a rule gives it to somebody else.
LEMMA CommitRuleKeeps ==
    ASSUME ForwardInv, NEW s \in Slots, CommitRule(s)
    PROVE  ForwardInv'
<1>1. /\ req[s].op = "update" /\ req' = [req EXCEPT ![s] = Idle] /\ UNCHANGED <<issued, owner, tried, handled>>
      /\ Unexpect(req[s].rule)
  BY DEF CommitRule, At, End, Goto, folderVars
<1>2. PICK r, change : r = req[s].rule /\ change = req[s].change  OBVIOUS
<1>3. "user" \notin DOMAIN change
  <2>1. req[s] # Idle  BY <1>1 DEF Idle
  <2>2. ~Injecting(req[s])  BY <1>1 DEF Injecting, InjectOps
  <2> QED  BY <1>2, <2>1, <2>2 DEF ForwardInv, ForwardTypes, Updating
<1>4. /\ expected' \in [Mail -> SUBSET RuleIds]
      /\ \A m \in Mail : expected'[m] \subseteq expected[m] /\ r \notin expected'[m]
  BY <1>1, <1>2 DEF Unexpect, ForwardInv, ForwardTypes
<1>5. PICK new : new = [f \in DOMAIN rules[r] |-> IF f \in DOMAIN change THEN change[f] ELSE rules[r][f]]  OBVIOUS
<1>6. rules' = IF rules[r] = Gone THEN rules ELSE [rules EXCEPT ![r] = new]  BY <1>2, <1>5 DEF CommitRule
<1>7. \A t \in RuleIds : t # r => rules'[t] = rules[t]  BY <1>6 DEF ForwardInv, RulesOwned
<1>8. RulesOwned'
  <2>1. CASE r \in RuleIds /\ rules[r] # Gone
    <3>1. "user" \in DOMAIN rules[r] /\ rules[r].user \in Owners  BY <2>1 DEF ForwardInv, RulesOwned
    <3>2. "user" \in DOMAIN new /\ new.user = rules[r].user  BY <1>3, <1>5, <3>1
    <3>3. rules' = [rules EXCEPT ![r] = new]  BY <1>6, <2>1
    <3> QED  BY <3>1, <3>2, <3>3 DEF ForwardInv, RulesOwned
  <2>2. CASE ~(r \in RuleIds /\ rules[r] # Gone)
    <3>1. rules' = rules  BY <1>6, <2>2 DEF ForwardInv, RulesOwned
    <3> QED  BY <3>1 DEF ForwardInv, RulesOwned
  <2> QED  BY <2>1, <2>2
<1>9. \A u, t : \A m \in Mail : t \in Eligible(u, m) /\ t \in expected'[m] => t \in Eligible(u, m)'  BY <1>4, <1>7 DEF Eligible
<1>10. UNCHANGED <<issued, tried, handled>> /\ owner' = owner /\ req' = [req EXCEPT ![s] = Idle]  BY <1>1
<1> QED  BY <1>4, <1>8, <1>9, <1>10, RulesChange

LEMMA DeleteRuleKeeps ==
    ASSUME ForwardInv, NEW r \in RuleIds, delete_rule(r)
    PROVE  ForwardInv'
<1>1. /\ rules' = [rules EXCEPT ![r] = Gone] /\ req' = req /\ UNCHANGED <<issued, tried, handled, owner>> /\ Unexpect(r)
  BY DEF delete_rule, Serve, folderVars
<1>2. /\ expected' \in [Mail -> SUBSET RuleIds]
      /\ \A m \in Mail : expected'[m] \subseteq expected[m] /\ r \notin expected'[m]
  BY <1>1, UnexpectFacts
<1>3. \A t \in RuleIds \ {r} : rules'[t] = rules[t]  BY <1>1 DEF ForwardInv, RulesOwned
<1>4. RulesOwned'  BY <1>1 DEF ForwardInv, RulesOwned
<1>5. \A u, t : \A m \in Mail : t \in Eligible(u, m) /\ t \in expected'[m] => t \in Eligible(u, m)'  BY <1>2, <1>3 DEF Eligible
<1> QED  BY <1>1, <1>2, <1>4, <1>5, RulesChange

LEMMA ChangeOwnerKeeps ==
    ASSUME ForwardInv, NEW user, ChangeOwner(user)
    PROVE  ForwardInv'
<1>1. /\ expected' = [m \in Mail |-> {}] /\ req' = req /\ UNCHANGED <<issued, rules, tried, handled>>
  BY DEF ChangeOwner, Serve, folderVars
<1>2. expected' \in [Mail -> SUBSET RuleIds] /\ \A m \in Mail : expected'[m] = {}  BY <1>1
<1>3. RulesOwned'  BY <1>1 DEF ForwardInv, RulesOwned
<1> QED  BY <1>1, <1>2, <1>3, RulesChange
LEMMA ForwardSteps ==
    ASSUME ForwardInv, ForwardNext
    PROVE  ForwardInv'
<1>1. CASE \E s \in Slots, n \in 1..2 : bulk_inject(s, n)  BY <1>1, BulkInjectKeeps
<1>2. ASSUME NEW s \in Slots, inject_email(s) PROVE ForwardInv'  BY <1>2, InjectKeeps
<1>3. ASSUME NEW s \in Slots, InjectFails(s) PROVE ForwardInv'
  <2>1. /\ req[s].op \in InjectOps /\ NextInject(s) /\ issued' = issued /\ handled' = handled
        /\ UNCHANGED <<owner, rules, tried, expected>>
    BY <1>3 DEF InjectFails, At, mailVars, InjectOps
  <2> QED  BY <2>1, ForwardNextInject
<1>4. ASSUME NEW s \in Slots, process_incoming_email(s) PROVE ForwardInv'  BY <1>4, OwnerKeeps
<1>5. ASSUME NEW s \in Slots, SelectRules(s) PROVE ForwardInv'  BY <1>5, SelectKeeps
<1>6. ASSUME NEW s \in Slots, FetchPayload(s) PROVE ForwardInv'  BY <1>6, FetchKeeps
<1>7. ASSUME NEW s \in Slots, Abandon(s) PROVE ForwardInv'
  <2>1. /\ req' = [req EXCEPT ![s] = Idle] /\ UNCHANGED <<issued, tried, handled>>
        /\ UNCHANGED <<owner, rules, tried, expected>>
    BY <1>7 DEF Abandon, End, Goto, mailVars
  <2>2. RulesOwned' /\ expected' \in [Mail -> SUBSET RuleIds]  BY <2>1 DEF ForwardInv, RulesOwned, ForwardTypes
  <2>3. \A u, r : \A m \in Mail : r \in Eligible(u, m) => r \in Eligible(u, m)'  BY <2>1 DEF Eligible
  <2> QED  BY <2>1, <2>2, <2>3, RulesChange
<1>8. CASE \E s \in Slots, net \in {"ok", "error", "private"} : Fire(s, net)  BY <1>8, FireKeeps
<1>9. CASE \E r \in RuleIds, user \in Owners, shape \in Shapes : create_rule(r, user, shape, "webhook")  BY <1>9, CreateRuleKeeps
<1>10. CASE \E s \in Slots, r \in RuleIds, change \in Changes : update_rule(s, r, change)  BY <1>10, BeginUpdateKeeps
<1>11. CASE \E s \in Slots : CommitRule(s)  BY <1>11, CommitRuleKeeps
<1>12. CASE \E r \in RuleIds : delete_rule(r)  BY <1>12, DeleteRuleKeeps
<1>13. CASE \E user \in Owners \cup {Gone} : ChangeOwner(user)  BY <1>13, ChangeOwnerKeeps
<1> QED
  BY <1>1, <1>2, <1>3, <1>4, <1>5, <1>6, <1>7, <1>8, <1>9, <1>10, <1>11, <1>12, <1>13 DEF ForwardNext

\* forwarding/service.py:324-424: when a mail has been dealt with, each rule that matched
\* it and did not change since was tried, and no rule was tried on it twice.
THEOREM ForwardingAlwaysComplete == Spec => []ForwardingComplete
<1>1. Init => (part = "forward" => ForwardInv)  BY ForwardStart
<1>2. (part = "forward" => ForwardInv) /\ [Next]_vars => (part = "forward" => ForwardInv)'
  <2> SUFFICES ASSUME part = "forward" => ForwardInv, [Next]_vars, part' = "forward" PROVE ForwardInv'
    OBVIOUS
  <2>1. part = "forward" /\ ForwardInv  BY PartStays
  <2>2. CASE UNCHANGED vars
    <3>1. req' = req /\ issued' = issued /\ UNCHANGED <<owner, rules, tried, expected, handled>>
      BY <2>2 DEF vars, requestVars, mailVars
    <3> QED  BY <2>1, <3>1, ForwardSame
  <2>3. CASE ForwardNext  BY <2>1, <2>3, ForwardSteps
  <2> QED
    BY <2>1, <2>2, <2>3 DEF Next, Only, BusNext, ScanNext, validate_email_endpoint, BatchNext, FeedbackNext, MailNext
<1>3. (part = "forward" => ForwardInv) => ForwardingComplete
  <2> SUFFICES ASSUME part = "forward", ForwardInv PROVE ForwardingComplete  BY DEF ForwardingComplete
  <2>1. IsInjective(tried)  BY DEF ForwardInv, TriedOnce
  <2>2. \A m \in handled : \A r \in expected[m] : <<r, m>> \in Range(tried)  BY DEF ForwardInv, AllTried, TriedOn
  <2> QED  BY <2>1, <2>2 DEF ForwardingComplete
<1> QED  BY <1>1, <1>2, <1>3, PTL DEF Spec
-----------------------------------------------------------------------------
(* Mail is kept: the inductive invariant.                                  *)

MoveOps == {"copy", "store", "expunge"}
PurgeOps == {"search", "purge_store", "purge_expunge"}
SendOps == {"sign", "encrypt", "submit"}
Protections == {"sign", "encrypt"}

\* What the requests on mail carry; UIDs are of copies that exist or existed.
Carried(q) ==
    /\ q.op \in MoveOps =>
           /\ q \in [op : MoveOps, folder : Folders, target : Folders, uids : Seq(Nat)] /\ q.uids # <<>>
           /\ \A i \in DOMAIN q.uids : q.uids[i] < uidNext[q.folder]
    /\ q.op = "search" => q \in [op : PurgeOps, todo : Seq(Folders)] /\ q.todo # <<>>
    /\ q.op \in {"purge_store", "purge_expunge"} => q \in [op : PurgeOps, todo : Seq(Folders), uids : SUBSET Nat] /\ q.todo # <<>>
    /\ q.op \in InjectOps => DOMAIN q = {"op", "todo", "uid", "user", "fire"}
    /\ q.op \in SendOps => DOMAIN q = {"op", "msg", "asked", "has"} /\ q.asked \subseteq Protections
    /\ q.op = "encrypt" => q.asked \ {"encrypt"} \subseteq q.has
    /\ q.op = "submit" => q.asked \subseteq q.has
RequestsCarry == req = [s \in Slots |-> req[s]] /\ \A s \in Slots : Carried(req[s])

\* A folder never gives a UID twice.
FolderSound(f) ==
    /\ IsFiniteSet(box[f]) /\ uidNext[f] \in Nat
    /\ \A c \in box[f] : DOMAIN c = {"msg", "uid", "seen", "deleted"} /\ c.uid \in Nat /\ c.uid < uidNext[f]
    /\ \A c, d \in box[f] : c.uid = d.uid => c = d
BoxSound ==
    /\ box = [f \in Folders |-> box[f]] /\ uidNext = [f \in Folders |-> uidNext[f]]
    /\ \A f \in Folders : FolderSound(f)

\* A request is about to flag a copy, because it has copied it elsewhere.
Doomed(q, f, u) == q.op = "store" /\ q.folder = f /\ Head(q.uids) = u /\ ~(q.folder = "Trash" /\ q.target = "Trash")

\* Each message has a copy that no request is about to flag.
Safe(m, f, c) == c.msg = m /\ ~c.deleted /\ \A s \in Slots : ~Doomed(req[s], f, c.uid)
SafeCopies == \A m \in arrived \ (destroyed \cup refused) : \E f \in Folders : \E c \in box[f] : Safe(m, f, c)

KeptInv == RequestsCarry /\ BoxSound /\ SafeCopies /\ ProtectedAsAsked

-----------------------------------------------------------------------------
(* Mail is kept: the proof.                                                *)

LEMMA KeptStart == Init => (part \in {"mail", "forward"} => KeptInv)
<1> SUFFICES ASSUME Init, part \in {"mail", "forward"} PROVE KeptInv  OBVIOUS
<1>1. req = [s \in Slots |-> Idle] /\ \A s \in Slots : req[s] = Idle /\ req[s].op = "idle"  BY DEF Init, RequestsInit, Idle
<1>2. PICK n \in 0..1 : \E ex : MailInit(n, ex)  BY DEF Init
<1>3. /\ box = [f \in Folders |-> IF f = "INBOX" THEN {[Fresh(m) EXCEPT !.uid = m] : m \in 1..n} ELSE {}]
      /\ uidNext = [f \in Folders |-> IF f = "INBOX" THEN n + 1 ELSE 1]
      /\ arrived = 1..n /\ wire = {}
  BY <1>2 DEF MailInit
<1>4. RequestsCarry  BY <1>1 DEF RequestsCarry, Carried, MoveOps, InjectOps, SendOps
<1>5. PICK first : first = [Fresh(1) EXCEPT !.uid = 1]  OBVIOUS
<1>6. "INBOX" \in Folders  BY DEF Folders
<1>7. \A f \in Folders : /\ uidNext[f] = IF f = "INBOX" THEN n + 1 ELSE 1
                         /\ box[f] = IF f = "INBOX" /\ n = 1 THEN {first} ELSE {}
  <2>1. CASE n = 0  BY <1>3, <2>1
  <2>2. CASE n = 1
    <3>1. 1..n = {1}  BY <2>2
    <3>3. {[Fresh(m) EXCEPT !.uid = m] : m \in 1..n} = {first}  BY <1>5, <3>1
    <3> QED  BY <1>3, <2>2, <3>3
  <2> QED  BY <2>1, <2>2
<1>8. BoxSound
  <2>1. \A f \in Folders : FolderSound(f)
    <3> TAKE f \in Folders
    <3>1. IsFiniteSet({}) /\ IsFiniteSet({first})  BY FS_EmptySet, FS_Singleton
    <3>2. first.uid = 1 /\ DOMAIN first = {"msg", "uid", "seen", "deleted"}  BY <1>5 DEF Fresh
    <3> QED  BY <1>7, <3>1, <3>2 DEF FolderSound
  <2> QED  BY <1>3, <2>1 DEF BoxSound
<1>9. SafeCopies
  <2> SUFFICES ASSUME NEW m \in 1..n PROVE \E f \in Folders : \E c \in box[f] : Safe(m, f, c)  BY <1>3 DEF SafeCopies
  <2>1. n = 1 /\ m = 1 /\ first.msg = 1 /\ ~first.deleted  BY <1>5 DEF Fresh
  <2>2. first \in box["INBOX"]  BY <1>6, <1>7, <2>1
  <2>3. Safe(m, "INBOX", first)  BY <1>1, <2>1 DEF Safe, Doomed
  <2> QED  BY <1>6, <2>2, <2>3
<1>10. ProtectedAsAsked  BY <1>3 DEF ProtectedAsAsked
<1> QED  BY <1>4, <1>8, <1>9, <1>10 DEF KeptInv

\* A request goes on, and what it carries is right.
LEMMA CarryOn ==
    ASSUME RequestsCarry, NEW s \in Slots, NEW r, req' = [req EXCEPT ![s] = r], Carried(r),
           \A f \in Folders : uidNext'[f] >= uidNext[f] /\ uidNext[f] \in Nat /\ uidNext'[f] \in Nat
    PROVE  RequestsCarry' /\ req'[s] = r /\ \A t \in Slots \ {s} : req'[t] = req[t]
<1>1. req'[s] = r /\ (\A t \in Slots \ {s} : req'[t] = req[t]) /\ req' = [t \in Slots |-> req'[t]]  BY DEF RequestsCarry
<1>2. ASSUME NEW q, Carried(q) PROVE Carried(q)'
  <2>1. ASSUME q.op \in MoveOps PROVE \A i \in DOMAIN q.uids : q.uids[i] < uidNext'[q.folder]
    <3>1. q.folder \in Folders /\ q.uids \in Seq(Nat) /\ \A i \in DOMAIN q.uids : q.uids[i] < uidNext[q.folder]
      BY <1>2, <2>1 DEF Carried
    <3>2. \A i \in DOMAIN q.uids : q.uids[i] \in Nat  BY <3>1
    <3>3. PICK a \in Nat, b \in Nat : a = uidNext[q.folder] /\ b = uidNext'[q.folder] /\ b >= a  BY <3>1
    <3> QED  BY <3>1, <3>2, <3>3
  <2> QED  BY <1>2, <2>1 DEF Carried
<1>3. ASSUME NEW t \in Slots PROVE Carried(req[t])'
  <2>1. PICK q : q = req'[t]  OBVIOUS
  <2>2. Carried(q)  BY <1>1, <2>1 DEF RequestsCarry
  <2>3. Carried(q)'  BY <1>2, <2>2
  <2> QED  BY <2>1, <2>3 DEF Carried
<1> QED  BY <1>1, <1>3 DEF RequestsCarry

\* Nothing happens to the folders.
LEMMA KeptMoves ==
    ASSUME KeptInv, NEW s \in Slots, NEW r, req' = [req EXCEPT ![s] = r], Carried(r), \A f, u : Doomed(r, f, u) => Doomed(req[s], f, u),
           UNCHANGED <<box, uidNext, arrived, destroyed, wire>>, refused \subseteq refused'
    PROVE  KeptInv'
<1>1. \A f \in Folders : uidNext'[f] >= uidNext[f] /\ uidNext[f] \in Nat /\ uidNext'[f] \in Nat
  BY DEF KeptInv, BoxSound, FolderSound
<1>2. RequestsCarry' /\ req'[s] = r /\ \A t \in Slots \ {s} : req'[t] = req[t]
  BY <1>1, CarryOn DEF KeptInv
<1>3. BoxSound'  BY DEF KeptInv, BoxSound, FolderSound
<1>4. \A f, u : \A t \in Slots : Doomed(req'[t], f, u) => Doomed(req[t], f, u)  BY <1>2
<1>5. ASSUME NEW m, NEW f, NEW c, Safe(m, f, c) PROVE Safe(m, f, c)'  BY <1>4, <1>5 DEF Safe, Doomed
<1>6. SafeCopies'  BY <1>5 DEF KeptInv, SafeCopies
<1>7. ProtectedAsAsked'  BY DEF KeptInv, ProtectedAsAsked
<1> QED  BY <1>2, <1>3, <1>6, <1>7 DEF KeptInv

LEMMA KeptSame ==
    ASSUME KeptInv, req' = req, UNCHANGED <<box, uidNext, arrived, destroyed, refused, wire>>
    PROVE  KeptInv'
<1>1. RequestsCarry'  BY DEF KeptInv, RequestsCarry, Carried
<1>2. BoxSound'  BY DEF KeptInv, BoxSound, FolderSound
<1>3. SafeCopies'  BY DEF KeptInv, SafeCopies, Safe, Doomed
<1>4. ProtectedAsAsked'  BY DEF KeptInv, ProtectedAsAsked
<1> QED  BY <1>1, <1>2, <1>3, <1>4 DEF KeptInv
\* What the commands do to a folder.
Copied == {"msg", "uid", "seen", "deleted"}

LEMMA OneFolder ==
    ASSUME BoxSound, NEW f \in Folders, NEW new, box' = [box EXCEPT ![f] = new], uidNext' = uidNext,
           IsFiniteSet(new), \A c \in new : \E d \in box[f] : c.uid = d.uid /\ DOMAIN c = DOMAIN d,
           \A c, d \in new : c.uid = d.uid => c = d
    PROVE  BoxSound' /\ box'[f] = new /\ \A g \in Folders \ {f} : box'[g] = box[g]
<1>1. box'[f] = new /\ (\A g \in Folders \ {f} : box'[g] = box[g]) /\ box' = [g \in Folders |-> box'[g]]  BY DEF BoxSound
<1>2. FolderSound(f)'  BY <1>1 DEF BoxSound, FolderSound
<1>3. \A g \in Folders \ {f} : FolderSound(g)'  BY <1>1 DEF BoxSound, FolderSound
<1> QED  BY <1>1, <1>2, <1>3 DEF BoxSound

LEMMA ImageSound ==
    ASSUME BoxSound, NEW f \in Folders, NEW F, F = [c \in box[f] |-> F[c]],
           \A c \in box[f] : F[c].uid = c.uid /\ DOMAIN F[c] = DOMAIN c,
           box' = [box EXCEPT ![f] = {F[c] : c \in box[f]}], uidNext' = uidNext
    PROVE  BoxSound' /\ box'[f] = {F[c] : c \in box[f]} /\ \A g \in Folders \ {f} : box'[g] = box[g]
<1>1. PICK new : new = {F[c] : c \in box[f]}  OBVIOUS
<1>2. F \in Surjection(box[f], new)  BY <1>1 DEF Surjection
<1>3. IsFiniteSet(new)  BY <1>2, FS_Surjection DEF BoxSound, FolderSound
<1>4. ASSUME NEW c \in new PROVE \E d \in box[f] : c = F[d] /\ c.uid = d.uid /\ DOMAIN c = DOMAIN d
  <2>1. PICK d \in box[f] : c = F[d]  BY <1>1
  <2> QED  BY <2>1
<1>5. \A c, d \in new : c.uid = d.uid => c = d  BY <1>4 DEF BoxSound, FolderSound
<1>6. box' = [box EXCEPT ![f] = new]  BY <1>1
<1>7. \A c \in new : \E d \in box[f] : c.uid = d.uid /\ DOMAIN c = DOMAIN d  BY <1>4
<1>8. BoxSound' /\ box'[f] = new /\ \A g \in Folders \ {f} : box'[g] = box[g]  BY <1>3, <1>5, <1>6, <1>7, OneFolder
<1> QED  BY <1>1, <1>8

LEMMA Flagging ==
    ASSUME BoxSound, NEW f \in Folders, NEW uids, box' = [box EXCEPT ![f] = Flagged(f, uids)], uidNext' = uidNext
    PROVE  BoxSound' /\ \A g \in Folders : \A c \in box[g] : g # f \/ c.uid \notin uids => c \in box'[g]
<1> DEFINE F == [c \in box[f] |-> IF c.uid \in uids THEN [c EXCEPT !.deleted = TRUE] ELSE c]
<1>1. \A c \in box[f] : F[c].uid = c.uid /\ DOMAIN F[c] = DOMAIN c  BY DEF BoxSound, FolderSound
<1>2. {F[c] : c \in box[f]} = Flagged(f, uids) /\ F = [c \in box[f] |-> F[c]]  BY DEF Flagged
<1>3. \A c \in box[f] : c.uid \notin uids => F[c] = c  OBVIOUS
<1> HIDE DEF F
<1>4. BoxSound' /\ box'[f] = {F[c] : c \in box[f]} /\ \A g \in Folders \ {f} : box'[g] = box[g]
  BY <1>1, <1>2, ImageSound
<1> QED  BY <1>3, <1>4

LEMMA Marking ==
    ASSUME BoxSound, NEW f \in Folders, NEW u, NEW seen, Mark(f, u, seen), uidNext' = uidNext
    PROVE  BoxSound' /\ \A g \in Folders : \A c \in box[g] : \E d \in box'[g] : d.msg = c.msg /\ d.uid = c.uid /\ d.deleted = c.deleted
<1> DEFINE F == [c \in box[f] |-> IF c.uid = u THEN [c EXCEPT !.seen = seen] ELSE c]
<1>1. \A c \in box[f] : F[c].uid = c.uid /\ DOMAIN F[c] = DOMAIN c /\ F[c].msg = c.msg /\ F[c].deleted = c.deleted
  BY DEF BoxSound, FolderSound
<1>2. F = [c \in box[f] |-> F[c]]  OBVIOUS
<1>3. box' = [box EXCEPT ![f] = {F[c] : c \in box[f]}]  BY DEF Mark, BoxSound
<1> HIDE DEF F
<1>4. BoxSound' /\ box'[f] = {F[c] : c \in box[f]} /\ \A g \in Folders \ {f} : box'[g] = box[g]
  BY <1>1, <1>2, <1>3, ImageSound
<1> QED  BY <1>1, <1>4

LEMMA Expunging ==
    ASSUME BoxSound, NEW f \in Folders, box' = [box EXCEPT ![f] = {c \in box[f] : ~c.deleted}], uidNext' = uidNext
    PROVE  BoxSound' /\ \A g \in Folders : \A c \in box[g] : ~c.deleted => c \in box'[g]
<1>1. PICK new : new = {c \in box[f] : ~c.deleted}  OBVIOUS
<1>2. new \subseteq box[f]  BY <1>1
<1>3. IsFiniteSet(new)  BY <1>2, FS_Subset DEF BoxSound, FolderSound
<1>4. BoxSound' /\ box'[f] = new /\ \A g \in Folders \ {f} : box'[g] = box[g]
  BY <1>1, <1>2, <1>3, OneFolder DEF BoxSound, FolderSound
<1> QED  BY <1>1, <1>4

LEMMA Putting ==
    ASSUME BoxSound, NEW f \in Folders, NEW c, DOMAIN c = Copied, Put(f, c)
    PROVE  /\ BoxSound' /\ \A g \in Folders : box[g] \subseteq box'[g]
           /\ \A g \in Folders : uidNext'[g] >= uidNext[g] /\ uidNext[g] \in Nat /\ uidNext'[g] \in Nat
           /\ uidNext'[f] = uidNext[f] + 1
           /\ \E d \in box'[f] : d.msg = c.msg /\ d.uid = uidNext[f] /\ d.deleted = c.deleted
<1>1. PICK d : d = [c EXCEPT !.uid = uidNext[f]]  OBVIOUS
<1>2. DOMAIN d = Copied /\ d.uid = uidNext[f] /\ d.msg = c.msg /\ d.deleted = c.deleted  BY <1>1 DEF Copied
<1>3. /\ box' = [box EXCEPT ![f] = box[f] \cup {d}] /\ uidNext' = [uidNext EXCEPT ![f] = uidNext[f] + 1]
  BY <1>1 DEF Put
<1>4. /\ box'[f] = box[f] \cup {d} /\ (\A g \in Folders \ {f} : box'[g] = box[g]) /\ box' = [g \in Folders |-> box'[g]]
      /\ uidNext'[f] = uidNext[f] + 1 /\ (\A g \in Folders \ {f} : uidNext'[g] = uidNext[g]) /\ uidNext' = [g \in Folders |-> uidNext'[g]]
  BY <1>3 DEF BoxSound
<1>5. \A g \in Folders : uidNext[g] \in Nat  BY DEF BoxSound, FolderSound
<1>6. \A g \in Folders : uidNext'[g] >= uidNext[g] /\ uidNext'[g] \in Nat  BY <1>4, <1>5
<1>7. \A x \in box[f] : DOMAIN x = Copied /\ x.uid \in Nat /\ x.uid < uidNext[f]  BY DEF BoxSound, FolderSound, Copied
<1>8. FolderSound(f)'
  <2>1. IsFiniteSet(box[f] \cup {d})  BY FS_AddElement DEF BoxSound, FolderSound
  <2>2. \A x \in box[f] \cup {d} : DOMAIN x = Copied /\ x.uid \in Nat /\ x.uid < uidNext[f] + 1  BY <1>2, <1>5, <1>7
  <2>3. \A x \in box[f] : x.uid # d.uid  BY <1>2, <1>5, <1>7
  <2>4. \A x, y \in box[f] \cup {d} : x.uid = y.uid => x = y  BY <2>3 DEF BoxSound, FolderSound
  <2> QED  BY <1>4, <1>6, <2>1, <2>2, <2>4 DEF FolderSound, Copied
<1>9. \A g \in Folders \ {f} : FolderSound(g)'  BY <1>4 DEF BoxSound, FolderSound
<1> QED  BY <1>2, <1>4, <1>5, <1>6, <1>8, <1>9 DEF BoxSound
\* A step that one request takes.
SafeFrom(m, f, c, s) == c.msg = m /\ ~c.deleted /\ \A t \in Slots \ {s} : ~Doomed(req[t], f, c.uid)

LEMMA KeptStep ==
    ASSUME KeptInv, NEW s \in Slots, NEW r, req' = [req EXCEPT ![s] = r], Carried(r), BoxSound', ProtectedAsAsked',
           \A f \in Folders : uidNext'[f] >= uidNext[f] /\ uidNext[f] \in Nat /\ uidNext'[f] \in Nat,
           \A m \in arrived' \ (destroyed' \cup refused') :
               \E f \in Folders : \E c \in box'[f] : SafeFrom(m, f, c, s) /\ ~Doomed(r, f, c.uid)
    PROVE  KeptInv'
<1>1. RequestsCarry' /\ req'[s] = r /\ \A t \in Slots \ {s} : req'[t] = req[t]
  BY CarryOn DEF KeptInv
<1>2. ASSUME NEW m, NEW f, NEW c, SafeFrom(m, f, c, s), ~Doomed(r, f, c.uid) PROVE Safe(m, f, c)'
  BY <1>1, <1>2 DEF Safe, SafeFrom, Doomed
<1>3. SafeCopies'  BY <1>2 DEF SafeCopies
<1> QED  BY <1>1, <1>3 DEF KeptInv

LEMMA UidsKnown ==
    ASSUME KeptInv
    PROVE  \A f \in Folders : uidNext[f] \in Nat /\ uidNext[f] >= uidNext[f]
BY DEF KeptInv, BoxSound, FolderSound

LEMMA CarriedUids ==
    ASSUME KeptInv, NEW s \in Slots, req[s].op \in MoveOps
    PROVE  /\ req[s] \in [op : MoveOps, folder : Folders, target : Folders, uids : Seq(Nat)] /\ req[s].uids # <<>>
           /\ Head(req[s].uids) \in Nat /\ Head(req[s].uids) < uidNext[req[s].folder]
<1>1. /\ req[s] \in [op : MoveOps, folder : Folders, target : Folders, uids : Seq(Nat)] /\ req[s].uids # <<>>
      /\ \A i \in DOMAIN req[s].uids : req[s].uids[i] < uidNext[req[s].folder]
  BY DEF KeptInv, RequestsCarry, Carried
<1>2. PICK w : w = req[s].uids  OBVIOUS
<1>3. w \in Seq(Nat) /\ w # <<>>  BY <1>1, <1>2
<1>4. 1 \in DOMAIN w /\ Head(w) = w[1] /\ w[1] \in Nat
  <2>1. Len(w) \in Nat /\ Len(w) # 0 /\ DOMAIN w = 1..Len(w)  BY <1>3
  <2> QED  BY <1>3, <2>1
<1> QED  BY <1>1, <1>2, <1>4

LEMMA FreshNotDoomed ==
    ASSUME KeptInv, NEW t \in Slots, NEW f \in Folders
    PROVE  ~Doomed(req[t], f, uidNext[f])
<1> SUFFICES ASSUME Doomed(req[t], f, uidNext[f]) PROVE FALSE  OBVIOUS
<1>1. req[t].op \in MoveOps /\ req[t].folder = f /\ Head(req[t].uids) = uidNext[f]  BY DEF Doomed, MoveOps
<1>2. uidNext[f] \in Nat /\ uidNext[f] < uidNext[f]  BY <1>1, CarriedUids
<1> QED  BY <1>2

\* What a request goes on to.
LEMMA IdleCarries == Carried(Idle) /\ \A f, u : ~Doomed(Idle, f, u)
BY DEF Idle, Carried, Doomed, MoveOps, InjectOps, SendOps

LEMMA NextUidCarries ==
    ASSUME KeptInv, NEW s \in Slots, req[s].op \in MoveOps, NextUid(s)
    PROVE  \E r : req' = [req EXCEPT ![s] = r] /\ Carried(r) /\ \A f, u : ~Doomed(r, f, u)
<1>1. CASE Len(req[s].uids) = 1
  <2>1. req' = [req EXCEPT ![s] = Idle]  BY <1>1 DEF NextUid, End, Goto
  <2> QED  BY <2>1, IdleCarries
<1>2. CASE Len(req[s].uids) # 1
  <2>1. /\ req[s] \in [op : MoveOps, folder : Folders, target : Folders, uids : Seq(Nat)] /\ req[s].uids # <<>>
        /\ \A i \in DOMAIN req[s].uids : req[s].uids[i] < uidNext[req[s].folder]
    BY DEF KeptInv, RequestsCarry, Carried
  <2>2. PICK w, f, op : w = req[s].uids /\ f = req[s].folder /\ op = IF f = "Trash" THEN "store" ELSE "copy"  OBVIOUS
  <2>3. PICK r : r = [op |-> op, folder |-> f, target |-> "Trash", uids |-> Tail(w)]  OBVIOUS
  <2>4. req' = [req EXCEPT ![s] = r]  BY <1>2, <2>2, <2>3 DEF NextUid, Goto, delete_email, Command
  <2>5. w \in Seq(Nat) /\ w # <<>> /\ Len(w) # 1 /\ f \in Folders /\ \A i \in DOMAIN w : w[i] < uidNext[f]  BY <1>2, <2>1, <2>2
  <2>6. /\ Tail(w) \in Seq(Nat) /\ Tail(w) # <<>> /\ Len(w) \in Nat /\ DOMAIN Tail(w) = 1..(Len(w) - 1)
        /\ \A i \in 1..(Len(w) - 1) : Tail(w)[i] = w[i + 1]
    BY <2>5, TailFacts
  <2>7. \A i \in DOMAIN Tail(w) : Tail(w)[i] < uidNext[f]
    <3> TAKE i \in DOMAIN Tail(w)
    <3>1. i + 1 \in DOMAIN w  BY <2>5, <2>6
    <3> QED  BY <2>5, <2>6, <3>1
  <2>8. op \in {"copy", "store"} /\ (op = "store" => f = "Trash")  BY <2>2
  <2>9. r.op = op /\ r.folder = f /\ r.target = "Trash" /\ r.uids = Tail(w)  BY <2>3
  <2>10. r \in [op : MoveOps, folder : Folders, target : Folders, uids : Seq(Nat)]
    BY <2>3, <2>5, <2>6, <2>8 DEF MoveOps, Folders
  <2>11. Carried(r)  BY <2>6, <2>7, <2>8, <2>9, <2>10 DEF Carried, InjectOps, SendOps
  <2>12. \A g, u : ~Doomed(r, g, u)  BY <2>8, <2>9 DEF Doomed
  <2> QED  BY <2>4, <2>11, <2>12
<1> QED  BY <1>1, <1>2

LEMMA NextInjectCarries ==
    ASSUME NEW s \in Slots, NextInject(s)
    PROVE  \E r : req' = [req EXCEPT ![s] = r] /\ Carried(r) /\ \A f, u : ~Doomed(r, f, u)
<1>1. CASE Len(req[s].todo) = 1
  <2>1. req' = [req EXCEPT ![s] = Idle]  BY <1>1 DEF NextInject, End, Goto
  <2> QED  BY <2>1, IdleCarries
<1>2. CASE Len(req[s].todo) # 1
  <2>1. PICK r : r = [op |-> "append", todo |-> Tail(req[s].todo), uid |-> 0, user |-> Gone, fire |-> {}]  OBVIOUS
  <2>2. req' = [req EXCEPT ![s] = r]  BY <1>2, <2>1 DEF NextInject, Goto
  <2>3. r.op = "append" /\ DOMAIN r = {"op", "todo", "uid", "user", "fire"}  BY <2>1
  <2>4. Carried(r) /\ \A f, u : ~Doomed(r, f, u)  BY <2>3 DEF Carried, Doomed, MoveOps, SendOps
  <2> QED  BY <2>2, <2>4
<1> QED  BY <1>1, <1>2

LEMMA SkipCarries ==
    ASSUME KeptInv, NEW s \in Slots, req[s].op \in PurgeOps, Skip(s)
    PROVE  \E r : req' = [req EXCEPT ![s] = r] /\ Carried(r) /\ \A f, u : ~Doomed(r, f, u)
<1>1. CASE Len(req[s].todo) = 1
  <2>1. req' = [req EXCEPT ![s] = Idle]  BY <1>1 DEF Skip, End, Goto
  <2> QED  BY <2>1, IdleCarries
<1>2. CASE Len(req[s].todo) # 1
  <2>1. PICK w : w = req[s].todo  OBVIOUS
  <2>2. w \in Seq(Folders) /\ w # <<>>  BY <2>1 DEF KeptInv, RequestsCarry, Carried, PurgeOps
  <2>3. Tail(w) \in Seq(Folders) /\ Tail(w) # <<>>  BY <1>2, <2>1, <2>2, TailFacts
  <2>4. PICK r : r = [op |-> "search", todo |-> Tail(w)]  OBVIOUS
  <2>5. req' = [req EXCEPT ![s] = r]  BY <1>2, <2>1, <2>4 DEF Skip, Goto
  <2>6. r.op = "search" /\ r.todo = Tail(w) /\ r \in [op : PurgeOps, todo : Seq(Folders)]  BY <2>3, <2>4 DEF PurgeOps
  <2>7. Carried(r) /\ \A f, u : ~Doomed(r, f, u)  BY <2>3, <2>6 DEF Carried, Doomed, MoveOps, SendOps, InjectOps
  <2> QED  BY <2>5, <2>7
<1> QED  BY <1>1, <1>2
\* Copies keep the state of their original; what is copied is flagged only then.
LEMMA CopyKeeps ==
    ASSUME KeptInv, NEW s \in Slots, Copy(s)
    PROVE  KeptInv'
<1>1. PICK q : q = req[s]  OBVIOUS
<1>2. /\ q.op = "copy" /\ UNCHANGED <<arrived, destroyed, refused, wire>> /\ req' = [req EXCEPT ![s] = [q EXCEPT !.op = "store"]]
      /\ IF Found(q.folder, Head(q.uids)) = {} THEN UNCHANGED <<box, uidNext>>
         ELSE \E c \in Found(q.folder, Head(q.uids)) : Put(q.target, c)
  BY <1>1 DEF Copy, At, Step, Goto, sendVars
<1>3. /\ q \in [op : MoveOps, folder : Folders, target : Folders, uids : Seq(Nat)] /\ q.uids # <<>>
      /\ Head(q.uids) \in Nat /\ Head(q.uids) < uidNext[q.folder] /\ Carried(q)
  BY <1>1, <1>2, CarriedUids DEF MoveOps, KeptInv, RequestsCarry
<1>4. PICK r : r = [q EXCEPT !.op = "store"]  OBVIOUS
<1>5. r \in [op : MoveOps, folder : Folders, target : Folders, uids : Seq(Nat)] /\ r.op = "store" /\ r.folder = q.folder /\ r.uids = q.uids
  BY <1>3, <1>4 DEF MoveOps
<1>6. Carried(r)  BY <1>2, <1>3, <1>5 DEF Carried, MoveOps, InjectOps, SendOps
<1>7. req' = [req EXCEPT ![s] = r]  BY <1>2, <1>4
<1>8. ProtectedAsAsked'  BY <1>2 DEF KeptInv, ProtectedAsAsked
<1>9. PICK f, u : f = q.folder /\ u = Head(q.uids) /\ f \in Folders /\ u \in Nat /\ u < uidNext[f]  BY <1>3
<1>10. \A g, v : Doomed(r, g, v) => g = f /\ v = u  BY <1>5, <1>9 DEF Doomed
<1>11. \A m \in arrived' \ (destroyed' \cup refused') : \E g \in Folders : \E c \in box[g] : Safe(m, g, c)
  BY <1>2 DEF KeptInv, SafeCopies
<1>12. \A m, g, c : Safe(m, g, c) => SafeFrom(m, g, c, s)  BY DEF Safe, SafeFrom
<1>13. CASE Found(f, u) = {}
  <2>1. UNCHANGED <<box, uidNext>>  BY <1>2, <1>9, <1>13
  <2>2. BoxSound'  BY <2>1 DEF KeptInv, BoxSound, FolderSound
  <2>3. \A g \in Folders : uidNext'[g] >= uidNext[g] /\ uidNext[g] \in Nat /\ uidNext'[g] \in Nat  BY <2>1, UidsKnown
  <2>4. \A g \in Folders : \A c \in box[g] : ~Doomed(r, g, c.uid)  BY <1>10, <1>13 DEF Found
  <2>5. \A m \in arrived' \ (destroyed' \cup refused') :
           \E g \in Folders : \E c \in box'[g] : SafeFrom(m, g, c, s) /\ ~Doomed(r, g, c.uid)
    BY <1>11, <1>12, <2>1, <2>4
  <2> QED  BY <1>6, <1>7, <1>8, <2>2, <2>3, <2>5, KeptStep
<1>14. CASE Found(f, u) # {}
  <2>1. PICK c0 \in Found(f, u) : Put(q.target, c0)  BY <1>2, <1>9, <1>14
  <2>2. c0 \in box[f] /\ c0.uid = u /\ DOMAIN c0 = Copied  BY <1>9, <2>1 DEF Found, KeptInv, BoxSound, FolderSound, Copied
  <2>3. PICK target \in Folders : target = q.target  BY <1>3
  <2>4. /\ BoxSound' /\ \A g \in Folders : box[g] \subseteq box'[g]
        /\ \A g \in Folders : uidNext'[g] >= uidNext[g] /\ uidNext[g] \in Nat /\ uidNext'[g] \in Nat
        /\ \E d \in box'[target] : d.msg = c0.msg /\ d.uid = uidNext[target] /\ d.deleted = c0.deleted
    BY <2>1, <2>2, <2>3, Putting DEF KeptInv
  <2>5. PICK d \in box'[target] : d.msg = c0.msg /\ d.uid = uidNext[target] /\ d.deleted = c0.deleted  BY <2>4
  <2>6. ASSUME NEW m \in arrived' \ (destroyed' \cup refused')
        PROVE  \E g \in Folders : \E c \in box'[g] : SafeFrom(m, g, c, s) /\ ~Doomed(r, g, c.uid)
    <3>1. PICK g, c : g \in Folders /\ c \in box[g] /\ Safe(m, g, c)  BY <1>11, <2>6
    <3>2. CASE g = f /\ c.uid = u
      <4>1. c = c0  BY <2>2, <3>1, <3>2 DEF KeptInv, BoxSound, FolderSound
      <4>2. d.msg = m /\ ~d.deleted  BY <2>5, <3>1, <4>1 DEF Safe
      <4>3. \A t \in Slots : ~Doomed(req[t], target, d.uid)  BY <2>5, FreshNotDoomed
      <4>4. ~Doomed(r, target, d.uid)
        <5> SUFFICES ASSUME target = f, d.uid = u PROVE FALSE  BY <1>10
        <5>1. uidNext[f] \in Nat /\ u \in Nat /\ u < uidNext[f] /\ u = uidNext[f]  BY <1>9, <2>4, <2>5
        <5> QED  BY <5>1
      <4> QED  BY <2>5, <4>2, <4>3, <4>4 DEF SafeFrom
    <3>3. CASE ~(g = f /\ c.uid = u)
      <4>1. c \in box'[g] /\ ~Doomed(r, g, c.uid)  BY <1>10, <2>4, <3>1, <3>3
      <4> QED  BY <1>12, <3>1, <4>1
    <3> QED  BY <3>2, <3>3
  <2> QED  BY <1>6, <1>7, <1>8, <2>4, <2>6, KeptStep
<1> QED  BY <1>13, <1>14

LEMMA CopyRefusedKeeps ==
    ASSUME KeptInv, NEW s \in Slots, CopyRefused(s)
    PROVE  KeptInv'
<1>1. PICK q : q = req[s]  OBVIOUS
<1>2. /\ q.op = "copy" /\ UNCHANGED <<box, uidNext, arrived, destroyed, wire>> /\ req' = [req EXCEPT ![s] = [q EXCEPT !.op = "store"]]
      /\ refused' = refused \cup {c.msg : c \in Found(q.folder, Head(q.uids))}
  BY <1>1 DEF CopyRefused, At, Step, Goto, sendVars
<1>3. /\ q \in [op : MoveOps, folder : Folders, target : Folders, uids : Seq(Nat)] /\ q.uids # <<>> /\ Carried(q)
  BY <1>1, <1>2, CarriedUids DEF MoveOps, KeptInv, RequestsCarry
<1>4. PICK r : r = [q EXCEPT !.op = "store"]  OBVIOUS
<1>5. r \in [op : MoveOps, folder : Folders, target : Folders, uids : Seq(Nat)] /\ r.op = "store" /\ r.folder = q.folder /\ r.uids = q.uids
  BY <1>3, <1>4 DEF MoveOps
<1>6. Carried(r)  BY <1>2, <1>3, <1>5 DEF Carried, MoveOps, InjectOps, SendOps
<1>7. req' = [req EXCEPT ![s] = r]  BY <1>2, <1>4
<1>8. ProtectedAsAsked' /\ BoxSound'  BY <1>2 DEF KeptInv, ProtectedAsAsked, BoxSound, FolderSound
<1>9. \A g \in Folders : uidNext'[g] >= uidNext[g] /\ uidNext[g] \in Nat /\ uidNext'[g] \in Nat  BY <1>2, UidsKnown
<1>10. \A g, v : Doomed(r, g, v) => g = q.folder /\ v = Head(q.uids)  BY <1>5 DEF Doomed
<1>11. ASSUME NEW m \in arrived' \ (destroyed' \cup refused')
       PROVE  \E g \in Folders : \E c \in box'[g] : SafeFrom(m, g, c, s) /\ ~Doomed(r, g, c.uid)
  <2>1. m \in arrived \ (destroyed \cup refused) /\ \A c \in Found(q.folder, Head(q.uids)) : c.msg # m  BY <1>2, <1>11
  <2>2. PICK g, c : g \in Folders /\ c \in box[g] /\ Safe(m, g, c)  BY <2>1 DEF KeptInv, SafeCopies
  <2>3. SafeFrom(m, g, c, s) /\ c.msg = m  BY <2>2 DEF Safe, SafeFrom
  <2>4. ~Doomed(r, g, c.uid)  BY <1>10, <2>1, <2>2, <2>3 DEF Found
  <2> QED  BY <1>2, <2>2, <2>3, <2>4
<1> QED  BY <1>6, <1>7, <1>8, <1>9, <1>11, KeptStep

\* Only what is elsewhere, or was deleted on purpose, is flagged.
LEMMA StoreKeeps ==
    ASSUME KeptInv, NEW s \in Slots, Store(s)
    PROVE  KeptInv'
<1>1. PICK q : q = req[s]  OBVIOUS
<1>2. /\ q.op = "store" /\ UNCHANGED <<uidNext, arrived, refused, wire>> /\ req' = [req EXCEPT ![s] = [q EXCEPT !.op = "expunge"]]
      /\ box' = [box EXCEPT ![q.folder] = Flagged(q.folder, {Head(q.uids)})]
      /\ destroyed' = IF q.folder = "Trash" /\ q.target = "Trash" THEN destroyed \cup {c.msg : c \in Found("Trash", Head(q.uids))} ELSE destroyed
  BY <1>1 DEF Store, At, Step, Goto, sendVars
<1>3. /\ q \in [op : MoveOps, folder : Folders, target : Folders, uids : Seq(Nat)] /\ q.uids # <<>> /\ Carried(q)
  BY <1>1, <1>2, CarriedUids DEF MoveOps, KeptInv, RequestsCarry
<1>4. PICK r : r = [q EXCEPT !.op = "expunge"]  OBVIOUS
<1>5. r \in [op : MoveOps, folder : Folders, target : Folders, uids : Seq(Nat)] /\ r.op = "expunge" /\ r.folder = q.folder /\ r.uids = q.uids
  BY <1>3, <1>4 DEF MoveOps
<1>6. Carried(r) /\ \A g, v : ~Doomed(r, g, v)  BY <1>2, <1>3, <1>5 DEF Carried, MoveOps, InjectOps, SendOps, Doomed
<1>7. req' = [req EXCEPT ![s] = r]  BY <1>2, <1>4
<1>8. ProtectedAsAsked'  BY <1>2 DEF KeptInv, ProtectedAsAsked
<1>9. \A g \in Folders : uidNext'[g] >= uidNext[g] /\ uidNext[g] \in Nat /\ uidNext'[g] \in Nat  BY <1>2, UidsKnown
<1>10. PICK f, u : f \in Folders /\ f = q.folder /\ u = Head(q.uids)  BY <1>3
<1>11. BoxSound' /\ \A g \in Folders : \A c \in box[g] : g # f \/ c.uid \notin {u} => c \in box'[g]
  BY <1>2, <1>10, Flagging DEF KeptInv
<1>12. ASSUME NEW m \in arrived' \ (destroyed' \cup refused')
       PROVE  \E g \in Folders : \E c \in box'[g] : SafeFrom(m, g, c, s) /\ ~Doomed(r, g, c.uid)
  <2>1. m \in arrived \ (destroyed \cup refused)  BY <1>2, <1>12
  <2>2. PICK g, c : g \in Folders /\ c \in box[g] /\ Safe(m, g, c)  BY <2>1 DEF KeptInv, SafeCopies
  <2>3. SafeFrom(m, g, c, s) /\ c.msg = m  BY <2>2 DEF Safe, SafeFrom
  <2>4. g # f \/ c.uid # u
    <3> SUFFICES ASSUME g = f, c.uid = u PROVE FALSE  OBVIOUS
    <3>1. ~Doomed(q, f, u)  BY <1>1, <2>2 DEF Safe
    <3>2. q.folder = "Trash" /\ q.target = "Trash"  BY <1>2, <1>10, <3>1 DEF Doomed
    <3>3. c \in Found("Trash", Head(q.uids))  BY <1>10, <2>2, <3>2 DEF Found
    <3>4. m \in destroyed'  BY <1>2, <2>3, <3>2, <3>3
    <3> QED  BY <1>12, <3>4
  <2> QED  BY <1>6, <1>11, <2>2, <2>3, <2>4
<1> QED  BY <1>6, <1>7, <1>8, <1>9, <1>11, <1>12, KeptStep

LEMMA ExpungeKeeps ==
    ASSUME KeptInv, NEW s \in Slots, NEW r, req' = [req EXCEPT ![s] = r], Carried(r), \A f, u : ~Doomed(r, f, u),
           NEW f \in Folders, box' = [box EXCEPT ![f] = {c \in box[f] : ~c.deleted}],
           UNCHANGED <<uidNext, arrived, destroyed, refused, wire>>
    PROVE  KeptInv'
<1>1. BoxSound' /\ \A g \in Folders : \A c \in box[g] : ~c.deleted => c \in box'[g]  BY Expunging DEF KeptInv
<1>2. ProtectedAsAsked'  BY DEF KeptInv, ProtectedAsAsked
<1>3. \A g \in Folders : uidNext'[g] >= uidNext[g] /\ uidNext[g] \in Nat /\ uidNext'[g] \in Nat  BY UidsKnown
<1>4. ASSUME NEW m \in arrived' \ (destroyed' \cup refused')
      PROVE  \E g \in Folders : \E c \in box'[g] : SafeFrom(m, g, c, s) /\ ~Doomed(r, g, c.uid)
  <2>1. PICK g, c : g \in Folders /\ c \in box[g] /\ Safe(m, g, c)  BY <1>4 DEF KeptInv, SafeCopies
  <2>2. SafeFrom(m, g, c, s) /\ ~c.deleted  BY <2>1 DEF Safe, SafeFrom
  <2> QED  BY <1>1, <2>1, <2>2
<1> QED  BY <1>1, <1>2, <1>3, <1>4, KeptStep

-----------------------------------------------------------------------------
(* Listing: the UIDs of a folder in their places.                          *)

LEMMA Places ==
    ASSUME NEW U \in SUBSET Nat, IsFiniteSet(U)
    PROVE  /\ Cardinality(U) \in Nat
           /\ \A u \in U : Place(u, U) \in 1..Cardinality(U)
           /\ \A u, v \in U : u > v => Place(u, U) < Place(v, U)
           /\ \A i \in 1..Cardinality(U) : \E u \in U : Place(u, U) = i
<1>1. Cardinality(U) \in Nat  BY FS_CardinalityType
<1>2. ASSUME NEW u \in U
      PROVE  /\ IsFiniteSet({v \in U : v >= u}) /\ Place(u, U) \in Nat
             /\ Place(u, U) \in 1..Cardinality(U)
  <2>1. PICK above : above = {v \in U : v >= u}  OBVIOUS
  <2>2. above \in SUBSET U /\ u \in above  BY <2>1
  <2>3. IsFiniteSet(above) /\ Cardinality(above) <= Cardinality(U)  BY <2>2, FS_Subset
  <2>4. Cardinality(above) \in Nat /\ Cardinality(above) # 0  BY <2>2, <2>3, FS_CardinalityType, FS_EmptySet
  <2>5. Place(u, U) = Cardinality(above)  BY <2>1 DEF Place
  <2> QED  BY <1>1, <2>1, <2>3, <2>4, <2>5
<1>3. ASSUME NEW u \in U, NEW v \in U, u > v PROVE Place(u, U) < Place(v, U)
  <2>1. PICK a, b : a = {w \in U : w >= u} /\ b = {w \in U : w >= v}  OBVIOUS
  <2>6. u \in Nat /\ v \in Nat /\ v >= v /\ ~(v >= u) /\ \A w \in U : w >= u => w >= v
    <3>1. u \in Nat /\ v \in Nat /\ \A w \in U : w \in Nat  OBVIOUS
    <3> QED  BY <1>3, <3>1
  <2>2. a \in SUBSET b /\ v \in b /\ v \notin a  BY <2>1, <2>6
  <2>3. IsFiniteSet(b) /\ Place(u, U) = Cardinality(a) /\ Place(v, U) = Cardinality(b)  BY <1>2, <2>1 DEF Place
  <2>4. Cardinality(a) <= Cardinality(b) /\ Cardinality(a) # Cardinality(b)  BY <2>2, <2>3, FS_Subset
  <2>5. Place(u, U) \in Nat /\ Place(v, U) \in Nat  BY <1>2
  <2> QED  BY <2>3, <2>4, <2>5
<1>4. \A i \in 1..Cardinality(U) : \E u \in U : Place(u, U) = i
  <2>1. PICK F : F = [u \in U |-> Place(u, U)]  OBVIOUS
  <2>2. PICK n \in Nat : n = Cardinality(U)  BY <1>1
  <2>3. F \in [U -> 1..n]  BY <1>2, <2>1, <2>2
  <2>4. ASSUME NEW u \in U, NEW v \in U, F[u] = F[v] PROVE u = v
    <3>1. F[u] = Place(u, U) /\ F[v] = Place(v, U) /\ F[u] \in Nat  BY <1>2, <2>1
    <3>2. ~(F[u] < F[v]) /\ ~(F[v] < F[u])  BY <2>4, <3>1
    <3>3. ~(u > v) /\ ~(v > u)  BY <1>3, <3>1, <3>2
    <3> QED  BY <3>3
  <2>5. F \in Injection(U, 1..n)  BY <2>3, <2>4 DEF Injection, IsInjective
  <2>6. IsFiniteSet(1..n) /\ Cardinality(1..n) = n  BY FS_Interval
  <2>7. F \in Surjection(U, 1..n)  BY <2>2, <2>5, <2>6, FS_Injection
  <2> QED  BY <2>1, <2>2, <2>7 DEF Surjection
<1> QED  BY <1>1, <1>2, <1>3, <1>4

LEMMA UidsFinite ==
    ASSUME BoxSound, NEW f \in Folders
    PROVE  /\ Uids(f) \in SUBSET Nat /\ IsFiniteSet(Uids(f)) /\ \A u \in Uids(f) : u < uidNext[f]
           /\ Cardinality(box[f]) = Cardinality(Uids(f))
<1>1. FolderSound(f)  BY DEF BoxSound
<1>2. PICK F : F = [c \in box[f] |-> c.uid]  OBVIOUS
<1>3. F \in [box[f] -> Uids(f)] /\ \A u \in Uids(f) : \E c \in box[f] : F[c] = u  BY <1>2 DEF Uids
<1>4. F \in Surjection(box[f], Uids(f))  BY <1>3 DEF Surjection
<1>5. F \in Injection(box[f], Uids(f))  BY <1>1, <1>2, <1>3 DEF Injection, IsInjective, FolderSound
<1>6. IsFiniteSet(Uids(f)) /\ Cardinality(Uids(f)) = Cardinality(box[f])  BY <1>1, <1>4, <1>5, FS_Surjection DEF FolderSound
<1> QED  BY <1>1, <1>6 DEF FolderSound, Uids

LEMMA NewestFirst ==
    ASSUME BoxSound, NEW f \in Folders, NEW n, n = Cardinality(box[f]), NEW w, w = Newest(f)
    PROVE  /\ n \in Nat /\ w \in Seq(Nat) /\ Len(w) = n /\ DOMAIN w = 1..n
           /\ \A i \in 1..n : w[i] \in Uids(f) /\ w[i] \in Nat
           /\ \A u \in Uids(f) : \E i \in 1..n : w[i] = u
           /\ \A i, j \in 1..n : i < j => w[i] > w[j]
<1>1. PICK U : U = Uids(f)  OBVIOUS
<1>2. U \in SUBSET Nat /\ IsFiniteSet(U) /\ Cardinality(U) = n  BY <1>1, UidsFinite
<1>3. /\ n \in Nat /\ \A u \in U : Place(u, U) \in 1..n
      /\ \A u, v \in U : u > v => Place(u, U) < Place(v, U)
      /\ \A i \in 1..n : \E u \in U : Place(u, U) = i
  BY <1>2, Places
<1>4. w = [i \in 1..n |-> CHOOSE u \in U : Place(u, U) = i]  BY <1>1, <1>2 DEF Newest
<1>5. \A i \in 1..n : w[i] \in U /\ Place(w[i], U) = i  BY <1>3, <1>4
<1>6. w \in Seq(Nat) /\ Len(w) = n /\ DOMAIN w = 1..n
  <2>1. w \in [1..n -> Nat]  BY <1>2, <1>4, <1>5
  <2> QED  BY <1>3, <2>1
<1>7. ASSUME NEW u \in U, NEW v \in U, Place(u, U) = Place(v, U) PROVE u = v
  <2>1. Place(u, U) \in Nat /\ ~(u > v) /\ ~(v > u)  BY <1>3, <1>7
  <2> QED  BY <1>2, <2>1
<1>8. \A u \in U : w[Place(u, U)] = u  BY <1>3, <1>5, <1>7
<1>9. ASSUME NEW i \in 1..n, NEW j \in 1..n, i < j PROVE w[i] > w[j]
  <2>1. w[i] \in U /\ w[j] \in U /\ Place(w[i], U) = i /\ Place(w[j], U) = j  BY <1>5
  <2>2. w[i] # w[j] /\ ~(w[j] > w[i])
    <3>1. w[j] > w[i] => j < i  BY <1>3, <2>1
    <3>2. ~(j < i) /\ i # j  BY <1>9
    <3> QED  BY <2>1, <3>1, <3>2
  <2>3. w[i] \in Nat /\ w[j] \in Nat  BY <1>2, <2>1
  <2> QED  BY <2>2, <2>3
<1> QED  BY <1>1, <1>2, <1>3, <1>5, <1>6, <1>8, <1>9

Starts(n, size, B) == B = [p \in 1..(n + 2) |-> (p - 1) * size]
Tile(n, size, B) ==
    /\ \A p \in 1..(n + 2) : B[p] \in Nat /\ p * size = B[p] + size
    /\ \A k \in 1..n : \E p \in 1..(n + 2) : \E i \in 1..size : B[p] + i = k
    /\ \A p, q \in 1..(n + 2) : p < q => B[p] + size <= B[q]
    /\ \A p \in 1..(n + 1) : p + 1 \in 1..(n + 2) /\ B[p + 1] = B[p] + size
LEMMA PagesTile ==
    ASSUME NEW n \in Nat, NEW size \in 1..2, NEW B, Starts(n, size, B)
    PROVE  Tile(n, size, B)
<1>1. CASE size = 1
  <2>1. \A p \in 1..(n + 2) : B[p] = p - 1 /\ p * size = p  BY <1>1 DEF Starts
  <2>2. \A k \in 1..n : k \in 1..(n + 2) /\ 1 \in 1..size /\ B[k] + 1 = k  BY <1>1, <2>1
  <2>3. \A p \in 1..(n + 2) : B[p] \in Nat /\ p * size = B[p] + size  BY <1>1, <2>1
  <2>4. \A k \in 1..n : \E p \in 1..(n + 2) : \E i \in 1..size : B[p] + i = k  BY <2>2
  <2>5. \A p, q \in 1..(n + 2) : p < q => B[p] + size <= B[q]  BY <1>1, <2>1
  <2>6. \A p \in 1..(n + 1) : p + 1 \in 1..(n + 2) /\ B[p + 1] = B[p] + size  BY <1>1, <2>1
  <2> QED  BY <2>3, <2>4, <2>5, <2>6 DEF Tile
<1>2. CASE size = 2
  <2>1. \A p \in 1..(n + 2) : B[p] = 2 * p - 2 /\ p * size = 2 * p  BY <1>2 DEF Starts
  <2>2. ASSUME NEW k \in 1..n PROVE \E p \in 1..(n + 2) : \E i \in 1..size : B[p] + i = k
    <3>1. PICK p \in 1..(n + 2) : k = 2 * p - 1 \/ k = 2 * p
      <4>1. PICK h \in Nat : k = 2 * h - 1 \/ k = 2 * h
        <5>1. (k + 1) \div 2 \in Nat /\ (k = 2 * ((k + 1) \div 2) - 1 \/ k = 2 * ((k + 1) \div 2))  OBVIOUS
        <5> QED  BY <5>1
      <4>2. h \in 1..(n + 2)  BY <4>1
      <4> QED  BY <4>1, <4>2
    <3>2. B[p] + 1 = k \/ B[p] + 2 = k  BY <2>1, <3>1
    <3>3. 1 \in 1..size /\ 2 \in 1..size  BY <1>2
    <3> QED  BY <3>2, <3>3
  <2>3. \A p \in 1..(n + 2) : B[p] \in Nat /\ p * size = B[p] + size  BY <1>2, <2>1
  <2>5. \A p, q \in 1..(n + 2) : p < q => B[p] + size <= B[q]  BY <1>2, <2>1
  <2>6. \A p \in 1..(n + 1) : p + 1 \in 1..(n + 2) /\ B[p + 1] = B[p] + size  BY <1>2, <2>1
  <2> QED  BY <2>2, <2>3, <2>5, <2>6 DEF Tile
<1>3. size = 1 \/ size = 2  OBVIOUS
<1> QED  BY <1>1, <1>2, <1>3

PagesRight(f, pages) ==
    /\ \A c \in box[f] : c.msg \notin Unlisted => \E p \in DOMAIN pages : \E i \in DOMAIN pages[p].emails : pages[p].emails[i] = c.uid
    /\ \A p, q \in DOMAIN pages : \A i \in DOMAIN pages[p].emails, j \in DOMAIN pages[q].emails :
           p < q \/ (p = q /\ i < j) => pages[p].emails[i] > pages[q].emails[j]
    /\ \A p, q \in DOMAIN pages : p < q /\ ~pages[p].has_more => DOMAIN pages[q].emails = {}

LEMMA PagesOf ==
    ASSUME BoxSound, NEW f \in Folders, NEW size \in 1..2
    PROVE  PagesRight(f, [p \in 1..(Cardinality(box[f]) + 2) |-> list_emails(f, p, size)])
<1>1. PICK n, w : n = Cardinality(box[f]) /\ w = Newest(f)  OBVIOUS
<1>2. /\ n \in Nat /\ Len(w) = n /\ DOMAIN w = 1..n
      /\ \A i \in 1..n : w[i] \in Uids(f) /\ w[i] \in Nat
      /\ \A u \in Uids(f) : \E i \in 1..n : w[i] = u
      /\ \A i, j \in 1..n : i < j => w[i] > w[j]
  BY <1>1, NewestFirst
<1>3. PICK B : Starts(n, size, B)  BY DEF Starts
<1>4. /\ \A p \in 1..(n + 2) : B[p] \in Nat /\ p * size = B[p] + size
      /\ \A k \in 1..n : \E p \in 1..(n + 2) : \E i \in 1..size : B[p] + i = k
      /\ \A p, q \in 1..(n + 2) : p < q => B[p] + size <= B[q]
  <2>1. Tile(n, size, B)  BY <1>2, <1>3, PagesTile
  <2> QED  BY <2>1 DEF Tile
<1>5. PICK pages : pages = [p \in 1..(n + 2) |-> list_emails(f, p, size)]  OBVIOUS
<1>6. PICK E : E = [p \in 1..(n + 2) |-> pages[p].emails]  OBVIOUS
<1>7. \A p \in 1..(n + 2) :
         /\ E[p] = pages[p].emails
         /\ E[p] = [i \in {k \in (p - 1) * size + 1 .. p * size : k \in DOMAIN w /\ Listed(f, w[k])} |-> w[i]]
         /\ pages[p].has_more = (p * size < n)
  BY <1>1, <1>2, <1>5, <1>6 DEF list_emails
<1>8. ASSUME NEW p \in 1..(n + 2)
      PROVE  /\ \A i \in DOMAIN E[p] : i \in 1..n /\ B[p] < i /\ i <= B[p] + size /\ E[p][i] = w[i]
             /\ \A i \in 1..n : B[p] < i /\ i <= B[p] + size /\ Listed(f, w[i]) => i \in DOMAIN E[p]
  <2>1. B[p] \in Nat /\ p * size = B[p] + size /\ B[p] = (p - 1) * size  BY <1>3, <1>4 DEF Starts
  <2>2. PICK x, y : x = (p - 1) * size /\ y = p * size  OBVIOUS
  <2>3. E[p] = [i \in {k \in (x + 1)..y : k \in 1..n /\ Listed(f, w[k])} |-> w[i]]  BY <1>2, <1>7, <2>2
  <2>4. x = B[p] /\ y = B[p] + size /\ size \in Nat  BY <2>1, <2>2
  <2>5. PICK K : K = {k \in (x + 1)..y : k \in 1..n /\ Listed(f, w[k])}  OBVIOUS
  <2>6. DOMAIN E[p] = K /\ \A i \in K : E[p][i] = w[i]  BY <2>3, <2>5
  <2>7. \A i \in K : i \in 1..n /\ B[p] < i /\ i <= B[p] + size  BY <1>2, <2>1, <2>4, <2>5
  <2>8. \A i \in 1..n : B[p] < i /\ i <= B[p] + size /\ Listed(f, w[i]) => i \in K  BY <1>2, <2>1, <2>4, <2>5
  <2> QED  BY <2>6, <2>7, <2>8
<1>9. ASSUME NEW c \in box[f], c.msg \notin Unlisted
      PROVE  \E p \in 1..(n + 2) : \E i \in DOMAIN E[p] : E[p][i] = c.uid
  <2>1. PICK k \in 1..n : w[k] = c.uid  BY <1>2 DEF Uids
  <2>2. Listed(f, w[k])  BY <1>9, <2>1 DEF Listed, Found
  <2>3. PICK p \in 1..(n + 2), i \in 1..size : B[p] + i = k  BY <1>4
  <2>4. B[p] < k /\ k <= B[p] + size  BY <1>4, <2>3
  <2>5. k \in DOMAIN E[p]  BY <1>8, <2>2, <2>4
  <2>6. E[p][k] = c.uid  BY <1>8, <2>1, <2>5
  <2> QED  BY <2>5, <2>6
<1>10. ASSUME NEW p \in 1..(n + 2), NEW q \in 1..(n + 2), NEW i \in DOMAIN E[p], NEW j \in DOMAIN E[q],
              p < q \/ (p = q /\ i < j)
       PROVE  E[p][i] > E[q][j]
  <2>1. i \in 1..n /\ i <= B[p] + size /\ E[p][i] = w[i]  BY <1>8
  <2>2. j \in 1..n /\ B[q] < j /\ E[q][j] = w[j]  BY <1>8
  <2>3. i < j
    <3>1. CASE p < q
      <4>1. B[p] + size <= B[q] /\ B[p] \in Nat /\ B[q] \in Nat  BY <1>4, <3>1
      <4> QED  BY <2>1, <2>2, <4>1
    <3> QED  BY <1>10, <3>1
  <2> QED  BY <1>2, <2>1, <2>2, <2>3
<1>11. ASSUME NEW p \in 1..(n + 2), NEW q \in 1..(n + 2), p < q, ~pages[p].has_more
       PROVE  DOMAIN E[q] = {}
  <2>1. B[p] \in Nat /\ B[q] \in Nat /\ p * size = B[p] + size /\ B[p] + size <= B[q]  BY <1>4, <1>11
  <2>2. ~(p * size < n)  BY <1>7, <1>11
  <2>3. n <= B[q]  BY <1>2, <2>1, <2>2
  <2>4. \A i \in DOMAIN E[q] : i \in 1..n /\ B[q] < i  BY <1>8
  <2> QED  BY <1>2, <2>1, <2>3, <2>4
<1>12. DOMAIN pages = 1..(n + 2) /\ \A p \in 1..(n + 2) : pages[p].emails = E[p]  BY <1>5, <1>6
<1>13. ASSUME NEW c \in box[f], c.msg \notin Unlisted
       PROVE  \E p \in DOMAIN pages : \E i \in DOMAIN pages[p].emails : pages[p].emails[i] = c.uid
  <2>1. PICK p \in 1..(n + 2) : \E i \in DOMAIN E[p] : E[p][i] = c.uid  BY <1>9, <1>13
  <2>2. p \in DOMAIN pages /\ pages[p].emails = E[p]  BY <1>12
  <2> QED  BY <2>1, <2>2
<1>14. ASSUME NEW p \in DOMAIN pages, NEW q \in DOMAIN pages, NEW i \in DOMAIN pages[p].emails,
              NEW j \in DOMAIN pages[q].emails, p < q \/ (p = q /\ i < j)
       PROVE  pages[p].emails[i] > pages[q].emails[j]
  <2>1. /\ p \in 1..(n + 2) /\ q \in 1..(n + 2) /\ i \in DOMAIN E[p] /\ j \in DOMAIN E[q]
        /\ pages[p].emails = E[p] /\ pages[q].emails = E[q]
    BY <1>12
  <2>2. E[p][i] > E[q][j]  BY <1>10, <1>14, <2>1
  <2> QED  BY <2>1, <2>2
<1>15. \A p, q \in DOMAIN pages : p < q /\ ~pages[p].has_more => DOMAIN pages[q].emails = {}
  BY <1>11, <1>12
<1>16. PagesRight(f, pages)  BY <1>13, <1>14, <1>15 DEF PagesRight
<1> QED  BY <1>1, <1>5, <1>16

LEMMA AllPages ==
    ASSUME BoxSound
    PROVE  PagesComplete
BY PagesOf DEF PagesComplete, PagesRight

-----------------------------------------------------------------------------
(* Mail is kept: the other steps.                                          *)

\* A copy is marked, by a request of one step or by one that goes on.
LEMMA MarkOnly ==
    ASSUME KeptInv, NEW f \in Folders, NEW u, NEW seen, Mark(f, u, seen), req' = req,
           UNCHANGED <<uidNext, arrived, destroyed, refused, wire>>
    PROVE  KeptInv'
<1>1. BoxSound' /\ \A g \in Folders : \A c \in box[g] : \E d \in box'[g] : d.msg = c.msg /\ d.uid = c.uid /\ d.deleted = c.deleted
  BY Marking DEF KeptInv
<1>2. RequestsCarry'  BY DEF KeptInv, RequestsCarry, Carried
<1>3. ProtectedAsAsked'  BY DEF KeptInv, ProtectedAsAsked
<1>4. ASSUME NEW m \in arrived' \ (destroyed' \cup refused')
      PROVE  \E g \in Folders : \E c \in box'[g] : Safe(m, g, c)'
  <2>1. PICK g, c : g \in Folders /\ c \in box[g] /\ Safe(m, g, c)  BY <1>4 DEF KeptInv, SafeCopies
  <2>2. PICK d \in box'[g] : d.msg = c.msg /\ d.uid = c.uid /\ d.deleted = c.deleted  BY <1>1, <2>1
  <2>3. Safe(m, g, d)'  BY <2>1, <2>2 DEF Safe, Doomed
  <2> QED  BY <2>1, <2>2, <2>3
<1>5. SafeCopies'  BY <1>4 DEF SafeCopies
<1> QED  BY <1>1, <1>2, <1>3, <1>5 DEF KeptInv

LEMMA FetchKeepsMail ==
    ASSUME KeptInv, NEW s \in Slots, FetchPayload(s)
    PROVE  KeptInv'
<1>1. PICK q, r : q = req[s] /\ r = [q EXCEPT !.op = "fire"]  OBVIOUS
<1>2. /\ q.op = "fetch" /\ req' = [req EXCEPT ![s] = r] /\ UNCHANGED <<uidNext, arrived, destroyed, refused, wire>>
      /\ Mark("INBOX", req[s].uid, TRUE) \/ box' = box
  BY <1>1 DEF FetchPayload, At, Step, Goto, sendVars
<1>3. DOMAIN q = {"op", "todo", "uid", "user", "fire"}  BY <1>1, <1>2 DEF KeptInv, RequestsCarry, Carried, InjectOps
<1>4. r.op = "fire" /\ DOMAIN r = {"op", "todo", "uid", "user", "fire"}  BY <1>1, <1>3
<1>5. Carried(r) /\ \A f, u : ~Doomed(r, f, u)  BY <1>4 DEF Carried, Doomed, MoveOps, SendOps
<1>6. CASE box' = box  BY <1>2, <1>5, <1>6, KeptMoves
<1>7. CASE Mark("INBOX", req[s].uid, TRUE)
  <2>1. BoxSound' /\ \A g \in Folders : \A c \in box[g] : \E d \in box'[g] : d.msg = c.msg /\ d.uid = c.uid /\ d.deleted = c.deleted
    BY <1>2, <1>7, Marking DEF KeptInv, Folders
  <2>2. ProtectedAsAsked'  BY <1>2 DEF KeptInv, ProtectedAsAsked
  <2>3. \A g \in Folders : uidNext'[g] >= uidNext[g] /\ uidNext[g] \in Nat /\ uidNext'[g] \in Nat  BY <1>2, UidsKnown
  <2>4. ASSUME NEW m \in arrived' \ (destroyed' \cup refused')
        PROVE  \E g \in Folders : \E c \in box'[g] : SafeFrom(m, g, c, s) /\ ~Doomed(r, g, c.uid)
    <3>1. PICK g, c : g \in Folders /\ c \in box[g] /\ Safe(m, g, c)  BY <1>2, <2>4 DEF KeptInv, SafeCopies
    <3>2. PICK d \in box'[g] : d.msg = c.msg /\ d.uid = c.uid /\ d.deleted = c.deleted  BY <2>1, <3>1
    <3>3. SafeFrom(m, g, d, s)  BY <3>1, <3>2 DEF Safe, SafeFrom
    <3> QED  BY <1>5, <3>1, <3>2, <3>3
  <2> QED  BY <1>2, <1>5, <2>1, <2>2, <2>3, <2>4, KeptStep
<1> QED  BY <1>2, <1>6, <1>7

\* A message comes into a folder.
LEMMA ArrivalKeeps ==
    ASSUME KeptInv, NEW s \in Slots, NEW r, req' = [req EXCEPT ![s] = r], Carried(r), \A f, u : ~Doomed(r, f, u),
           NEW f \in Folders, NEW m, Put(f, Fresh(m)), arrived' = arrived \cup {m},
           UNCHANGED <<destroyed, refused>>, ProtectedAsAsked'
    PROVE  KeptInv'
<1>1. PICK c : c = Fresh(m)  OBVIOUS
<1>2. DOMAIN c = Copied /\ c.msg = m /\ ~c.deleted /\ Put(f, c)  BY <1>1 DEF Fresh, Copied
<1>3. /\ BoxSound' /\ \A g \in Folders : box[g] \subseteq box'[g]
      /\ \A g \in Folders : uidNext'[g] >= uidNext[g] /\ uidNext[g] \in Nat /\ uidNext'[g] \in Nat
      /\ \E d \in box'[f] : d.msg = c.msg /\ d.uid = uidNext[f] /\ d.deleted = c.deleted
  BY <1>2, Putting DEF KeptInv
<1>4. ASSUME NEW k \in arrived' \ (destroyed' \cup refused')
      PROVE  \E g \in Folders : \E x \in box'[g] : SafeFrom(k, g, x, s) /\ ~Doomed(r, g, x.uid)
  <2>1. CASE k = m
    <3>1. PICK d \in box'[f] : d.msg = m /\ d.uid = uidNext[f] /\ ~d.deleted  BY <1>2, <1>3
    <3>2. \A t \in Slots : ~Doomed(req[t], f, d.uid)  BY <3>1, FreshNotDoomed
    <3> QED  BY <2>1, <3>1, <3>2 DEF SafeFrom
  <2>2. CASE k # m
    <3>1. k \in arrived \ (destroyed \cup refused)  BY <1>4, <2>2
    <3>2. PICK g, x : g \in Folders /\ x \in box[g] /\ Safe(k, g, x)  BY <3>1 DEF KeptInv, SafeCopies
    <3>3. SafeFrom(k, g, x, s)  BY <3>2 DEF Safe, SafeFrom
    <3> QED  BY <1>3, <3>2, <3>3
  <2> QED  BY <2>1, <2>2
<1> QED  BY <1>3, <1>4, KeptStep

LEMMA InjectKeepsMail ==
    ASSUME KeptInv, NEW s \in Slots, inject_email(s)
    PROVE  KeptInv'
<1>1. PICK q, r : q = req[s] /\ r = [q EXCEPT !.op = "owner", !.uid = uidNext["INBOX"]]  OBVIOUS
<1>2. /\ q.op = "append" /\ req' = [req EXCEPT ![s] = r] /\ UNCHANGED <<destroyed, refused, wire>>
      /\ Put("INBOX", Fresh(Head(q.todo))) /\ arrived' = arrived \cup {Head(q.todo)}
  BY <1>1 DEF inject_email, At, Goto, sendVars
<1>3. DOMAIN q = {"op", "todo", "uid", "user", "fire"}  BY <1>1, <1>2 DEF KeptInv, RequestsCarry, Carried, InjectOps
<1>4. r.op = "owner" /\ DOMAIN r = {"op", "todo", "uid", "user", "fire"}  BY <1>1, <1>3
<1>5. Carried(r) /\ \A f, u : ~Doomed(r, f, u)  BY <1>4 DEF Carried, Doomed, MoveOps, SendOps
<1>6. ProtectedAsAsked'  BY <1>2 DEF KeptInv, ProtectedAsAsked
<1>7. "INBOX" \in Folders  BY DEF Folders
<1> QED  BY <1>2, <1>5, <1>6, <1>7, ArrivalKeeps

\* What is handed to Postfix has passed both steps.
LEMMA SubmitKeeps ==
    ASSUME KeptInv, NEW s \in Slots, Submit(s)
    PROVE  KeptInv'
<1>1. PICK q : q = req[s]  OBVIOUS
<1>2. /\ q.op = "submit" /\ req' = [req EXCEPT ![s] = Idle] /\ UNCHANGED <<destroyed, refused>>
      /\ Put("Sent", Fresh(q.msg)) /\ arrived' = arrived \cup {q.msg}
      /\ wire' = wire \cup {[msg |-> q.msg, asked |-> q.asked, has |-> q.has]}
  BY <1>1 DEF Submit, At, End, Goto
<1>3. q.asked \subseteq q.has  BY <1>1, <1>2 DEF KeptInv, RequestsCarry, Carried
<1>4. ProtectedAsAsked'  BY <1>2, <1>3 DEF KeptInv, ProtectedAsAsked
<1>5. "Sent" \in Folders  BY DEF Folders
<1> QED  BY <1>2, <1>4, <1>5, IdleCarries, ArrivalKeeps

LEMMA ProtectKeeps ==
    ASSUME KeptInv, NEW s \in Slots, NEW op, NEW then, Protect(s, op, then),
           \/ op = "sign" /\ then = "encrypt"
           \/ op = "encrypt" /\ then = "submit"
    PROVE  KeptInv'
<1>1. PICK q : q = req[s]  OBVIOUS
<1>2. /\ q.op = op /\ UNCHANGED <<box, uidNext, arrived, destroyed, wire, refused>>
      /\ \/ op \notin q.asked /\ req' = [req EXCEPT ![s] = [q EXCEPT !.op = then]]
         \/ op \in q.asked /\ req' = [req EXCEPT ![s] = [q EXCEPT !.op = then, !.has = @ \cup {op}]]
         \/ req' = [req EXCEPT ![s] = Idle]
  BY <1>1 DEF Protect, At, Step, Goto, End, mailVars
<1>3. /\ DOMAIN q = {"op", "msg", "asked", "has"} /\ q.asked \subseteq Protections
      /\ op = "encrypt" => q.asked \ {"encrypt"} \subseteq q.has
  BY <1>1, <1>2 DEF KeptInv, RequestsCarry, Carried, SendOps
<1>4. ASSUME NEW r, DOMAIN r = {"op", "msg", "asked", "has"}, r.op = then, r.asked = q.asked,
             q.has \subseteq r.has, op \in q.asked => op \in r.has
      PROVE  Carried(r) /\ \A f, u : ~Doomed(r, f, u)
  <2>1. CASE op = "sign" /\ then = "encrypt"
    <3>1. r.asked \ {"encrypt"} \subseteq r.has  BY <1>3, <1>4, <2>1 DEF Protections
    <3> QED  BY <1>3, <1>4, <2>1, <3>1 DEF Carried, Doomed, MoveOps, InjectOps
  <2>2. CASE op = "encrypt" /\ then = "submit"
    <3>1. r.asked \subseteq r.has  BY <1>3, <1>4, <2>2
    <3> QED  BY <1>3, <1>4, <2>2, <3>1 DEF Carried, Doomed, MoveOps, InjectOps
  <2> QED  BY <2>1, <2>2
<1>5. CASE op \notin q.asked /\ req' = [req EXCEPT ![s] = [q EXCEPT !.op = then]]
  <2>1. PICK r : r = [q EXCEPT !.op = then]  OBVIOUS
  <2>2. DOMAIN r = {"op", "msg", "asked", "has"} /\ r.op = then /\ r.asked = q.asked /\ r.has = q.has  BY <1>3, <2>1
  <2>3. Carried(r) /\ \A f, u : ~Doomed(r, f, u)  BY <1>4, <1>5, <2>2
  <2>4. req' = [req EXCEPT ![s] = r]  BY <1>5, <2>1
  <2> QED  BY <1>2, <2>3, <2>4, KeptMoves
<1>6. CASE op \in q.asked /\ req' = [req EXCEPT ![s] = [q EXCEPT !.op = then, !.has = @ \cup {op}]]
  <2>1. PICK r : r = [q EXCEPT !.op = then, !.has = @ \cup {op}]  OBVIOUS
  <2>2. DOMAIN r = {"op", "msg", "asked", "has"} /\ r.op = then /\ r.asked = q.asked /\ r.has = q.has \cup {op}  BY <1>3, <2>1
  <2>3. Carried(r) /\ \A f, u : ~Doomed(r, f, u)  BY <1>4, <1>6, <2>2
  <2>4. req' = [req EXCEPT ![s] = r]  BY <1>6, <2>1
  <2> QED  BY <1>2, <2>3, <2>4, KeptMoves
<1>7. CASE req' = [req EXCEPT ![s] = Idle]  BY <1>2, <1>7, IdleCarries, KeptMoves
<1> QED  BY <1>2, <1>5, <1>6, <1>7

\* Purging: what it flags is deleted on purpose.
LEMMA Purging ==
    ASSUME KeptInv, NEW s \in Slots, req[s].op \in PurgeOps
    PROVE  /\ req[s].todo \in Seq(Folders) /\ req[s].todo # <<>> /\ Head(req[s].todo) \in Folders
           /\ req[s].op # "search" => req[s] \in [op : PurgeOps, todo : Seq(Folders), uids : SUBSET Nat]
<1>1. PICK w : w = req[s].todo  OBVIOUS
<1>2. w \in Seq(Folders) /\ w # <<>>  BY <1>1 DEF KeptInv, RequestsCarry, Carried, PurgeOps
<1>3. Head(w) \in Folders
  <2>1. Len(w) \in Nat /\ Len(w) # 0 /\ DOMAIN w = 1..Len(w) /\ Head(w) = w[1]  BY <1>2
  <2> QED  BY <1>2, <2>1
<1>4. req[s].op # "search" => req[s] \in [op : PurgeOps, todo : Seq(Folders), uids : SUBSET Nat]
  BY DEF KeptInv, RequestsCarry, Carried, PurgeOps
<1> QED  BY <1>1, <1>2, <1>3, <1>4

LEMMA PurgeSearchKeeps ==
    ASSUME KeptInv, NEW s \in Slots, PurgeSearch(s)
    PROVE  KeptInv'
<1>1. PICK w, uids : w = req[s].todo /\ uids = Uids(Head(w))  OBVIOUS
<1>2. req[s].op = "search" /\ req[s].op \in PurgeOps /\ UNCHANGED <<box, uidNext, arrived, destroyed, wire, refused>>
  BY DEF PurgeSearch, At, mailVars, PurgeOps
<1>3. w \in Seq(Folders) /\ w # <<>> /\ Head(w) \in Folders  BY <1>1, <1>2, Purging
<1>4. CASE uids = {}
  <2>1. Skip(s)  BY <1>1, <1>4 DEF PurgeSearch
  <2>2. PICK r : req' = [req EXCEPT ![s] = r] /\ Carried(r) /\ \A f, u : ~Doomed(r, f, u)  BY <1>2, <2>1, SkipCarries
  <2> QED  BY <1>2, <2>2, KeptMoves
<1>5. CASE uids # {}
  <2>1. PICK r : r = [op |-> "purge_store", todo |-> w, uids |-> uids]  OBVIOUS
  <2>2. req' = [req EXCEPT ![s] = r]  BY <1>1, <1>5, <2>1 DEF PurgeSearch, Goto
  <2>3. uids \in SUBSET Nat  BY <1>1, <1>3, UidsFinite DEF KeptInv
  <2>4. r \in [op : PurgeOps, todo : Seq(Folders), uids : SUBSET Nat] /\ r.op = "purge_store" /\ r.todo = w
    BY <1>3, <2>1, <2>3 DEF PurgeOps
  <2>5. Carried(r) /\ \A f, u : ~Doomed(r, f, u)  BY <1>3, <2>4 DEF Carried, Doomed, MoveOps, SendOps, InjectOps
  <2> QED  BY <1>2, <2>2, <2>5, KeptMoves
<1> QED  BY <1>4, <1>5

LEMMA PurgeStoreKeeps ==
    ASSUME KeptInv, NEW s \in Slots, PurgeStore(s)
    PROVE  KeptInv'
<1>1. PICK q, f, r : q = req[s] /\ f = Head(q.todo) /\ r = [q EXCEPT !.op = "purge_expunge"]  OBVIOUS
<1>2. /\ q.op = "purge_store" /\ req' = [req EXCEPT ![s] = r] /\ UNCHANGED <<uidNext, arrived, refused, wire>>
      /\ box' = [box EXCEPT ![f] = Flagged(f, q.uids)]
      /\ destroyed' = destroyed \cup {c.msg : c \in {d \in box[f] : d.uid \in q.uids}}
  BY <1>1 DEF PurgeStore, At, Step, Goto, sendVars
<1>3. /\ f \in Folders /\ q.todo # <<>> /\ q \in [op : PurgeOps, todo : Seq(Folders), uids : SUBSET Nat]
  <2>1. req[s].op \in PurgeOps /\ req[s].op # "search"  BY <1>1, <1>2 DEF PurgeOps
  <2> QED  BY <1>1, <2>1, Purging
<1>4. r \in [op : PurgeOps, todo : Seq(Folders), uids : SUBSET Nat] /\ r.op = "purge_expunge" /\ r.todo = q.todo
  BY <1>1, <1>3 DEF PurgeOps
<1>5. Carried(r) /\ \A g, u : ~Doomed(r, g, u)  BY <1>3, <1>4 DEF Carried, Doomed, MoveOps, SendOps, InjectOps
<1>6. BoxSound' /\ \A g \in Folders : \A c \in box[g] : g # f \/ c.uid \notin q.uids => c \in box'[g]
  BY <1>2, <1>3, Flagging DEF KeptInv
<1>7. ProtectedAsAsked'  BY <1>2 DEF KeptInv, ProtectedAsAsked
<1>8. \A g \in Folders : uidNext'[g] >= uidNext[g] /\ uidNext[g] \in Nat /\ uidNext'[g] \in Nat  BY <1>2, UidsKnown
<1>9. ASSUME NEW m \in arrived' \ (destroyed' \cup refused')
      PROVE  \E g \in Folders : \E c \in box'[g] : SafeFrom(m, g, c, s) /\ ~Doomed(r, g, c.uid)
  <2>1. m \in arrived \ (destroyed \cup refused)  BY <1>2, <1>9
  <2>2. PICK g, c : g \in Folders /\ c \in box[g] /\ Safe(m, g, c)  BY <2>1 DEF KeptInv, SafeCopies
  <2>3. SafeFrom(m, g, c, s) /\ c.msg = m  BY <2>2 DEF Safe, SafeFrom
  <2>4. g # f \/ c.uid \notin q.uids
    <3> SUFFICES ASSUME g = f, c.uid \in q.uids PROVE FALSE  OBVIOUS
    <3>1. m \in destroyed'  BY <1>2, <2>2, <2>3
    <3> QED  BY <1>9, <3>1
  <2> QED  BY <1>5, <1>6, <2>2, <2>3, <2>4
<1> QED  BY <1>2, <1>5, <1>6, <1>7, <1>8, <1>9, KeptStep

LEMMA PurgeExpungeKeeps ==
    ASSUME KeptInv, NEW s \in Slots, PurgeExpunge(s)
    PROVE  KeptInv'
<1>1. PICK f : f = Head(req[s].todo)  OBVIOUS
<1>2. /\ req[s].op \in PurgeOps /\ Skip(s) /\ UNCHANGED <<uidNext, arrived, destroyed, refused, wire>>
      /\ box' = [box EXCEPT ![f] = {c \in @ : ~c.deleted}]
  BY <1>1 DEF PurgeExpunge, At, sendVars, PurgeOps
<1>3. f \in Folders  BY <1>1, <1>2, Purging
<1>4. box' = [box EXCEPT ![f] = {c \in box[f] : ~c.deleted}]  BY <1>2, <1>3 DEF KeptInv, BoxSound
<1>5. PICK r : req' = [req EXCEPT ![s] = r] /\ Carried(r) /\ \A g, u : ~Doomed(r, g, u)  BY <1>2, SkipCarries
<1> QED  BY <1>2, <1>3, <1>4, <1>5, ExpungeKeeps

LEMMA MoveExpungeKeeps ==
    ASSUME KeptInv, NEW s \in Slots, Expunge(s)
    PROVE  KeptInv'
<1>1. PICK f : f = req[s].folder  OBVIOUS
<1>2. /\ req[s].op \in MoveOps /\ NextUid(s) /\ UNCHANGED <<uidNext, arrived, destroyed, refused, wire>>
      /\ box' = [box EXCEPT ![f] = {c \in @ : ~c.deleted}]
  BY <1>1 DEF Expunge, At, sendVars, MoveOps
<1>3. f \in Folders  BY <1>1, <1>2, CarriedUids
<1>4. box' = [box EXCEPT ![f] = {c \in box[f] : ~c.deleted}]  BY <1>2, <1>3 DEF KeptInv, BoxSound
<1>5. PICK r : req' = [req EXCEPT ![s] = r] /\ Carried(r) /\ \A g, u : ~Doomed(r, g, u)  BY <1>2, NextUidCarries
<1> QED  BY <1>2, <1>3, <1>4, <1>5, ExpungeKeeps

\* Requests begin.
LEMMA BeginMove ==
    ASSUME KeptInv, NEW s \in Slots, NEW op, NEW f \in Folders, NEW target \in Folders, NEW w,
           op = "copy" \/ (op = "store" /\ f = "Trash" /\ target = "Trash"),
           w \in Seq(Nat), w # <<>>, \A i \in DOMAIN w : w[i] \in Uids(f),
           Begin(s, Command(op, f, target, w)), UNCHANGED mailVars
    PROVE  KeptInv'
<1>1. PICK r : r = Command(op, f, target, w)  OBVIOUS
<1>2. req' = [req EXCEPT ![s] = r] /\ UNCHANGED <<box, uidNext, arrived, destroyed, wire, refused>>  BY <1>1 DEF Begin, mailVars
<1>3. r = [op |-> op, folder |-> f, target |-> target, uids |-> w] /\ op \in {"copy", "store"}  BY <1>1 DEF Command
<1>4. r \in [op : MoveOps, folder : Folders, target : Folders, uids : Seq(Nat)] /\ r.op = op /\ r.folder = f /\ r.target = target /\ r.uids = w
  BY <1>3 DEF MoveOps
<1>5. \A i \in DOMAIN w : w[i] < uidNext[f]
  <2>1. \A u \in Uids(f) : u < uidNext[f]  BY UidsFinite DEF KeptInv
  <2> QED  BY <2>1
<1>6. Carried(r)  BY <1>3, <1>4, <1>5 DEF Carried, InjectOps, SendOps
<1>7. \A g, u : ~Doomed(r, g, u)  BY <1>3, <1>4 DEF Doomed
<1> QED  BY <1>2, <1>6, <1>7, KeptMoves

LEMMA OneUid ==
    ASSUME NEW f, NEW u \in Nat, u \in Uids(f)
    PROVE  \A w : w = <<u>> => w \in Seq(Nat) /\ w # <<>> /\ \A i \in DOMAIN w : w[i] \in Uids(f)
OBVIOUS

LEMMA MoveKeeps ==
    ASSUME KeptInv, NEW s \in Slots, NEW f \in Folders, NEW target \in Folders, NEW u \in Uids(f),
           move_email_to_folder(s, f, u, target)
    PROVE  KeptInv'
<1>1. u \in Nat  BY UidsFinite DEF KeptInv
<1>2. PICK w : w = <<u>>  OBVIOUS
<1>3. w \in Seq(Nat) /\ w # <<>> /\ \A i \in DOMAIN w : w[i] \in Uids(f)  BY <1>1, <1>2, OneUid
<1>4. PICK op : op = "copy"  OBVIOUS
<1>5. Begin(s, Command(op, f, target, w)) /\ UNCHANGED mailVars  BY <1>2, <1>4 DEF move_email_to_folder
<1> QED  BY <1>3, <1>4, <1>5, BeginMove

LEMMA BulkDeleteKeeps ==
    ASSUME KeptInv, NEW s \in Slots, NEW f \in Folders, NEW w, box[f] # {},
           w = Newest(f) \/ \E u \in Uids(f) : w = <<u>>, bulk_delete_emails(s, f, w)
    PROVE  KeptInv'
<1>1. w \in Seq(Nat) /\ w # <<>> /\ \A i \in DOMAIN w : w[i] \in Uids(f)
  <2>1. CASE w = Newest(f)
    <3>1. PICK n : n = Cardinality(box[f])  OBVIOUS
    <3>2. n \in Nat /\ w \in Seq(Nat) /\ Len(w) = n /\ DOMAIN w = 1..n /\ \A i \in 1..n : w[i] \in Uids(f)
      BY <2>1, <3>1, NewestFirst DEF KeptInv
    <3>3. n # 0  BY <3>1, FS_EmptySet DEF KeptInv, BoxSound, FolderSound
    <3>4. Len(<<>>) = 0  OBVIOUS
    <3> QED  BY <3>2, <3>3, <3>4
  <2>2. CASE \E u \in Uids(f) : w = <<u>>
    <3>1. PICK u \in Uids(f) : w = <<u>>  BY <2>2
    <3>2. u \in Nat  BY UidsFinite DEF KeptInv
    <3> QED  BY <3>1, <3>2, OneUid
  <2> QED  BY <2>1, <2>2
<1>2. PICK op, target : op = (IF f = "Trash" THEN "store" ELSE "copy") /\ target = "Trash"  OBVIOUS
<1>3. target \in Folders /\ (op = "copy" \/ (op = "store" /\ f = "Trash" /\ target = "Trash"))  BY <1>2 DEF Folders
<1>4. Begin(s, Command(op, f, target, w)) /\ UNCHANGED mailVars  BY <1>2 DEF bulk_delete_emails, delete_email
<1> QED  BY <1>1, <1>3, <1>4, BeginMove

LEMMA PurgeKeeps ==
    ASSUME KeptInv, NEW s \in Slots, purge_mailbox(s)
    PROVE  KeptInv'
<1>1. PICK a, b, c, d : /\ a = IF box["INBOX"] # {} THEN <<"INBOX">> ELSE <<>>
                        /\ b = IF box["Junk"] # {} THEN <<"Junk">> ELSE <<>>
                        /\ c = IF box["Trash"] # {} THEN <<"Trash">> ELSE <<>>
                        /\ d = IF box["Sent"] # {} THEN <<"Sent">> ELSE <<>>
  OBVIOUS
<1>2. PICK w : w = a \o b \o c \o d  OBVIOUS
<1>3. w # <<>> /\ Begin(s, [op |-> "search", todo |-> w]) /\ UNCHANGED <<box, uidNext, arrived, destroyed, wire, refused>>
  BY <1>1, <1>2 DEF purge_mailbox, mailVars
<1>4. w \in Seq(Folders)
  <2>1. "INBOX" \in Folders /\ "Junk" \in Folders /\ "Trash" \in Folders /\ "Sent" \in Folders  BY DEF Folders
  <2>2. \A f \in Folders : <<f>> \in Seq(Folders)  OBVIOUS
  <2>3. <<>> \in Seq(Folders)  OBVIOUS
  <2>4. <<>> \in Seq(Folders) /\ <<"INBOX">> \in Seq(Folders) /\ <<"Junk">> \in Seq(Folders) /\ <<"Trash">> \in Seq(Folders) /\ <<"Sent">> \in Seq(Folders)
    BY <2>1, <2>2, <2>3
  <2>5. a \in Seq(Folders)  BY <1>1, <2>4
  <2>6. b \in Seq(Folders)  BY <1>1, <2>4
  <2>7. c \in Seq(Folders)  BY <1>1, <2>4
  <2>8. d \in Seq(Folders)  BY <1>1, <2>4
  <2> QED  BY <1>2, <2>5, <2>6, <2>7, <2>8
<1>5. PICK r : r = [op |-> "search", todo |-> w]  OBVIOUS
<1>6. req' = [req EXCEPT ![s] = r]  BY <1>3, <1>5 DEF Begin
<1>7. r.op = "search" /\ r.todo = w /\ r \in [op : PurgeOps, todo : Seq(Folders)]  BY <1>4, <1>5 DEF PurgeOps
<1>8. Carried(r) /\ \A f, u : ~Doomed(r, f, u)  BY <1>3, <1>7 DEF Carried, Doomed, MoveOps, SendOps, InjectOps
<1> QED  BY <1>3, <1>6, <1>8, KeptMoves

\* Steps that leave the folders alone.
LEMMA Elsewhere ==
    ASSUME KeptInv, NEW s \in Slots, UNCHANGED <<box, uidNext, arrived, destroyed, wire, refused>>,
           \E r : req' = [req EXCEPT ![s] = r] /\ Carried(r) /\ \A f, u : ~Doomed(r, f, u)
    PROVE  KeptInv'
<1>1. PICK r : req' = [req EXCEPT ![s] = r] /\ Carried(r) /\ \A f, u : ~Doomed(r, f, u)  OBVIOUS
<1> QED  BY <1>1, KeptMoves

LEMMA InjectForm ==
    ASSUME NEW r, r.op \in InjectOps, DOMAIN r = {"op", "todo", "uid", "user", "fire"}
    PROVE  Carried(r) /\ \A f, u : ~Doomed(r, f, u)
BY DEF Carried, Doomed, MoveOps, InjectOps, SendOps

LEMMA InjectingForm ==
    ASSUME KeptInv, NEW s \in Slots, req[s].op \in InjectOps
    PROVE  DOMAIN req[s] = {"op", "todo", "uid", "user", "fire"}
BY DEF KeptInv, RequestsCarry, Carried, InjectOps

LEMMA EventKeeps ==
    ASSUME KeptInv, NEW s \in Slots,
           InjectFails(s) \/ process_incoming_email(s) \/ SelectRules(s) \/ \E net \in {"ok", "error", "private"} : Fire(s, net)
    PROVE  KeptInv'
<1>1. UNCHANGED <<box, uidNext, arrived, destroyed, wire, refused>>
  BY DEF InjectFails, process_incoming_email, SelectRules, Fire, mailVars, folderVars, sendVars
<1>2. CASE NextInject(s)  BY <1>1, <1>2, NextInjectCarries, Elsewhere
<1>3. CASE ~NextInject(s)
  <2>1. PICK q : q = req[s]  OBVIOUS
  <2>2. q.op \in InjectOps /\ DOMAIN q = {"op", "todo", "uid", "user", "fire"}
    <3>1. q.op \in InjectOps  BY <2>1 DEF InjectFails, process_incoming_email, SelectRules, Fire, At, InjectOps
    <3> QED  BY <2>1, <3>1, InjectingForm
  <2>3. CASE process_incoming_email(s)
    <3>1. PICK r : r = [q EXCEPT !.op = "rules", !.user = owner]  OBVIOUS
    <3>2. req' = [req EXCEPT ![s] = r]  BY <1>3, <2>1, <2>3, <3>1 DEF process_incoming_email, Handled, Goto
    <3>3. r.op = "rules" /\ DOMAIN r = {"op", "todo", "uid", "user", "fire"}  BY <2>2, <3>1
    <3>4. Carried(r) /\ \A f, u : ~Doomed(r, f, u)  BY <3>3, InjectForm DEF InjectOps
    <3> QED  BY <1>1, <3>2, <3>4, Elsewhere
  <2>4. CASE SelectRules(s)
    <3>1. PICK fire : fire = {<<r, rules[r]>> : r \in Eligible(q.user, Head(q.todo))}  OBVIOUS
    <3>2. PICK r : r = [q EXCEPT !.op = "fetch", !.fire = fire]  OBVIOUS
    <3>3. req' = [req EXCEPT ![s] = r]  BY <1>3, <2>1, <2>4, <3>1, <3>2 DEF SelectRules, Handled, Goto
    <3>4. r.op = "fetch" /\ DOMAIN r = {"op", "todo", "uid", "user", "fire"}  BY <2>2, <3>2
    <3>5. Carried(r) /\ \A f, u : ~Doomed(r, f, u)  BY <3>4, InjectForm DEF InjectOps
    <3> QED  BY <1>1, <3>3, <3>5, Elsewhere
  <2>5. CASE \E net \in {"ok", "error", "private"} : Fire(s, net)
    <3>1. PICK x : req' = [req EXCEPT ![s] = [q EXCEPT !.fire = @ \ {x}]]  BY <1>3, <2>1, <2>5 DEF Fire, Handled, Goto
    <3>2. PICK r : r = [q EXCEPT !.fire = @ \ {x}]  OBVIOUS
    <3>3. r.op = q.op /\ DOMAIN r = {"op", "todo", "uid", "user", "fire"}  BY <2>2, <3>2
    <3>4. Carried(r) /\ \A f, u : ~Doomed(r, f, u)  BY <2>2, <3>3, InjectForm
    <3> QED  BY <1>1, <3>1, <3>2, <3>4, Elsewhere
  <2> QED  BY <1>3, <2>3, <2>4, <2>5 DEF InjectFails
<1> QED  BY <1>2, <1>3

LEMMA StartKeeps ==
    ASSUME KeptInv, NEW s \in Slots,
           \/ \E n \in 1..2 : bulk_inject(s, n)
           \/ \E asks \in {{}, {"sign", "encrypt"}} : send_email(s, asks)
           \/ \E r \in RuleIds, change \in Changes : update_rule(s, r, change)
    PROVE  KeptInv'
<1>1. UNCHANGED <<box, uidNext, arrived, destroyed, wire, refused>>
  BY DEF bulk_inject, send_email, update_rule, NewMail, mailVars, sendVars
<1>2. CASE \E n \in 1..2 : bulk_inject(s, n)
  <2>1. PICK n \in 1..2 : bulk_inject(s, n)  BY <1>2
  <2>2. PICK r : r = [op |-> "append", todo |-> [i \in 1..n |-> issued + i], uid |-> 0, user |-> Gone, fire |-> {}]  OBVIOUS
  <2>3. req' = [req EXCEPT ![s] = r] /\ r.op = "append" /\ DOMAIN r = {"op", "todo", "uid", "user", "fire"}
    BY <2>1, <2>2 DEF bulk_inject, Begin
  <2>4. Carried(r) /\ \A f, u : ~Doomed(r, f, u)  BY <2>3, InjectForm DEF InjectOps
  <2> QED  BY <1>1, <2>3, <2>4, Elsewhere
<1>3. CASE \E asks \in {{}, {"sign", "encrypt"}} : send_email(s, asks)
  <2>1. PICK asks \in {{}, {"sign", "encrypt"}} : send_email(s, asks)  BY <1>3
  <2>2. PICK r : r = [op |-> "sign", msg |-> issued + 1, asked |-> asks, has |-> {}]  OBVIOUS
  <2>3. req' = [req EXCEPT ![s] = r]  BY <2>1, <2>2 DEF send_email, Begin
  <2>4. r.op = "sign" /\ DOMAIN r = {"op", "msg", "asked", "has"} /\ r.asked \subseteq Protections  BY <2>2 DEF Protections
  <2>5. Carried(r) /\ \A f, u : ~Doomed(r, f, u)  BY <2>4 DEF Carried, Doomed, MoveOps, InjectOps
  <2> QED  BY <1>1, <2>3, <2>5, Elsewhere
<1>4. CASE \E r \in RuleIds, change \in Changes : update_rule(s, r, change)
  <2>1. PICK rule \in RuleIds, change \in Changes : update_rule(s, rule, change)  BY <1>4
  <2>2. PICK r : r = [op |-> "update", rule |-> rule, change |-> change]  OBVIOUS
  <2>3. req' = [req EXCEPT ![s] = r] /\ r.op = "update"  BY <2>1, <2>2 DEF update_rule, Begin
  <2>4. Carried(r) /\ \A f, u : ~Doomed(r, f, u)  BY <2>3 DEF Carried, Doomed, MoveOps, InjectOps, SendOps
  <2> QED  BY <1>1, <2>3, <2>4, Elsewhere
<1> QED  BY <1>2, <1>3, <1>4

LEMMA EndKeeps ==
    ASSUME KeptInv, NEW s \in Slots, Abandon(s) \/ CommitRule(s) \/ DeleteFails(s)
    PROVE  KeptInv'
<1>1. UNCHANGED <<box, uidNext, arrived, destroyed, wire, refused>>
  BY DEF Abandon, CommitRule, DeleteFails, mailVars, folderVars, sendVars
<1>2. CASE DeleteFails(s)
  <2>1. req[s].op \in MoveOps /\ NextUid(s)  BY <1>2 DEF DeleteFails, MoveOps
  <2> QED  BY <1>1, <2>1, NextUidCarries, Elsewhere
<1>3. CASE Abandon(s) \/ CommitRule(s)
  <2>1. req' = [req EXCEPT ![s] = Idle]  BY <1>3 DEF Abandon, CommitRule, End, Goto
  <2> QED  BY <1>1, <2>1, IdleCarries, Elsewhere
<1> QED  BY <1>2, <1>3

LEMMA ServeKeeps ==
    ASSUME KeptInv,
           \/ \E r \in RuleIds, user \in Owners, shape \in Shapes : create_rule(r, user, shape, "webhook")
           \/ \E r \in RuleIds : delete_rule(r)
           \/ \E user \in Owners \cup {Gone} : ChangeOwner(user)
           \/ \E set \in {{"sign"}, {"sign", "encrypt"}} : ChangeKeys(set)
    PROVE  KeptInv'
<1>1. req' = req /\ UNCHANGED <<box, uidNext, arrived, destroyed, refused, wire>>
  BY DEF create_rule, delete_rule, ChangeOwner, ChangeKeys, Serve, folderVars, sendVars
<1> QED  BY <1>1, KeptSame

LEMMA ReadKeeps ==
    ASSUME KeptInv, NEW f \in Folders, NEW u, get_email(f, u) \/ set_email_flags(f, u, FALSE)
    PROVE  KeptInv'
<1>1. /\ req' = req /\ UNCHANGED <<uidNext, arrived, destroyed, refused, wire>>
      /\ \E seen \in BOOLEAN : Mark(f, u, seen)
  BY DEF get_email, set_email_flags, Serve, sendVars
<1>2. PICK seen \in BOOLEAN : Mark(f, u, seen)  BY <1>1
<1> QED  BY <1>1, <1>2, MarkOnly

LEMMA KeptSteps ==
    ASSUME KeptInv, MailNext \/ ForwardNext
    PROVE  KeptInv'
<1>1. CASE ForwardNext
  <2>1. ASSUME NEW s \in Slots, NEW n \in 1..2, bulk_inject(s, n) PROVE KeptInv'  BY <2>1, StartKeeps
  <2>2. ASSUME NEW s \in Slots, inject_email(s) PROVE KeptInv'  BY <2>2, InjectKeepsMail
  <2>3. ASSUME NEW s \in Slots, InjectFails(s) \/ process_incoming_email(s) \/ SelectRules(s) PROVE KeptInv'  BY <2>3, EventKeeps
  <2>4. ASSUME NEW s \in Slots, FetchPayload(s) PROVE KeptInv'  BY <2>4, FetchKeepsMail
  <2>5. ASSUME NEW s \in Slots, Abandon(s) \/ CommitRule(s) PROVE KeptInv'  BY <2>5, EndKeeps
  <2>6. ASSUME NEW s \in Slots, NEW net \in {"ok", "error", "private"}, Fire(s, net) PROVE KeptInv'  BY <2>6, EventKeeps
  <2>7. ASSUME NEW s \in Slots, NEW r \in RuleIds, NEW change \in Changes, update_rule(s, r, change) PROVE KeptInv'  BY <2>7, StartKeeps
  <2>8. CASE \/ \E r \in RuleIds, user \in Owners, shape \in Shapes : create_rule(r, user, shape, "webhook")
             \/ \E r \in RuleIds : delete_rule(r)
             \/ \E user \in Owners \cup {Gone} : ChangeOwner(user)
    BY <2>8, ServeKeeps
  <2> QED  BY <1>1, <2>1, <2>2, <2>3, <2>4, <2>5, <2>6, <2>7, <2>8 DEF ForwardNext
<1>2. CASE MailNext
  <2>0. "INBOX" \in Folders /\ "Junk" \in Folders /\ "Trash" \in Folders /\ Folder \subseteq Folders  BY DEF Folders, Folder
  <2>1. ASSUME NEW s \in Slots, NEW f \in {"INBOX", "Trash"}, NEW u \in Uids(f), mark_email_as_spam(s, f, u) PROVE KeptInv'
    <3>1. move_email_to_folder(s, f, u, "Junk") /\ f \in Folders  BY <2>0, <2>1 DEF mark_email_as_spam
    <3> QED  BY <2>0, <2>1, <3>1, MoveKeeps
  <2>2. ASSUME NEW s \in Slots, NEW u \in Uids("Junk"), mark_email_as_not_spam(s, u) PROVE KeptInv'
    <3>1. move_email_to_folder(s, "Junk", u, "INBOX")  BY <2>2 DEF mark_email_as_not_spam
    <3> QED  BY <2>0, <2>2, <3>1, MoveKeeps
  <2>3. ASSUME NEW s \in Slots, NEW f \in Folder, box[f] # {}, NEW us \in {Newest(f)} \cup {<<u>> : u \in Uids(f)}, bulk_delete_emails(s, f, us)
        PROVE  KeptInv'
    <3>1. f \in Folders /\ (us = Newest(f) \/ \E u \in Uids(f) : us = <<u>>)  BY <2>0
    <3> QED  BY <2>3, <3>1, BulkDeleteKeeps
  <2>4. ASSUME NEW s \in Slots, purge_mailbox(s) \/ PurgeSearch(s) \/ PurgeStore(s) \/ PurgeExpunge(s) PROVE KeptInv'
    BY <2>4, PurgeKeeps, PurgeSearchKeeps, PurgeStoreKeeps, PurgeExpungeKeeps
  <2>5. ASSUME NEW s \in Slots, Copy(s) \/ CopyRefused(s) \/ Store(s) \/ Expunge(s) \/ DeleteFails(s) PROVE KeptInv'
    BY <2>5, CopyKeeps, CopyRefusedKeeps, StoreKeeps, MoveExpungeKeeps, EndKeeps
  <2>6. ASSUME NEW f \in Folder, NEW u \in Uids(f), get_email(f, u) \/ set_email_flags(f, u, FALSE) PROVE KeptInv'
    BY <2>0, <2>6, ReadKeeps
  <2>7. ASSUME NEW s \in Slots, bulk_inject(s, 1) PROVE KeptInv'
    <3>1. 1 \in 1..2  OBVIOUS
    <3> QED  BY <2>7, <3>1, StartKeeps
  <2>8. ASSUME NEW s \in Slots, inject_email(s) \/ InjectFails(s) \/ process_incoming_email(s) \/ SelectRules(s) \/ Abandon(s) PROVE KeptInv'
    BY <2>8, InjectKeepsMail, EventKeeps, EndKeeps
  <2>9. ASSUME NEW s \in Slots, NEW asks \in {{}, {"sign", "encrypt"}}, send_email(s, asks) PROVE KeptInv'  BY <2>9, StartKeeps
  <2>10. ASSUME NEW s \in Slots, Protect(s, "sign", "encrypt") \/ Protect(s, "encrypt", "submit") \/ Submit(s) PROVE KeptInv'
    BY <2>10, ProtectKeeps, SubmitKeeps
  <2>11. CASE \E set \in {{"sign"}, {"sign", "encrypt"}} : ChangeKeys(set)  BY <2>11, ServeKeeps
  <2> QED  BY <1>2, <2>1, <2>2, <2>3, <2>4, <2>5, <2>6, <2>7, <2>8, <2>9, <2>10, <2>11 DEF MailNext
<1> QED  BY <1>1, <1>2

\* emails/service.py:697-1003: no move, deletion or purge loses a message that nobody
\* deleted, however requests overlap or break off; the pages of a folder show all of it
\* in order; and nothing leaves without the protection that was asked for.
THEOREM MailAlwaysKept == Spec => []MailKept
<1>1. Init => (part \in {"mail", "forward"} => KeptInv)  BY KeptStart
<1>2. (part \in {"mail", "forward"} => KeptInv) /\ [Next]_vars => (part \in {"mail", "forward"} => KeptInv)'
  <2> SUFFICES ASSUME part \in {"mail", "forward"} => KeptInv, [Next]_vars, part' \in {"mail", "forward"} PROVE KeptInv'
    OBVIOUS
  <2>1. part \in {"mail", "forward"} /\ KeptInv  BY PartStays
  <2>2. CASE UNCHANGED vars
    <3>1. req' = req /\ UNCHANGED <<box, uidNext, arrived, destroyed, refused, wire>>
      BY <2>2 DEF vars, requestVars, mailVars
    <3> QED  BY <2>1, <3>1, KeptSame
  <2>3. CASE MailNext \/ ForwardNext  BY <2>1, <2>3, KeptSteps
  <2> QED
    BY <2>1, <2>2, <2>3 DEF Next, Only, BusNext, ScanNext, validate_email_endpoint, BatchNext, FeedbackNext
<1>3. (part \in {"mail", "forward"} => KeptInv) => MailKept
  <2> SUFFICES ASSUME part \in {"mail", "forward"}, KeptInv PROVE MailKept  BY DEF MailKept
  <2>1. NothingLost  BY DEF KeptInv, SafeCopies, Safe, NothingLost
  <2>2. PagesComplete  BY AllPages DEF KeptInv
  <2> QED  BY <2>1, <2>2 DEF MailKept, KeptInv
<1> QED  BY <1>1, <1>2, <1>3, PTL DEF Spec

-----------------------------------------------------------------------------
(* The event bus: the inductive invariant.                                 *)

BusTypes ==
    /\ allowed = [c \in Clients |-> allowed[c]] /\ queue = [c \in Clients |-> queue[c]] /\ stream = [c \in Clients |-> stream[c]]
    /\ from = [c \in Clients |-> from[c]] /\ got = [c \in Clients |-> got[c]] /\ subscribers \subseteq Clients
    /\ \A c \in Clients : allowed[c] \subseteq Mailboxes /\ queue[c] \in Seq(Nat) /\ got[c] \in Seq(Nat) /\ from[c] \in 0..Len(log)
    /\ log \in Seq(Mailboxes \cup {"-"})
QueuesBounded == \A c \in Clients : (c \in subscribers => stream[c] = "open") /\ Len(queue[c]) <= QueueSize

\* What a stream has passed on and holds.
Rising(w) == \A i, j \in DOMAIN w : i < j => w[i] < w[j]
Told(c) ==
    /\ Rising(got[c] \o queue[c])
    /\ \E k \in from[c]..Len(log) : Range(got[c] \o queue[c]) = Bus!Visible(c, k) /\ (c \in subscribers => k = Len(log))

\* An event's listeners are called or still to be called, none of them twice.
ToCall(w, done) == IsInjective(w) /\ Range(w) \cup done = Listeners /\ Range(w) \cap done = {}
Listened ==
    /\ todo \in Seq(Seq(Listeners)) /\ called \in Seq(SUBSET Listeners) /\ Len(called) = Len(todo)
    /\ \A e \in DOMAIN todo : ToCall(todo[e], called[e])

BusInv == BusTypes /\ QueuesBounded /\ (\A c \in Clients : stream[c] = "open" => Told(c)) /\ Listened

-----------------------------------------------------------------------------
(* The event bus: the proof.                                               *)

LEMMA PutLast ==
    ASSUME NEW g \in Seq(Nat), NEW q \in Seq(Nat), NEW e \in Nat
    PROVE  g \o Append(q, e) = Append(g \o q, e) /\ g \o q \in Seq(Nat)
<1>1. <<e>> \in Seq(Nat) /\ Append(q, e) = q \o <<e>>  BY AppendIsConcat
<1>2. g \o q \in Seq(Nat)  BY ConcatProperties
<1>3. Append(g \o q, e) = (g \o q) \o <<e>>  BY <1>2, AppendIsConcat
<1>4. (g \o q) \o <<e>> = g \o (q \o <<e>>)  BY <1>1, ConcatAssociative
<1> QED  BY <1>1, <1>2, <1>3, <1>4

LEMMA Regroup ==
    ASSUME NEW a \in Seq(Nat), NEW b \in Seq(Nat), NEW c \in Seq(Nat)
    PROVE  (a \o b) \o c = a \o (b \o c)
BY ConcatAssociative

LEMMA PassOn ==
    ASSUME NEW g \in Seq(Nat), NEW q \in Seq(Nat), q # <<>>
    PROVE  /\ Append(g, Head(q)) \o Tail(q) = g \o q
           /\ Append(g, Head(q)) \in Seq(Nat) /\ Tail(q) \in Seq(Nat) /\ Len(Tail(q)) = Len(q) - 1
<1>1. PICK h, t : h = Head(q) /\ t = Tail(q)  OBVIOUS
<1>2. h \in Nat /\ t \in Seq(Nat) /\ Len(t) = Len(q) - 1 /\ \A i \in 1..Len(t) : t[i] = q[i + 1]  BY <1>1, HeadTailProperties
<1>3. <<h>> \in Seq(Nat) /\ Len(<<h>>) = 1 /\ <<h>>[1] = h  BY <1>2
<1>4. q = <<h>> \o t
  <2>1. PICK w : w = <<h>> \o t  OBVIOUS
  <2>2. w \in Seq(Nat) /\ Len(w) = Len(q) /\ \A i \in 1..Len(q) : w[i] = IF i <= 1 THEN <<h>>[i] ELSE t[i - 1]
    <3>1. /\ w \in Seq(Nat) /\ Len(w) = Len(<<h>>) + Len(t)
          /\ \A i \in 1..Len(<<h>>) + Len(t) : w[i] = IF i <= Len(<<h>>) THEN <<h>>[i] ELSE t[i - Len(<<h>>)]
      BY <1>2, <1>3, <2>1, ConcatProperties
    <3>2. Len(<<h>>) + Len(t) = Len(q)  BY <1>2, <1>3
    <3> QED  BY <1>3, <3>1, <3>2
  <2>3. ASSUME NEW i \in 1..Len(q) PROVE w[i] = q[i]
    <3>1. CASE i = 1
      <4>1. w[i] = <<h>>[1]  BY <2>2, <3>1
      <4>2. q[1] = h  BY <1>1
      <4> QED  BY <1>3, <3>1, <4>1, <4>2
    <3>2. CASE i # 1
      <4>1. i - 1 \in 1..Len(t) /\ ~(i <= 1) /\ (i - 1) + 1 = i  BY <1>2, <3>2
      <4>2. w[i] = t[i - 1] /\ t[i - 1] = q[i]  BY <1>2, <2>2, <4>1
      <4> QED  BY <4>2
    <3> QED  BY <3>1, <3>2
  <2>4. w = q  BY <2>2, <2>3, SeqEqual
  <2> QED  BY <2>1, <2>4
<1>5. Append(g, h) = g \o <<h>> /\ Append(g, h) \in Seq(Nat)  BY <1>2, AppendIsConcat, AppendProperties
<1>6. (g \o <<h>>) \o t = g \o (<<h>> \o t)
  <2>1. PICK u : u = <<h>>  OBVIOUS
  <2>2. u \in Seq(Nat) /\ t \in Seq(Nat)  BY <1>2, <1>3, <2>1
  <2>3. (g \o u) \o t = g \o (u \o t)  BY <2>2, Regroup
  <2> QED  BY <2>1, <2>3
<1> QED  BY <1>1, <1>2, <1>4, <1>5, <1>6

\* An event that comes after all that a stream holds.
LEMMA OneMore ==
    ASSUME NEW w \in Seq(Nat), NEW e \in Nat, Rising(w), \A x \in Range(w) : x < e
    PROVE  Rising(Append(w, e)) /\ Range(Append(w, e)) = Range(w) \cup {e}
<1>1. PICK n \in Nat : n = Len(w)  OBVIOUS
<1>2. PICK v : v = Append(w, e)  OBVIOUS
<1>3. /\ v \in Seq(Nat) /\ Len(v) = n + 1 /\ v[n + 1] = e /\ (\A i \in 1..n : v[i] = w[i])
      /\ DOMAIN v = 1..(n + 1) /\ DOMAIN w = 1..n
  BY <1>1, <1>2, AppendProperties, LenProperties
<1>4. \A i \in 1..n : w[i] \in Range(w) /\ w[i] < e  BY <1>3 DEF Range
<1>5. ASSUME NEW i \in 1..(n + 1), NEW j \in 1..(n + 1), i < j PROVE v[i] < v[j]
  <2>1. i \in 1..n  BY <1>5
  <2>2. CASE j = n + 1  BY <1>3, <1>4, <2>1, <2>2
  <2>3. CASE j # n + 1
    <3>1. j \in 1..n  BY <2>3
    <3> QED  BY <1>3, <1>5, <2>1, <3>1 DEF Rising
  <2> QED  BY <2>2, <2>3
<1>6. Range(v) = Range(w) \cup {e}
  <2>1. ASSUME NEW x \in Range(v) PROVE x \in Range(w) \cup {e}
    <3>1. PICK i \in 1..(n + 1) : x = v[i]  BY <1>3, <2>1 DEF Range
    <3>2. i \in 1..n \/ i = n + 1  BY <3>1
    <3> QED  BY <1>3, <1>4, <3>1, <3>2
  <2>2. ASSUME NEW x \in Range(w) PROVE x \in Range(v)
    <3>1. PICK i \in 1..n : x = w[i]  BY <1>3, <2>2 DEF Range
    <3>2. i \in 1..(n + 1) /\ x = v[i]  BY <1>3, <3>1
    <3> QED  BY <1>3, <3>2 DEF Range
  <2>3. e \in Range(v)
    <3>1. n + 1 \in 1..(n + 1)  OBVIOUS
    <3> QED  BY <1>3, <3>1 DEF Range
  <2> QED  BY <2>1, <2>2, <2>3
<1> QED  BY <1>2, <1>3, <1>5, <1>6 DEF Rising

LEMMA EachOnce == SetToSeq(Listeners) \in Seq(Listeners) /\ ToCall(SetToSeq(Listeners), {})
<1>1. PICK n \in Nat : n = Cardinality(Listeners) /\ ExistsBijection(1..n, Listeners)  BY BusAssumption, FS_CardinalityType
<1>2. PICK b : b \in Bijection(1..n, Listeners)  BY <1>1 DEF ExistsBijection
<1>3. b \in [1..n -> Listeners] /\ IsInjective(b)  BY <1>2 DEF Bijection, Injection
<1>4. PICK w : w = SetToSeq(Listeners)  OBVIOUS
<1>5. w \in [1..n -> Listeners] /\ IsInjective(w)  BY <1>1, <1>3, <1>4 DEF SetToSeq
<1>6. w \in Injection(1..n, Listeners)  BY <1>5 DEF Injection
<1>7. IsFiniteSet(1..n) /\ Cardinality(1..n) = n  BY FS_Interval
<1>8. w \in Surjection(1..n, Listeners)  BY <1>1, <1>6, <1>7, BusAssumption, FS_Injection
<1>9. Range(w) = Listeners
  <2>1. DOMAIN w = 1..n /\ \A i \in 1..n : w[i] \in Listeners  BY <1>5
  <2>2. \A l \in Listeners : \E i \in 1..n : w[i] = l  BY <1>8 DEF Surjection
  <2> QED  BY <2>1, <2>2 DEF Range
<1>10. w \in Seq(Listeners)  BY <1>5
<1> QED  BY <1>4, <1>5, <1>9, <1>10 DEF ToCall

\* What a stream was told stays right when nothing happens to it.
LEMMA ToldStays ==
    ASSUME BusTypes, NEW c \in Clients, Told(c), NEW n \in Nat, n = Len(log),
           Len(log') \in Nat, Len(log') >= n, \A e \in 1..n : log'[e] = log[e],
           got'[c] \o queue'[c] = got[c] \o queue[c], from'[c] = from[c], allowed'[c] = allowed[c],
           c \in subscribers' => c \in subscribers /\ \A e \in (n + 1)..Len(log') : log'[e] \notin allowed[c]
    PROVE  Told(c)'
<1>1. PICK k \in from[c]..n : Range(got[c] \o queue[c]) = Bus!Visible(c, k) /\ (c \in subscribers => k = n)  BY DEF Told
<1>2. Rising(got'[c] \o queue'[c])  BY DEF Told, Rising
<1>3. from[c] \in 0..n  BY DEF BusTypes
<1>4. PICK n2 \in Nat : n2 = Len(log') /\ n2 >= n  OBVIOUS
<1>5. PICK f, A : f \in Nat /\ f = from[c] /\ A = allowed[c]  BY <1>3
<1>6. k \in Nat /\ f <= k /\ k <= n  BY <1>1, <1>5
<1>7. Bus!Visible(c, k)' = Bus!Visible(c, k)
  <2>1. Bus!Visible(c, k) = {e \in (f + 1)..k : log[e] \in A} /\ Bus!Visible(c, k)' = {e \in (f + 1)..k : log'[e] \in A}
    BY <1>5 DEF Bus!Visible
  <2>2. \A e \in (f + 1)..k : e \in 1..n  BY <1>5, <1>6
  <2> QED  BY <2>1, <2>2
<1>8. ASSUME c \in subscribers' PROVE Bus!Visible(c, n2)' = Bus!Visible(c, k)
  <2>1. k = n /\ \A e \in (n + 1)..n2 : log'[e] \notin A  BY <1>1, <1>4, <1>5, <1>8
  <2>2. Bus!Visible(c, n) = {e \in (f + 1)..n : log[e] \in A} /\ Bus!Visible(c, n2)' = {e \in (f + 1)..n2 : log'[e] \in A}
    BY <1>4, <1>5 DEF Bus!Visible
  <2>3. \A e \in (f + 1)..n : e \in 1..n /\ e \in (f + 1)..n2  BY <1>4, <1>5
  <2>4. \A e \in (f + 1)..n2 : e \in (f + 1)..n \/ e \in (n + 1)..n2  BY <1>4, <1>5
  <2> QED  BY <2>1, <2>2, <2>3, <2>4
<1>9. \E j \in from'[c]..Len(log') : Range(got'[c] \o queue'[c]) = Bus!Visible(c, j)' /\ (c \in subscribers' => j = Len(log'))
  <2>1. Range(got'[c] \o queue'[c]) = Bus!Visible(c, k)  BY <1>1
  <2>2. CASE c \in subscribers'
    <3>1. n2 \in from'[c]..Len(log')  BY <1>4, <1>5, <1>6
    <3> QED  BY <1>4, <1>8, <2>1, <2>2, <3>1
  <2>3. CASE c \notin subscribers'
    <3>1. k \in from'[c]..Len(log')  BY <1>4, <1>5, <1>6
    <3> QED  BY <1>7, <2>1, <2>3, <3>1
  <2> QED  BY <2>2, <2>3
<1> QED  BY <1>2, <1>9 DEF Told

LEMMA BusSame ==
    ASSUME BusInv, UNCHANGED busVars
    PROVE  BusInv'
BY DEF BusInv, busVars, BusTypes, QueuesBounded, Told, Listened, Bus!Visible

LEMMA OpenKeeps ==
    ASSUME BusInv, NEW c \in Clients, Bus!event_stream(c)
    PROVE  BusInv'
<1>1. PICK boxes \in SUBSET Mailboxes : allowed' = [allowed EXCEPT ![c] = boxes]  BY DEF Bus!event_stream
<1>2. /\ subscribers' = subscribers \cup {c}
      /\ queue' = [queue EXCEPT ![c] = <<>>] /\ stream' = [stream EXCEPT ![c] = "open"]
      /\ from' = [from EXCEPT ![c] = Len(log)] /\ got' = [got EXCEPT ![c] = <<>>]
      /\ log' = log /\ todo' = todo /\ called' = called
  BY DEF Bus!event_stream
<1>3. BusTypes  BY DEF BusInv
<1>4. PICK n \in Nat : n = Len(log)  BY <1>3 DEF BusTypes
<1>5. /\ allowed'[c] = boxes /\ queue'[c] = <<>> /\ stream'[c] = "open" /\ from'[c] = n /\ got'[c] = <<>>
      /\ \A d \in Clients \ {c} : allowed'[d] = allowed[d] /\ queue'[d] = queue[d] /\ stream'[d] = stream[d] /\ from'[d] = from[d] /\ got'[d] = got[d]
  BY <1>1, <1>2, <1>3, <1>4 DEF BusTypes
<1>6. <<>> \in Seq(Nat) /\ Len(<<>>) = 0 /\ <<>> \o <<>> = <<>>  OBVIOUS
<1>7. BusTypes'
  <2>1. /\ allowed' = [d \in Clients |-> allowed'[d]] /\ queue' = [d \in Clients |-> queue'[d]] /\ stream' = [d \in Clients |-> stream'[d]]
        /\ from' = [d \in Clients |-> from'[d]] /\ got' = [d \in Clients |-> got'[d]] /\ subscribers' \subseteq Clients
    BY <1>1, <1>2, <1>3 DEF BusTypes
  <2>2. \A d \in Clients : allowed'[d] \subseteq Mailboxes /\ queue'[d] \in Seq(Nat) /\ got'[d] \in Seq(Nat) /\ from'[d] \in 0..n
    <3>1. boxes \subseteq Mailboxes /\ n \in 0..n  OBVIOUS
    <3>2. \A d \in Clients \ {c} : allowed'[d] \subseteq Mailboxes /\ queue'[d] \in Seq(Nat) /\ got'[d] \in Seq(Nat) /\ from'[d] \in 0..n
      BY <1>3, <1>4, <1>5 DEF BusTypes
    <3>3. allowed'[c] \subseteq Mailboxes /\ queue'[c] \in Seq(Nat) /\ got'[c] \in Seq(Nat) /\ from'[c] \in 0..n
      BY <1>5, <1>6, <3>1
    <3> QED  BY <3>2, <3>3
  <2> QED  BY <1>2, <1>3, <1>4, <2>1, <2>2 DEF BusTypes
<1>8. QueuesBounded'
  <2>1. QueueSize \in Nat  BY BusAssumption
  <2> QED  BY <1>2, <1>5, <1>6, <2>1 DEF BusInv, QueuesBounded
<1>9. Told(c)'
  <2>1. got'[c] \o queue'[c] = <<>>  BY <1>5, <1>6
  <2>2. Rising(<<>>) /\ Range(<<>>) = {}  BY DEF Rising, Range
  <2>3. Bus!Visible(c, n)' = {}
    <3>1. (n + 1)..n = {}  OBVIOUS
    <3> QED  BY <1>5, <3>1 DEF Bus!Visible
  <2>4. n \in from'[c]..Len(log') /\ n = Len(log')  BY <1>2, <1>4, <1>5
  <2> QED  BY <2>1, <2>2, <2>3, <2>4 DEF Told
<1>10. ASSUME NEW d \in Clients \ {c}, stream'[d] = "open" PROVE Told(d)'
  <2>1. Told(d)  BY <1>5, <1>10 DEF BusInv
  <2>2. d \in subscribers' => d \in subscribers /\ \A e \in (n + 1)..Len(log') : log'[e] \notin allowed[d]  BY <1>2, <1>4
  <2>3. got'[d] \o queue'[d] = got[d] \o queue[d] /\ from'[d] = from[d] /\ allowed'[d] = allowed[d]  BY <1>5
  <2>4. Len(log') \in Nat /\ Len(log') >= n /\ \A e \in 1..n : log'[e] = log[e]  BY <1>2, <1>4
  <2> QED  BY <1>3, <1>4, <2>1, <2>2, <2>3, <2>4, ToldStays
<1>11. Listened'  BY <1>2 DEF BusInv, Listened
<1> QED  BY <1>7, <1>8, <1>9, <1>10, <1>11 DEF BusInv

LEMMA YieldKeeps ==
    ASSUME BusInv, NEW c \in Clients, Bus!Yield(c)
    PROVE  BusInv'
<1>1. BusTypes  BY DEF BusInv
<1>2. PICK g, q : g = got[c] /\ q = queue[c]  OBVIOUS
<1>3. /\ q # <<>> /\ UNCHANGED <<subscribers, allowed, stream, log, from, todo, called>>
      /\ got' = [got EXCEPT ![c] = Append(g, Head(q))] /\ queue' = [queue EXCEPT ![c] = Tail(q)]
  BY <1>1, <1>2 DEF Bus!Yield, BusTypes
<1>4. PICK g2, q2 : g2 = Append(g, Head(q)) /\ q2 = Tail(q)  OBVIOUS
<1>5. g \in Seq(Nat) /\ q \in Seq(Nat)  BY <1>1, <1>2 DEF BusTypes
<1>6. g2 \o q2 = g \o q /\ g2 \in Seq(Nat) /\ q2 \in Seq(Nat) /\ Len(q2) = Len(q) - 1  BY <1>3, <1>4, <1>5, PassOn
<1>7. /\ got'[c] = g2 /\ queue'[c] = q2 /\ got' = [d \in Clients |-> got'[d]] /\ queue' = [d \in Clients |-> queue'[d]]
      /\ \A d \in Clients \ {c} : got'[d] = got[d] /\ queue'[d] = queue[d]
  BY <1>1, <1>3, <1>4 DEF BusTypes
<1>8. PICK n \in Nat : n = Len(log)  BY <1>1 DEF BusTypes
<1>9. BusTypes'
  <2>1. \A d \in Clients : queue'[d] \in Seq(Nat) /\ got'[d] \in Seq(Nat)  BY <1>1, <1>6, <1>7 DEF BusTypes
  <2> QED  BY <1>1, <1>3, <1>7, <2>1 DEF BusTypes
<1>10. QueuesBounded'
  <2>1. Len(q) \in Nat /\ QueueSize \in Nat /\ Len(q) <= QueueSize  BY <1>2, <1>5, BusAssumption DEF BusInv, QueuesBounded
  <2>2. Len(queue'[c]) <= QueueSize  BY <1>6, <1>7, <2>1
  <2>3. \A d \in Clients : Len(queue'[d]) <= QueueSize  BY <1>7, <2>2 DEF BusInv, QueuesBounded
  <2> QED  BY <1>3, <2>3 DEF BusInv, QueuesBounded
<1>11. ASSUME NEW d \in Clients, stream'[d] = "open" PROVE Told(d)'
  <2>1. Told(d)  BY <1>3, <1>11 DEF BusInv
  <2>2. d \in subscribers' => d \in subscribers /\ \A e \in (n + 1)..Len(log') : log'[e] \notin allowed[d]  BY <1>3, <1>8
  <2>3. got'[d] \o queue'[d] = got[d] \o queue[d] /\ from'[d] = from[d] /\ allowed'[d] = allowed[d]  BY <1>2, <1>3, <1>6, <1>7
  <2>4. Len(log') \in Nat /\ Len(log') >= n /\ \A e \in 1..n : log'[e] = log[e]  BY <1>3, <1>8
  <2> QED  BY <1>1, <1>8, <2>1, <2>2, <2>3, <2>4, ToldStays
<1>12. Listened'  BY <1>3 DEF BusInv, Listened
<1> QED  BY <1>9, <1>10, <1>11, <1>12 DEF BusInv

LEMMA UnsubscribeKeeps ==
    ASSUME BusInv, NEW c \in Clients, Bus!unsubscribe(c)
    PROVE  BusInv'
<1>1. BusTypes  BY DEF BusInv
<1>2. /\ UNCHANGED <<queue, got, allowed, log, from, todo, called>> /\ subscribers' = subscribers \ {c}
      /\ stream' = [stream EXCEPT ![c] = "closed"]
  BY DEF Bus!unsubscribe
<1>3. stream' = [d \in Clients |-> stream'[d]] /\ stream'[c] = "closed" /\ \A d \in Clients \ {c} : stream'[d] = stream[d]
  BY <1>1, <1>2 DEF BusTypes
<1>4. BusTypes' /\ QueuesBounded' /\ Listened'  BY <1>2, <1>3 DEF BusInv, BusTypes, QueuesBounded, Listened
<1>5. ASSUME NEW d \in Clients, stream'[d] = "open" PROVE Told(d)'
  <2>1. PICK n \in Nat : n = Len(log)  BY <1>1 DEF BusTypes
  <2>2. Told(d)
    <3>1. d # c /\ stream[d] = "open"  BY <1>3, <1>5
    <3> QED  BY <3>1 DEF BusInv
  <2>3. d \in subscribers' => d \in subscribers /\ \A e \in (n + 1)..Len(log') : log'[e] \notin allowed[d]  BY <1>2, <2>1
  <2>4. got'[d] \o queue'[d] = got[d] \o queue[d] /\ from'[d] = from[d] /\ allowed'[d] = allowed[d]  BY <1>2
  <2>5. Len(log') \in Nat /\ Len(log') >= n /\ \A e \in 1..n : log'[e] = log[e]  BY <1>2, <2>1
  <2> QED  BY <1>1, <2>1, <2>2, <2>3, <2>4, <2>5, ToldStays
<1> QED  BY <1>4, <1>5 DEF BusInv

\* Each subscriber that may see the event has it in its queue, or is one no more.
LEMMA PublishKeeps ==
    ASSUME BusInv, NEW b \in Mailboxes \cup {"-"}, Bus!publish(b)
    PROVE  BusInv'
<1>1. BusTypes  BY DEF BusInv
<1>2. PICK n \in Nat : n = Len(log)
  <2>1. Len(log) \in Nat  BY <1>1, LenProperties DEF BusTypes
  <2> QED  BY <2>1
<1>3. PICK to, full : to = {c \in Clients : Bus!MayReceive(c, b)} /\ full = {c \in to : Bus!Full(c)}  OBVIOUS
<1>4. /\ log' = Append(log, b) /\ subscribers' = subscribers \ full
      /\ queue' = [c \in Clients |-> IF c \in to /\ ~Bus!Full(c) THEN Append(queue[c], n + 1) ELSE queue[c]]
      /\ todo' = Append(todo, SetToSeq(Listeners)) /\ called' = Append(called, {})
      /\ UNCHANGED <<allowed, stream, from, got>>
  <2>1. /\ log' = Append(log, b) /\ todo' = Append(todo, Bus!SetToSeq(Listeners)) /\ called' = Append(called, {})
        /\ UNCHANGED <<allowed, stream, from, got>>
    BY DEF Bus!publish
  <2>2. subscribers' = subscribers \ full  BY <1>3 DEF Bus!publish, Bus!Prune
  <2>3. queue' = [c \in Clients |-> IF c \in to /\ ~Bus!Full(c) THEN Append(queue[c], n + 1) ELSE queue[c]]
    BY <1>2, <1>3 DEF Bus!publish
  <2>4. Bus!SetToSeq(Listeners) = SetToSeq(Listeners)
    <3>1. Bus!Cardinality(Listeners) = Cardinality(Listeners)  BY DEF Bus!Cardinality, Cardinality
    <3> QED  BY <3>1 DEF Bus!SetToSeq, SetToSeq, Bus!IsInjective, IsInjective
  <2> QED  BY <2>1, <2>2, <2>3, <2>4
<1>5. /\ log' \in Seq(Mailboxes \cup {"-"}) /\ Len(log') = n + 1 /\ log'[n + 1] = b /\ \A i \in 1..n : log'[i] = log[i]
  BY <1>1, <1>2, <1>4, AppendProperties DEF BusTypes
<1>6. \A c \in to : c \in Clients /\ c \in subscribers /\ b \in allowed[c]  BY <1>3 DEF Bus!MayReceive
<1>7. \A c \in subscribers \ to : b \notin allowed[c]
  <2>1. \A c \in subscribers : c \in Clients /\ allowed[c] \subseteq Mailboxes  BY <1>1 DEF BusTypes
  <2>2. "-" \notin Mailboxes  BY BusAssumption
  <2> QED  BY <1>3, <2>1, <2>2 DEF Bus!MayReceive, Bus!None
<1>8. ASSUME NEW c \in Clients, c \in to, ~Bus!Full(c)
      PROVE  /\ queue'[c] = Append(queue[c], n + 1) /\ queue'[c] \in Seq(Nat) /\ Len(queue'[c]) <= QueueSize
             /\ stream'[c] = "open" => Told(c)'
  <2>1. PICK q, g, w : q = queue[c] /\ g = got[c] /\ w = g \o q  OBVIOUS
  <2>2. q \in Seq(Nat) /\ g \in Seq(Nat)  BY <1>1, <2>1 DEF BusTypes
  <2>3. queue'[c] = Append(q, n + 1) /\ got'[c] = g /\ stream'[c] = stream[c] /\ from'[c] = from[c] /\ allowed'[c] = allowed[c]
    BY <1>4, <1>8, <2>1
  <2>4. Append(q, n + 1) \in Seq(Nat) /\ Len(Append(q, n + 1)) = Len(q) + 1  BY <2>2, AppendProperties
  <2>5. Len(q) + 1 <= QueueSize
    <3>1. Len(q) \in Nat /\ QueueSize \in Nat /\ ~(Len(q) >= QueueSize)  BY <1>8, <2>1, <2>2, BusAssumption DEF Bus!Full
    <3> QED  BY <3>1
  <2>6. ASSUME stream[c] = "open" PROVE Told(c)'
    <3>1. Told(c) /\ c \in subscribers  BY <1>6, <1>8, <2>6 DEF BusInv
    <3>2. PICK k \in from[c]..n : Range(w) = Bus!Visible(c, k) /\ (c \in subscribers => k = n)  BY <1>2, <2>1, <3>1 DEF Told
    <3>3. Rising(w) /\ Range(w) = Bus!Visible(c, n)  BY <2>1, <3>1, <3>2 DEF Told
    <3>4. PICK f, A : f \in Nat /\ f <= n /\ f = from[c] /\ A = allowed[c]  BY <1>1, <1>2 DEF BusTypes
    <3>5. Range(w) = {e \in (f + 1)..n : log[e] \in A}  BY <3>3, <3>4 DEF Bus!Visible
    <3>6. \A x \in Range(w) : x < n + 1  BY <3>4, <3>5
    <3>7. w \in Seq(Nat) /\ g \o Append(q, n + 1) = Append(w, n + 1)
      <4>1. PICK e \in Nat : e = n + 1  OBVIOUS
      <4>2. g \o Append(q, e) = Append(w, e)  BY <2>1, <2>2, PutLast
      <4> QED  BY <2>1, <2>2, <4>1, <4>2, ConcatProperties
    <3>8. Rising(Append(w, n + 1)) /\ Range(Append(w, n + 1)) = Range(w) \cup {n + 1}
      <4>1. n + 1 \in Nat  OBVIOUS
      <4> QED  BY <3>3, <3>6, <3>7, <4>1, OneMore
    <3>9. Bus!Visible(c, n + 1)' = Range(w) \cup {n + 1}
      <4>1. Bus!Visible(c, n + 1)' = {e \in (f + 1)..(n + 1) : log'[e] \in A}  BY <2>3, <3>4 DEF Bus!Visible
      <4>2. b \in A  BY <1>6, <1>8, <3>4
      <4>3. (f + 1)..(n + 1) = ((f + 1)..n) \cup {n + 1}  BY <3>4
      <4>4. \A e \in (f + 1)..n : e \in 1..n  BY <3>4
      <4> QED  BY <1>5, <3>5, <4>1, <4>2, <4>3, <4>4
    <3>10. n + 1 \in from'[c]..Len(log')  BY <1>5, <2>3, <3>4
    <3>11. got'[c] \o queue'[c] = Append(w, n + 1)  BY <2>3, <3>7
    <3> QED  BY <1>5, <3>8, <3>9, <3>10, <3>11 DEF Told
  <2> QED  BY <2>1, <2>3, <2>4, <2>5, <2>6
<1>9. ASSUME NEW c \in Clients, ~(c \in to /\ ~Bus!Full(c))
      PROVE  queue'[c] = queue[c] /\ (stream'[c] = "open" => Told(c)')
  <2>1. queue'[c] = queue[c] /\ got'[c] = got[c] /\ stream'[c] = stream[c] /\ from'[c] = from[c] /\ allowed'[c] = allowed[c]
    BY <1>4, <1>9
  <2>2. ASSUME c \in subscribers' PROVE c \in subscribers /\ \A e \in (n + 1)..Len(log') : log'[e] \notin allowed[c]
    <3>1. c \in subscribers /\ c \notin to  BY <1>3, <1>4, <1>9, <2>2
    <3>2. b \notin allowed[c]  BY <1>7, <3>1
    <3>3. (n + 1)..Len(log') = {n + 1}  BY <1>5
    <3> QED  BY <1>5, <3>1, <3>2, <3>3
  <2>3. Len(log') \in Nat /\ Len(log') >= n  BY <1>5
  <2>4. ASSUME stream[c] = "open" PROVE Told(c)'
    <3>1. Told(c)  BY <2>4 DEF BusInv
    <3>2. got'[c] \o queue'[c] = got[c] \o queue[c]  BY <2>1
    <3> QED  BY <1>1, <1>2, <1>5, <2>1, <2>2, <2>3, <3>1, <3>2, ToldStays
  <2> QED  BY <2>1, <2>4
<1>10. BusTypes'
  <2>1. \A c \in Clients : queue'[c] \in Seq(Nat)  BY <1>1, <1>8, <1>9 DEF BusTypes
  <2>2. queue' = [c \in Clients |-> queue'[c]] /\ subscribers' \subseteq Clients  BY <1>1, <1>4 DEF BusTypes
  <2>3. \A c \in Clients : from'[c] \in 0..Len(log')
    <3>1. \A c \in Clients : from[c] \in 0..n  BY <1>1, <1>2 DEF BusTypes
    <3> QED  BY <1>4, <1>5, <3>1
  <2>4. /\ allowed' = [c \in Clients |-> allowed'[c]] /\ stream' = [c \in Clients |-> stream'[c]]
        /\ from' = [c \in Clients |-> from'[c]] /\ got' = [c \in Clients |-> got'[c]]
        /\ \A c \in Clients : allowed'[c] \subseteq Mailboxes /\ got'[c] \in Seq(Nat)
    BY <1>1, <1>4 DEF BusTypes
  <2> QED  BY <1>5, <2>1, <2>2, <2>3, <2>4 DEF BusTypes
<1>11. QueuesBounded'
  <2>1. \A c \in Clients : Len(queue'[c]) <= QueueSize  BY <1>8, <1>9 DEF BusInv, QueuesBounded
  <2> QED  BY <1>4, <2>1 DEF BusInv, QueuesBounded
<1>12. Listened'
  <2>1. PICK m, w : m \in Nat /\ m = Len(todo) /\ w = SetToSeq(Listeners)
    <3>1. Len(todo) \in Nat  BY LenProperties DEF BusInv, Listened
    <3> QED  BY <3>1
  <2>2. w \in Seq(Listeners) /\ ToCall(w, {})  BY <2>1, EachOnce
  <2>3. todo \in Seq(Seq(Listeners)) /\ called \in Seq(SUBSET Listeners) /\ Len(called) = m /\ \A e \in 1..m : ToCall(todo[e], called[e])
    BY <2>1 DEF BusInv, Listened
  <2>4. /\ todo' \in Seq(Seq(Listeners)) /\ Len(todo') = m + 1 /\ (\A e \in 1..m : todo'[e] = todo[e]) /\ todo'[m + 1] = w
    BY <1>4, <2>1, <2>2, <2>3, AppendProperties
  <2>5. /\ called' \in Seq(SUBSET Listeners) /\ Len(called') = m + 1 /\ (\A e \in 1..m : called'[e] = called[e]) /\ called'[m + 1] = {}
    <3>1. {} \in SUBSET Listeners  OBVIOUS
    <3> QED  BY <1>4, <2>3, <3>1, AppendProperties
  <2>6. \A e \in 1..(m + 1) : ToCall(todo'[e], called'[e])
    <3> TAKE e \in 1..(m + 1)
    <3>1. e \in 1..m \/ e = m + 1  BY <2>1
    <3> QED  BY <2>2, <2>3, <2>4, <2>5, <3>1
  <2>7. DOMAIN todo' = 1..(m + 1)  BY <2>4
  <2> QED  BY <2>4, <2>5, <2>6, <2>7 DEF Listened
<1>13. \A c \in Clients : stream'[c] = "open" => Told(c)'  BY <1>8, <1>9
<1> QED  BY <1>10, <1>11, <1>12, <1>13 DEF BusInv

LEMMA NextListener ==
    ASSUME NEW S, NEW w \in Seq(S), w # <<>>, IsInjective(w)
    PROVE  /\ Tail(w) \in Seq(S) /\ IsInjective(Tail(w)) /\ Head(w) \in Range(w)
           /\ Range(Tail(w)) = Range(w) \ {Head(w)}
<1>1. PICK h, t, n : h = Head(w) /\ t = Tail(w) /\ n = Len(w)  OBVIOUS
<1>2. t \in Seq(S) /\ Len(t) = n - 1 /\ \A i \in 1..Len(t) : t[i] = w[i + 1]  BY <1>1, HeadTailProperties
<1>3. n \in Nat /\ n # 0 /\ DOMAIN w = 1..n /\ h = w[1]  BY <1>1, EmptySeq
<1>4. DOMAIN t = 1..(n - 1) /\ \A i \in 1..(n - 1) : t[i] = w[i + 1] /\ i + 1 \in 1..n /\ i + 1 # 1  BY <1>2, <1>3
<1>5. \A i, j \in 1..n : w[i] = w[j] => i = j  BY <1>3 DEF IsInjective
<1>6. \A i, j \in 1..(n - 1) : t[i] = t[j] => i = j
  <2> SUFFICES ASSUME NEW i \in 1..(n - 1), NEW j \in 1..(n - 1), t[i] = t[j] PROVE i = j  OBVIOUS
  <2>1. i + 1 = j + 1  BY <1>4, <1>5
  <2> QED  BY <2>1
<1>7. 1 \in 1..n /\ Head(w) \in Range(w)  BY <1>1, <1>3 DEF Range
<1>8. ASSUME NEW x \in Range(t) PROVE x \in Range(w) /\ x # h
  <2>1. PICK i \in 1..(n - 1) : x = t[i]  BY <1>4, <1>8 DEF Range
  <2>2. x = w[i + 1] /\ i + 1 \in 1..n /\ i + 1 # 1  BY <1>4, <2>1
  <2> QED  BY <1>3, <1>5, <1>7, <2>2 DEF Range
<1>9. ASSUME NEW x \in Range(w), x # h PROVE x \in Range(t)
  <2>1. PICK i \in 1..n : x = w[i]  BY <1>3, <1>9 DEF Range
  <2>2. i - 1 \in 1..(n - 1) /\ (i - 1) + 1 = i  BY <1>3, <1>9, <2>1
  <2>3. x = t[i - 1]  BY <1>4, <2>1, <2>2
  <2> QED  BY <1>4, <2>2, <2>3 DEF Range
<1> QED  BY <1>1, <1>2, <1>4, <1>6, <1>7, <1>8, <1>9 DEF IsInjective

LEMMA ListenKeeps ==
    ASSUME BusInv, NEW e \in DOMAIN todo, Bus!Listen(e)
    PROVE  BusInv'
<1>1. PICK w, done : w = todo[e] /\ done = called[e]  OBVIOUS
<1>2. PICK m \in Nat : m = Len(todo)  BY DEF BusInv, Listened
<1>3. /\ todo \in Seq(Seq(Listeners)) /\ called \in Seq(SUBSET Listeners) /\ Len(called) = m
      /\ DOMAIN todo = 1..m /\ DOMAIN called = 1..m /\ \A i \in 1..m : ToCall(todo[i], called[i])
  BY <1>2, LenProperties DEF BusInv, Listened
<1>4. /\ w # <<>> /\ todo' = [todo EXCEPT ![e] = Tail(w)] /\ called' = [called EXCEPT ![e] = done \cup {Head(w)}]
      /\ UNCHANGED <<subscribers, allowed, queue, stream, log, from, got>>
  BY <1>1, <1>3 DEF Bus!Listen, Bus!Continue
<1>5. w \in Seq(Listeners) /\ done \subseteq Listeners /\ ToCall(w, done)  BY <1>1, <1>3
<1>6. PICK t, more : t = Tail(w) /\ more = done \cup {Head(w)}  OBVIOUS
<1>7. t \in Seq(Listeners) /\ more \in SUBSET Listeners /\ ToCall(t, more)
  <2>1. t \in Seq(Listeners) /\ IsInjective(t) /\ Head(w) \in Range(w) /\ Range(t) = Range(w) \ {Head(w)}
    BY <1>4, <1>5, <1>6, NextListener DEF ToCall
  <2> QED  BY <1>5, <1>6, <2>1 DEF ToCall
<1>8. todo' \in Seq(Seq(Listeners)) /\ Len(todo') = m /\ \A i \in 1..m : todo'[i] = IF i = e THEN t ELSE todo[i]
  BY <1>2, <1>3, <1>4, <1>6, <1>7, ExceptSeq
<1>9. called' \in Seq(SUBSET Listeners) /\ Len(called') = m /\ \A i \in 1..m : called'[i] = IF i = e THEN more ELSE called[i]
  BY <1>2, <1>3, <1>4, <1>6, <1>7, ExceptSeq
<1>10. Listened'
  <2>1. DOMAIN todo' = 1..m  BY <1>8
  <2>2. \A i \in 1..m : ToCall(todo'[i], called'[i])  BY <1>3, <1>7, <1>8, <1>9
  <2> QED  BY <1>8, <1>9, <2>1, <2>2 DEF Listened
<1>11. BusTypes' /\ QueuesBounded'  BY <1>4 DEF BusInv, BusTypes, QueuesBounded
<1>12. \A c \in Clients : stream'[c] = "open" => Told(c)'  BY <1>4 DEF BusInv, Told, Bus!Visible
<1> QED  BY <1>10, <1>11, <1>12 DEF BusInv

\* events/bus.py:52-106 and router.py:33-89: a stream that is registered has passed on or
\* holds exactly what was published for its mailboxes since it opened, in order; one that
\* was pruned a beginning of that; no queue outgrows its size; and every listener is called
\* for every event, once.
THEOREM EventsAlwaysDelivered == Spec => []EventsDelivered
<1>1. Init => BusInv
  <2> SUFFICES ASSUME Init PROVE BusInv  OBVIOUS
  <2>1. Bus!Init  BY DEF Init
  <2>2. BusTypes  BY <2>1 DEF Bus!Init, BusTypes
  <2>3. QueuesBounded  BY <2>1, BusAssumption DEF Bus!Init, QueuesBounded
  <2>4. \A c \in Clients : stream[c] = "closed"  BY <2>1 DEF Bus!Init
  <2>5. Listened  BY <2>1 DEF Bus!Init, Listened
  <2> QED  BY <2>2, <2>3, <2>4, <2>5 DEF BusInv
<1>2. BusInv /\ [Next]_vars => BusInv'
  <2> SUFFICES ASSUME BusInv, [Next]_vars PROVE BusInv'  OBVIOUS
  <2>1. CASE UNCHANGED busVars  BY <2>1, BusSame
  <2>2. CASE BusNext
    <3>1. ASSUME NEW c \in Clients, Bus!event_stream(c) PROVE BusInv'  BY <3>1, OpenKeeps
    <3>2. ASSUME NEW c \in Clients, Bus!Yield(c) PROVE BusInv'  BY <3>2, YieldKeeps
    <3>3. ASSUME NEW c \in Clients, Bus!unsubscribe(c) PROVE BusInv'  BY <3>3, UnsubscribeKeeps
    <3>4. ASSUME NEW b \in Mailboxes \cup {"-"}, Bus!publish(b) PROVE BusInv'  BY <3>4, PublishKeeps
    <3>5. ASSUME NEW e \in DOMAIN todo, Bus!Listen(e) PROVE BusInv'  BY <3>5, ListenKeeps
    <3> QED  BY <2>2, <3>1, <3>2, <3>3, <3>4, <3>5 DEF BusNext, Bus!Next, Bus!None
  <2>3. CASE UNCHANGED vars  BY <2>1, <2>3 DEF vars
  <2>4. CASE ScanNext \/ validate_email_endpoint \/ BatchNext \/ FeedbackNext \/ MailNext \/ ForwardNext
    <3>1. UNCHANGED busVars
      BY <2>4 DEF ScanNext, validate_email_endpoint, BatchNext, FeedbackNext, MailNext, ForwardNext, Only
    <3> QED  BY <2>1, <3>1
  <2> QED  BY <2>2, <2>3, <2>4 DEF Next
<1>3. BusInv => EventsDelivered
  <2> SUFFICES ASSUME BusInv PROVE EventsDelivered  OBVIOUS
  <2>1. Bus!TypeOK
    <3>1. \A e \in DOMAIN todo : \A i \in DOMAIN todo[e] : todo[e][i] \notin called[e]
      BY DEF BusInv, Listened, ToCall, Range
    <3> QED  BY <3>1 DEF BusInv, BusTypes, QueuesBounded, Bus!TypeOK
  <2>2. Bus!NoGap
    <3>1. ASSUME NEW c \in Clients, stream[c] = "open"
          PROVE  LET seen == got[c] \o queue[c]
                 IN /\ \A i, j \in DOMAIN seen : i < j => seen[i] < seen[j]
                    /\ \E k \in from[c]..Len(log) : Range(seen) = Bus!Visible(c, k) /\ (c \in subscribers => k = Len(log))
      <4>1. Told(c)  BY <3>1 DEF BusInv
      <4> QED  BY <4>1 DEF Told, Rising
    <3> QED  BY <3>1 DEF Bus!NoGap, Bus!Range, Range
  <2>3. Bus!EveryListenerCalled
    <3>1. \A e \in DOMAIN todo : todo[e] = <<>> => Range(todo[e]) = {}  BY DEF Range
    <3> QED  BY <3>1 DEF BusInv, Listened, ToCall, Bus!EveryListenerCalled
  <2> QED  BY <2>1, <2>2, <2>3 DEF EventsDelivered
<1> QED  BY <1>1, <1>2, <1>3, PTL DEF Spec

-----------------------------------------------------------------------------
(* Suppression: the invariant.  The limit is crossed by a hard bounce whose *)
(* request has still to count, or to write what it found.  One that is to   *)
(* insert a suppression does so only while there is none.                   *)

Carrying == {"insert", "count", "look", "add", "renew"}
Suppressing(d) == {"count", "look", "renew"} \cup (IF d \in DOMAIN suppressed THEN {} ELSE {"add"})
DomainAt(q) == DomainOf[Head(q.todo).email]
Pursued(d) == \E s \in Slots : req[s].op \in Suppressing(d) /\ DomainAt(req[s]) = d

FeedbackCarried ==
    /\ req = [s \in Slots |-> req[s]]
    /\ \A s \in Slots : req[s].op \in Carrying => DOMAIN req[s] = {"op", "user", "todo"}
RowsNumbered == \E n \in Nat : DOMAIN rows \subseteq 1..n
CrossedPursued == cut \/ \A d \in fresh : Crossed(counts_for(d)) => domain_suppression(d) \/ Pursued(d)

SuppressInv == FeedbackCarried /\ RowsNumbered /\ CrossedPursued

-----------------------------------------------------------------------------
(* Suppression: the proof.                                                 *)

LEMMA LargestOf ==
    ASSUME NEW n \in Nat, NEW S \in SUBSET 0..n, S # {}
    PROVE  Max(S) \in S /\ \A x \in S : x <= Max(S)
<1>1. PICK B : B = {u \in Nat : \A x \in S : x <= u}  OBVIOUS
<1>2. n \in B  BY <1>1
<1>3. PICK m \in B : \A u \in B : ~(u < m)
  <2>1. B \subseteq Nat /\ B # {}  BY <1>1, <1>2
  <2>2. PICK m \in B : \A u \in B : <<u, m>> \notin OpToRel(<, Nat)  BY <2>1, NatLessThanWellFounded, WFMin
  <2> QED  BY <2>1, <2>2 DEF OpToRel
<1>4. m \in Nat /\ \A x \in S : x <= m /\ x \in Nat  BY <1>1, <1>3
<1>5. m \in S
  <2> SUFFICES ASSUME m \notin S PROVE FALSE  OBVIOUS
  <2>1. PICK x \in S : TRUE  OBVIOUS
  <2>2. m - 1 \in Nat /\ \A y \in S : y <= m - 1  BY <1>4, <2>1
  <2> QED  BY <1>1, <1>3, <1>4, <2>2
<1>6. \A x \in S : x <= m  BY <1>4
<1> QED  BY <1>5, <1>6 DEF Max

\* Only news of a domain change its counts.
LEMMA CountsStay ==
    ASSUME NEW d, Decisive(d)' = Decisive(d), \A i \in Decisive(d) : rows'[i] = rows[i]
    PROVE  counts_for(d)' = counts_for(d)
<1>1. {i \in Decisive(d)' : rows'[i].outcome = "hard_bounce"} = {i \in Decisive(d) : rows[i].outcome = "hard_bounce"}  OBVIOUS
<1> QED  BY <1>1 DEF counts_for

LEMMA SuppressStart == Init => (part = "feedback" => SuppressInv)
<1> SUFFICES ASSUME Init, part = "feedback" PROVE SuppressInv  OBVIOUS
<1>1. req = [s \in Slots |-> Idle] /\ \A s \in Slots : req[s].op = "idle"  BY DEF Init, RequestsInit, Idle
<1>2. rows = <<>> /\ fresh = {}  BY DEF Init, FeedbackInit
<1>3. 0 \in Nat /\ DOMAIN rows \subseteq 1..0  BY <1>2
<1> QED  BY <1>1, <1>2, <1>3 DEF SuppressInv, FeedbackCarried, RowsNumbered, CrossedPursued, Carrying

\* A request that moves on; the others stay where they are.
LEMMA MovesOn ==
    ASSUME FeedbackCarried, NEW s \in Slots, NEW r, req' = [req EXCEPT ![s] = r],
           r.op \in Carrying => DOMAIN r = {"op", "user", "todo"}
    PROVE  /\ FeedbackCarried' /\ req'[s] = r
           /\ \A t \in Slots \ {s} : req'[t] = req[t]
BY DEF FeedbackCarried

LEMMA StaysPursued ==
    ASSUME NEW s \in Slots, NEW r, req'[s] = r, \A t \in Slots \ {s} : req'[t] = req[t],
           NEW d, Pursued(d), Suppressing(d)' = Suppressing(d),
           req[s].op \in Suppressing(d) /\ DomainAt(req[s]) = d => r.op \in Suppressing(d) /\ DomainAt(r) = d
    PROVE  Pursued(d)'
<1>1. PICK t \in Slots : req[t].op \in Suppressing(d) /\ DomainAt(req[t]) = d  BY DEF Pursued
<1>2. req'[t].op \in Suppressing(d) /\ DomainAt(req'[t]) = d
  <2>1. CASE t = s  BY <1>1, <2>1
  <2>2. CASE t # s  BY <1>1, <2>2
  <2> QED  BY <2>1, <2>2
<1> QED  BY <1>2 DEF Pursued, DomainAt

LEMMA ProceedMoves ==
    ASSUME NEW s \in Slots, Proceed(s)
    PROVE  \E r : /\ req' = [req EXCEPT ![s] = r] /\ r.op \in {"insert", "idle"}
                  /\ r.op \in Carrying => DOMAIN r = {"op", "user", "todo"}
<1>1. PICK r : r = [op |-> "insert", user |-> req[s].user, todo |-> Tail(req[s].todo)]  OBVIOUS
<1>2. r.op = "insert" /\ DOMAIN r = {"op", "user", "todo"}  BY <1>1
<1>3. Idle.op = "idle" /\ Idle.op \notin Carrying  BY DEF Idle, Carrying
<1>4. req' = [req EXCEPT ![s] = r] \/ req' = [req EXCEPT ![s] = Idle]  BY <1>1 DEF Proceed, Goto, End
<1> QED  BY <1>2, <1>3, <1>4

LEMMA StepMoves ==
    ASSUME FeedbackCarried, NEW s \in Slots, req[s].op \in Carrying, NEW op, Step(s, op)
    PROVE  \E r : /\ req' = [req EXCEPT ![s] = r] /\ r.op = op /\ DomainAt(r) = DomainAt(req[s])
                  /\ DOMAIN r = {"op", "user", "todo"}
<1>1. DOMAIN req[s] = {"op", "user", "todo"}  BY DEF FeedbackCarried
<1>2. PICK r : r = [req[s] EXCEPT !.op = op]  OBVIOUS
<1>3. r.op = op /\ r.todo = req[s].todo /\ DOMAIN r = {"op", "user", "todo"}  BY <1>1, <1>2
<1> QED  BY <1>2, <1>3 DEF Step, Goto, DomainAt

\* A request begins: it has counted nothing and suppressed nothing.
LEMMA ReportKeeps ==
    ASSUME SuppressInv, NEW s \in Slots, NEW r, Begin(s, r), r.op = "insert", DOMAIN r = {"op", "user", "todo"}, UNCHANGED feedbackVars
    PROVE  SuppressInv'
<1>1. FeedbackCarried /\ req' = [req EXCEPT ![s] = r] /\ req[s] = Idle  BY DEF SuppressInv, Begin
<1>2. /\ FeedbackCarried' /\ req'[s] = r
      /\ \A t \in Slots \ {s} : req'[t] = req[t]
  BY <1>1, MovesOn
<1>3. UNCHANGED <<rows, suppressed, fresh, cut>>  BY DEF feedbackVars
<1>4. RowsNumbered'  BY <1>3 DEF SuppressInv, RowsNumbered
<1>5. ASSUME NEW d, Pursued(d) PROVE Pursued(d)'
  <2>1. Suppressing(d)' = Suppressing(d)  BY <1>3 DEF Suppressing
  <2>2. req[s].op \notin Suppressing(d)  BY <1>1 DEF Idle, Suppressing
  <2> QED  BY <1>2, <1>5, <2>1, <2>2, StaysPursued
<1>6. \A d : counts_for(d)' = counts_for(d) /\ domain_suppression(d)' = domain_suppression(d)
  BY <1>3 DEF counts_for, Decisive, domain_suppression
<1>7. CrossedPursued'  BY <1>3, <1>5, <1>6 DEF SuppressInv, CrossedPursued, Crossed
<1> QED  BY <1>2, <1>4, <1>7 DEF SuppressInv

\* The new row counts for its own domain only, and the rows that go were old.
LEMMA RecordKeeps ==
    ASSUME SuppressInv, NEW s \in Slots, record_validation_feedback(s)
    PROVE  SuppressInv'
<1>1. PICK q, o, d : q = req[s] /\ o = Head(q.todo).outcome /\ d = DomainAt(q)  OBVIOUS
<1>2. PICK kept, id, new :
          /\ kept = {i \in DOMAIN rows : rows[i].user # q.user \/ ~rows[i].old} /\ id = Max(kept \cup {0}) + 1
          /\ new = [user |-> q.user, email |-> Head(q.todo).email, outcome |-> o, old |-> FALSE, recent |-> TRUE]
  OBVIOUS
<1>3. /\ q.op = "insert" /\ suppressed' = suppressed /\ cut' = cut
      /\ fresh' = IF o = "hard_bounce" THEN fresh \cup {d} ELSE fresh \ {d}
      /\ IF o = "hard_bounce" THEN Step(s, "count") ELSE Proceed(s)
      /\ rows' = [i \in kept \cup {id} |-> IF i # id THEN rows[i] ELSE new]
  BY <1>1, <1>2 DEF record_validation_feedback, At, DomainAt
<1>4. FeedbackCarried /\ q.op \in Carrying  BY <1>3 DEF SuppressInv, Carrying
<1>5. PICK n \in Nat : DOMAIN rows \subseteq 1..n  BY DEF SuppressInv, RowsNumbered
<1>6. id \in 1..(n + 1) /\ id \notin kept
  <2>1. PICK S : S = kept \cup {0}  OBVIOUS
  <2>2. S \in SUBSET 0..n /\ S # {}  BY <1>2, <1>5, <2>1
  <2>3. Max(S) \in S /\ \A x \in S : x <= Max(S)  BY <2>2, LargestOf
  <2>4. Max(S) \in 0..n /\ id = Max(S) + 1  BY <1>2, <2>1, <2>2, <2>3
  <2>5. \A x \in kept : x \in S /\ x \in 0..n  BY <2>1, <2>2
  <2> QED  BY <2>3, <2>4, <2>5
<1>7. DOMAIN rows' = kept \cup {id} /\ rows'[id] = new /\ (\A i \in kept : rows'[i] = rows[i]) /\ kept \subseteq DOMAIN rows
  BY <1>2, <1>3, <1>6
<1>8. RowsNumbered'
  <2>1. n + 1 \in Nat /\ DOMAIN rows' \subseteq 1..(n + 1)  BY <1>5, <1>6, <1>7
  <2> QED  BY <2>1 DEF RowsNumbered
<1>9. ASSUME NEW x, x # d PROVE counts_for(x)' = counts_for(x)
  <2>1. DomainOf[rows'[id].email] = d  BY <1>1, <1>2, <1>7 DEF DomainAt
  <2>2. \A i \in DOMAIN rows \ kept : rows[i].old  BY <1>2
  <2>3. Decisive(x)' = {i \in DOMAIN rows' : DomainOf[rows'[i].email] = x /\ ~rows'[i].old /\ rows'[i].outcome # "soft_bounce"}
    BY DEF Decisive
  <2>4. Decisive(x)' = Decisive(x)  BY <1>7, <1>9, <2>1, <2>2, <2>3 DEF Decisive
  <2>5. \A i \in Decisive(x) : i \in kept  BY <2>2 DEF Decisive
  <2> QED  BY <1>7, <2>4, <2>5, CountsStay
<1>10. PICK r : /\ req' = [req EXCEPT ![s] = r] /\ (r.op \in Carrying => DOMAIN r = {"op", "user", "todo"})
                /\ o = "hard_bounce" => r.op = "count" /\ DomainAt(r) = d
  <2>1. CASE o = "hard_bounce"
    <3>1. PICK r : /\ req' = [req EXCEPT ![s] = r] /\ r.op = "count" /\ DomainAt(r) = DomainAt(req[s])
                   /\ DOMAIN r = {"op", "user", "todo"}
      BY <1>1, <1>3, <1>4, <2>1, StepMoves
    <3> QED  BY <1>1, <3>1
  <2>2. CASE o # "hard_bounce"  BY <1>3, <2>2, ProceedMoves
  <2> QED  BY <2>1, <2>2
<1>11. /\ FeedbackCarried' /\ req'[s] = r
       /\ \A t \in Slots \ {s} : req'[t] = req[t]
  BY <1>4, <1>10, MovesOn
<1>12. \A x : Suppressing(x)' = Suppressing(x) /\ domain_suppression(x)' = domain_suppression(x)
  BY <1>3 DEF Suppressing, domain_suppression
<1>13. ASSUME NEW x, Pursued(x) PROVE Pursued(x)'
  <2>1. req[s].op \notin Suppressing(x)  BY <1>1, <1>3 DEF Suppressing
  <2> QED  BY <1>11, <1>12, <1>13, <2>1, StaysPursued
<1>14. ASSUME ~cut', NEW x \in fresh', Crossed(counts_for(x))' PROVE domain_suppression(x)' \/ Pursued(x)'
  <2>1. CASE x = d
    <3>1. o = "hard_bounce"  BY <1>3, <1>14, <2>1
    <3>2. r.op \in Suppressing(d)'  BY <1>10, <3>1 DEF Suppressing
    <3> QED  BY <1>10, <1>11, <2>1, <3>1, <3>2 DEF Pursued, DomainAt
  <2>2. CASE x # d
    <3>1. x \in fresh /\ ~cut  BY <1>3, <1>14, <2>2
    <3>2. Crossed(counts_for(x))  BY <1>9, <1>14, <2>2 DEF Crossed
    <3>3. domain_suppression(x) \/ Pursued(x)  BY <3>1, <3>2 DEF SuppressInv, CrossedPursued
    <3> QED  BY <1>12, <1>13, <3>3
  <2> QED  BY <2>1, <2>2
<1>15. CrossedPursued'  BY <1>14 DEF CrossedPursued
<1> QED  BY <1>8, <1>11, <1>15 DEF SuppressInv

\* What is left to show of a step that changes neither rows nor suppressions.
LEMMA MoveOnKeeps ==
    ASSUME SuppressInv, NEW s \in Slots, NEW r, req' = [req EXCEPT ![s] = r],
           r.op \in Carrying => DOMAIN r = {"op", "user", "todo"}, UNCHANGED feedbackVars,
           \A d : /\ req[s].op \in Suppressing(d) /\ DomainAt(req[s]) = d /\ Crossed(counts_for(d))
                  => r.op \in Suppressing(d) /\ DomainAt(r) = d
    PROVE  SuppressInv'
<1>1. /\ FeedbackCarried' /\ req'[s] = r
      /\ \A t \in Slots \ {s} : req'[t] = req[t]
  BY MovesOn DEF SuppressInv
<1>2. UNCHANGED <<rows, suppressed, fresh, cut>>  BY DEF feedbackVars
<1>3. RowsNumbered'  BY <1>2 DEF SuppressInv, RowsNumbered
<1>4. \A d : /\ counts_for(d)' = counts_for(d) /\ domain_suppression(d)' = domain_suppression(d)
             /\ Suppressing(d)' = Suppressing(d)
  BY <1>2 DEF counts_for, Decisive, domain_suppression, Suppressing
<1>5. ASSUME NEW d, Pursued(d), Crossed(counts_for(d)) PROVE Pursued(d)'
  BY <1>1, <1>4, <1>5, StaysPursued
<1>6. CrossedPursued'
  <2>1. cut' = cut /\ fresh' = fresh  BY <1>2
  <2>2. \A d : Crossed(counts_for(d))' = Crossed(counts_for(d))  BY <1>4 DEF Crossed
  <2> QED  BY <1>4, <1>5, <2>1, <2>2 DEF SuppressInv, CrossedPursued
<1> QED  BY <1>1, <1>3, <1>6 DEF SuppressInv

LEMMA CountKeeps ==
    ASSUME SuppressInv, NEW s \in Slots, maybe_suppress_domain(s)
    PROVE  SuppressInv'
<1>1. req[s].op = "count" /\ UNCHANGED feedbackVars  BY DEF maybe_suppress_domain, At
<1>2. FeedbackCarried /\ req[s].op \in Carrying  BY <1>1 DEF SuppressInv, Carrying
<1>3. CASE Crossed(counts_for(DomainAt(req[s])))
  <2>1. Step(s, "look")  BY <1>3 DEF maybe_suppress_domain, DomainAt
  <2>2. PICK r : /\ req' = [req EXCEPT ![s] = r] /\ r.op = "look" /\ DomainAt(r) = DomainAt(req[s])
                 /\ DOMAIN r = {"op", "user", "todo"}
    BY <1>2, <2>1, StepMoves
  <2>3. \A d : "look" \in Suppressing(d)  BY DEF Suppressing
  <2> QED  BY <1>1, <2>2, <2>3, MoveOnKeeps
<1>4. CASE ~Crossed(counts_for(DomainAt(req[s])))
  <2>1. Proceed(s)  BY <1>4 DEF maybe_suppress_domain, DomainAt
  <2>2. PICK r : req' = [req EXCEPT ![s] = r] /\ (r.op \in Carrying => DOMAIN r = {"op", "user", "todo"})
    BY <2>1, ProceedMoves
  <2> QED  BY <1>1, <1>4, <2>2, MoveOnKeeps
<1> QED  BY <1>3, <1>4

LEMMA LookKeeps ==
    ASSUME SuppressInv, NEW s \in Slots, LookSuppression(s)
    PROVE  SuppressInv'
<1>1. req[s].op = "look" /\ UNCHANGED feedbackVars  BY DEF LookSuppression, At
<1>2. FeedbackCarried /\ req[s].op \in Carrying  BY <1>1 DEF SuppressInv, Carrying
<1>3. PICK op : op = IF DomainAt(req[s]) \in DOMAIN suppressed THEN "renew" ELSE "add"  OBVIOUS
<1>4. Step(s, op)  BY <1>3 DEF LookSuppression, DomainAt
<1>5. PICK r : /\ req' = [req EXCEPT ![s] = r] /\ r.op = op /\ DomainAt(r) = DomainAt(req[s])
               /\ DOMAIN r = {"op", "user", "todo"}
  BY <1>2, <1>4, StepMoves
<1>6. op \in Suppressing(DomainAt(req[s]))  BY <1>3 DEF Suppressing
<1> QED  BY <1>1, <1>5, <1>6, MoveOnKeeps

\* Whoever inserts or renews leaves a suppression in force; whoever is refused left it to
\* another.
LEMMA SuppressionKeeps ==
    ASSUME SuppressInv, NEW s \in Slots, StoreSuppression(s)
    PROVE  SuppressInv'
<1>1. PICK d : d = DomainAt(req[s])  OBVIOUS
<1>2. CASE req[s].op = "add" /\ d \in DOMAIN suppressed
  <2>1. UNCHANGED feedbackVars /\ End(s)  BY <1>1, <1>2 DEF StoreSuppression, At, DomainAt, feedbackVars
  <2>2. req' = [req EXCEPT ![s] = Idle] /\ Idle.op \notin Carrying  BY <2>1 DEF End, Goto, Idle, Carrying
  <2>3. req[s].op \notin Suppressing(d)  BY <1>2 DEF Suppressing
  <2> QED  BY <1>1, <2>1, <2>2, <2>3, MoveOnKeeps
<1>3. CASE ~(req[s].op = "add" /\ d \in DOMAIN suppressed)
  <2>1. /\ suppressed' = [x \in DOMAIN suppressed \cup {d} |-> IF x = d THEN [expired |-> FALSE] ELSE suppressed[x]]
        /\ UNCHANGED <<rows, fresh, cut>> /\ Proceed(s)
    BY <1>1, <1>3 DEF StoreSuppression, At, DomainAt
  <2>2. PICK r : req' = [req EXCEPT ![s] = r] /\ (r.op \in Carrying => DOMAIN r = {"op", "user", "todo"})
    BY <2>1, ProceedMoves
  <2>3. /\ FeedbackCarried' /\ req'[s] = r
        /\ \A t \in Slots \ {s} : req'[t] = req[t]
    BY <2>2, MovesOn DEF SuppressInv
  <2>4. RowsNumbered'  BY <2>1 DEF SuppressInv, RowsNumbered
  <2>5. domain_suppression(d)'  BY <2>1 DEF domain_suppression
  <2>6. ASSUME NEW x, x # d PROVE domain_suppression(x)' = domain_suppression(x) /\ Suppressing(x)' = Suppressing(x)
    BY <2>1, <2>6 DEF domain_suppression, Suppressing
  <2>7. ASSUME NEW x, x # d, Pursued(x) PROVE Pursued(x)'  BY <1>1, <2>3, <2>6, <2>7, StaysPursued
  <2>8. \A x : counts_for(x)' = counts_for(x)  BY <2>1 DEF counts_for, Decisive
  <2>9. ASSUME ~cut', NEW x \in fresh', Crossed(counts_for(x))' PROVE domain_suppression(x)' \/ Pursued(x)'
    <3>1. x \in fresh /\ ~cut /\ Crossed(counts_for(x))  BY <2>1, <2>8, <2>9 DEF Crossed
    <3>2. domain_suppression(x) \/ Pursued(x)  BY <3>1 DEF SuppressInv, CrossedPursued
    <3> QED  BY <2>5, <2>6, <2>7, <3>2
  <2>10. CrossedPursued'  BY <2>9 DEF CrossedPursued
  <2> QED  BY <2>3, <2>4, <2>10 DEF SuppressInv
<1> QED  BY <1>2, <1>3

\* Time takes a row, or a suppression, of one domain out of account: its latest news with it.
LEMMA TimeKeeps ==
    ASSUME SuppressInv, AgeFeedback \/ ExpireSuppression
    PROVE  SuppressInv'
<1>1. UNCHANGED <<req, cut>>  BY DEF AgeFeedback, ExpireSuppression, Serve
<1>2. FeedbackCarried'  BY <1>1 DEF SuppressInv, FeedbackCarried
<1>3. PICK d : fresh' = fresh \ {d} /\ (\A x : x # d => counts_for(x)' = counts_for(x) /\ domain_suppression(x)' = domain_suppression(x))
               /\ DOMAIN suppressed' = DOMAIN suppressed /\ DOMAIN rows' = DOMAIN rows
  <2>1. CASE AgeFeedback
    <3>1. PICK i \in DOMAIN rows : rows' = [rows EXCEPT ![i].old = TRUE] /\ fresh' = fresh \ {DomainOf[rows[i].email]}
      BY <2>1 DEF AgeFeedback
    <3>2. suppressed' = suppressed  BY <2>1 DEF AgeFeedback
    <3>3. PICK d, aged : d = DomainOf[rows[i].email] /\ aged = [rows[i] EXCEPT !.old = TRUE]  OBVIOUS
    <3>4. aged.email = rows[i].email  BY <3>3
    <3>5. DOMAIN rows' = DOMAIN rows /\ rows'[i] = aged /\ \A j \in DOMAIN rows \ {i} : rows'[j] = rows[j]  BY <3>1, <3>3
    <3>6. ASSUME NEW x, x # d PROVE counts_for(x)' = counts_for(x)
      <4>1. DomainOf[rows'[i].email] = d /\ DomainOf[rows[i].email] = d  BY <3>3, <3>4, <3>5
      <4>2. Decisive(x)' = {j \in DOMAIN rows' : DomainOf[rows'[j].email] = x /\ ~rows'[j].old /\ rows'[j].outcome # "soft_bounce"}
        BY DEF Decisive
      <4>3. Decisive(x)' = Decisive(x)  BY <3>5, <3>6, <4>1, <4>2 DEF Decisive
      <4>4. \A j \in Decisive(x) : j \in DOMAIN rows \ {i}  BY <3>6, <4>1 DEF Decisive
      <4> QED  BY <3>5, <4>3, <4>4, CountsStay
    <3>7. \A x : domain_suppression(x)' = domain_suppression(x)  BY <3>2 DEF domain_suppression
    <3> QED  BY <3>1, <3>2, <3>3, <3>5, <3>6, <3>7
  <2>2. CASE ExpireSuppression
    <3>1. PICK d \in DOMAIN suppressed : suppressed' = [suppressed EXCEPT ![d].expired = TRUE] /\ fresh' = fresh \ {d}
      BY <2>2 DEF ExpireSuppression
    <3>2. rows' = rows  BY <2>2 DEF ExpireSuppression
    <3>3. DOMAIN suppressed' = DOMAIN suppressed /\ \A x \in DOMAIN suppressed \ {d} : suppressed'[x] = suppressed[x]  BY <3>1
    <3>4. \A x : x # d => domain_suppression(x)' = domain_suppression(x)  BY <3>3 DEF domain_suppression
    <3>5. \A x : counts_for(x)' = counts_for(x)  BY <3>2 DEF counts_for, Decisive
    <3> QED  BY <3>1, <3>2, <3>3, <3>4, <3>5
  <2> QED  BY <2>1, <2>2
<1>4. RowsNumbered'  BY <1>3 DEF SuppressInv, RowsNumbered
<1>5. \A x : Pursued(x)' = Pursued(x)  BY <1>1, <1>3 DEF Pursued, Suppressing, DomainAt
<1>6. ASSUME ~cut', NEW x \in fresh', Crossed(counts_for(x))' PROVE domain_suppression(x)' \/ Pursued(x)'
  <2>1. x \in fresh /\ x # d /\ ~cut  BY <1>1, <1>3, <1>6
  <2>2. Crossed(counts_for(x))  BY <1>3, <1>6, <2>1 DEF Crossed
  <2>3. domain_suppression(x) \/ Pursued(x)  BY <2>1, <2>2 DEF SuppressInv, CrossedPursued
  <2> QED  BY <1>3, <1>5, <2>1, <2>3
<1>7. CrossedPursued'  BY <1>6 DEF CrossedPursued
<1> QED  BY <1>2, <1>4, <1>7 DEF SuppressInv

LEMMA SuppressKeeps ==
    ASSUME SuppressInv, FeedbackNext
    PROVE  SuppressInv'
<1>1. ASSUME NEW s \in Slots, NEW u, NEW e, NEW o, create_email_validation_feedback(s, u, e, o) PROVE SuppressInv'
  <2>1. PICK r : r = [op |-> "insert", user |-> u, todo |-> <<[email |-> e, outcome |-> o]>>]  OBVIOUS
  <2>2. Begin(s, r) /\ UNCHANGED feedbackVars  BY <1>1, <2>1 DEF create_email_validation_feedback
  <2>3. r.op = "insert" /\ DOMAIN r = {"op", "user", "todo"}  BY <2>1
  <2> QED  BY <2>2, <2>3, ReportKeeps
<1>2. ASSUME NEW s \in Slots, NEW u, NEW m, ingest_bounce(s, u, m) PROVE SuppressInv'
  <2>1. PICK known : Begin(s, [op |-> "insert", user |-> u, todo |-> known]) /\ UNCHANGED feedbackVars
    BY <1>2 DEF ingest_bounce
  <2>2. PICK r : r = [op |-> "insert", user |-> u, todo |-> known]  OBVIOUS
  <2>3. r.op = "insert" /\ DOMAIN r = {"op", "user", "todo"}  BY <2>2
  <2> QED  BY <2>1, <2>2, <2>3, ReportKeeps
<1>3. ASSUME NEW s \in Slots, CutOff(s) PROVE SuppressInv'
  <2>1. cut' /\ UNCHANGED <<rows, suppressed, fresh>> /\ req' = [req EXCEPT ![s] = Idle]  BY <1>3 DEF CutOff, End, Goto
  <2>2. Idle.op \notin Carrying  BY DEF Idle, Carrying
  <2>3. FeedbackCarried'  BY <2>1, <2>2, MovesOn DEF SuppressInv
  <2> QED  BY <2>1, <2>3 DEF SuppressInv, RowsNumbered, CrossedPursued
<1> QED  BY <1>1, <1>2, <1>3, RecordKeeps, CountKeeps, LookKeeps, SuppressionKeeps, TimeKeeps DEF FeedbackNext

\* validation_feedback.py:267-298: with no request under way and none cut off, a domain
\* whose latest news is a hard bounce and whose outcomes crossed the limit is suppressed,
\* whichever requests of whichever tenants counted or inserted at once.
THEOREM SuppressedAlwaysWhenDue == Spec => []SuppressedWhenDue
<1>1. Init => (part = "feedback" => SuppressInv)  BY SuppressStart
<1>2. (part = "feedback" => SuppressInv) /\ [Next]_vars => (part = "feedback" => SuppressInv)'
  <2> SUFFICES ASSUME part = "feedback" => SuppressInv, [Next]_vars, part' = "feedback" PROVE SuppressInv'  OBVIOUS
  <2>1. part = "feedback" /\ SuppressInv  BY PartStays
  <2>2. CASE FeedbackNext  BY <2>1, <2>2, SuppressKeeps
  <2>3. CASE UNCHANGED vars
    <3>1. UNCHANGED <<req, rows, suppressed, fresh, cut>>  BY <2>3 DEF vars, requestVars, feedbackVars
    <3>2. FeedbackCarried' /\ RowsNumbered'  BY <2>1, <3>1 DEF SuppressInv, FeedbackCarried, RowsNumbered
    <3>3. \A d : Decisive(d)' = Decisive(d)  BY <3>1 DEF Decisive
    <3>4. \A d : counts_for(d)' = counts_for(d)  BY <3>1, <3>3 DEF counts_for
    <3>5. \A d : Pursued(d)' <=> Pursued(d)  BY <3>1 DEF Pursued, Suppressing, DomainAt
    <3>6. \A d : domain_suppression(d)' <=> domain_suppression(d)  BY <3>1 DEF domain_suppression
    <3>7. CrossedPursued'  BY <2>1, <3>1, <3>4, <3>5, <3>6 DEF SuppressInv, CrossedPursued, Crossed
    <3> QED  BY <3>2, <3>7 DEF SuppressInv
  <2>4. CASE BusNext \/ ScanNext \/ validate_email_endpoint \/ BatchNext \/ MailNext \/ ForwardNext
    BY <2>1, <2>4 DEF BusNext, ScanNext, validate_email_endpoint, BatchNext, MailNext, ForwardNext, Only
  <2> QED  BY <2>2, <2>3, <2>4 DEF Next
<1>3. (part = "feedback" => SuppressInv) => SuppressedWhenDue
  <2> SUFFICES ASSUME part = "feedback", SuppressInv, Quiet, ~cut, NEW d \in fresh, Crossed(counts_for(d)) PROVE domain_suppression(d)
    BY DEF SuppressedWhenDue
  <2>1. domain_suppression(d) \/ Pursued(d)  BY DEF SuppressInv, CrossedPursued
  <2>2. \A s \in Slots : req[s].op = "idle"  BY DEF Quiet, Idle
  <2>3. ~Pursued(d)  BY <2>2 DEF Pursued, Suppressing
  <2> QED  BY <2>1, <2>3
<1> QED  BY <1>1, <1>2, <1>3, PTL DEF Spec

-----------------------------------------------------------------------------
(* Verdicts: what is known of an answer about a mailbox.                   *)

Verdicts == {"present", "temporary", "absent", "none", "policy"}
Heard(replies) == [i \in DOMAIN replies |-> classify_rcpt_response(replies[i])]
Target(count) == IF count = 0 THEN 1 ELSE 2

\* A session's verdict on the target, its controls among the other replies, all of them
\* when every recipient was accepted; and a refused control after an accepted first one
\* is seen to be degradation.
Reads(x, v, count) ==
    /\ x.target = v[Target(count)]
    /\ x.target = "present" =>
           /\ x.controls # <<>> => 1 \in DOMAIN x.controls
           /\ \A j \in DOMAIN x.controls : \E i \in 1..(count + 1) : i # Target(count) /\ x.controls[j] = v[i]
           /\ count # 0 /\ (\A i \in 1..(count + 1) : v[i] = "present") =>
                  x.controls # <<>> /\ \A j \in DOMAIN x.controls : x.controls[j] = "present"
           /\ ~x.degraded /\ (\E j \in DOMAIN x.controls : x.controls[j] = "absent") /\ v[1] # "absent" => v[1] # "present"

Backed(a, count, m) ==
    /\ m.valid \in {"yes", "no", "unknown"}
    /\ m.valid = "no" => ~a.exists
    /\ m.catch_all = "yes" => m.valid = "yes" /\ a.kind # "validating"
    /\ m.valid = "yes" /\ m.selective =>
           \/ a.exists /\ a.kind = "validating"
           \/ a.kind = "degrading" /\ \E i \in DOMAIN a.tries : a.tries[i].replies[1].class # "2xx"
    /\ m.valid = "yes" /\ m.catch_all # "yes" /\ ~a.exists =>
           /\ a.kind # "validating" /\ ~a.tunnel
           /\ count = 0 \/ \E i \in DOMAIN a.tries : \E j \in DOMAIN a.tries[i].replies : a.tries[i].replies[j].class # "2xx"

-----------------------------------------------------------------------------
(* Verdicts: the proof.                                                    *)

LEMMA SmallestOf ==
    ASSUME NEW S \in SUBSET Nat, S # {}
    PROVE  Min(S) \in S
<1>1. PICK m \in S : \A x \in S : <<x, m>> \notin OpToRel(<, Nat)  BY NatLessThanWellFounded, WFMin
<1>2. \A x \in S : x \in Nat /\ ~(x < m)  BY <1>1 DEF OpToRel
<1>3. \A x \in S : m <= x  BY <1>2
<1> QED  BY <1>1, <1>3 DEF Min

LEMMA HeardVerdicts ==
    ASSUME NEW replies, NEW n \in Nat, DOMAIN replies = 1..n, NEW v, v = Heard(replies)
    PROVE  /\ v \in Seq(Verdicts) /\ Len(v) = n
           /\ \A i \in 1..n : replies[i].class = "2xx" <=> v[i] = "present"
<1>1. \A r : classify_rcpt_response(r) \in Verdicts  BY DEF classify_rcpt_response, Verdicts
<1>2. \A r : r.class = "2xx" <=> classify_rcpt_response(r) = "present"  BY DEF classify_rcpt_response
<1>3. v \in [1..n -> Verdicts]  BY <1>1 DEF Heard
<1> QED  BY <1>2, <1>3 DEF Heard

LEMMA Follows ==
    ASSUME NEW v \in Seq(Verdicts), NEW x \in Verdicts, NEW w, w = <<x>> \o v
    PROVE  /\ Len(w) = Len(v) + 1 /\ DOMAIN w = 1..(Len(v) + 1) /\ w[1] = x
           /\ \A j \in 2..(Len(v) + 1) : w[j] = v[j - 1]
<1>1. PICK u : u = <<x>>  OBVIOUS
<1>2. u \in Seq(Verdicts) /\ Len(u) = 1 /\ u[1] = x  BY <1>1
<1>3. /\ w \in Seq(Verdicts) /\ Len(w) = Len(u) + Len(v)
      /\ \A i \in 1..Len(u) + Len(v) : w[i] = IF i <= Len(u) THEN u[i] ELSE v[i - Len(u)]
  BY <1>1, <1>2, ConcatProperties
<1>4. PICK n \in Nat : n = Len(v)  BY LenProperties
<1> QED  BY <1>2, <1>3, <1>4, LenProperties

LEMMA SessionReads ==
    ASSUME NEW replies, NEW count \in Nat, DOMAIN replies = 1..(count + 1), NEW v, v = Heard(replies)
    PROVE  Reads(run_probe_session(replies, count), v, count)
<1>1. v \in Seq(Verdicts) /\ Len(v) = count + 1
  <2>1. count + 1 \in Nat  OBVIOUS
  <2> QED  BY <2>1, HeardVerdicts
<1>2. PICK x : x = ProbeSession(v, count) /\ x = run_probe_session(replies, count)  BY DEF run_probe_session, Heard
<1>3. CASE count = 0
  <2>1. x = [target |-> v[1], controls |-> <<>>, degraded |-> FALSE]  BY <1>2, <1>3 DEF ProbeSession
  <2>2. x.target = v[1] /\ x.controls = <<>> /\ DOMAIN x.controls = {}  BY <2>1
  <2> QED  BY <1>2, <1>3, <2>2 DEF Reads, Target
<1>4. CASE count # 0
  <2>1. PICK lead, R : /\ lead = IF v[1] = "none" THEN <<>> ELSE <<v[1]>>
                       /\ R = {n \in 2..(count + 1) : \A i \in 3..n : v[i] # "none"}
    OBVIOUS
  <2>2. PICK m, trail : m = Max(R) /\ trail = SubSeq(v, 3, m)  OBVIOUS
  <2>3. PICK c : c = IF v[2] = "present" THEN lead \o trail ELSE lead  OBVIOUS
  <2>4. x = [target |-> v[2], controls |-> c, degraded |-> v[2] = "present" /\ order_degraded(c)]
    BY <1>2, <1>4, <2>1, <2>2, <2>3 DEF ProbeSession
  <2>5. x.target = v[2] /\ x.controls = c /\ (v[2] = "present" => (x.degraded <=> order_degraded(c)))  BY <2>4
  <2>6. m \in 2..(count + 1) /\ \A n \in R : n <= m
    <3>1. PICK k \in Nat : k = count + 1  OBVIOUS
    <3>2. R \in SUBSET 0..k  BY <2>1, <3>1
    <3>3. 2 \in R  BY <1>4, <2>1
    <3>4. Max(R) \in R /\ \A n \in R : n <= Max(R)  BY <3>1, <3>2, <3>3, LargestOf
    <3> QED  BY <2>1, <2>2, <3>4
  <2>7. trail \in Seq(Verdicts) /\ Len(trail) = m - 2 /\ \A i \in 1..(m - 2) : trail[i] = v[i + 2]
    <3>1. 3 \in 1..(Len(v) + 1) /\ m \in 3 - 1..Len(v)  BY <1>1, <1>4, <2>6
    <3>2. /\ trail \in Seq(Verdicts) /\ Len(trail) = m - 3 + 1 /\ \A i \in 1..(m - 3 + 1) : trail[i] = v[3 + i - 1]
      BY <1>1, <2>2, <3>1, SubSeqProperties
    <3> QED  BY <2>6, <3>2
  <2>8. CASE v[2] # "present"  BY <1>2, <1>4, <2>5, <2>8 DEF Reads, Target
  <2>9. CASE v[2] = "present"
    <3>1. v[1] \in Verdicts  BY <1>1
    <3>2. PICK k \in Nat : k = m - 2 /\ k + 2 <= count + 1  BY <2>6
    <3>3. \A i \in 1..k : i + 2 \in 1..(count + 1) /\ i + 2 # 2 /\ trail[i] = v[i + 2]  BY <2>7, <3>2
    <3>4. CASE v[1] = "none"
      <4>1. c = trail  BY <2>1, <2>3, <2>7, <2>9, <3>4
      <4>2. DOMAIN c = 1..k  BY <2>7, <3>2, <4>1
      <4>3. \A j \in DOMAIN c : \E i \in 1..(count + 1) : i # 2 /\ c[j] = v[i]  BY <3>3, <4>1, <4>2
      <4>4. ~\A i \in 1..(count + 1) : v[i] = "present"  BY <3>4
      <4>5. c # <<>> => 1 \in DOMAIN c
        <5>1. c \in Seq(Verdicts) /\ Len(c) = k  BY <2>7, <3>2, <4>1
        <5>2. c # <<>> => k # 0  BY <5>1, EmptySeq
        <5> QED  BY <3>2, <4>2, <5>2
      <4> QED  BY <1>2, <1>4, <2>5, <2>9, <3>4, <4>3, <4>4, <4>5 DEF Reads, Target
    <3>5. CASE v[1] # "none"
      <4>1. c = <<v[1]>> \o trail  BY <2>1, <2>3, <2>9, <3>5
      <4>2. Len(c) = k + 1 /\ DOMAIN c = 1..(k + 1) /\ c[1] = v[1] /\ \A j \in 2..(k + 1) : c[j] = trail[j - 1]
        BY <2>7, <3>1, <3>2, <4>1, Follows
      <4>3. \A j \in 2..(k + 1) : j - 1 \in 1..k /\ (j - 1) + 2 = j + 1 /\ j + 1 \in 1..(count + 1) /\ j + 1 # 2 /\ c[j] = v[j + 1]
        <5> TAKE j \in 2..(k + 1)
        <5>1. j - 1 \in 1..k /\ (j - 1) + 2 = j + 1  BY <3>2
        <5> QED  BY <3>3, <4>2, <5>1
      <4>4. \A j \in 1..(k + 1) : j = 1 \/ j \in 2..(k + 1)  BY <3>2
      <4>5. \A j \in DOMAIN c : \E i \in 1..(count + 1) : i # 2 /\ c[j] = v[i]
        <5>1. 1 \in 1..(count + 1)  OBVIOUS
        <5> QED  BY <4>2, <4>3, <4>4, <5>1
      <4>6. c # <<>>  BY <3>2, <4>2
      <4>7. (\A i \in 1..(count + 1) : v[i] = "present") => \A j \in DOMAIN c : c[j] = "present"  BY <4>5
      <4>8. ASSUME ~order_degraded(c), NEW j \in DOMAIN c, c[j] = "absent", v[1] # "absent" PROVE v[1] # "present"
        <5>1. j \in 2..Len(c)  BY <3>2, <4>2, <4>4, <4>8
        <5> QED  BY <4>2, <4>6, <4>8, <5>1 DEF order_degraded
      <4>9. 1 \in DOMAIN c  BY <3>2, <4>2
      <4> QED  BY <1>2, <1>4, <2>5, <2>9, <4>5, <4>6, <4>7, <4>8, <4>9 DEF Reads, Target
    <3> QED  BY <3>4, <3>5
  <2> QED  BY <2>8, <2>9
<1> QED  BY <1>3, <1>4

\* An answer of an honest host says no more than it knows.
LEMMA AnswerBacked ==
    ASSUME NEW a, NEW count \in Nat, NEW i \in DOMAIN a.tries, HonestSession(a, a.tries[i].replies, count), ~a.tunnel,
           a.kind \in {"validating", "accept_all", "degrading"}
    PROVE  Backed(a, count, mailbox_from_session(run_probe_session(a.tries[i].replies, count)))
<1>1. PICK replies, v, x, t, m : /\ replies = a.tries[i].replies /\ v = Heard(replies) /\ x = run_probe_session(replies, count)
                                 /\ t = Target(count) /\ m = mailbox_from_session(x)
  OBVIOUS
<1>2. /\ DOMAIN replies = 1..(count + 1) /\ (v[t] = "absent" => ~a.exists)
      /\ v[t] = "present" =>
             /\ a.kind = "validating" => a.exists /\ \A j \in 1..(count + 1) : j # t => v[j] # "present"
             /\ a.kind = "accept_all" => \A j \in 1..(count + 1) : v[j] # "absent"
             /\ a.kind = "degrading" => v[1] # "absent"
  BY <1>1 DEF HonestSession, Heard, Target
<1>3. Reads(x, v, count)  BY <1>1, <1>2, SessionReads
<1>4. \A j \in 1..(count + 1) : replies[j].class = "2xx" <=> v[j] = "present"
  <2>1. count + 1 \in Nat  OBVIOUS
  <2> QED  BY <1>1, <1>2, <2>1, HeardVerdicts
<1>5. PICK checked, all : /\ checked = (~x.degraded /\ \E j \in DOMAIN x.controls : x.controls[j] = "absent")
                          /\ all = (x.controls # <<>> /\ \A j \in DOMAIN x.controls : x.controls[j] = "present")
  OBVIOUS
<1>6. CASE v[t] = "absent"
  <2>1. m.valid = "no" /\ m.catch_all = "no"  BY <1>1, <1>3, <1>6 DEF Reads, mailbox_from_session
  <2> QED  BY <1>1, <1>2, <1>6, <2>1 DEF Backed
<1>7. CASE v[t] = "present"
  <2>1. x.target = "present"  BY <1>1, <1>3, <1>7 DEF Reads
  <2>2. m = [valid |-> "yes", catch_all |-> IF all THEN "yes" ELSE IF checked THEN "no" ELSE "unknown", selective |-> checked]
    BY <1>1, <1>5, <2>1 DEF mailbox_from_session
  <2>3. m.valid = "yes" /\ m.selective = checked /\ (m.catch_all = "yes" <=> all)  BY <2>2
  <2>4. \A j \in DOMAIN x.controls : \E k \in 1..(count + 1) : k # t /\ x.controls[j] = v[k]
    BY <1>1, <1>3, <2>1 DEF Reads
  <2>5. all => a.kind # "validating"
    <3>1. all => x.controls[1] = "present" /\ 1 \in DOMAIN x.controls  BY <1>3, <1>5, <2>1 DEF Reads
    <3> QED  BY <1>2, <1>7, <2>4, <3>1
  <2>6. checked => \/ a.exists /\ a.kind = "validating"
                   \/ a.kind = "degrading" /\ replies[1].class # "2xx"
    <3>1. SUFFICES ASSUME checked PROVE \/ a.exists /\ a.kind = "validating"
                                        \/ a.kind = "degrading" /\ replies[1].class # "2xx"
      OBVIOUS
    <3>2. PICK j \in DOMAIN x.controls : x.controls[j] = "absent"  BY <1>5, <3>1
    <3>3. a.kind # "accept_all"  BY <1>2, <1>7, <2>4, <3>2
    <3>4. ~x.degraded  BY <1>5, <3>1
    <3>5. v[1] # "absent" => v[1] # "present"  BY <1>3, <2>1, <3>2, <3>4 DEF Reads
    <3>6. 1 \in 1..(count + 1)  OBVIOUS
    <3> QED  BY <1>2, <1>4, <1>7, <3>3, <3>5, <3>6
  <2>7. ~all /\ ~a.exists => /\ a.kind # "validating"
                             /\ count = 0 \/ \E j \in DOMAIN replies : replies[j].class # "2xx"
    <3>1. count # 0 /\ (\A j \in 1..(count + 1) : v[j] = "present") => all  BY <1>3, <1>5, <2>1 DEF Reads
    <3> QED  BY <1>2, <1>4, <1>7, <3>1
  <2> QED  BY <1>1, <2>3, <2>5, <2>6, <2>7 DEF Backed
<1>8. CASE v[t] # "absent" /\ v[t] # "present"
  <2>1. m = NoAnswer  BY <1>1, <1>3, <1>8 DEF Reads, mailbox_from_session
  <2> QED  BY <1>1, <2>1 DEF Backed, NoAnswer
<1> QED  BY <1>6, <1>7, <1>8

LEMMA NothingBacked ==
    ASSUME NEW a, NEW count
    PROVE  Backed(a, count, NoAnswer)
BY DEF Backed, NoAnswer

\* The first address that knows decides.
LEMMA MailboxBacked ==
    ASSUME NEW a, NEW count, Honest(a, count), ~a.tunnel
    PROVE  Backed(a, count, validate_mailbox(a.tries, count))
<1> DEFINE Answer(t) == IF t.reached = "session" THEN mailbox_from_session(run_probe_session(t.replies, count)) ELSE NoAnswer
           definite == {i \in DOMAIN a.tries : Answer(a.tries[i]).valid # "unknown"}
<1>1. validate_mailbox(a.tries, count) = IF definite = {} THEN NoAnswer ELSE Answer(a.tries[Min(definite)])
  BY DEF validate_mailbox
<1>2. \A i \in DOMAIN a.tries : Backed(a, count, Answer(a.tries[i]))
  <2> TAKE i \in DOMAIN a.tries
  <2>1. count \in Nat /\ a.kind \in {"validating", "accept_all", "degrading"}  BY DEF Honest
  <2>2. CASE a.tries[i].reached = "session"
    <3>1. HonestSession(a, a.tries[i].replies, count)  BY <2>2 DEF Honest
    <3> QED  BY <2>1, <2>2, <3>1, AnswerBacked
  <2> QED  BY <2>2, NothingBacked
<1>3. CASE definite = {}  BY <1>1, <1>3, NothingBacked
<1>4. CASE definite # {}
  <2>1. definite \in SUBSET Nat  BY DEF Honest
  <2>2. Min(definite) \in definite  BY <1>4, <2>1, SmallestOf
  <2> HIDE DEF Answer
  <2> QED  BY <1>1, <1>2, <1>4, <2>2
<1> QED  BY <1>3, <1>4

LEMMA TunnelBacked ==
    ASSUME NEW a, NEW count, Honest(a, count), a.tunnel
    PROVE  Backed(a, count, validate_mailbox_via_tunnel(a.reply))
<1>1. PICK m : m = validate_mailbox_via_tunnel(a.reply)  OBVIOUS
<1>2. CASE a.reply.code = 250
  <2>1. a.exists /\ a.kind = "validating"  BY <1>2 DEF Honest
  <2>2. m.valid = "yes" /\ m.catch_all = "no"  BY <1>1, <1>2 DEF validate_mailbox_via_tunnel
  <2> QED  BY <1>1, <2>1, <2>2 DEF Backed
<1>3. CASE a.reply.code = 252
  <2>1. a.kind # "validating"  BY <1>3 DEF Honest
  <2>2. m.valid = "yes" /\ m.catch_all = "yes" /\ ~m.selective  BY <1>1, <1>3 DEF validate_mailbox_via_tunnel
  <2> QED  BY <1>1, <2>1, <2>2 DEF Backed
<1>4. CASE a.reply.code = 550
  <2>1. ~a.exists  BY <1>4 DEF Honest
  <2>2. m.valid = "no" /\ m.catch_all = "no"  BY <1>1, <1>4 DEF validate_mailbox_via_tunnel
  <2> QED  BY <1>1, <2>1, <2>2 DEF Backed
<1>5. CASE a.reply.code \notin {250, 252, 550}
  <2>1. m = NoAnswer  BY <1>1, <1>5 DEF validate_mailbox_via_tunnel
  <2> QED  BY <1>1, <2>1, NothingBacked
<1> QED  BY <1>2, <1>3, <1>4, <1>5

\* What is known of the mailbox becomes a response that says no more.
LEMMA BackedSupported ==
    ASSUME NEW a, NEW count, NEW m, Backed(a, count, m), NEW r, r = overall_status(a, m)
    PROVE  /\ r.deliverable = "no" => ~a.exists
           /\ r.status = "catch_all" => a.kind # "validating"
           /\ r.confidence = 97 => m.valid = "yes" /\ m.selective
           /\ r.status = "valid" => m.valid = "yes" /\ m.catch_all # "yes"
<1>1. CASE is_disposable_domain(a)
  <2>1. r.status = "disposable" /\ r.deliverable = m.valid /\ r.confidence = 80  BY <1>1 DEF overall_status, Response
  <2> QED  BY <2>1 DEF Backed
<1>2. CASE ~is_disposable_domain(a) /\ m.valid = "no"
  <2>1. r.status = "invalid" /\ r.deliverable = "no" /\ r.confidence = 98  BY <1>2 DEF overall_status, Response
  <2> QED  BY <1>2, <2>1 DEF Backed
<1>3. CASE ~is_disposable_domain(a) /\ m.valid = "yes" /\ m.catch_all = "yes"
  <2>1. r.status = "catch_all" /\ r.deliverable = "unknown" /\ r.confidence = 50  BY <1>3 DEF overall_status, Response
  <2> QED  BY <1>3, <2>1 DEF Backed
<1>4. CASE ~is_disposable_domain(a) /\ m.valid = "unknown" /\ m.catch_all # "yes"
  <2>1. r.status = "undetermined" /\ r.deliverable = "unknown" /\ r.confidence = 20  BY <1>4 DEF overall_status, Response
  <2> QED  BY <2>1
<1>5. CASE ~is_disposable_domain(a) /\ m.valid = "yes" /\ m.catch_all # "yes"
  <2>1. r.status = "valid" /\ r.deliverable = "yes" /\ r.confidence = IF m.selective THEN 97 ELSE 95
    BY <1>5 DEF overall_status, Response
  <2>2. r.confidence = 97 => m.selective  BY <2>1
  <2> QED  BY <1>5, <2>1, <2>2
<1>6. m.valid \in {"yes", "no", "unknown"} /\ (m.catch_all = "yes" => m.valid = "yes")  BY DEF Backed
<1> QED  BY <1>1, <1>2, <1>3, <1>4, <1>5, <1>6

LEMMA HonestSupported ==
    ASSUME NEW a, NEW count, Honest(a, count)
    PROVE  Supported(a, count)
<1> SUFFICES ASSUME ~Misrouted(a)
             PROVE  LET r == validate_email_detailed(a, count)
                    IN /\ r.deliverable = "no" => ~a.exists
                       /\ r.status = "catch_all" => a.kind # "validating"
                       /\ r.confidence = 97 => \/ a.exists /\ a.kind = "validating"
                                               \/ a.kind = "degrading" /\ \E i \in DOMAIN a.tries : a.tries[i].replies[1].class # "2xx"
                       /\ (r.status = "valid" /\ ~a.exists) =>
                              /\ a.kind # "validating" /\ ~a.tunnel
                              /\ count = 0 \/ \E i \in DOMAIN a.tries : \E j \in DOMAIN a.tries[i].replies : a.tries[i].replies[j].class # "2xx"
  BY DEF Supported
<1>1. PICK m : m = IF a.timeout THEN NoAnswer ELSE IF a.tunnel THEN validate_mailbox_via_tunnel(a.reply) ELSE validate_mailbox(a.tries, count)
  OBVIOUS
<1>2. Backed(a, count, m)  BY <1>1, NothingBacked, TunnelBacked, MailboxBacked
<1>3. PICK r : r = validate_email_detailed(a, count)  OBVIOUS
<1>4. CASE ~validate_syntax(a)
  <2>1. r.status = "invalid" /\ r.confidence = 100  BY <1>3, <1>4 DEF validate_email_detailed, Response
  <2>2. ~a.exists  BY <1>4 DEF Honest
  <2> QED  BY <1>3, <2>1, <2>2
<1>5. CASE validate_syntax(a) /\ validate_dns(a.dns) # "valid"
  <2>1. r = UnroutedResponse(a)  BY <1>3, <1>5 DEF validate_email_detailed
  <2>2. r.status \in {"disposable", "undetermined", "invalid"} /\ r.confidence \in {20, 95}  BY <2>1 DEF UnroutedResponse, Response
  <2>3. r.deliverable = "no" => validate_dns(a.dns) # "undetermined"  BY <2>1 DEF UnroutedResponse, Response
  <2>4. validate_dns(a.dns) # "undetermined" => ~a.exists
    <3>1. SUFFICES ASSUME a.exists PROVE validate_dns(a.dns) = "undetermined"  OBVIOUS
    <3>2. a.dns.mx # "null" /\ {"hosts", "error"} \cap {a.dns.mx, a.dns.a, a.dns.aaaa} # {}  BY <3>1 DEF Honest
    <3>3. "hosts" \notin {a.dns.mx, a.dns.a, a.dns.aaaa}  BY <1>5, <3>2 DEF validate_dns
    <3>4. "error" \in {a.dns.mx, a.dns.ns, a.dns.a, a.dns.aaaa}  BY <3>2, <3>3
    <3> QED  BY <3>2, <3>3, <3>4 DEF validate_dns
  <2> QED  BY <1>3, <2>2, <2>3, <2>4
<1>6. CASE validate_syntax(a) /\ validate_dns(a.dns) = "valid"
  <2>1. r = overall_status(a, m)  BY <1>1, <1>3, <1>6 DEF validate_email_detailed
  <2>2. /\ r.deliverable = "no" => ~a.exists
        /\ r.status = "catch_all" => a.kind # "validating"
        /\ r.confidence = 97 => m.valid = "yes" /\ m.selective
        /\ r.status = "valid" => m.valid = "yes" /\ m.catch_all # "yes"
    BY <1>2, <2>1, BackedSupported
  <2> QED  BY <1>2, <1>3, <2>2 DEF Backed
<1> QED  BY <1>4, <1>5, <1>6

\* No address is given a verdict that its hosts' answers do not support
\* (validate_email_detailed): an existing mailbox is never called undeliverable, and
\* "valid", "accepts all" and full confidence are said only of hosts that showed it.
THEOREM VerdictsAlwaysSupported == Spec => []VerdictsSupported
<1>1. Init => world \in Worlds \cup {Unset}  BY DEF Init
<1>2. world \in Worlds \cup {Unset} /\ [Next]_vars => (world \in Worlds \cup {Unset})'
  <2> SUFFICES ASSUME world \in Worlds \cup {Unset}, [Next]_vars PROVE world' \in Worlds \cup {Unset}  OBVIOUS
  <2>1. CASE UNCHANGED vars  BY <2>1 DEF vars
  <2>2. CASE validate_email_endpoint  BY <2>2 DEF validate_email_endpoint
  <2>3. \A name : Only(name) /\ name # "address" => world' = world  BY DEF Only
  <2>4. CASE BusNext \/ ScanNext \/ BatchNext \/ FeedbackNext \/ MailNext \/ ForwardNext
    BY <2>3, <2>4 DEF BusNext, ScanNext, BatchNext, FeedbackNext, MailNext, ForwardNext
  <2> QED  BY <2>1, <2>2, <2>4 DEF Next
<1>3. world \in Worlds \cup {Unset} => VerdictsSupported  BY WorldsAssumption, HonestSupported DEF VerdictsSupported
<1> QED  BY <1>1, <1>2, <1>3, PTL DEF Spec
=============================================================================
