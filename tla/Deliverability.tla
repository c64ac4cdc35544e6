--------------------------- MODULE Deliverability ---------------------------
(***************************************************************************)
(* Deliverability reports of one mailbox, their enrichment runs, policies  *)
(* with verdicts and alerts, and the scheduler (deliverability/service.py, *)
(* router.py, scheduler.py); with how a message is scored and what the     *)
(* network checks claim (DeliverabilityChecks).  A commit is atomic and    *)
(* checks keys; between reading and committing other requests run.  An     *)
(* update of a row that is gone fails the whole commit, and a column that  *)
(* was not changed is not written.  A behaviour exercises one part;        *)
(* "world" is the message or the network of the parts that compute only.   *)
(***************************************************************************)
EXTENDS Requests, DeliverabilityChecks, SequencesExt

CONSTANTS
    Messages,       \* messages of the mailbox, by uid
    Score,          \* their scores
    Policies, Schedules,
    MaxRuns,        \* deliverability_max_concurrent_runs
    None, Gone

VARIABLES
    inbox,       \* messages in the mailbox
    reports,     \* message -> report row or None
    order,       \* reports in the order of their creation
    runs,        \* enrichment runs: the last one of every request slot
    provider,    \* row of the preview provider or None
    policies,    \* policy -> row, None before it is made, Gone after
    verdicts,    \* evaluations: <<policy, message>> -> passed
    alerts,      \* alerts of failed policies
    cut,         \* history: a process or a provider went away under a run
    schedules,   \* schedule -> row or None
    agenda,      \* schedules with a next_run_at, in that order
    ripe,        \* how many of them are due
    loop,        \* where the scheduler is
    active       \* the mailbox is active

reportVars == <<inbox, reports, order, runs, provider, cut>>
policyVars == <<policies, verdicts, alerts>>
scheduleVars == <<schedules, agenda, ripe, loop, active>>
vars == <<requestVars, reportVars, policyVars, scheduleVars>>

Exists(m) == reports[m] # None
NewReport == [base |-> FALSE, old |-> FALSE]

ReportsInit(made) ==
    /\ inbox = Messages /\ order = made
    /\ reports = [m \in Messages |-> IF m \in Range(made) THEN NewReport ELSE None]
    /\ runs = <<>> /\ provider = [enabled |-> TRUE, status |-> "not_checked"] /\ cut = FALSE
PoliciesInit == policies = [p \in Policies |-> None] /\ verdicts = <<>> /\ alerts = {}
SchedulesInit ==
    /\ schedules = [s \in Schedules |-> None] /\ agenda = <<>> /\ ripe = 0
    /\ loop = [op |-> "idle"] /\ active = TRUE

-----------------------------------------------------------------------------
(* Reports *)

\* Scores one message; "kind" says what the caller wants next.
get_email_deliverability(s, m, kind) ==
    /\ m \in inbox
    /\ Begin(s, [op |-> IF Exists(m) THEN "have" ELSE "score", kind |-> kind, msg |-> m, found |-> <<>>])
    /\ UNCHANGED <<reportVars, policyVars>>

\* A second insert of the same report fails, and the other one is read instead.
get_or_create_report(s) ==
    LET m == req[s].msg
    IN /\ At(s, "score")
       /\ reports' = [reports EXCEPT ![m] = IF @ = None THEN NewReport ELSE @]
       /\ order' = IF Exists(m) THEN order ELSE Append(order, m)
       /\ Step(s, "have") /\ UNCHANGED <<inbox, runs, provider, cut, policyVars>>

\* The rows that go with reports of the messages ms.
Drop(ms) ==
    /\ reports' = [m \in Messages |-> IF m \in ms THEN None ELSE reports[m]]
    /\ order' = SelectSeq(order, LAMBDA m : m \notin ms)
    /\ runs' = [r \in {r \in DOMAIN runs : runs[r].msg \notin ms} |-> runs[r]]
    /\ verdicts' = [v \in {v \in DOMAIN verdicts : v[2] \notin ms} |-> verdicts[v]]
    /\ alerts' = {a \in alerts : a[2] \notin ms}

\* Deleting messages, one or all of them, and then their reports.
delete_mailbox_email(s, ms) ==
    /\ ms \subseteq inbox /\ ms # {}
    /\ inbox' = inbox \ ms /\ Begin(s, [op |-> "delete", msgs |-> ms])
    /\ UNCHANGED <<reports, order, runs, provider, cut, policyVars>>

delete_message_reports(s) ==
    At(s, "delete") /\ Drop(req[s].msgs) /\ End(s) /\ UNCHANGED <<inbox, provider, cut, policies>>

Baseline(m) == [k \in Messages |-> IF Exists(k) THEN [reports[k] EXCEPT !.base = (k = m)] ELSE None]

update_report_baseline(s, m, on) ==
    Exists(m) /\ Begin(s, [op |-> "baseline", msg |-> m, on |-> on]) /\ UNCHANGED <<reportVars, policyVars>>

set_baseline(s) ==
    LET m == req[s].msg
    IN /\ At(s, "baseline")
       /\ reports' = IF ~Exists(m) THEN reports
                     ELSE IF req[s].on THEN Baseline(m) ELSE [reports EXCEPT ![m].base = FALSE]
       /\ End(s) /\ UNCHANGED <<inbox, order, runs, provider, cut, policyVars>>

\* The report to compare with: the baseline, else the latest one before.
resolve_comparison_base(m) ==
    LET base == {k \in Messages \ {m} : Exists(k) /\ reports[k].base}
        before == {i \in DOMAIN order : \E j \in DOMAIN order : order[j] = m /\ i < j}
    IN IF base # {} THEN CHOOSE k \in base : TRUE
       ELSE IF before # {} THEN order[CHOOSE i \in before : \A j \in before : j <= i]
       ELSE None

\* Retention: reports grow old, and old ones that are no baseline go, with their runs and artifacts.
GrowOld(m) == /\ Exists(m) /\ ~reports[m].old /\ reports' = [reports EXCEPT ![m].old = TRUE]
              /\ UNCHANGED <<requestVars, inbox, order, runs, provider, cut, policyVars>>
prune_expired_data ==
    LET expired == {m \in Messages : Exists(m) /\ reports[m].old /\ ~reports[m].base}
    IN expired # {} /\ Drop(expired) /\ UNCHANGED <<requestVars, inbox, provider, cut, policies>>

-----------------------------------------------------------------------------
(* Enrichment runs.  Provider failures and exceptions end in a status.     *)

InRun(s) == req[s].op \in {"local", "preview", "finish"}

\* Whether the preview check can run; read when the run starts.
get_capabilities == provider # None /\ provider.enabled

\* The report may be gone again; otherwise the run waits for a place.
execute_run(s) ==
    LET m == req[s].msg
    IN /\ At(s, "have") /\ req[s].kind = "run"
       /\ IF Exists(m)
          THEN /\ Cardinality({t \in Slots : InRun(t)}) < MaxRuns
               /\ runs' = [r \in DOMAIN runs \cup {s} |-> IF r = s THEN [msg |-> m, status |-> "running"] ELSE runs[r]]
               /\ Goto(s, [op |-> "local", msg |-> m, found |-> <<>>, available |-> get_capabilities])
          ELSE End(s) /\ UNCHANGED runs
       /\ UNCHANGED <<inbox, reports, order, provider, cut, policyVars>>

Report(s) == At(s, "have") /\ req[s].kind = "report" /\ End(s) /\ UNCHANGED <<reportVars, policyVars>>

\* DNS, links and screenshots; an exception skips the rest.
LocalChecks(s, ok) ==
    /\ At(s, "local")
    /\ Goto(s, [req[s] EXCEPT !.op = IF ok /\ req[s].available THEN "preview" ELSE "finish",
                              !.found = IF ok THEN <<"local">> ELSE <<"error">>])
    /\ UNCHANGED <<reportVars, policyVars>>

\* The provider is read again; its health is stored with the run.
run_preview_provider(s, outcome) ==
    /\ At(s, "preview") /\ (outcome = "missing") = (provider = None \/ ~provider.enabled)
    /\ Goto(s, [req[s] EXCEPT !.op = "finish", !.found = Append(@, outcome)])
    /\ UNCHANGED <<reportVars, policyVars>>

run_status(q) ==
    CASE q.found = <<"error">> -> "failed"
      [] q.available /\ q.found = <<"local", "preview">> -> "completed"
      [] OTHER -> "partial"

Asked(q) == Len(q.found) = 2 /\ q.found[2] # "missing"
finish_run(s) ==
    LET q == req[s]
        gone == Asked(q) /\ provider = None
    IN /\ At(s, "finish") /\ End(s)
       /\ IF s \in DOMAIN runs /\ ~gone
          THEN /\ runs' = [runs EXCEPT ![s].status = run_status(q)]
               /\ provider' = IF Asked(q) /\ provider # None
                              THEN [provider EXCEPT !.status = q.found[2]] ELSE provider
          ELSE UNCHANGED <<runs, provider>>
       /\ cut' = (cut \/ gone) /\ UNCHANGED <<inbox, reports, order, policyVars>>

save_provider(row) == Serve /\ provider' = row /\ UNCHANGED <<inbox, reports, order, runs, cut, policyVars>>
create_provider(on) == provider = None /\ save_provider([enabled |-> on, status |-> "not_checked"])
update_provider(on) == provider # None /\ save_provider([provider EXCEPT !.enabled = on])
remove_provider == /\ Serve /\ provider # None /\ provider' = None
                   /\ UNCHANGED <<inbox, reports, order, runs, cut, policyVars>>

\* The process stops; requests and runs in progress are lost.
Stop == /\ req' = [s \in Slots |-> Idle] /\ ~Quiet
        /\ cut' = (cut \/ \E s \in Slots : InRun(s)) /\ overlap' = TRUE
        /\ UNCHANGED <<part, budget, inbox, reports, order, runs, provider, policyVars>>

-----------------------------------------------------------------------------
(* Policies: a row is [minimum, regression] *)

Live(p) == policies[p] \notin {None, Gone}

save_policy(p, minimum, regression) ==
    /\ Serve /\ policies' = [policies EXCEPT ![p] = [minimum |-> minimum, regression |-> regression]]
    /\ UNCHANGED <<reportVars, verdicts, alerts>>
create_policy(p, minimum) == policies[p] = None /\ save_policy(p, minimum, 5)
update_policy(p, minimum) == Live(p) /\ save_policy(p, minimum, 5)
remove_policy(p) ==
    /\ Live(p) /\ Serve
    /\ policies' = [policies EXCEPT ![p] = Gone]
    /\ verdicts' = [v \in {v \in DOMAIN verdicts : v[1] # p} |-> verdicts[v]]
    /\ UNCHANGED <<reportVars, alerts>>

policy_evaluation(s, p, m) ==
    /\ Live(p) /\ Exists(m)
    /\ Begin(s, [op |-> IF <<p, m>> \in DOMAIN verdicts THEN "told" ELSE "judge", policy |-> p, msg |-> m, row |-> policies[p]])
    /\ UNCHANGED <<reportVars, policyVars>>

reasons(row, m) ==
    LET before == resolve_comparison_base(m)
    IN Score[m] < row.minimum \/ (before # None /\ Score[before] - Score[m] > row.regression)

Judge(s) ==
    /\ At(s, "judge")
    /\ Goto(s, [op |-> "verdict", policy |-> req[s].policy, msg |-> req[s].msg, failed |-> Exists(req[s].msg) /\ reasons(req[s].row, req[s].msg)])
    /\ UNCHANGED <<reportVars, policyVars>>

Told(s) == At(s, "told") /\ End(s) /\ UNCHANGED <<reportVars, policyVars>>

\* Mutant: the later of two verdicts replaces the earlier one.
LastVerdict(s) ==
    LET q == req[s]
        key == <<q.policy, q.msg>>
        free == Live(q.policy) /\ Exists(q.msg)
    IN /\ At(s, "verdict") /\ End(s)
       /\ verdicts' = IF free THEN [v \in DOMAIN verdicts \cup {key} |-> IF v = key THEN ~q.failed ELSE verdicts[v]] ELSE verdicts
       /\ alerts' = IF free /\ q.failed THEN alerts \cup {key} ELSE alerts
       /\ UNCHANGED <<reportVars, policies>>

\* Verdict and alert are one commit; a verdict that is there already stands.
evaluate_policy(s) ==
    LET q == req[s]
        key == <<q.policy, q.msg>>
        free == Live(q.policy) /\ Exists(q.msg) /\ key \notin DOMAIN verdicts
    IN /\ At(s, "verdict") /\ End(s)
       /\ verdicts' = IF free THEN [v \in DOMAIN verdicts \cup {key} |-> IF v = key THEN ~q.failed ELSE verdicts[v]] ELSE verdicts
       /\ alerts' = IF free /\ q.failed THEN alerts \cup {key} ELSE alerts
       /\ UNCHANGED <<reportVars, policies>>

-----------------------------------------------------------------------------
(* Schedules.  next_run_at is the place in the agenda. *)

Due(s) == s \in {agenda[i] : i \in 1..ripe}
OnAgenda(s) == \E i \in DOMAIN agenda : agenda[i] = s
Row(s) == [enabled |-> schedules[s].enabled, due |-> OnAgenda(s)]

\* The schedule leaves the agenda, or gets a place behind all that are due.
Unplanned(s) == /\ agenda' = SelectSeq(agenda, LAMBDA t : t # s)
                /\ ripe' = ripe - (IF Due(s) THEN 1 ELSE 0)
Planned(s) ==
    LET rest == SelectSeq(agenda, LAMBDA t : t # s)
    IN /\ ripe' = ripe - (IF Due(s) THEN 1 ELSE 0)
       /\ \E i \in (ripe' + 1)..(Len(rest) + 1) : agenda' = InsertAt(rest, i, s)
\* A claim in progress notices that next_run_at was changed.
Touched(s) == loop' = IF loop.op = "claim" /\ loop.s = s THEN [loop EXCEPT !.same = FALSE] ELSE loop

create_schedule(s, on) ==
    /\ schedules[s] = None /\ Serve /\ schedules' = [schedules EXCEPT ![s] = [enabled |-> on]]
    /\ IF on THEN Planned(s) ELSE UNCHANGED <<agenda, ripe>>
    /\ UNCHANGED <<loop, active>>

update_schedule(r, s, on) ==
    schedules[s] # None /\ Begin(r, [op |-> "save", s |-> s, on |-> on, row |-> Row(s)]) /\ UNCHANGED scheduleVars

\* Only the columns that differ from the row as read are written.
save_schedule(r) ==
    LET q == req[r]
        s == q.s
    IN /\ At(r, "save") /\ End(r)
       /\ IF schedules[s] = None THEN UNCHANGED <<schedules, agenda, ripe, loop>>
          ELSE /\ schedules' = IF q.on # q.row.enabled THEN [schedules EXCEPT ![s].enabled = q.on] ELSE schedules
               /\ CASE q.on /\ ~(q.row.enabled /\ q.row.due) -> Planned(s) /\ Touched(s)
                    [] ~q.on /\ q.row.due -> Unplanned(s) /\ Touched(s)
                    [] OTHER -> UNCHANGED <<agenda, ripe, loop>>
       /\ UNCHANGED active

remove_schedule(s) ==
    /\ schedules[s] # None /\ Serve /\ schedules' = [schedules EXCEPT ![s] = None]
    /\ Unplanned(s) /\ Touched(s) /\ UNCHANGED active

DeactivateMailbox == active /\ Serve /\ active' = FALSE /\ UNCHANGED <<schedules, agenda, ripe, loop>>

\* Time passes until the next entry is due.
Ripen == ripe < Len(agenda) /\ ripe' = ripe + 1 /\ UNCHANGED <<requestVars, schedules, agenda, loop, active>>

\* Mutant: the schedules are taken in no order of time.
AnyDue == {agenda[i] : i \in 1..ripe}
NextDue == IF ripe = 0 THEN {} ELSE {agenda[1]}

claim_due_schedule ==
    /\ loop.op = "idle" /\ \E s \in NextDue : loop' = [op |-> "claim", s |-> s, same |-> TRUE]
    /\ UNCHANGED <<requestVars, schedules, agenda, ripe, active>>

\* The claim holds if the schedule is enabled and its date is the one that was read.
Claim ==
    LET s == loop.s
    IN /\ loop.op = "claim"
       /\ IF loop.same /\ schedules[s] # None /\ schedules[s].enabled
          THEN Planned(s) /\ loop' = [op |-> "claimed", s |-> s]
          ELSE loop' = [op |-> "idle"] /\ UNCHANGED <<agenda, ripe>>
       /\ UNCHANGED <<requestVars, schedules, active>>

\* The row is read again, and switched off when the mailbox is not active.
RefreshClaim ==
    LET s == loop.s
    IN /\ loop.op = "claimed"
       /\ loop' = IF schedules[s] = None THEN [op |-> "idle"]
                  ELSE [op |-> IF active THEN "run" ELSE "disable", s |-> s, row |-> Row(s)]
       /\ UNCHANGED <<requestVars, schedules, agenda, ripe, active>>
DisableSchedule ==
    LET s == loop.s
    IN /\ loop.op = "disable" /\ loop' = [op |-> "idle"]
       /\ IF schedules[s] = None THEN UNCHANGED <<schedules, agenda, ripe>>
          ELSE /\ schedules' = IF loop.row.enabled THEN [schedules EXCEPT ![s].enabled = FALSE] ELSE schedules
               /\ IF loop.row.due THEN Unplanned(s) ELSE UNCHANGED <<agenda, ripe>>
       /\ UNCHANGED <<requestVars, active>>

\* The run itself, whatever its outcome, ends in the next round of the loop.
run_schedule ==
    loop.op = "run" /\ loop' = [op |-> "idle"] /\ UNCHANGED <<requestVars, schedules, agenda, ripe, active>>

scheduler_loop == claim_due_schedule \/ Claim \/ RefreshClaim \/ DisableSchedule \/ run_schedule

-----------------------------------------------------------------------------
(* Composition *)

CONSTANTS
    Evidence,       \* field of a message -> the values it may have
    Samples,        \* messages that editing starts from
    Network,        \* the network that answers well
    Worlds,         \* networks to check
    ReportRequests, PolicyRequests, ScheduleRequests, Edits   \* bounds

VARIABLE world

allVars == <<vars, world>>
Only(name) == part = name

ScoreInit == RequestsInit("score", Edits) /\ world \in Samples
NetworkInit == RequestsInit("network", 1) /\ world = Network
StoreInit ==
    /\ world = None
    /\ \/ RequestsInit("reports", ReportRequests) /\ ReportsInit(<<>>)
       \/ RequestsInit("policies", PolicyRequests) /\ ReportsInit(SetToSeq(Messages))
       \/ RequestsInit("schedules", ScheduleRequests) /\ ReportsInit(<<>>)

Init == /\ PoliciesInit /\ SchedulesInit
        /\ ((ScoreInit \/ NetworkInit) /\ ReportsInit(<<>>)) \/ StoreInit

EditMessage(f) == /\ \E v \in Evidence[f] : world' = [world EXCEPT ![f] = v] 
                  /\ Serve /\ UNCHANGED <<reportVars, policyVars, scheduleVars>>
ChangeNetwork == Serve /\ world' \in Worlds /\ UNCHANGED <<reportVars, policyVars, scheduleVars>>

ScoreNext == Only("score") /\ \E f \in DOMAIN Evidence : EditMessage(f)
NetworkNext == Only("network") /\ ChangeNetwork

ReportsNext ==
    /\ Only("reports") /\ UNCHANGED <<scheduleVars, world>>
    /\ \/ \E s \in Slots, m \in Messages, kind \in {"report", "run"} : get_email_deliverability(s, m, kind)
       \/ \E s \in Slots : get_or_create_report(s) \/ execute_run(s) \/ Report(s) \/ finish_run(s) \/ delete_message_reports(s) \/ set_baseline(s)
       \/ \E s \in Slots, ok \in BOOLEAN : LocalChecks(s, ok)
       \/ \E s \in Slots, outcome \in {"preview", "error", "missing"} : run_preview_provider(s, outcome)
       \/ \E s \in Slots, ms \in SUBSET Messages : delete_mailbox_email(s, ms)
       \/ \E s \in Slots, m \in Messages, on \in BOOLEAN : update_report_baseline(s, m, on)
       \/ \E on \in BOOLEAN : create_provider(on) \/ update_provider(on)
       \/ remove_provider \/ Stop

\* The reports of all messages exist when policies are set up.
PoliciesNext ==
    /\ Only("policies") /\ UNCHANGED <<scheduleVars, world>>
    /\ \/ \E s \in Slots, m \in Messages : get_email_deliverability(s, m, "report")
       \/ \E s \in Slots : get_or_create_report(s) \/ Report(s) \/ set_baseline(s) \/ Judge(s) \/ Told(s) \/ evaluate_policy(s)
       \/ \E s \in Slots, m \in Messages : update_report_baseline(s, m, TRUE)
       \/ \E p \in Policies, minimum \in {0, 80} : create_policy(p, minimum) \/ update_policy(p, minimum)
       \/ \E p \in Policies : remove_policy(p)
       \/ \E s \in Slots, p \in Policies, m \in Messages : policy_evaluation(s, p, m)
       \/ \E m \in Messages : GrowOld(m)
       \/ prune_expired_data

SchedulesNext ==
    /\ Only("schedules") /\ UNCHANGED <<reportVars, policyVars, world>>
    /\ \/ \E s \in Schedules, on \in BOOLEAN : create_schedule(s, on)
       \/ \E r \in Slots, s \in Schedules, on \in BOOLEAN : update_schedule(r, s, on)
       \/ \E r \in Slots : save_schedule(r)
       \/ \E s \in Schedules : remove_schedule(s)
       \/ DeactivateMailbox \/ Ripen \/ scheduler_loop

Next == ScoreNext \/ NetworkNext \/ ReportsNext \/ PoliciesNext \/ SchedulesNext

\* scheduler_loop survives every exception and goes on.
Scheduler == Only("schedules") /\ scheduler_loop /\ UNCHANGED <<reportVars, policyVars, world>>
Spec == Init /\ [][Next]_allVars /\ WF_allVars(Scheduler)

-----------------------------------------------------------------------------
(* Properties *)

\* A mailbox has at most one baseline.  A run that is under way belongs to a
\* request, unless the process stopped or its provider was removed meanwhile.
\* When requests do not overlap, a deleted message leaves no report behind.
ReportsConsistent ==
    /\ \A m, k \in Messages : Exists(m) /\ Exists(k) /\ reports[m].base /\ reports[k].base => m = k
    /\ cut \/ \A r \in DOMAIN runs : runs[r].status = "running" => InRun(r)
    /\ \A m \in Messages \ inbox : Exists(m) => overlap \/ ~Quiet

\* A policy that a report failed has its one alert, a policy that it passed has none,
\* however evaluations, deletions and retention interleave.
VerdictsAlerted ==
    \A v \in DOMAIN verdicts : verdicts[v] = (v \notin alerts)

\* A schedule is enabled exactly when it has a next date, so an enabled one is never
\* forgotten and a disabled one never runs.
EnabledIffPlanned ==
    part = "schedules" => \A s \in Schedules : (schedules[s] # None /\ schedules[s].enabled) = OnAgenda(s)

\* A schedule that is due gets its turn although others become due again and again.
DueGetsItsTurn == \A s \in Schedules : Due(s) ~> ~Due(s)

\* Every message that editing reaches is scored fairly.
ScoresFair == part = "score" => Fair(world)

\* The network checks claim nothing that the answers do not support.
NetworkClaimsSound == part = "network" => Sound(world)

\* Overlapping requests, failing steps and the scheduler leave reports, baselines and
\* runs consistent, every verdict with its alert, and every enabled schedule with a date.
RecordsConsistent == ReportsConsistent /\ VerdictsAlerted /\ EnabledIffPlanned

-----------------------------------------------------------------------------
(* Values of the run: two messages, two policies, two schedules, two         *)
(* requests at a time; SPF worlds over three domains, includes followed twice*)

MCScore == [m \in Messages |-> IF m = "m1" THEN 90 ELSE 82]

Result(by, method, result, aligned) == [by |-> by, method |-> method, result |-> result, aligned |-> aligned]
AuthHeaders ==
    {<<>>} \cup {<<Result("mailcue", "spf", "pass", TRUE), Result("mailcue", "dkim", r, a), Result("mailcue", "dmarc", "pass", TRUE)>> :
                     r \in {"pass", "softfail", "fail"}, a \in BOOLEAN}
    \cup {<<Result("elsewhere", "dkim", "pass", TRUE), Result("mailcue", "dkim", r, FALSE), Result("mailcue", "dkim", "pass", a)>> :
                     r \in {"pass", "fail"}, a \in BOOLEAN}
SpfHeaders == {<<>>, <<Result("mailcue", "spf", "pass", TRUE)>>,
               <<Result("elsewhere", "spf", "pass", TRUE), Result("mailcue", "spf", "softfail", FALSE)>>}

MCEvidence ==
    [results |-> AuthHeaders, received_spf |-> SpfHeaders, subject |-> {"missing", "shouting", "good"}, phrases |-> {0, 1, 3},
     hidden |-> {0, 1, 2}, preheader |-> {"none", "short", "concise"}, bulk |-> {"no", "missing", "link", "one_click"},
     return_path |-> {"aligned", "other"}, reply_to |-> {"none", "aligned", "other"}, received |-> {"none", "plain", "tls"},
     spam |-> {"none", "flagged", "no_score", "wide", "narrow", "thin"}, attachments |-> {"none", "executable", "large", "fine"}]
    @@ [f \in {"plain", "html", "active", "little_text", "much_markup", "odd_targets", "mislabelled", "http_links", "pixels",
               "no_language", "heading_skips", "low_contrast", "small_targets", "risky_css", "no_alt", "one_from", "duplicates",
               "message_id", "date", "mime", "named_origin", "arc"} |-> BOOLEAN]

Bare == [f \in DOMAIN MCEvidence |->
             CASE f \in {"results", "received_spf"} -> <<>> [] f \in {"phrases", "hidden"} -> 0
               [] f = "subject" -> "missing" [] f = "bulk" -> "no" [] f = "return_path" -> "other"
               [] f \in {"preheader", "reply_to", "received", "spam", "attachments"} -> "none" [] OTHER -> FALSE]
Rich == [f \in DOMAIN MCEvidence |->
             CASE f = "results" -> <<Result("mailcue", "spf", "softfail", TRUE)>> [] f = "received_spf" -> <<>>
               [] f \in {"phrases", "hidden"} -> 1 [] f = "subject" -> "shouting" [] f = "preheader" -> "short"
               [] f = "bulk" -> "missing" [] f = "return_path" -> "other" [] f = "reply_to" -> "other"
               [] f = "received" -> "plain" [] f = "spam" -> "thin" [] f = "attachments" -> "large" [] OTHER -> TRUE]
MCSamples == {Bare, Rich}

Domains == {"a", "b", "c"}
Policy(n, t, nested) == [records |-> n, terms |-> t, nested |-> nested]
Sorted(S) == SelectSeq(<<"a", "b", "c">>, LAMBDA d : d \in S)
SpfPolicies == {Policy(0, 0, <<>>), Policy(2, 0, <<>>)} \cup {Policy(1, t, Sorted(S)) : t \in {0, 7}, S \in SUBSET Domains}
Plain == [d \in Domains |-> Policy(1, 0, <<>>)]
Link(web, credentials, port, addresses, answer) ==
    [web |-> web, credentials |-> credentials, web_port |-> port, addresses |-> addresses, answer |-> answer]
Seed(ssl, addresses, broken, found) == [ssl |-> ssl, addresses |-> addresses, broken |-> broken, searchable |-> TRUE, found |-> found]

MCNetwork ==
    [safe_domain |-> TRUE, timeout |-> FALSE, spf |-> Plain, spf_domain |-> "a", dmarc |-> "enforced", selectors |-> <<"strong">>,
     mx |-> TRUE, optional |-> TRUE, hops |-> <<"lmtp", "public">>, greeting |-> "b", greeting_resolves |-> TRUE, ptr |-> "greeting",
     ip_zones |-> <<{}>>, domain_zones |-> <<{}>>, links |-> <<>>, seeds |-> <<>>, shots |-> <<>>]
Answers == {{}, {"listed"}, {"timeout"}, {"listed", "refused"}}
Links == {Link(w, c, p, a, "ok") : w, c, p \in BOOLEAN, a \in {{"public"}, {"public", "private"}, {}}}
         \cup {Link(TRUE, FALSE, TRUE, {"public"}, "http_error")}
Seeds == {Seed(ssl, a, b, f) : ssl, b \in BOOLEAN, a \in {{"public"}, {"private"}}, f \in {"inbox", "spam", "no"}}
MCWorlds ==
    {[MCNetwork EXCEPT !.spf = s] : s \in {f \in [Domains -> SpfPolicies] : f["a"].records = 1}}
    \cup {[MCNetwork EXCEPT !.domain_zones = z, !.ip_zones = z] : z \in SeqOf(Answers, 2)}
    \cup {[MCNetwork EXCEPT !.hops = h] : h \in SeqOf({"lmtp", "loopback", "private", "public"}, 3)}
    \cup {[MCNetwork EXCEPT !.links = l] : l \in Links \X Links}
    \cup {[MCNetwork EXCEPT !.shots = v] : v \in SeqOf({"same", "differs", "failed"}, 2)}
    \cup {[MCNetwork EXCEPT !.seeds = l] : l \in Seeds \X Seeds}
    \cup {[MCNetwork EXCEPT !.dmarc = d, !.selectors = k, !.greeting = g, !.greeting_resolves = r, !.ptr = p, !.timeout = t] :
              d \in {"none", "partial"}, k \in SeqOf({"strong", "weak", "bad"}, 2), g \in {"none", "b"}, r, t \in BOOLEAN, p \in {"none", "greeting", "other"}}
=============================================================================
