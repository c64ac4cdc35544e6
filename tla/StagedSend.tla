----------------------------- MODULE StagedSend -----------------------------
(***************************************************************************)
(* Staged ("canary") sends (backend/app/emails/canary.py and its           *)
(* scheduler): score the recipients, mail a sample, watch for bounces, and *)
(* release or block the held rest.  The scheduler and the caller's decide  *)
(* request work on rows selected earlier and write them back in one commit *)
(* after a loop of deliveries; cancel and bounces touch the same rows in   *)
(* between, and the process may die there.                                 *)
(***************************************************************************)
EXTENDS Naturals, Sequences, FiniteSets, FiniteSetsExt, TLC

CONSTANTS Recipients, Domains,     \* the recipients by domain
          SampleSize, Risks,       \* risk scores, as ranks from 1
          Percent,                 \* bounce_threshold
          AutoRelease,
          Batch,                   \* _BATCH_LIMIT
          MaxMishaps                \* bound: crashes, failed commits, raises, decide and cancel requests

ASSUME StagedSendAssumption ==
    /\ IsFiniteSet(Recipients) /\ UNION Domains = Recipients /\ Risks \subseteq Nat \ {0} /\ SampleSize \in Nat \ {0}
    /\ Percent \in 0..100 /\ AutoRelease \in BOOLEAN
    /\ Batch \in Nat /\ MaxMishaps \in Nat

VARIABLES
    canary, window,       \* EmailSendCanary.status; decision_due_at: unset, open, elapsed
    row, role, risk,      \* EmailSendCanaryRecipient.status, .role, .risk_score
    ahead,                \* other staged sends before it in the query that would find it
    job,                  \* the scheduler's and the decide request's work in memory
    cancelling,           \* a cancel request has loaded the canary
    copies,               \* history: mails handed to Postfix
    prompt,               \* history: the recipient's hard bounce was recorded before the window elapsed
    interruptions, raises, decides, cancels

db == <<canary, window, row, role, risk>>
counters == <<interruptions, raises, decides, cancels>>
stagedVars == <<db, ahead, job, cancelling, copies, prompt, counters>>

Procs == {"scheduler", "caller"}
NoRisk == 0
Everything == 1 + Max(Risks \cup {0})     \* cutoff=1.1: above every score
Idle == [at |-> "idle", todo |-> {}, out |-> [r \in Recipients |-> "-"], cutoff |-> 0]
PendingRows == {r \in Recipients : row[r] = "pending"}
Sample == {r \in Recipients : role[r] = "sample"}
Symmetry == {f \in Permutations(Recipients) : \A D \in Domains : {f[r] : r \in D} \in Domains}
Unharmed == interruptions + raises + decides + cancels < MaxMishaps

-----------------------------------------------------------------------------
(* choose_sample over the indices of the recipients, riskiest first.       *)

RoundHalfEven(a, b) == LET q == a \div b
                           h == 2 * (a % b)
                       IN IF h < b \/ (h = b /\ q % 2 = 0) THEN q ELSE q + 1

Spread(n, k) == {1} \cup {1 + Min({RoundHalfEven(i * (n - 1), k - 1), n - 1}) : i \in 1..(k - 1)}

Picked(n, size) ==
    LET k == Max({1, Min({size, n})})
        p == Spread(n, k)
        m == Min({i \in 0..n : Cardinality(p \cup 1..i) >= k})
    IN IF k >= n THEN 1..n ELSE p \cup 1..m

\* The orders sorted() may leave: by falling risk, ties as the rows came.
Sorted(S, score) == {q \in [1..Cardinality(S) -> S] :
    \A i, j \in 1..Cardinality(S) : i < j => q[i] # q[j] /\ score[q[i]] >= score[q[j]]}

-----------------------------------------------------------------------------
(* create_canary and the scheduler's dispatch.                             *)

create_canary ==
    /\ canary = "none"
    /\ \E suppressed \in SUBSET Domains :
         LET S == UNION suppressed IN
         /\ canary' = IF S # Recipients THEN "pending" ELSE "blocked"
         /\ row' = [r \in Recipients |-> IF r \in S THEN "skipped" ELSE "pending"]
    /\ ahead' \in 0..Batch
    /\ UNCHANGED <<window, role, risk, job, cancelling, copies, prompt, counters>>

\* _dispatch_pending takes the oldest Batch sends; a send's rows to score are
\* selected, then probed over SMTP.
PickUp ==
    /\ job["scheduler"].at = "idle" /\ ahead < Batch /\ canary = "pending" /\ PendingRows # {}
    /\ job' = [job EXCEPT !["scheduler"] = [Idle EXCEPT !.at = "score", !.todo = PendingRows]]
    /\ UNCHANGED <<db, ahead, cancelling, copies, prompt, counters>>

ScoreFails ==
    /\ job["scheduler"].at = "score" /\ Unharmed
    /\ job' = [job EXCEPT !["scheduler"] = Idle]
    /\ raises' = raises + 1
    /\ UNCHANGED <<db, ahead, cancelling, copies, prompt, interruptions, decides, cancels>>

\* The scores of every row, the dead addresses and the roles go to the
\* database in one commit, whatever happened to the rows meanwhile.
score_and_assign_sample ==
    LET rows == job["scheduler"].todo IN
    /\ job["scheduler"].at = "score"
    /\ \E dead \in SUBSET rows, score \in [rows -> Risks] :
         LET live == rows \ dead IN
         \E q \in Sorted(live, score) :
           LET sample == {q[i] : i \in Picked(Cardinality(live), SampleSize) \cap 1..Cardinality(live)} IN
           /\ risk' = [r \in Recipients |-> IF r \in rows THEN score[r] ELSE risk[r]]
           /\ row' = [r \in Recipients |-> IF r \in dead THEN "skipped" ELSE row[r]]
           /\ role' = [r \in Recipients |-> IF r \in sample THEN "sample" ELSE role[r]]
           /\ canary' = IF live = {} THEN "blocked" ELSE canary
           /\ job' = [job EXCEPT !["scheduler"] =
                         IF live = {} THEN Idle ELSE [Idle EXCEPT !.at = "select sample"]]
    /\ UNCHANGED <<ahead, window, cancelling, copies, prompt, counters>>

SelectSample ==
    LET rows == PendingRows \cap Sample IN
    /\ job["scheduler"].at = "select sample"
    /\ job' = [job EXCEPT !["scheduler"] =
                  IF rows = {} THEN Idle ELSE [Idle EXCEPT !.at = "dispatch", !.todo = rows]]
    /\ UNCHANGED <<db, ahead, cancelling, copies, prompt, counters>>

\* One round of a delivery loop: send_email returns, or raises with or
\* without the message having left.  The new status is set on the object only.
Deliver(p, r, ok) ==
    /\ r \in job[p].todo
    /\ \/ /\ copies' = [copies EXCEPT ![r] = @ + 1]
          /\ job' = [job EXCEPT ![p].todo = @ \ {r}, ![p].out[r] = ok]
          /\ UNCHANGED raises
       \/ /\ Unharmed /\ raises' = raises + 1
          /\ copies' \in {copies, [copies EXCEPT ![r] = @ + 1]}
          /\ job' = [job EXCEPT ![p].todo = @ \ {r}, ![p].out[r] = "skipped"]
    /\ UNCHANGED <<db, ahead, cancelling, prompt, interruptions, decides, cancels>>

SendSample(r) == job["scheduler"].at = "dispatch" /\ Deliver("scheduler", r, "sent")

\* Mutant: only rows that are still pending are written.
WrittenIfPending(p) ==
    [r \in Recipients |-> IF job[p].out[r] # "-" /\ row[r] = "pending" THEN job[p].out[r] ELSE row[r]]

Written(p) == [r \in Recipients |-> IF job[p].out[r] # "-" THEN job[p].out[r] ELSE row[r]]

\* Mutant: the observation window is never opened.
dispatch_unwatched ==
    /\ job["scheduler"].at = "dispatch" /\ job["scheduler"].todo = {}
    /\ row' = Written("scheduler") /\ canary' = "probing"
    /\ job' = [job EXCEPT !["scheduler"] = Idle]
    /\ UNCHANGED <<ahead, window, role, risk, cancelling, copies, prompt, counters>>

dispatch_sample ==
    /\ job["scheduler"].at = "dispatch" /\ job["scheduler"].todo = {}
    /\ row' = Written("scheduler") /\ canary' = "probing" /\ window' = "open"
    /\ job' = [job EXCEPT !["scheduler"] = Idle]
    /\ UNCHANGED <<ahead, role, risk, cancelling, copies, prompt, counters>>

-----------------------------------------------------------------------------
(* Deciding: the scheduler when the window has elapsed, or the caller.     *)

\* The Batch sends whose windows ended first are loaded, and those that wait
\* for their callers passed over.
_decide_due ==
    /\ job["scheduler"].at = "idle" /\ ahead < Batch /\ canary = "probing" /\ window = "elapsed" /\ AutoRelease
    /\ job' = [job EXCEPT !["scheduler"].at = "decide"]
    /\ UNCHANGED <<db, ahead, cancelling, copies, prompt, counters>>

decide_send_canary ==
    /\ job["caller"].at = "idle" /\ canary = "probing" /\ Unharmed
    /\ job' = [job EXCEPT !["caller"].at = "decide"]
    /\ decides' = decides + 1
    /\ UNCHANGED <<db, ahead, cancelling, copies, prompt, interruptions, raises, cancels>>

Observed == {r \in Sample : row[r] \in {"sent", "delivered", "hard_bounce"}}
Bounced == {r \in Sample : row[r] = "hard_bounce"}

\* The verdict, from the sample's rows as they are now.
decide(p) ==
    /\ job[p].at = "decide"
    /\ IF Observed = {}
       THEN canary' = "failed" /\ job' = [job EXCEPT ![p] = Idle]
       ELSE /\ UNCHANGED canary
            /\ job' = [job EXCEPT ![p] =
                 IF 100 * Cardinality(Bounced) <= Percent * Cardinality(Observed)
                 THEN [Idle EXCEPT !.at = "select held", !.cutoff = Everything]
                 ELSE IF Bounced = Observed
                 THEN [Idle EXCEPT !.at = "block"]
                 ELSE [Idle EXCEPT !.at = "select held", !.cutoff = Min({risk[r] : r \in Bounced})]]
    /\ UNCHANGED <<ahead, window, row, role, risk, cancelling, copies, prompt, counters>>

Held == PendingRows \ Sample

SelectHeld(p) ==
    /\ job[p].at = "select held"
    /\ job' = [job EXCEPT ![p].at = "release", ![p].todo = Held]
    /\ UNCHANGED <<db, ahead, cancelling, copies, prompt, counters>>

\* Mutant: a recipient as risky as the safest failure is let through.
TooRiskyStrict(p, r) == risk[r] # NoRisk /\ risk[r] > job[p].cutoff

TooRisky(p, r) == risk[r] # NoRisk /\ risk[r] >= job[p].cutoff

Withhold(p, r) ==
    /\ job[p].at = "release" /\ r \in job[p].todo /\ TooRisky(p, r)
    /\ job' = [job EXCEPT ![p].todo = @ \ {r}, ![p].out[r] = "blocked"]
    /\ UNCHANGED <<db, ahead, cancelling, copies, prompt, counters>>

Release(p, r) == job[p].at = "release" /\ ~TooRisky(p, r) /\ Deliver(p, r, "released")

\* The rows are committed first, the canary's own status after that.
release_remaining(p) ==
    /\ job[p].at = "release" /\ job[p].todo = {}
    /\ row' = Written(p)
    /\ job' = [job EXCEPT ![p] = [Idle EXCEPT !.at = "released"]]
    /\ UNCHANGED <<ahead, canary, window, role, risk, cancelling, copies, prompt, counters>>

_block_remaining(p) ==
    /\ job[p].at = "block"
    /\ row' = [r \in Recipients |-> IF r \in Held THEN "blocked" ELSE row[r]]
    /\ job' = [job EXCEPT ![p].at = "blocked"]
    /\ UNCHANGED <<ahead, canary, window, role, risk, cancelling, copies, prompt, counters>>

Conclude(p) ==
    /\ job[p].at \in {"released", "blocked"}
    /\ canary' = job[p].at
    /\ job' = [job EXCEPT ![p] = Idle]
    /\ UNCHANGED <<ahead, window, row, role, risk, cancelling, copies, prompt, counters>>

-----------------------------------------------------------------------------
(* Cancelling, bounces and the environment.                                *)

LoadForCancel ==
    /\ ~cancelling /\ Unharmed
    /\ canary \notin {"none", "released", "blocked", "cancelled"}
    /\ cancelling' = TRUE /\ cancels' = cancels + 1
    /\ UNCHANGED <<db, ahead, job, copies, prompt, interruptions, raises, decides>>

cancel_send_canary ==
    /\ cancelling /\ cancelling' = FALSE
    /\ row' = [r \in Recipients |-> IF r \in PendingRows THEN "blocked" ELSE row[r]]
    /\ canary' = "cancelled"
    /\ UNCHANGED <<ahead, window, role, risk, job, copies, prompt, counters>>

\* A notification about a mail reaches the bounce scanner or the API.  One whose row
\* is not, or not yet, committed as sent changes nothing.
apply_bounce(r, outcome) ==
    /\ row[r] = "sent" /\ row' = [row EXCEPT ![r] = outcome]
    /\ prompt' = [prompt EXCEPT ![r] = /\ outcome = "hard_bounce" /\ window # "elapsed"
                                       /\ \A p \in Procs : job[p].at \in {"idle", "dispatch"}]
    /\ UNCHANGED <<ahead, canary, window, role, risk, job, cancelling, copies, counters>>

\* The window is over.  Others whose windows ended earlier are first in line,
\* the ones that wait for their callers among them (auto_release = False).
Elapse ==
    /\ window = "open" /\ window' = "elapsed" /\ ahead' \in 0..Batch
    /\ UNCHANGED <<canary, row, role, risk, job, cancelling, copies, prompt, counters>>

\* One of those in front is scored, decided or cancelled.
OthersLeave ==
    /\ ahead > 0 /\ ahead' = ahead - 1
    /\ UNCHANGED <<db, job, cancelling, copies, prompt, counters>>

\* The process dies: the work in memory is lost, mails that left are not.
ProcessDies ==
    /\ Unharmed /\ interruptions' = interruptions + 1
    /\ job' = [p \in Procs |-> Idle] /\ cancelling' = FALSE
    /\ UNCHANGED <<db, ahead, copies, prompt, raises, decides, cancels>>

\* A commit fails: the work is given up, and found again by its rows as the last
\* commit left them.  It counts as a crash.
CommitFails(p) ==
    /\ Unharmed /\ interruptions' = interruptions + 1
    /\ job[p].at \in {"dispatch", "release", "released", "block", "blocked"} /\ job[p].todo = {}
    /\ job' = [job EXCEPT ![p] = Idle]
    /\ UNCHANGED <<db, ahead, cancelling, copies, prompt, raises, decides, cancels>>

-----------------------------------------------------------------------------
StagedInit ==
    /\ canary = "none" /\ window = "unset" /\ ahead = 0
    /\ row = [r \in Recipients |-> "-"]
    /\ role = [r \in Recipients |-> "held"]
    /\ risk = [r \in Recipients |-> NoRisk]
    /\ job = [p \in Procs |-> Idle]
    /\ cancelling = FALSE
    /\ copies = [r \in Recipients |-> 0]
    /\ prompt = [r \in Recipients |-> FALSE]
    /\ interruptions = 0 /\ raises = 0 /\ decides = 0 /\ cancels = 0

DecideStep(p) ==
    \/ decide(p) \/ SelectHeld(p) \/ release_remaining(p) \/ _block_remaining(p) \/ Conclude(p)
    \/ \E r \in Recipients : Withhold(p, r) \/ Release(p, r)

SchedulerStep ==
    \/ PickUp \/ ScoreFails \/ score_and_assign_sample \/ SelectSample \/ dispatch_sample
    \/ _decide_due \/ DecideStep("scheduler")
    \/ \E r \in Recipients : SendSample(r)

Outcomes == {"hard_bounce", "soft_bounce", "delivered"}

StagedNext ==
    \/ create_canary \/ SchedulerStep
    \/ decide_send_canary \/ DecideStep("caller")
    \/ LoadForCancel \/ cancel_send_canary
    \/ \E r \in Recipients, o \in Outcomes : apply_bounce(r, o)
    \/ Elapse \/ OthersLeave \/ ProcessDies \/ \E p \in Procs : CommitFails(p)

StagedSpec == StagedInit /\ [][StagedNext]_stagedVars

\* The scheduler's loop never ends, its awaits have timeouts, and time passes.
TickingSpec == StagedSpec /\ WF_stagedVars(SchedulerStep) /\ WF_stagedVars(Elapse)

-----------------------------------------------------------------------------
(* Properties.                                                             *)

Statuses == {"-", "pending", "sent", "released", "blocked", "skipped"} \cup Outcomes

\* Every variable keeps its type; a job holds rows and outcomes only in the
\* loops that fill them.
StagedTypeOK ==
    /\ canary \in {"none", "pending", "probing", "released", "blocked", "failed", "cancelled"}
    /\ window \in {"unset", "open", "elapsed"} /\ ahead \in 0..Batch
    /\ row \in [Recipients -> Statuses]
    /\ role \in [Recipients -> {"held", "sample"}]
    /\ risk \in [Recipients -> Risks \cup {NoRisk}]
    /\ \A p \in Procs :
        /\ job[p].todo \subseteq Recipients
        /\ job[p].out \in [Recipients -> {"-", "sent", "released", "blocked", "skipped"}]
        /\ job[p].todo # {} => job[p].at \in {"score", "dispatch", "release"}
        /\ job[p].at \in {"idle", "decide", "block"} => job[p].out = Idle.out
    /\ job["caller"].at \notin {"score", "select sample", "dispatch"}
    /\ copies \in [Recipients -> Nat]

\* canary.py:264-276 and :306-317: rows are selected by their status and marked after
\* the delivery, so that a recipient is mailed again only for a crash inside a
\* loop, a failed commit after it, or for a decide request beside the scheduler's: the caller's, at most
\* once for each.
CopiesExplained == \A r \in Recipients : copies[r] <= 1 + interruptions + decides

\* validation_router.py:236: the rest is committed after the sample.  No held
\* recipient is mailed before some sampled one was, whatever is cancelled,
\* re-scored or retried in between.
RestAfterSample ==
    (\E r \in Recipients \ Sample : copies[r] > 0) => \E s \in Sample : copies[s] > 0

Quiet == \A p \in Procs : job[p].at = "idle"

\* No crash, no failed commit, no delivery that raised, and no second decider so far.
Undisturbed == interruptions = 0 /\ raises = 0 /\ decides = 0

\* canary.py:282-297, :322-337: undisturbed, and with nothing in progress, the
\* records say what happened, a cancel included: a row that is pending or
\* blocked was never mailed, one that is sent, released or resolved by a bounce
\* was.
RecordsTrue ==
    Undisturbed /\ Quiet => \A r \in Recipients :
        /\ row[r] \in {"pending", "blocked"} => copies[r] = 0
        /\ row[r] \in {"sent", "released"} \cup Outcomes => copies[r] > 0

\* canary.py:58-62: the sample spans the risk range.  While the outcome of the
\* sample is awaited no recipient is held that is riskier than the whole sample,
\* and with two or more in the sample none that is safer than the whole of it.
SampleSpans ==
    Undisturbed /\ canary = "probing" => \A r \in Held :
        /\ \E s \in Sample : risk[s] >= risk[r]
        /\ SampleSize > 1 => \E s \in Sample : risk[s] <= risk[r]

\* canary.py:387-392: only recipients safer than every failure are released.  A
\* bounce the records show when the window elapses keeps the riskier ones back.
RiskyHeld ==
    Undisturbed => \A r \in Recipients \ Sample, s \in Sample :
        (copies[r] > 0 /\ row[s] = "hard_bounce" /\ prompt[s] /\ Percent = 0) => risk[r] < risk[s]

\* main.py:134 "Staged sends have to advance on their own": whatever fails, bounces,
\* crashes or is cancelled, a staged send with auto_release is decided in the
\* end.  The queries that find it take the first Batch sends only.
AdvancesOnItsOwn == canary \in {"pending", "probing"} ~> canary \notin {"pending", "probing"}

\* The sample goes first, spans the risks, and its bounces hold back what is riskier.
StagedByRisk == RestAfterSample /\ SampleSpans /\ RiskyHeld

\* Rows and mails agree: what was mailed twice is explained by a crash or a second
\* decider, and without them each row says what happened to its recipient.
RecordsFollowMail == CopiesExplained /\ RecordsTrue
=============================================================================
