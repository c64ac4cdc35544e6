------------------------------- MODULE Warmup -------------------------------
(***************************************************************************)
(* The warmup scheduler (backend/app/warmup): one campaign that exchanges  *)
(* mail with external accounts, paced per receiving provider.  A slot is   *)
(* claimed in the database, then runs through network I/O while the admin  *)
(* API changes the same rows; the scheduler works on the ORM objects it    *)
(* loaded and writes back the columns it changed.                          *)
(*                                                                         *)
(* Times are relative: a timer counts down to 0 with Tick, so that the     *)
(* model has no last instant.  Values in slot are relative to the slot's   *)
(* own "now", which is taken at the claim.                                 *)
(***************************************************************************)
EXTENDS Naturals, Sequences, FiniteSets

CONSTANTS Accounts, Providers, ProviderOf,
          Gap,                   \* _PROVIDER_MIN_GAP_MINUTES
          Base, Unit, MaxCool,   \* cooldown after temporary failures
          Lease, MinDelay, MaxDelay,
          LongWait,              \* until the active hours or tomorrow
          StartVolume, Ramp, MaxVolume,
          MaxAge,                \* bound: how long a slot may take
          MaxFails,              \* bound: where consecutive_failures saturates
          MaxDsn, MaxUpsets      \* bounds: unseen reports; crashes, lost answers, resumes and edits together

ASSUME WarmupAssumption ==
    /\ ProviderOf \in [Accounts -> Providers]
    /\ {Gap, Base, Unit, MaxCool, Lease, MinDelay, MaxDelay, LongWait, StartVolume, Ramp, MaxVolume,
        MaxAge, MaxFails, MaxDsn, MaxUpsets} \subseteq Nat
    /\ 0 < MinDelay /\ MinDelay <= MaxDelay /\ 0 < Lease /\ StartVolume <= MaxVolume /\ Base <= MaxCool
    /\ \A t \in {Gap, MaxCool, Lease, MaxDelay} : t <= LongWait

VARIABLES
    status, due,           \* WarmupCampaign.status, next_run_at (None: -)
    members, healthy,      \* account_ids; accounts that are enabled and verified
    sent, fresh, target,   \* messages_sent_today, volume_date = today, today's volume
    prov,                  \* WarmupProviderState rows
    conv,                  \* direction of the last event recorded as sent, per account
    slot,                  \* process_campaign
    mail, dsn,             \* Postfix may still report on an account; unseen reports
    crashes, unsure, resumes, edits,
    real, open, since, floor, late   \* history, see below

campaign == <<status, due, members, healthy, sent, fresh, target>>
history  == <<real, open, since, floor, late>>
warmupVars == <<campaign, prov, conv, slot, mail, dsn, crashes, unsure, resumes, edits, history>>

None == LongWait + 1
Least(a, b) == IF a < b THEN a ELSE b
Most(a, b) == IF a > b THEN a ELSE b
Rest(t, age) == IF t > age THEN t - age ELSE 0
Ceil(n, d) == (n + d - 1) \div d

NewState == [status |-> "healthy", fails |-> 0, wait |-> 0, sent |-> 0]
NoSlot == [at |-> "idle", age |-> 0, today |-> TRUE, reset |-> FALSE, accts |-> {}, target |-> 0, sent |-> 0,
           prov |-> [p \in Providers |-> NewState], fb |-> <<>>, acc |-> "-", out |-> FALSE, res |-> "-"]

-----------------------------------------------------------------------------
(* Provider health.                                                        *)

Cooldown(n) == Least(MaxCool, Most(Base, Unit * 2 ^ (n - 1)))

\* apply_provider_feedback, success=False, at a time "now" after the claim
Fail(s, perm, now) ==
    LET n == Least(s.fails + 1, MaxFails)
    IN  IF perm THEN [s EXCEPT !.status = "blocked", !.fails = n, !.wait = 0]
        ELSE [s EXCEPT !.status = "cooling", !.fails = n, !.wait = now + Cooldown(n)]

\* Mutant: the next delivery may follow at once.
SucceedNoGap(s) == [s EXCEPT !.status = "healthy", !.fails = 0, !.sent = @ + 1, !.wait = 0]

\* apply_provider_feedback, success=True
Succeed(s) == [s EXCEPT !.status = "healthy", !.fails = 0, !.sent = @ + 1, !.wait = Gap]

\* provider_is_available, at the slot's now
Available(s) == s.status # "blocked" /\ s.wait = 0
Thaw(s) == IF Available(s) /\ s.status = "cooling" THEN [s EXCEPT !.status = "healthy"] ELSE s

\* The ORM writes the columns that differ from what it loaded.
WriteBack(db, old, new, age) ==
    [status |-> IF new.status # old.status THEN new.status ELSE db.status,
     fails  |-> IF new.fails # old.fails THEN new.fails ELSE db.fails,
     sent   |-> IF new.sent # old.sent THEN new.sent ELSE db.sent,
     wait   |-> IF new.wait # old.wait THEN Rest(new.wait, age) ELSE db.wait]

Commit(new) == prov' = [p \in Providers |-> WriteBack(prov[p], slot.prov[p], new[p], slot.age)]

-----------------------------------------------------------------------------
(* A slot, step by step.                                                   *)

\* Mutant: a claimed slot has no lease.
ClaimForever ==
    /\ slot.at = "idle" /\ status = "active" /\ due = 0
    /\ LET accts == members \cap healthy
       IN  IF accts = {}
           THEN status' = "paused" /\ due' = None /\ UNCHANGED slot
           ELSE /\ due' = None
                /\ slot' = [NoSlot EXCEPT !.at = "begun", !.reset = ~fresh, !.accts = accts, !.target = target,
                                          !.sent = sent, !.prov = prov]
                /\ UNCHANGED status
    /\ UNCHANGED <<members, healthy, sent, fresh, target, prov, conv, mail, dsn, crashes, unsure, resumes, edits, history>>

\* Mutant: the status of the campaign is not part of the claim.
ClaimAnyStatus ==
    /\ slot.at = "idle" /\ due = 0
    /\ LET accts == members \cap healthy
       IN  IF accts = {}
           THEN status' = "paused" /\ due' = None /\ UNCHANGED slot
           ELSE /\ due' = Lease
                /\ slot' = [NoSlot EXCEPT !.at = "begun", !.reset = ~fresh, !.accts = accts, !.target = target,
                                          !.sent = sent, !.prov = prov]
                /\ UNCHANGED status
    /\ UNCHANGED <<members, healthy, sent, fresh, target, prov, conv, mail, dsn, crashes, unsure, resumes, edits, history>>

\* The claim and the loads behind it: local statements, no network between them.
Claim ==
    /\ slot.at = "idle" /\ status = "active" /\ due = 0
    /\ LET accts == members \cap healthy
       IN  IF accts = {}
           THEN status' = "paused" /\ due' = None /\ UNCHANGED slot
           ELSE /\ due' = Lease
                /\ slot' = [NoSlot EXCEPT !.at = "begun", !.reset = ~fresh, !.accts = accts, !.target = target,
                                          !.sent = sent, !.prov = prov]
                /\ UNCHANGED status
    /\ UNCHANGED <<members, healthy, sent, fresh, target, prov, conv, mail, dsn, crashes, unsure, resumes, edits, history>>

\* _fetch_local_dsns_sync: reports are marked seen as they are read.  When the
\* connection breaks none is kept.
Fetch(kept) ==
    /\ slot.at = "begun" /\ dsn' = <<>>
    /\ slot' = [slot EXCEPT !.at = "polled", !.fb = IF kept THEN dsn ELSE <<>>]
    /\ UNCHANGED <<campaign, prov, conv, mail, crashes, unsure, resumes, edits, history>>

\* The reports on a provider; those of accounts outside the slot are dropped.
Reported(p) ==
    {i \in 1..Len(slot.fb) : slot.fb[i].acc \in slot.accts /\ ProviderOf[slot.fb[i].acc] = p}

\* The objects after the daily reset and ingest_delivery_feedback: every report
\* counts as a failure, the last one decides.
Reset == [p \in Providers |-> IF slot.reset THEN [slot.prov[p] EXCEPT !.sent = 0] ELSE slot.prov[p]]
Ingest(s, I) ==
    LET last == CHOOSE i \in I : \A j \in I : j <= i
    IN  Fail([s EXCEPT !.fails = Least(@ + Cardinality(I) - 1, MaxFails)], slot.fb[last].perm, slot.age)
Ingested == [p \in Providers |-> IF Reported(p) = {} THEN Reset[p] ELSE Ingest(Reset[p], Reported(p))]
SentSoFar == IF slot.reset THEN 0 ELSE slot.sent

Active == {ProviderOf[a] : a \in slot.accts}
Pending == {a \in slot.accts : conv[a] = "out"}

\* The commit that ends the decision: next_run_at = now + d, the daily reset,
\* and the provider rows.
Decide(new, d) ==
    /\ slot.at = "polled"
    /\ due' = Rest(d, slot.age)
    /\ Commit(new)
    /\ IF slot.reset THEN sent' = 0 /\ fresh' = slot.today ELSE UNCHANGED <<sent, fresh>>
    /\ floor' = [p \in Providers |-> IF Reported(p) # {} THEN Least(floor[p], Base) ELSE floor[p]]
    /\ UNCHANGED <<status, members, healthy, target, conv, mail, dsn, crashes, unsure, resumes, edits, real, open, since, late>>

OutsideHours == Decide(Ingested, LongWait) /\ slot' = NoSlot

\* What the slot still needs once it knows what to send.
Go(a, out, new) ==
    slot' = [NoSlot EXCEPT !.at = "sending", !.age = slot.age, !.today = slot.today, !.acc = a, !.out = out,
                           !.prov = new, !.sent = SentSoFar]

\* Pending conversations come first.
Reply(a, d) == a \in Pending /\ Decide(Ingested, d) /\ Go(a, FALSE, Ingested)

\* The quota of the day, and of a provider, is used up.
UsedUp(n, quota) == n >= quota

VolumeReached ==
    Pending = {} /\ UsedUp(SentSoFar, slot.target) /\ Decide(Ingested, LongWait) /\ slot' = NoSlot

Thawed == [p \in Providers |-> IF p \in Active THEN Thaw(Ingested[p]) ELSE Ingested[p]]
Eligible ==
    {p \in Active : /\ Available(Ingested[p])
                    /\ ~UsedUp(Ingested[p].sent, Ceil(slot.target, Cardinality(Active)))}
MayStart == Pending = {} /\ ~UsedUp(SentSoFar, slot.target)

\* No provider may be used: wait for the first one, or for six hours.
NoneEligible ==
    /\ MayStart /\ Eligible = {}
    /\ LET future == {Thawed[p].wait : p \in Active} \ {0}
       IN  Decide(Thawed, IF future = {} THEN LongWait ELSE CHOOSE t \in future : \A u \in future : t <= u)
    /\ slot' = NoSlot

\* Start a conversation at a provider with the least load.  Its accounts are
\* all free, for none is Pending.
Outbound(a, d) ==
    /\ MayStart /\ a \in slot.accts /\ ProviderOf[a] \in Eligible
    /\ \A q \in Eligible : Thawed[ProviderOf[a]].sent <= Thawed[q].sent
    /\ Decide(Thawed, d) /\ Go(a, TRUE, Thawed)

\* Whether the message is out, whatever the scheduler learns of it.
Left(res) == res \in {"ok", "lost"}

Calm == crashes + unsure + resumes + edits < MaxUpsets

\* _send_one: the message leaves, or fails for now or for good; or it leaves and
\* the answer is lost (a timeout or a disconnect after the body was accepted),
\* which to process_campaign is a failure without a code.
Transmit(res) ==
    /\ slot.at = "sending"
    /\ res = "lost" => Calm
    /\ slot' = [slot EXCEPT !.at = "recording", !.res = res]
    /\ mail' = IF slot.out /\ Left(res) THEN [mail EXCEPT ![slot.acc] = TRUE] ELSE mail
    /\ unsure' = IF res = "lost" THEN unsure + 1 ELSE unsure
    /\ IF ~Left(res) THEN UNCHANGED history
       ELSE /\ real' = IF slot.out /\ slot.today THEN real + 1 ELSE real
            /\ open' = [open EXCEPT ![slot.acc] = IF slot.out THEN @ + 1 ELSE 0]
            /\ since' = IF slot.out THEN [since EXCEPT ![ProviderOf[slot.acc]] = slot.age] ELSE since
            /\ floor' = IF slot.out THEN [floor EXCEPT ![ProviderOf[slot.acc]] = IF res = "ok" THEN Gap ELSE Least(Gap, Base)] ELSE floor
            /\ late' = IF status = "active" THEN late ELSE late + 1
    /\ UNCHANGED <<campaign, prov, conv, dsn, crashes, resumes, edits>>

\* The event, the counters and the provider row, in one commit.
Record ==
    /\ slot.at = "recording" /\ slot' = NoSlot
    /\ LET p == ProviderOf[slot.acc]
           s == IF slot.res = "ok" THEN Succeed(slot.prov[p]) ELSE Fail(slot.prov[p], slot.res = "perm", 0)
       IN  IF slot.out THEN Commit([slot.prov EXCEPT ![p] = s]) ELSE UNCHANGED prov
    /\ sent' = IF slot.out /\ slot.res = "ok" THEN slot.sent + 1 ELSE sent
    /\ conv' = IF slot.res = "ok" THEN [conv EXCEPT ![slot.acc] = IF slot.out THEN "out" ELSE "in"] ELSE conv
    /\ UNCHANGED <<status, due, members, healthy, fresh, target, mail, dsn, crashes, unsure, resumes, edits, history>>

\* The process dies and comes back.
Crash ==
    /\ slot.at # "idle" /\ Calm
    /\ slot' = NoSlot /\ crashes' = crashes + 1
    /\ UNCHANGED <<campaign, prov, conv, mail, dsn, unsure, resumes, edits, history>>

-----------------------------------------------------------------------------
(* The admin API.                                                          *)

Start ==
    /\ members # {} /\ members \subseteq healthy
    /\ status' = "active" /\ due' = 0 /\ late' = 0
    /\ UNCHANGED <<members, healthy, sent, fresh, target, prov, conv, slot, mail, dsn, crashes, unsure, resumes, edits, real, open, since, floor>>

\* pause and stop
Halt ==
    /\ status = "active" /\ status' = "paused" /\ due' = None
    /\ UNCHANGED <<members, healthy, sent, fresh, target, prov, conv, slot, mail, dsn, crashes, unsure, resumes, edits, history>>

resume_provider(p) ==
    /\ Calm /\ resumes' = resumes + 1
    /\ prov' = [prov EXCEPT ![p] = [@ EXCEPT !.status = "healthy", !.fails = 0, !.wait = 0]]
    /\ due' = IF status = "active" THEN 0 ELSE due
    /\ floor' = [floor EXCEPT ![p] = 0]
    /\ UNCHANGED <<status, members, healthy, sent, fresh, target, conv, slot, mail, dsn, crashes, unsure, edits, real, open, since, late>>

update_campaign(new) ==
    /\ Calm /\ edits' = edits + 1
    /\ new # {} /\ new \subseteq healthy
    /\ members' = new
    /\ due' = IF status = "active" /\ due = None THEN 0 ELSE due
    /\ UNCHANGED <<status, healthy, sent, fresh, target, prov, conv, slot, mail, dsn, crashes, unsure, resumes, history>>

\* update_account and check_account: an account is disabled, or found good or bad.
EditAccount(a) ==
    /\ Calm /\ edits' = edits + 1
    /\ healthy' = IF a \in healthy THEN healthy \ {a} ELSE healthy \cup {a}
    /\ UNCHANGED <<status, due, members, sent, fresh, target, prov, conv, slot, mail, dsn, crashes, unsure, resumes, history>>

-----------------------------------------------------------------------------
(* Time and Postfix.                                                       *)

Down(t) == IF t = 0 THEN 0 ELSE t - 1

Tick ==
    /\ slot.at # "idle" => slot.age < MaxAge
    /\ due' = IF due = None THEN None ELSE Down(due)
    /\ prov' = [p \in Providers |-> [prov[p] EXCEPT !.wait = Down(@)]]
    /\ slot' = IF slot.at = "idle" THEN slot ELSE [slot EXCEPT !.age = @ + 1]
    /\ since' = [p \in Providers |-> Least(since[p] + 1, Gap + MaxAge)]
    /\ UNCHANGED <<status, members, healthy, sent, fresh, target, conv, mail, dsn, crashes, unsure, resumes, edits, real, open, floor, late>>

\* Midnight: volume_date is yesterday's, and the volume of the day grows.
NewDay ==
    /\ fresh' = FALSE /\ target' = Least(MaxVolume, target + Ramp) /\ real' = 0
    /\ slot' = [slot EXCEPT !.today = FALSE]
    /\ UNCHANGED <<status, due, members, healthy, sent, prov, conv, mail, dsn, crashes, unsure, resumes, edits, open, since, floor, late>>

\* Postfix reports that a message is delayed, which it may do again, or bounced.
Report(a, perm) ==
    /\ mail[a] /\ Len(dsn) < MaxDsn
    /\ dsn' = Append(dsn, [acc |-> a, perm |-> perm])
    /\ mail' = [mail EXCEPT ![a] = ~perm]
    /\ UNCHANGED <<campaign, prov, conv, slot, crashes, unsure, resumes, edits, history>>

Delivered(a) ==
    /\ mail[a] /\ mail' = [mail EXCEPT ![a] = FALSE]
    /\ UNCHANGED <<campaign, prov, conv, slot, dsn, crashes, unsure, resumes, edits, history>>

-----------------------------------------------------------------------------
WarmupInit ==
    /\ status = "draft" /\ due = None /\ members = Accounts /\ healthy = Accounts
    /\ sent = 0 /\ fresh = FALSE /\ target = StartVolume
    /\ prov = [p \in Providers |-> NewState] /\ conv = [a \in Accounts |-> "none"]
    /\ slot = NoSlot /\ mail = [a \in Accounts |-> FALSE] /\ dsn = <<>>
    /\ crashes = 0 /\ unsure = 0 /\ resumes = 0 /\ edits = 0
    /\ real = 0 /\ open = [a \in Accounts |-> 0] 
    /\ since = [p \in Providers |-> Gap + MaxAge] /\ floor = [p \in Providers |-> Gap] /\ late = 0

SlotStep ==
    \/ \E kept \in BOOLEAN : Fetch(kept)
    \/ OutsideHours \/ VolumeReached \/ NoneEligible
    \/ \E a \in Accounts, d \in MinDelay..MaxDelay : Reply(a, d) \/ Outbound(a, d)
    \/ \E res \in {"ok", "lost", "temp", "perm"} : Transmit(res)
    \/ Record

AdminStep ==
    \/ Start \/ Halt
    \/ \E p \in Providers : resume_provider(p)
    \/ \E new \in SUBSET Accounts : update_campaign(new)
    \/ \E a \in Accounts : EditAccount(a)

PostfixStep == \E a \in Accounts : Delivered(a) \/ \E perm \in BOOLEAN : Report(a, perm)

WarmupNext == Claim \/ SlotStep \/ Crash \/ AdminStep \/ Tick \/ NewDay \/ PostfixStep

WarmupSpec == WarmupInit /\ [][WarmupNext]_warmupVars

\* For instances: all accounts are at one provider.
OneProvider == [a \in Accounts |-> CHOOSE p \in Providers : TRUE]

-----------------------------------------------------------------------------
(* real: outbound messages of today's slots; open[a]: outbound messages to *)
(* a since it last answered; since[p]: time since the slot of the last     *)
(* outbound message to p; floor[p]: the pause owed since then, the gap, or *)
(* the least cooldown once a report came in or when its answer was lost;   *)
(* late: messages sent while not active; unsure: lost answers.             *)

TypeOK ==
    /\ status \in {"draft", "active", "paused"} /\ due \in 0..None
    /\ members \subseteq Accounts /\ healthy \subseteq Accounts
    /\ sent \in Nat /\ fresh \in BOOLEAN /\ target \in 1..MaxVolume
    /\ \A p \in Providers : /\ prov[p].status \in {"healthy", "cooling", "blocked"}
                            /\ prov[p].fails \in 0..MaxFails /\ prov[p].wait \in 0..Most(Gap, MaxCool)
    /\ conv \in [Accounts -> {"none", "out", "in"}]
    /\ slot.at \in {"idle", "begun", "polled", "sending", "recording"} /\ slot.age \in 0..MaxAge

\* A day's slots send no more than the day's volume, except for messages that
\* were never counted: each is one that left just before a crash, or whose
\* answer was lost and which process_campaign records as failed.
DailyVolume == real <= target + crashes + unsure

\* An account that has not answered gets no second message, except one for every
\* crash or lost answer that left an earlier message without its record.
OneOpenConversation == \A a \in Accounts : open[a] <= 1 + crashes + unsure

\* A campaign that is paused or stopped sends at most the message of the slot
\* in progress.
HaltTakesEffect == late <= 1

\* An active campaign is never stranded: whenever no slot is in progress it has
\* a next run, although slots end early, the process dies in the middle of one
\* and the administrator edits the campaign meanwhile.
NeverStranded == status = "active" /\ slot.at = "idle" => due # None

\* The pacing floor: two outbound deliveries to the same provider are at least
\* its minimum gap apart (slot start to slot start), or the first cooldown if a
\* delivery report came in meanwhile or the answer to the first was lost,
\* unless an administrator resumed the provider or a crash lost the record of
\* the first.
GapKept ==
    [][\A p \in Providers :
         (crashes = 0 /\ slot.at = "sending" /\ Left(slot'.res) /\ slot.out /\ ProviderOf[slot.acc] = p)
             => since[p] >= floor[p] + slot.age]_warmupVars

\* Crashes, lost answers, resumes and reports aside, a campaign keeps its pace: the
\* volume of the day, one open conversation per account, and the gap between messages
\* to a provider.
PaceKept == []DailyVolume /\ []OneOpenConversation /\ GapKept
=============================================================================
