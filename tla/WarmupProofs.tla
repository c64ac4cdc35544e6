---------------------------- MODULE WarmupProofs ----------------------------
(***************************************************************************)
(* Proofs about the warmup scheduler: a halt takes effect, an active       *)
(* campaign is never stranded, and the pace is kept, for any accounts,     *)
(* providers, gaps, cooldowns, volumes and number of upsets.               *)
(***************************************************************************)
EXTENDS Warmup, WellFoundedInduction, FiniteSetTheorems, TLAPS

-----------------------------------------------------------------------------
(* The inductive invariant.                                                *)

Health == {"healthy", "cooling", "blocked"}
State == [status : Health, fails : Nat, wait : Nat, sent : Nat]
Notice == [acc : Accounts, perm : BOOLEAN]
Slot == [at : {"idle", "begun", "polled", "sending", "recording"}, age : Nat, today : BOOLEAN, reset : BOOLEAN,
         accts : SUBSET Accounts, target : Nat, sent : Nat, prov : [Providers -> State], fb : Seq(Notice),
         acc : Accounts \cup {"-"}, out : BOOLEAN, res : {"-", "ok", "lost", "temp", "perm"}]

\* The database, the reports, the counters and the history.
Rows ==
    /\ status \in {"draft", "active", "paused"} /\ due \in Nat /\ due <= None
    /\ members \in SUBSET Accounts /\ healthy \in SUBSET Accounts
    /\ sent \in Nat /\ fresh \in BOOLEAN /\ target \in Nat /\ target <= MaxVolume
    /\ prov \in [Providers -> State] /\ conv \in [Accounts -> {"none", "out", "in"}]
    /\ dsn \in Seq(Notice) /\ crashes \in Nat /\ unsure \in Nat
Past ==
    /\ real \in Nat /\ open \in [Accounts -> Nat] /\ late \in Nat
    /\ since \in [Providers -> Nat] /\ floor \in [Providers -> Nat]
    /\ \A p \in Providers : since[p] <= Gap + MaxAge /\ floor[p] <= Gap
Types == Rows /\ Past /\ slot \in Slot

Choosing == slot.at \in {"begun", "polled"}
Going == slot.at \in {"sending", "recording"}

\* No wait is longer than the campaign may rest, and an active one has a next run.
Planned ==
    /\ slot.age <= MaxAge /\ (Going => slot.acc \in Accounts)
    /\ slot.at = "sending" => ~Left(slot.res)
    /\ \A p \in Providers : prov[p].wait <= LongWait /\ (Choosing => slot.prov[p].wait <= LongWait)
    /\ status = "active" => due <= LongWait

\* A message that leaves after the halt belongs to a slot claimed before it.
Halted ==
    /\ late <= 1
    /\ status = "active" \/ Choosing \/ slot.at = "sending" => late = 0

\* A message has left and is not recorded yet.
Unrecorded == slot.at = "recording" /\ slot.out /\ slot.res = "ok"

\* A message has left and the pause after it is not in the provider's row yet.
Unsettled == slot.at = "recording" /\ slot.out /\ Left(slot.res)

\* The day's count follows the messages of the day; the slot knows the count.
Counted ==
    /\ slot.at # "idle" => slot.sent = sent
    /\ Choosing => slot.target <= target /\ (slot.reset => ~fresh) /\ (slot.today /\ ~slot.reset => fresh)
    /\ Going /\ slot.today => fresh
    /\ slot.at = "sending" /\ slot.out /\ slot.today => sent < target
    /\ real <= target + crashes + unsure /\ (~fresh => real = 0)
    /\ real <= sent + crashes + unsure + 1
    /\ fresh /\ ~(Unrecorded /\ slot.today) => real <= sent + crashes + unsure

\* An account that owes an answer is on record for it.
Conversing ==
    /\ \A a \in Accounts : /\ open[a] <= 1 + crashes + unsure
                           /\ conv[a] # "out" /\ ~(Unrecorded /\ slot.acc = a) => open[a] <= crashes + unsure
    /\ slot.at = "sending" /\ slot.out => conv[slot.acc] # "out"
    /\ slot.at = "recording" /\ ~slot.out /\ slot.res = "ok" => open[slot.acc] = 0

\* The waits in the database, and those the slot has loaded, cover the pause that is
\* owed to each provider.
Owed(p) == prov[p].status # "blocked" /\ ~(Unsettled /\ ProviderOf[slot.acc] = p)
Covered ==
    crashes = 0 => \A p \in Providers :
        /\ Owed(p) => since[p] + prov[p].wait >= floor[p]
        /\ slot.at # "idle" => since[p] >= slot.age
        /\ Choosing /\ slot.prov[p].status # "blocked" => since[p] + slot.prov[p].wait >= floor[p] + slot.age
        /\ Choosing => \/ floor[p] = 0
                       \/ prov[p].wait = Rest(slot.prov[p].wait, slot.age) /\ prov[p].status = slot.prov[p].status
        /\ Going /\ slot.out /\ ProviderOf[slot.acc] = p =>
              /\ slot.prov[p].wait = 0 /\ (slot.res = "lost" => floor[p] <= Base)
              /\ ~Left(slot.res) => since[p] >= floor[p] + slot.age

IInv == Types /\ Planned /\ Halted /\ Counted /\ Conversing /\ Covered

-----------------------------------------------------------------------------
(* Provider health.                                                        *)

LEMMA Params ==
    /\ Gap \in Nat /\ Base \in Nat /\ Unit \in Nat /\ MaxCool \in Nat /\ Lease \in Nat /\ MinDelay \in Nat
    /\ MaxDelay \in Nat /\ LongWait \in Nat /\ StartVolume \in Nat /\ Ramp \in Nat /\ MaxVolume \in Nat
    /\ MaxAge \in Nat /\ MaxFails \in Nat
    /\ Gap <= LongWait /\ MaxCool <= LongWait /\ Lease <= LongWait /\ MaxDelay <= LongWait
    /\ StartVolume <= MaxVolume /\ Base <= MaxCool /\ ProviderOf \in [Accounts -> Providers]
    /\ None = LongWait + 1
BY WarmupAssumption DEF None

LEMMA CooldownFacts ==
    ASSUME NEW n \in Nat
    PROVE  Cooldown(n) \in Nat /\ Base <= Cooldown(n) /\ Cooldown(n) <= MaxCool
<1> DEFINE x == Unit * 2 ^ (n - 1)
<1>1. x \in Int
  BY Params
<1> HIDE DEF x
<1>2. Cooldown(n) = Least(MaxCool, Most(Base, x))
  BY DEF Cooldown, x
<1> QED
  BY <1>1, <1>2, Params DEF Least, Most

\* A failure blocks the provider or lets it cool for at least the base.
Punished(s, now) ==
    \/ s.status = "blocked" /\ s.wait = 0
    \/ s.status = "cooling" /\ now + Base <= s.wait /\ s.wait <= now + MaxCool

LEMMA FailFacts ==
    ASSUME NEW s \in State, NEW perm, NEW now \in Nat
    PROVE  /\ Fail(s, perm, now) \in State /\ Punished(Fail(s, perm, now), now)
           /\ perm = FALSE => now + Base <= Fail(s, perm, now).wait
<1> DEFINE n == Least(s.fails + 1, MaxFails)
           w == now + Cooldown(n)
           x == [s EXCEPT !.status = "blocked", !.fails = n, !.wait = 0]
           y == [s EXCEPT !.status = "cooling", !.fails = n, !.wait = w]
<1>1. n \in Nat
  BY Params DEF State, Least
<1>2. w \in Nat /\ now + Base <= w /\ w <= now + MaxCool
  BY <1>1, CooldownFacts, Params
<1>3. Fail(s, perm, now) = IF perm THEN x ELSE y
  BY DEF Fail
<1> HIDE DEF n, w
<1>4. x \in State /\ x.status = "blocked" /\ x.wait = 0
  BY <1>1 DEF State, Health
<1>5. y \in State /\ y.status = "cooling" /\ y.wait = w
  BY <1>1, <1>2 DEF State, Health
<1> HIDE DEF x, y
<1> QED
  BY <1>2, <1>3, <1>4, <1>5 DEF Punished

LEMMA SucceedFacts ==
    ASSUME NEW s \in State
    PROVE  Succeed(s) \in State /\ Succeed(s).status = "healthy" /\ Succeed(s).wait = Gap
<1> DEFINE n == s.sent + 1
           x == [s EXCEPT !.status = "healthy", !.fails = 0, !.sent = n, !.wait = Gap]
<1>1. n \in Nat
  BY DEF State
<1>2. Succeed(s) = x
  BY DEF Succeed, State
<1> HIDE DEF n
<1>3. x \in State /\ x.status = "healthy" /\ x.wait = Gap
  BY <1>1, Params DEF State, Health
<1> HIDE DEF x
<1> QED
  BY <1>2, <1>3

LEMMA ThawFacts ==
    ASSUME NEW s \in State
    PROVE  /\ Thaw(s) \in State /\ Thaw(s).wait = s.wait /\ Thaw(s).sent = s.sent
           /\ Thaw(s).status = s.status \/ (Thaw(s).status = "healthy" /\ s.status = "cooling" /\ s.wait = 0)
BY DEF Thaw, Available, State, Health

LEMMA ReportedFinite ==
    ASSUME slot \in Slot, NEW p \in Providers
    PROVE  Cardinality(Reported(p)) \in Nat /\ (Reported(p) # {} => Cardinality(Reported(p)) > 0)
<1>1. Len(slot.fb) \in Nat
  BY DEF Slot
<1>2. IsFiniteSet(1..Len(slot.fb)) /\ Reported(p) \subseteq 1..Len(slot.fb)
  BY <1>1, FS_Interval DEF Reported
<1>3. IsFiniteSet(Reported(p))
  BY <1>2, FS_Subset
<1> QED
  BY <1>3, FS_CardinalityType, FS_EmptySet

LEMMA ResetFacts ==
    ASSUME slot \in Slot, NEW p \in Providers
    PROVE  /\ Reset[p] \in State /\ slot.prov[p] \in State
           /\ Reset[p].wait = slot.prov[p].wait /\ Reset[p].status = slot.prov[p].status
<1>1. slot.prov[p] \in State
  BY DEF Slot
<1>2. Reset[p] = IF slot.reset THEN [slot.prov[p] EXCEPT !.sent = 0] ELSE slot.prov[p]
  BY DEF Reset
<1> DEFINE s == slot.prov[p]
           z == [s EXCEPT !.sent = 0]
<1>3. s \in State
  BY <1>1
<1> HIDE DEF s
<1>4. z \in State /\ z.wait = s.wait /\ z.status = s.status
  BY <1>3 DEF State
<1>5. Reset[p] = IF slot.reset THEN z ELSE s
  BY <1>2 DEF s
<1> HIDE DEF z
<1>6. Reset[p] \in State /\ Reset[p].wait = s.wait /\ Reset[p].status = s.status
  BY <1>3, <1>4, <1>5
<1> QED
  BY <1>1, <1>6 DEF s

\* What the reports make of a provider.
LEMMA IngestFacts ==
    ASSUME slot \in Slot, NEW p \in Providers
    PROVE  /\ Ingested[p] \in State
           /\ Reported(p) = {} => Ingested[p].wait = slot.prov[p].wait /\ Ingested[p].status = slot.prov[p].status
           /\ Reported(p) # {} => Punished(Ingested[p], slot.age)
<1>1. Ingested[p] = IF Reported(p) = {} THEN Reset[p] ELSE Ingest(Reset[p], Reported(p))
  BY DEF Ingested
<1>2. CASE Reported(p) = {}
  <2>1. Ingested[p] = Reset[p]
    BY <1>1, <1>2
  <2> QED
    BY <1>2, <2>1, ResetFacts
<1>3. CASE Reported(p) # {}
  <2> DEFINE I == Reported(p)
             last == CHOOSE i \in I : \A j \in I : j <= i
             m == Least(Reset[p].fails + Cardinality(I) - 1, MaxFails)
             s == [Reset[p] EXCEPT !.fails = m]
             perm == slot.fb[last].perm
  <2>1. Ingested[p] = Fail(s, perm, slot.age)
    BY <1>1, <1>3 DEF Ingest
  <2>2. Reset[p] \in State
    BY ResetFacts
  <2>3. m \in Nat
    <3>1. Cardinality(I) \in Nat /\ Cardinality(I) > 0 /\ Reset[p].fails \in Nat
      BY <1>3, <2>2, ReportedFinite DEF State
    <3> HIDE DEF I
    <3> QED
      BY <3>1, Params DEF Least
  <2> HIDE DEF m, perm
  <2>4. s \in State
    BY <2>2, <2>3 DEF State
  <2>5. slot.age \in Nat
    BY DEF Slot
  <2> HIDE DEF s
  <2>6. Ingested[p] \in State /\ Punished(Ingested[p], slot.age)
    BY <2>1, <2>4, <2>5, FailFacts
  <2> QED
    BY <1>3, <2>6
<1> QED
  BY <1>2, <1>3

\* The objects that are committed: as ingested, perhaps thawed.
Updated(new) ==
    \A p \in Providers :
        /\ new[p] \in State /\ new[p].wait = Ingested[p].wait
        /\ \/ new[p].status = Ingested[p].status
           \/ new[p].status = "healthy" /\ Ingested[p].status = "cooling" /\ Ingested[p].wait = 0

LEMMA IngestedUpdated == ASSUME slot \in Slot PROVE Updated(Ingested) /\ Ingested \in [Providers -> State]
BY IngestFacts DEF Updated, Ingested

LEMMA ThawedUpdated == ASSUME slot \in Slot PROVE Updated(Thawed) /\ Thawed \in [Providers -> State]
<1>1. ASSUME NEW p \in Providers
      PROVE  /\ Thawed[p] \in State /\ Thawed[p].wait = Ingested[p].wait
             /\ \/ Thawed[p].status = Ingested[p].status
                \/ Thawed[p].status = "healthy" /\ Ingested[p].status = "cooling" /\ Ingested[p].wait = 0
  <2>1. Thawed[p] = IF p \in Active THEN Thaw(Ingested[p]) ELSE Ingested[p]
    BY DEF Thawed
  <2> QED
    BY <2>1, IngestFacts, ThawFacts
<1>2. Thawed \in [Providers -> State]
  BY <1>1 DEF Thawed
<1> QED
  BY <1>1, <1>2 DEF Updated

-----------------------------------------------------------------------------
(* Requests of the administrator, reports and the end of the process.      *)

LEMMA NoSlotFacts ==
    /\ NoSlot \in Slot /\ NoSlot.at = "idle" /\ NoSlot.age = 0 /\ NewState \in State /\ NewState.wait = 0
    /\ \A p \in Providers : NoSlot.prov[p] = NewState
<1>1. NewState \in State /\ NewState.wait = 0
  BY DEF NewState, State, Health
<1> DEFINE f == [p \in Providers |-> NewState]
<1>2. f \in [Providers -> State] /\ \A p \in Providers : f[p] = NewState
  BY <1>1
<1>3. <<>> \in Seq(Notice)
  OBVIOUS
<1>4. NoSlot = [at |-> "idle", age |-> 0, today |-> TRUE, reset |-> FALSE, accts |-> {}, target |-> 0, sent |-> 0,
                prov |-> f, fb |-> <<>>, acc |-> "-", out |-> FALSE, res |-> "-"]
  BY DEF NoSlot
<1> HIDE DEF f
<1> QED
  BY <1>1, <1>2, <1>3, <1>4 DEF Slot

\* A step beside the slot that leaves the counts and the pauses alone.
LEMMA QuietInv ==
    ASSUME IInv, UNCHANGED <<sent, fresh, target, prov, conv, slot, crashes, unsure, real, open, since, floor>>,
           status' \in {"draft", "active", "paused"}, due' \in Nat, due' <= None,
           members' \in SUBSET Accounts, healthy' \in SUBSET Accounts, dsn' \in Seq(Notice),
           late' \in {0, late}, status' = "active" => due' <= LongWait /\ late' = 0
    PROVE  IInv'
<1>1. Types'
  BY DEF IInv, Types, Rows, Past
<1>2. Planned'
  BY DEF IInv, Planned, Choosing, Going
<1>3. Halted'
  BY DEF IInv, Halted, Choosing
<1>4. Counted'
  BY DEF IInv, Counted, Choosing, Going, Unrecorded, Unsettled, Left
<1>5. Conversing'
  BY DEF IInv, Conversing, Unrecorded, Unsettled, Left
<1>6. Covered'
  BY DEF IInv, Covered, Owed, Choosing, Going, Unrecorded, Unsettled, Left
<1> QED
  BY <1>1, <1>2, <1>3, <1>4, <1>5, <1>6 DEF IInv

LEMMA StartInv ==
    ASSUME IInv, Start
    PROVE  IInv'
<1>1. /\ UNCHANGED <<members, healthy, sent, fresh, target, prov, conv, slot, dsn, crashes, unsure, real, open, since, floor>>
      /\ status' = "active" /\ due' = 0 /\ late' = 0
  BY DEF Start
<1> QED
  BY <1>1, QuietInv, Params DEF IInv, Types, Rows

LEMMA HaltInv ==
    ASSUME IInv, Halt
    PROVE  IInv'
<1>1. /\ UNCHANGED <<members, healthy, sent, fresh, target, prov, conv, slot, dsn, crashes, unsure, real, open, since, floor, late>>
      /\ status' = "paused" /\ due' = None
  BY DEF Halt, history
<1> QED
  BY <1>1, QuietInv, Params DEF IInv, Types, Rows

LEMMA UpdateInv ==
    ASSUME IInv, NEW new \in SUBSET Accounts, update_campaign(new)
    PROVE  IInv'
<1>1. /\ UNCHANGED <<status, healthy, sent, fresh, target, prov, conv, slot, dsn, crashes, unsure, real, open, since, floor, late>>
      /\ members' = new /\ due' \in {0, due}
  BY DEF update_campaign, history
<1>2. status' = "active" => due' <= LongWait /\ late' = 0
  BY <1>1, Params DEF IInv, Planned, Halted
<1> QED
  BY <1>1, <1>2, QuietInv, Params DEF IInv, Types, Rows

LEMMA EditInv ==
    ASSUME IInv, NEW a \in Accounts, EditAccount(a)
    PROVE  IInv'
<1>1. /\ UNCHANGED <<status, due, members, sent, fresh, target, prov, conv, slot, dsn, crashes, unsure, real, open, since, floor, late>>
      /\ healthy' \in {healthy \ {a}, healthy \cup {a}}
  BY DEF EditAccount, history
<1>2. status' = "active" => due' <= LongWait /\ late' = 0
  BY <1>1 DEF IInv, Planned, Halted
<1> QED
  BY <1>1, <1>2, QuietInv DEF IInv, Types, Rows

LEMMA ReportInv ==
    ASSUME IInv, NEW a \in Accounts, NEW perm \in BOOLEAN, Report(a, perm) \/ Delivered(a)
    PROVE  IInv'
<1>1. /\ UNCHANGED <<campaign, prov, conv, slot, crashes, unsure, history>>
      /\ dsn' \in {dsn, Append(dsn, [acc |-> a, perm |-> perm])}
  BY DEF Report, Delivered
<1>2. dsn' \in Seq(Notice)
  <2>1. [acc |-> a, perm |-> perm] \in Notice /\ dsn \in Seq(Notice)
    BY DEF Notice, IInv, Types, Rows
  <2> QED
    BY <1>1, <2>1
<1>3. status' = "active" => due' <= LongWait /\ late' = 0
  BY <1>1 DEF IInv, Planned, Halted, campaign, history
<1> QED
  BY <1>1, <1>2, <1>3, QuietInv DEF IInv, Types, Rows, campaign, history

LEMMA ResumeInv ==
    ASSUME IInv, NEW p \in Providers, resume_provider(p)
    PROVE  IInv'
<1> DEFINE s == [prov[p] EXCEPT !.status = "healthy", !.fails = 0, !.wait = 0]
<1>1. /\ UNCHANGED <<status, members, healthy, sent, fresh, target, conv, slot, dsn, crashes, unsure, real, open, since, late>>
      /\ prov' = [prov EXCEPT ![p] = s] /\ floor' = [floor EXCEPT ![p] = 0] /\ due' \in {0, due}
  BY DEF resume_provider
<1>2. s \in State /\ s.wait = 0 /\ s.status = "healthy"
  BY DEF IInv, Types, Rows, State, Health
<1> HIDE DEF s
<1>3. /\ prov' \in [Providers -> State] /\ floor' \in [Providers -> Nat]
      /\ prov'[p] = s /\ floor'[p] = 0
      /\ \A q \in Providers : q # p => prov'[q] = prov[q] /\ floor'[q] = floor[q]
      /\ since \in [Providers -> Nat]
  BY <1>1, <1>2 DEF IInv, Types, Rows, Past
<1>4. Types'
  <2>1. Rows'
    BY <1>1, <1>3, Params DEF IInv, Types, Rows
  <2>2. Past'
    BY <1>1, <1>3, Params DEF IInv, Types, Past
  <2> QED
    BY <1>1, <2>1, <2>2 DEF IInv, Types
<1>5. Planned'
  BY <1>1, <1>2, <1>3, Params DEF IInv, Planned, Choosing, Going
<1>6. Halted'
  BY <1>1 DEF IInv, Halted, Choosing
<1>7. Counted' /\ Conversing'
  BY <1>1 DEF IInv, Counted, Conversing, Choosing, Going, Unrecorded, Unsettled, Left
<1>8. Covered'
  <2>1. slot.age \in Nat /\ slot.prov[p].wait \in Nat
    BY DEF IInv, Types, Slot, State
  <2>2. ASSUME crashes = 0, NEW q \in Providers
        PROVE  /\ Owed(q)' => since[q] + prov'[q].wait >= floor'[q]
               /\ slot.at # "idle" => since[q] >= slot.age
               /\ Choosing /\ slot.prov[q].status # "blocked" => since[q] + slot.prov[q].wait >= floor'[q] + slot.age
               /\ Choosing => \/ floor'[q] = 0
                              \/ prov'[q].wait = Rest(slot.prov[q].wait, slot.age) /\ prov'[q].status = slot.prov[q].status
               /\ Going /\ slot.out /\ ProviderOf[slot.acc] = q =>
                     /\ slot.prov[q].wait = 0 /\ (slot.res = "lost" => floor'[q] <= Base)
                     /\ ~Left(slot.res) => since[q] >= floor'[q] + slot.age
    <3>1. CASE q # p
      BY <1>1, <1>3, <2>2, <3>1 DEF IInv, Covered, Owed, Unsettled
    <3>2. CASE q = p
      <4>1. since[p] \in Nat /\ (slot.at # "idle" => since[p] >= slot.age)
        BY <1>3, <2>2 DEF IInv, Covered
      <4>2. Going /\ slot.out /\ ProviderOf[slot.acc] = p => slot.prov[p].wait = 0
        BY <2>2 DEF IInv, Covered
      <4> QED
        BY <1>2, <1>3, <2>1, <3>2, <4>1, <4>2, Params DEF Choosing, Going
    <3> QED
      BY <3>1, <3>2
  <2> QED
    BY <1>1, <2>2 DEF Covered, Choosing, Going
<1> QED
  BY <1>4, <1>5, <1>6, <1>7, <1>8 DEF IInv

LEMMA CrashInv ==
    ASSUME IInv, Crash
    PROVE  IInv'
<1>1. /\ UNCHANGED <<campaign, prov, conv, dsn, unsure, history>> /\ crashes' = crashes + 1 /\ slot' = NoSlot
      /\ crashes \in Nat /\ unsure \in Nat
  BY DEF Crash, IInv, Types, Rows
<1>2. slot' \in Slot /\ slot'.at = "idle" /\ slot'.age = 0 /\ ~Choosing' /\ ~Going' /\ ~Unrecorded' /\ ~Unsettled'
  BY <1>1, NoSlotFacts DEF Choosing, Going, Unrecorded, Unsettled, Left
<1>3. Types'
  BY <1>1, <1>2 DEF IInv, Types, Rows, Past, campaign, history
<1>4. Planned'
  BY <1>1, <1>2, Params DEF IInv, Planned, campaign
<1>5. Halted'
  BY <1>1, <1>2 DEF IInv, Halted, campaign, history
<1>6. Counted'
  BY <1>1, <1>2 DEF IInv, Types, Rows, Past, Counted, campaign, history
<1>7. Conversing'
  <2>1. \A a \in Accounts : open[a] \in Nat /\ open[a] <= 1 + crashes + unsure
    BY DEF IInv, Types, Past, Conversing
  <2> QED
    BY <1>1, <1>2, <2>1 DEF Conversing, history
<1>8. Covered'
  BY <1>1 DEF Covered
<1> QED
  BY <1>3, <1>4, <1>5, <1>6, <1>7, <1>8 DEF IInv

-----------------------------------------------------------------------------
(* The claim, the clock and midnight.                                      *)

LEMMA ClaimInv ==
    ASSUME IInv, Claim
    PROVE  IInv'
<1> DEFINE accts == members \cap healthy
           s == [NoSlot EXCEPT !.at = "begun", !.reset = ~fresh, !.accts = accts, !.target = target,
                               !.sent = sent, !.prov = prov]
<1>1. /\ UNCHANGED <<members, healthy, sent, fresh, target, prov, conv, dsn, crashes, unsure, real, open, since, floor, late>>
      /\ slot.at = "idle" /\ status = "active"
      /\ \/ status' = "paused" /\ due' = None /\ slot' = slot
         \/ status' = status /\ due' = Lease /\ slot' = s
  BY DEF Claim, history
<1>2. CASE status' = "paused" /\ due' = None /\ slot' = slot
  <2>1. UNCHANGED <<sent, fresh, target, prov, conv, slot, crashes, unsure, real, open, since, floor>>
    BY <1>1, <1>2
  <2>a. members' = members /\ healthy' = healthy /\ dsn' = dsn /\ late' = late
    BY <1>1
  <2>2. /\ members' \in SUBSET Accounts /\ healthy' \in SUBSET Accounts /\ dsn' \in Seq(Notice)
        /\ due' \in Nat /\ due' <= None /\ late' = late
    BY <1>2, <2>a, Params DEF IInv, Types, Rows
  <2> QED
    BY <1>2, <2>1, <2>2, QuietInv
<1>3. CASE status' = status /\ due' = Lease /\ slot' = s
  <2>1. /\ s \in Slot /\ s.at = "begun" /\ s.age = 0 /\ s.reset = ~fresh /\ s.target = target /\ s.sent = sent
        /\ s.prov = prov /\ s.today = TRUE
    <3> DEFINE b == ~fresh
    <3>1. accts \in SUBSET Accounts /\ target \in Nat /\ sent \in Nat /\ prov \in [Providers -> State]
      BY DEF IInv, Types, Rows
    <3>b. b \in BOOLEAN
      BY Zenon
    <3>2. /\ s = [NoSlot EXCEPT !.at = "begun", !.reset = b, !.accts = accts, !.target = target,
                                !.sent = sent, !.prov = prov]
          /\ <<>> \in Seq(Notice)
      OBVIOUS
    <3> HIDE DEF s, accts, b
    <3>4. /\ s \in Slot /\ s.at = "begun" /\ s.age = 0 /\ s.reset = b /\ s.target = target /\ s.sent = sent
          /\ s.prov = prov /\ s.today = TRUE
      BY <3>1, <3>b, <3>2 DEF NoSlot, Slot
    <3> QED
      BY <3>4 DEF b
  <2> HIDE DEF s
  <2>2. /\ slot' \in Slot /\ slot'.at = "begun" /\ slot'.age = 0 /\ slot'.target = target /\ slot'.sent = sent
        /\ slot'.prov = prov /\ slot'.reset = ~fresh /\ Choosing' /\ ~Going' /\ ~Unrecorded' /\ ~Unsettled'
    BY <1>3, <2>1 DEF Choosing, Going, Unrecorded, Unsettled, Left
  <2>3. Types'
    <3>1. Rows'
      BY <1>1, <1>3, Params DEF IInv, Types, Rows
    <3> QED
      BY <1>1, <2>2, <3>1 DEF IInv, Types, Past
  <2>4. Planned'
    BY <1>1, <1>3, <2>2, Params DEF IInv, Planned
  <2>5. Halted'
    BY <1>1, <2>2 DEF IInv, Halted
  <2>6. Counted'
    <3>1. fresh \in BOOLEAN /\ target \in Nat
      BY DEF IInv, Types, Rows
    <3>2. slot'.target <= target'
      BY <1>1, <2>2, <3>1
    <3>3. (slot'.reset => ~fresh') /\ (~slot'.reset => fresh')
      BY <1>1, <2>2, <3>1
    <3>4. ~Unrecorded /\ ~Unsettled
      BY <1>1 DEF Unrecorded, Unsettled, Left
    <3> QED
      BY <1>1, <2>2, <3>2, <3>3, <3>4 DEF IInv, Counted
  <2>7. Conversing'
    BY <1>1, <2>2 DEF IInv, Conversing, Unrecorded, Unsettled, Left
  <2>8. Covered'
    <3>1. ASSUME crashes = 0, NEW p \in Providers
          PROVE  /\ Owed(p)' => since[p] + prov[p].wait >= floor[p]
                 /\ since[p] >= 0 /\ prov[p].wait = Rest(prov[p].wait, 0)
                 /\ prov[p].status # "blocked" => since[p] + prov[p].wait >= floor[p] + 0
      <4>1. ~Unrecorded /\ ~Unsettled
        BY <1>1 DEF Unrecorded, Unsettled, Left
      <4>2. prov[p].status # "blocked" => since[p] + prov[p].wait >= floor[p]
        BY <3>1, <4>1 DEF IInv, Covered, Owed
      <4>3. since[p] \in Nat /\ floor[p] \in Nat /\ prov[p].wait \in Nat
        BY DEF IInv, Types, Rows, Past, State
      <4> QED
        BY <1>1, <4>2, <4>3 DEF Owed, Rest
    <3> QED
      BY <1>1, <2>2, <3>1 DEF Covered
  <2> QED
    BY <2>3, <2>4, <2>5, <2>6, <2>7, <2>8 DEF IInv
<1> QED
  BY <1>1, <1>2, <1>3

LEMMA NewDayInv ==
    ASSUME IInv, NewDay
    PROVE  IInv'
<1>1. /\ UNCHANGED <<status, due, members, healthy, sent, prov, conv, dsn, crashes, unsure, open, since, floor, late>>
      /\ fresh' = FALSE /\ target' = Least(MaxVolume, target + Ramp) /\ real' = 0
      /\ slot' = [slot EXCEPT !.today = FALSE] /\ slot \in Slot
  BY DEF NewDay, IInv, Types
<1>2. target' \in Nat /\ target <= target' /\ target' <= MaxVolume /\ target \in Nat
  <2>1. target \in Nat /\ target <= MaxVolume
    BY DEF IInv, Types, Rows
  <2>2. target' = IF MaxVolume < target + Ramp THEN MaxVolume ELSE target + Ramp
    BY <1>1 DEF Least
  <2> QED
    BY <2>1, <2>2, Params
<1>3. /\ slot' \in Slot /\ slot'.at = slot.at /\ slot'.age = slot.age /\ slot'.reset = slot.reset
      /\ slot'.target = slot.target /\ slot'.sent = slot.sent /\ slot'.prov = slot.prov /\ slot'.acc = slot.acc
      /\ slot'.out = slot.out /\ slot'.res = slot.res /\ slot'.today = FALSE
      /\ slot.target \in Nat
  BY <1>1 DEF Slot
<1>4. (Choosing' <=> Choosing) /\ (Going' <=> Going) /\ (Unrecorded' <=> Unrecorded) /\ (Unsettled' <=> Unsettled)
  BY <1>3 DEF Choosing, Going, Unrecorded, Unsettled, Left
<1>5. Types'
  <2>1. fresh' \in BOOLEAN
    BY <1>1, Zenon
  <2>2. real' \in Nat
    BY <1>1
  <2> QED
    BY <1>1, <1>2, <1>3, <2>1, <2>2 DEF IInv, Types, Rows, Past
<1>6. Planned'
  BY <1>1, <1>3, <1>4 DEF IInv, Planned
<1>7. Halted'
  BY <1>1, <1>3, <1>4 DEF IInv, Halted
<1>8. Counted'
  <2>1. crashes \in Nat /\ unsure \in Nat /\ sent \in Nat
    BY DEF IInv, Types, Rows
  <2>2. real' <= target' + crashes' + unsure' /\ real' <= sent' + crashes' + unsure' + 1 /\ real' <= sent' + crashes' + unsure'
    BY <1>1, <1>2, <2>1
  <2>3. Choosing => slot'.target <= target'
    BY <1>2, <1>3 DEF IInv, Counted
  <2> QED
    BY <1>1, <1>3, <1>4, <2>2, <2>3 DEF IInv, Counted
<1>9. Conversing'
  BY <1>1, <1>3, <1>4 DEF IInv, Conversing
<1>10. Covered'
  BY <1>1, <1>3, <1>4 DEF IInv, Covered, Owed
<1> QED
  BY <1>5, <1>6, <1>7, <1>8, <1>9, <1>10 DEF IInv

LEMMA TickInv ==
    ASSUME IInv, Tick
    PROVE  IInv'
<1> DEFINE s == [slot EXCEPT !.age = @ + 1]
<1>1. /\ UNCHANGED <<status, members, healthy, sent, fresh, target, conv, dsn, crashes, unsure, real, open, floor, late>>
      /\ due' = IF due = None THEN None ELSE Down(due)
      /\ prov' = [p \in Providers |-> [prov[p] EXCEPT !.wait = Down(@)]]
      /\ since' = [p \in Providers |-> Least(since[p] + 1, Gap + MaxAge)]
      /\ slot' = (IF slot.at = "idle" THEN slot ELSE s)
      /\ slot.at # "idle" => slot.age < MaxAge
      /\ slot \in Slot
  BY DEF Tick, IInv, Types
<1>2. /\ s \in Slot /\ s.at = slot.at /\ s.age = slot.age + 1 /\ s.reset = slot.reset /\ s.target = slot.target
      /\ s.sent = slot.sent /\ s.prov = slot.prov /\ s.acc = slot.acc /\ s.out = slot.out /\ s.res = slot.res
      /\ s.today = slot.today
  <2> DEFINE n == slot.age + 1
  <2>1. n \in Nat /\ s = [slot EXCEPT !.age = n]
    BY <1>1 DEF Slot
  <2> HIDE DEF n, s
  <2>2. /\ s \in Slot /\ s.at = slot.at /\ s.age = n /\ s.reset = slot.reset /\ s.target = slot.target
        /\ s.sent = slot.sent /\ s.prov = slot.prov /\ s.acc = slot.acc /\ s.out = slot.out /\ s.res = slot.res
        /\ s.today = slot.today
    BY <1>1, <2>1 DEF Slot
  <2> QED
    BY <2>2 DEF n
<1> HIDE DEF s
<1>3. /\ slot' \in Slot /\ slot'.at = slot.at /\ slot'.reset = slot.reset
      /\ slot'.target = slot.target /\ slot'.sent = slot.sent /\ slot'.prov = slot.prov /\ slot'.acc = slot.acc
      /\ slot'.out = slot.out /\ slot'.res = slot.res /\ slot'.today = slot.today
      /\ slot.age \in Nat /\ slot'.age \in Nat
      /\ slot.at # "idle" => slot'.age = slot.age + 1 /\ slot'.age <= MaxAge
      /\ slot.at = "idle" => slot'.age = slot.age
  <2>1. slot.age \in Nat
    BY <1>1 DEF Slot
  <2> QED
    BY <1>1, <1>2, <2>1, Params
<1>4. (Choosing' <=> Choosing) /\ (Going' <=> Going) /\ (Unrecorded' <=> Unrecorded) /\ (Unsettled' <=> Unsettled)
  BY <1>3 DEF Choosing, Going, Unrecorded, Unsettled, Left
<1>5. due' \in Nat /\ due' <= None /\ (due <= LongWait => due' <= LongWait)
  <2>1. due \in Nat /\ due <= None
    BY DEF IInv, Types, Rows
  <2>2. due' = IF due = None THEN None ELSE IF due = 0 THEN 0 ELSE due - 1
    BY <1>1 DEF Down
  <2> QED
    BY <2>1, <2>2, Params
<1>6. /\ prov' \in [Providers -> State]
      /\ \A p \in Providers : /\ prov'[p].wait = Down(prov[p].wait) /\ prov'[p].status = prov[p].status
                              /\ prov[p].wait \in Nat /\ prov'[p].wait \in Nat
  <2>1. ASSUME NEW p \in Providers
        PROVE  /\ prov'[p] \in State /\ prov'[p].wait = Down(prov[p].wait) /\ prov'[p].status = prov[p].status
               /\ prov[p].wait \in Nat
    <3> DEFINE r == prov[p]
               w == Down(r.wait)
    <3>1. r \in State
      BY DEF IInv, Types, Rows
    <3>2. w \in Nat
      BY <3>1 DEF State, Down
    <3>3. prov'[p] = [r EXCEPT !.wait = w]
      BY <1>1, <3>1 DEF State
    <3> HIDE DEF r, w
    <3>4. prov'[p] \in State /\ prov'[p].wait = w /\ prov'[p].status = r.status /\ r.wait \in Nat
      BY <3>1, <3>2, <3>3 DEF State
    <3> QED
      BY <3>4 DEF r, w
  <2>2. prov' \in [Providers -> State]
    BY <1>1, <2>1
  <2> QED
    BY <2>1, <2>2 DEF State
<1>7. /\ since' \in [Providers -> Nat] /\ since \in [Providers -> Nat] /\ floor \in [Providers -> Nat]
      /\ \A p \in Providers : /\ since'[p] <= Gap + MaxAge
                              /\ since'[p] = since[p] + 1 \/ since'[p] = Gap + MaxAge
                              /\ floor[p] <= Gap
  <2>1. since \in [Providers -> Nat] /\ floor \in [Providers -> Nat] /\ \A p \in Providers : floor[p] <= Gap
    BY DEF IInv, Types, Past
  <2> QED
    BY <1>1, <2>1, Params DEF Least
<1>8. Types'
  <2>1. Rows'
    BY <1>1, <1>5, <1>6 DEF IInv, Types, Rows
  <2>2. Past'
    BY <1>1, <1>7 DEF IInv, Types, Past
  <2> QED
    BY <1>3, <2>1, <2>2 DEF Types
<1>9. Planned'
  <2>1. \A p \in Providers : prov[p].wait <= LongWait => prov'[p].wait <= LongWait
    BY <1>6, Params DEF Down
  <2> QED
    BY <1>1, <1>3, <1>4, <1>5, <2>1 DEF IInv, Planned
<1>10. Halted'
  BY <1>1, <1>3, <1>4 DEF IInv, Halted
<1>11. Counted'
  BY <1>1, <1>3, <1>4 DEF IInv, Counted
<1>12. Conversing'
  BY <1>1, <1>3, <1>4 DEF IInv, Conversing
<1>13. Covered'
  <2>1. ASSUME crashes = 0, NEW p \in Providers
        PROVE  /\ Owed(p)' => since'[p] + prov'[p].wait >= floor'[p]
               /\ slot'.at # "idle" => since'[p] >= slot'.age
               /\ Choosing' /\ slot'.prov[p].status # "blocked" =>
                     since'[p] + slot'.prov[p].wait >= floor'[p] + slot'.age
               /\ Choosing' => \/ floor'[p] = 0
                               \/ /\ prov'[p].wait = Rest(slot'.prov[p].wait, slot'.age)
                                  /\ prov'[p].status = slot'.prov[p].status
               /\ Going' /\ slot'.out /\ ProviderOf[slot'.acc] = p =>
                     /\ slot'.prov[p].wait = 0 /\ (slot'.res = "lost" => floor'[p] <= Base)
                     /\ ~Left(slot'.res) => since'[p] >= floor'[p] + slot'.age
    <3>1. /\ Owed(p) => since[p] + prov[p].wait >= floor[p]
          /\ slot.at # "idle" => since[p] >= slot.age
          /\ Choosing /\ slot.prov[p].status # "blocked" => since[p] + slot.prov[p].wait >= floor[p] + slot.age
          /\ Choosing => \/ floor[p] = 0
                         \/ prov[p].wait = Rest(slot.prov[p].wait, slot.age) /\ prov[p].status = slot.prov[p].status
          /\ Going /\ slot.out /\ ProviderOf[slot.acc] = p =>
                /\ slot.prov[p].wait = 0 /\ (slot.res = "lost" => floor[p] <= Base)
                /\ ~Left(slot.res) => since[p] >= floor[p] + slot.age
      BY <2>1 DEF IInv, Covered
    <3>2. slot.prov[p].wait \in Nat /\ since[p] \in Nat /\ floor[p] \in Nat /\ since'[p] \in Nat
      BY <1>1, <1>7 DEF Slot, State
    <3>3. Owed(p)' => since'[p] + prov'[p].wait >= floor[p]
      <4>1. Owed(p)' => Owed(p)
        BY <1>3, <1>4, <1>6 DEF Owed
      <4> QED
        BY <1>6, <1>7, <3>1, <3>2, <4>1, Params DEF Down
    <3>4. slot.at # "idle" => since'[p] >= slot'.age
      BY <1>3, <1>7, <3>1, <3>2, Params
    <3>5. Choosing /\ slot.prov[p].status # "blocked" => since'[p] + slot.prov[p].wait >= floor[p] + slot'.age
      BY <1>3, <1>7, <3>1, <3>2, Params DEF Choosing
    <3>6. Choosing => \/ floor[p] = 0
                      \/ prov'[p].wait = Rest(slot.prov[p].wait, slot'.age) /\ prov'[p].status = slot.prov[p].status
      <4>1. Choosing => slot'.age = slot.age + 1
        BY <1>3 DEF Choosing
      <4>2. \A w, n \in Nat : Down(Rest(w, n)) = Rest(w, n + 1)
        BY DEF Down, Rest
      <4> QED
        BY <1>3, <1>6, <3>1, <3>2, <4>1, <4>2
    <3>7. Going /\ slot.out /\ ProviderOf[slot.acc] = p =>
                     /\ slot.prov[p].wait = 0 /\ (slot.res = "lost" => floor[p] <= Base)
                     /\ ~Left(slot.res) => since'[p] >= floor[p] + slot'.age
      BY <1>3, <1>7, <3>1, <3>2, Params DEF Going
    <3> QED
      BY <1>1, <1>3, <1>4, <3>3, <3>4, <3>5, <3>6, <3>7
  <2> QED
    BY <1>1, <2>1 DEF Covered
<1> QED
  BY <1>8, <1>9, <1>10, <1>11, <1>12, <1>13 DEF IInv

-----------------------------------------------------------------------------
(* The decision of a slot.                                                 *)

LEMMA FetchInv ==
    ASSUME IInv, NEW kept \in BOOLEAN, Fetch(kept)
    PROVE  IInv'
<1> DEFINE f == IF kept THEN dsn ELSE <<>>
<1>1. /\ UNCHANGED <<campaign, prov, conv, crashes, unsure, history>> /\ dsn' = <<>> /\ slot.at = "begun"
      /\ slot' = [slot EXCEPT !.at = "polled", !.fb = f] /\ slot \in Slot
  BY DEF Fetch, IInv, Types
<1>2. f \in Seq(Notice) /\ dsn' \in Seq(Notice)
  BY <1>1 DEF IInv, Types, Rows
<1> HIDE DEF f
<1>3. /\ slot' \in Slot /\ slot'.at = "polled" /\ slot'.age = slot.age /\ slot'.today = slot.today
      /\ slot'.reset = slot.reset /\ slot'.target = slot.target /\ slot'.sent = slot.sent /\ slot'.prov = slot.prov
  BY <1>1, <1>2 DEF Slot
<1>4. Choosing' /\ Choosing /\ ~Going' /\ ~Unrecorded' /\ ~Unsettled' /\ ~Unrecorded /\ ~Unsettled
  BY <1>1, <1>3 DEF Choosing, Going, Unrecorded, Unsettled, Left
<1>5. Types'
  BY <1>1, <1>2, <1>3 DEF IInv, Types, Rows, Past, campaign, history
<1>6. Planned'
  BY <1>1, <1>3, <1>4 DEF IInv, Planned, campaign
<1>7. Halted'
  BY <1>1, <1>3, <1>4 DEF IInv, Halted, campaign, history
<1>8. Counted'
  BY <1>1, <1>3, <1>4 DEF IInv, Counted, campaign, history
<1>9. Conversing'
  BY <1>1, <1>3, <1>4 DEF IInv, Conversing, history
<1>10. Covered'
  BY <1>1, <1>3, <1>4 DEF IInv, Covered, Owed, history
<1> QED
  BY <1>5, <1>6, <1>7, <1>8, <1>9, <1>10 DEF IInv

\* The columns that are written back.
Wrote(x, db, old, new, age) ==
    /\ x \in State
    /\ x.status = IF new.status # old.status THEN new.status ELSE db.status
    /\ x.wait = IF new.wait # old.wait THEN Rest(new.wait, age) ELSE db.wait

LEMMA WriteBackFacts ==
    ASSUME NEW db \in State, NEW old \in State, NEW new \in State, NEW age \in Nat
    PROVE  Wrote(WriteBack(db, old, new, age), db, old, new, age)
<1> DEFINE st == IF new.status # old.status THEN new.status ELSE db.status
           fa == IF new.fails # old.fails THEN new.fails ELSE db.fails
           se == IF new.sent # old.sent THEN new.sent ELSE db.sent
           wa == IF new.wait # old.wait THEN Rest(new.wait, age) ELSE db.wait
<1>1. st \in Health /\ fa \in Nat /\ se \in Nat
  BY DEF State
<1>2. wa \in Nat
  BY DEF State, Rest
<1>3. WriteBack(db, old, new, age) = [status |-> st, fails |-> fa, sent |-> se, wait |-> wa]
  BY DEF WriteBack
<1> HIDE DEF st, fa, se, wa
<1>4. /\ WriteBack(db, old, new, age) \in State /\ WriteBack(db, old, new, age).status = st
      /\ WriteBack(db, old, new, age).wait = wa
  BY <1>1, <1>2, <1>3 DEF State
<1> QED
  BY <1>4 DEF st, wa, Wrote

\* What is known of a provider's row, the object loaded, ingested and changed, and
\* the pause; and that the commit keeps the pause that is owed.
Pause(db, old, in, new, age, si, fl, reported) ==
    /\ ~reported => in.wait = old.wait /\ in.status = old.status
    /\ reported => Punished(in, age)
    /\ new.wait = in.wait
    /\ \/ new.status = in.status
       \/ new.status = "healthy" /\ in.status = "cooling" /\ in.wait = 0
    /\ db.status # "blocked" => si + db.wait >= fl
    /\ old.status # "blocked" => si + old.wait >= fl + age
    /\ fl = 0 \/ (db.wait = Rest(old.wait, age) /\ db.status = old.status)
Keeps(db, old, in, new, age, si, fl, reported) ==
    LET st == IF new.status # old.status THEN new.status ELSE db.status
        w == IF new.wait # old.wait THEN Rest(new.wait, age) ELSE db.wait
        fl2 == IF reported THEN Least(fl, Base) ELSE fl
    IN /\ st # "blocked" => si + w >= fl2
       /\ in.status # "blocked" /\ in.wait = 0 => si >= fl2 + age

LEMMA PauseKept ==
    ASSUME NEW db \in State, NEW old \in State, NEW in \in State, NEW new \in State,
           NEW age \in Nat, NEW si \in Nat, NEW fl \in Nat, NEW reported \in BOOLEAN,
           Pause(db, old, in, new, age, si, fl, reported)
    PROVE  Keeps(db, old, in, new, age, si, fl, reported)
<1> DEFINE st == IF new.status # old.status THEN new.status ELSE db.status
           w == IF new.wait # old.wait THEN Rest(new.wait, age) ELSE db.wait
           fl2 == IF reported THEN Least(fl, Base) ELSE fl
<1> SUFFICES /\ st # "blocked" => si + w >= fl2
             /\ in.status # "blocked" /\ in.wait = 0 => si >= fl2 + age
  BY DEF Keeps
<1> USE DEF Pause
<1>1. /\ db.wait \in Nat /\ old.wait \in Nat /\ in.wait \in Nat /\ new.wait \in Nat
      /\ Base \in Nat
  BY Params DEF State
<1>2. CASE ~reported
  <2>1. fl2 = fl /\ w = db.wait
    BY <1>2
  <2>2. CASE new.status = in.status
    BY <1>1, <1>2, <2>1, <2>2
  <2>3. CASE new.status = "healthy" /\ in.status = "cooling" /\ in.wait = 0
    BY <1>1, <1>2, <2>1, <2>3
  <2> QED
    BY <2>2, <2>3
<1>3. CASE reported
  <2>1. fl2 \in Nat /\ fl2 <= fl /\ fl2 <= Base
    BY <1>1, <1>3 DEF Least
  <2>2. CASE in.status = "blocked" /\ in.wait = 0
    <3>1. new.status = "blocked"
      BY <2>2
    <3>2. st # "blocked" => fl = 0
      BY <3>1
    <3>3. fl = 0 => fl2 = 0
      BY <2>1
    <3>4. w \in Nat
      BY <1>1 DEF Rest
    <3> QED
      BY <2>1, <2>2, <3>2, <3>3, <3>4
  <2>3. CASE in.status = "cooling" /\ age + Base <= in.wait
    <3>1. w >= Base \/ fl = 0
      BY <1>1, <2>3 DEF Rest
    <3>2. w \in Nat
      BY <1>1 DEF Rest
    <3>3. fl = 0 => fl2 = 0
      BY <2>1
    <3>4. in.wait = 0 => age = 0 /\ fl2 = 0
      BY <1>1, <2>1, <2>3
    <3> QED
      BY <1>1, <2>1, <2>3, <3>1, <3>2, <3>3, <3>4
  <2> QED
    BY <1>3, <2>2, <2>3 DEF Punished
<1> QED
  BY <1>2, <1>3

LEMMA DecideFacts ==
    ASSUME IInv, NEW new, NEW d \in Nat, Decide(new, d), Updated(new), Rest(d, slot.age) <= LongWait
    PROVE  /\ Rows' /\ Past' /\ UNCHANGED <<status, target, conv, crashes, unsure, real, open, since, late>>
           /\ due' <= LongWait /\ slot.at = "polled" /\ SentSoFar \in Nat
           /\ sent' = SentSoFar /\ (slot.today => fresh')
           /\ (~fresh' => real = 0) /\ (fresh' => real <= sent' + crashes + unsure) /\ real <= sent' + crashes + unsure + 1
           /\ \A p \in Providers : prov'[p].wait <= LongWait
           /\ crashes = 0 => \A p \in Providers :
                /\ prov'[p].status # "blocked" => since[p] + prov'[p].wait >= floor'[p]
                /\ Available(Ingested[p]) => since[p] >= floor'[p] + slot.age
<1>1. /\ slot.at = "polled" /\ slot \in Slot /\ slot.age \in Nat /\ due' = Rest(d, slot.age)
      /\ UNCHANGED <<status, members, healthy, target, conv, dsn, crashes, unsure, real, open, since, late>>
      /\ IF slot.reset THEN sent' = 0 /\ fresh' = slot.today ELSE sent' = sent /\ fresh' = fresh
  BY DEF Decide, IInv, Types, Slot
<1>2. Choosing /\ ~Unrecorded /\ ~Unsettled /\ ~Going
  BY <1>1 DEF Choosing, Unrecorded, Unsettled, Left, Going
<1>3. /\ crashes \in Nat /\ unsure \in Nat /\ real \in Nat /\ sent \in Nat /\ slot.sent = sent /\ slot.today \in BOOLEAN
      /\ prov \in [Providers -> State] /\ since \in [Providers -> Nat] /\ floor \in [Providers -> Nat]
      /\ slot.reset \in BOOLEAN /\ fresh \in BOOLEAN
  BY <1>1 DEF IInv, Types, Rows, Past, Counted, Slot
<1>4. ASSUME NEW p \in Providers
      PROVE  /\ prov'[p] \in State /\ prov'[p].wait <= LongWait
             /\ floor'[p] \in Nat /\ floor'[p] <= Gap
             /\ crashes = 0 =>
                  /\ prov'[p].status # "blocked" => since[p] + prov'[p].wait >= floor'[p]
                  /\ Ingested[p].status # "blocked" /\ Ingested[p].wait = 0 => since[p] >= floor'[p] + slot.age
  <2> DEFINE db == prov[p]
             old == slot.prov[p]
             in == Ingested[p]
             n == new[p]
             age == slot.age
             si == since[p]
             fl == floor[p]
             reported == Reported(p) # {}
             st == IF n.status # old.status THEN n.status ELSE db.status
             w == IF n.wait # old.wait THEN Rest(n.wait, age) ELSE db.wait
             fl2 == IF reported THEN Least(fl, Base) ELSE fl
  <2>1. db \in State /\ old \in State /\ in \in State /\ n \in State /\ age \in Nat /\ si \in Nat /\ fl \in Nat
        /\ fl <= Gap
    <3>1. old \in State /\ in \in State
      BY <1>1, ResetFacts, IngestFacts
    <3> QED
      BY <1>1, <1>3, <3>1 DEF Updated, IInv, Types, Past
  <2>2. reported \in BOOLEAN
    BY Zenon
  <2>3. prov'[p] = WriteBack(db, old, n, age) /\ floor'[p] = fl2
    BY DEF Decide, Commit
  <2>4. /\ ~reported => in.wait = old.wait /\ in.status = old.status
        /\ reported => Punished(in, age)
    BY <1>1, IngestFacts
  <2>5. /\ n.wait = in.wait
        /\ \/ n.status = in.status
           \/ n.status = "healthy" /\ in.status = "cooling" /\ in.wait = 0
    BY DEF Updated
  <2>6. db.wait <= LongWait /\ old.wait <= LongWait
    BY <1>2 DEF IInv, Planned
  <2>7. crashes = 0 =>
          /\ db.status # "blocked" => si + db.wait >= fl
          /\ old.status # "blocked" => si + old.wait >= fl + age
          /\ fl = 0 \/ (db.wait = Rest(old.wait, age) /\ db.status = old.status)
    BY <1>2 DEF IInv, Covered, Owed
  <2>8. prov'[p] \in State /\ prov'[p].status = st /\ prov'[p].wait = w
    <3> HIDE DEF db, old, n, age
    <3>1. Wrote(WriteBack(db, old, n, age), db, old, n, age)
      BY <2>1, WriteBackFacts
    <3> QED
      BY <2>3, <3>1 DEF Wrote
  <2>9. floor'[p] \in Nat /\ floor'[p] <= Gap
    BY <2>1, <2>3, Params DEF Least
  <2> HIDE DEF db, old, in, n, age, si, fl, reported
  <2>10. w <= LongWait
    <3>1. Rest(n.wait, age) <= LongWait
      <4>1. n.wait \in Nat /\ in.wait \in Nat /\ old.wait \in Nat
        BY <2>1 DEF State
      <4>2. in.wait <= LongWait \/ in.wait <= age + MaxCool
        BY <2>4, <2>6, <4>1, Params DEF Punished
      <4> QED
        BY <2>1, <2>5, <4>1, <4>2, Params DEF Rest
    <3> QED
      BY <2>6, <3>1
  <2>11. crashes = 0 =>
           /\ st # "blocked" => si + w >= fl2
           /\ in.status # "blocked" /\ in.wait = 0 => si >= fl2 + age
    <3> SUFFICES ASSUME crashes = 0
                 PROVE  /\ st # "blocked" => si + w >= fl2
                        /\ in.status # "blocked" /\ in.wait = 0 => si >= fl2 + age
      OBVIOUS
    <3>1. Pause(db, old, in, n, age, si, fl, reported)
      BY <2>4, <2>5, <2>7 DEF Pause
    <3>2. Keeps(db, old, in, n, age, si, fl, reported)
      BY <2>1, <2>2, <3>1, PauseKept
    <3> QED
      BY <3>2 DEF Keeps
  <2> QED
    BY <2>3, <2>8, <2>9, <2>10, <2>11 DEF in, si, age
<1>5. prov' \in [Providers -> State] /\ floor' \in [Providers -> Nat]
  <2>1. prov' = [p \in Providers |-> WriteBack(prov[p], slot.prov[p], new[p], slot.age)]
        /\ floor' = [p \in Providers |-> IF Reported(p) # {} THEN Least(floor[p], Base) ELSE floor[p]]
    BY DEF Decide, Commit
  <2> QED
    BY <1>4, <2>1
<1>6. due' \in Nat /\ due' <= LongWait /\ due' <= None
  BY <1>1, Params DEF Rest
<1>7. /\ SentSoFar \in Nat /\ sent' = SentSoFar
  BY <1>1, <1>3 DEF SentSoFar
<1>8. slot.today => fresh'
  BY <1>1, <1>2 DEF IInv, Counted
<1>9. fresh' \in BOOLEAN
  BY <1>1, <1>3
<1>10. (~fresh' => real = 0) /\ (fresh' => real <= sent' + crashes + unsure) /\ real <= sent' + crashes + unsure + 1
  <2>1. CASE slot.reset
    <3>1. real = 0
      BY <1>2, <2>1 DEF IInv, Counted
    <3> QED
      BY <1>1, <1>3, <2>1, <3>1
  <2>2. CASE ~slot.reset
    <3>1. (~fresh => real = 0) /\ (fresh => real <= sent + crashes + unsure) /\ real <= sent + crashes + unsure + 1
      BY <1>2 DEF IInv, Counted
    <3> QED
      BY <1>1, <2>2, <3>1
  <2> QED
    BY <2>1, <2>2
<1>11. Rows'
  BY <1>1, <1>5, <1>6, <1>7, <1>9 DEF IInv, Types, Rows
<1>12. Past'
  BY <1>1, <1>4, <1>5 DEF IInv, Types, Past
<1> QED
  BY <1>1, <1>4, <1>6, <1>7, <1>8, <1>10, <1>11, <1>12 DEF Available

\* The slot ends without a message.
LEMMA RestInv ==
    ASSUME IInv, NEW new, NEW d \in Nat, Decide(new, d), Updated(new), Rest(d, slot.age) <= LongWait,
           slot' = NoSlot
    PROVE  IInv'
<1>1. slot' \in Slot /\ slot'.at = "idle" /\ slot'.age = 0 /\ ~Choosing' /\ ~Going' /\ ~Unrecorded' /\ ~Unsettled'
  BY NoSlotFacts DEF Choosing, Going, Unrecorded, Unsettled, Left
<1>2. slot.at = "polled" /\ Choosing /\ ~Unrecorded /\ ~Unsettled
  BY DecideFacts DEF Choosing, Unrecorded, Unsettled, Left
<1>3. Types'
  BY <1>1, DecideFacts DEF Types
<1>4. Planned'
  BY <1>1, DecideFacts, Params DEF Planned
<1>5. Halted'
  BY <1>1, DecideFacts DEF IInv, Halted
<1>6. Counted'
  <2>1. real <= target + crashes + unsure
    BY DEF IInv, Counted
  <2> QED
    BY <1>1, <2>1, DecideFacts DEF Counted
<1>7. Conversing'
  BY <1>1, <1>2, DecideFacts DEF IInv, Conversing
<1>8. Covered'
  BY <1>1, DecideFacts DEF Covered, Owed
<1> QED
  BY <1>3, <1>4, <1>5, <1>6, <1>7, <1>8 DEF IInv

\* The slot goes on to send.
LEMMA GoInv ==
    ASSUME IInv, NEW a \in Accounts, NEW out \in BOOLEAN, NEW new \in [Providers -> State], NEW d \in Nat,
           Decide(new, d), Updated(new), Rest(d, slot.age) <= LongWait, Go(a, out, new),
           out => SentSoFar < slot.target /\ conv[a] # "out" /\ Available(Ingested[ProviderOf[a]])
    PROVE  IInv'
<1> DEFINE n == SentSoFar
           g == slot.age
           t == slot.today
<1>1. slot.at = "polled" /\ slot \in Slot /\ n \in Nat /\ g \in Nat /\ t \in BOOLEAN /\ slot.target \in Nat
  BY DecideFacts DEF IInv, Types, Slot
<1>2. slot' = [NoSlot EXCEPT !.at = "sending", !.age = g, !.today = t, !.acc = a, !.out = out,
                             !.prov = new, !.sent = n]
  BY DEF Go
<1> HIDE DEF n, g, t
<1>3. /\ slot' \in Slot /\ slot'.at = "sending" /\ slot'.age = g /\ slot'.today = t /\ slot'.acc = a
      /\ slot'.out = out /\ slot'.prov = new /\ slot'.sent = n /\ slot'.res = "-"
  <2>1. <<>> \in Seq(Notice) /\ 0 \in Nat /\ {} \in SUBSET Accounts
    OBVIOUS
  <2>2. slot' = [at |-> "sending", age |-> g, today |-> t, reset |-> FALSE, accts |-> {}, target |-> 0, sent |-> n,
                 prov |-> new, fb |-> <<>>, acc |-> a, out |-> out, res |-> "-"]
    BY <1>2 DEF NoSlot
  <2>3. slot' \in Slot
    BY <1>1, <2>1, <2>2 DEF Slot
  <2> QED
    BY <2>2, <2>3
<1>4. ~Choosing' /\ Going' /\ ~Unrecorded' /\ ~Unsettled' /\ Choosing /\ ~Unrecorded /\ ~Unsettled
  BY <1>1, <1>3 DEF Choosing, Going, Unrecorded, Unsettled, Left
<1>5. Types'
  BY <1>3, DecideFacts DEF Types
<1>6. Planned'
  <2>1. g <= MaxAge
    BY DEF IInv, Planned, g
  <2> QED
    BY <1>3, <1>4, <2>1, DecideFacts DEF Planned, Left
<1>7. Halted'
  BY <1>4, DecideFacts DEF IInv, Halted
<1>8. Counted'
  <2>1. real <= target + crashes + unsure /\ slot.target <= target /\ target \in Nat
    BY <1>4 DEF IInv, Counted, Types, Rows
  <2>2. n = sent' /\ (t => fresh')
    BY DecideFacts DEF n, t
  <2>3. out => n < target
    BY <1>1, <2>1 DEF n
  <2> QED
    BY <1>3, <1>4, <2>1, <2>2, <2>3, DecideFacts DEF Counted
<1>9. Conversing'
  BY <1>3, <1>4, DecideFacts DEF IInv, Conversing
<1>10. Covered'
  <2>1. ASSUME crashes = 0, NEW p \in Providers
        PROVE  /\ Owed(p)' => since'[p] + prov'[p].wait >= floor'[p]
               /\ since'[p] >= slot'.age
               /\ slot'.out /\ ProviderOf[slot'.acc] = p =>
                     slot'.prov[p].wait = 0 /\ since'[p] >= floor'[p] + slot'.age
    <3>1. since[p] >= g
      BY <1>1, <2>1 DEF IInv, Covered, g
    <3>2. prov'[p].status # "blocked" => since[p] + prov'[p].wait >= floor'[p]
      BY <2>1, DecideFacts
    <3>3. Available(Ingested[p]) => since[p] >= floor'[p] + g /\ new[p].wait = 0
      BY <2>1, DecideFacts DEF Available, Updated, g
    <3>4. since' = since
      BY DecideFacts
    <3> QED
      BY <1>3, <3>1, <3>2, <3>3, <3>4 DEF Owed
  <2>2. crashes' = crashes
    BY DecideFacts
  <2> QED
    BY <1>3, <1>4, <2>1, <2>2 DEF Covered
<1> QED
  BY <1>5, <1>6, <1>7, <1>8, <1>9, <1>10 DEF IInv

\* The first provider that may be used again.
LEMMA LeastFacts ==
    ASSUME NEW S \in SUBSET Nat, S # {}
    PROVE  (CHOOSE t \in S : \A u \in S : t <= u) \in S
<1>1. IsWellFoundedOn(OpToRel(<, Nat), Nat)
  BY NatLessThanWellFounded, Zenon
<1>2. PICK x \in S : \A y \in S : ~(<<y, x>> \in OpToRel(<, Nat))
  BY <1>1, WFMin, Zenon
<1>3. ASSUME NEW y \in S, ~(x <= y) PROVE FALSE
  <2>1. y < x /\ x \in Nat /\ y \in Nat
    BY <1>3
  <2>2. <<y, x>> \in Nat \X Nat /\ <<y, x>>[1] < <<y, x>>[2]
    BY <2>1
  <2> QED
    BY <1>2, <2>2, Zenon DEF OpToRel
<1>4. \A u \in S : x <= u
  BY <1>3
<1> QED
  BY <1>4

LEMMA SlotFacts == ASSUME IInv PROVE slot \in Slot /\ slot.age \in Nat /\ slot.age <= MaxAge
BY DEF IInv, Types, Slot, Planned

LEMMA ShortRest == ASSUME NEW d \in Nat, NEW n \in Nat, d <= LongWait PROVE Rest(d, n) <= LongWait
BY Params DEF Rest

LEMMA OutsideHoursInv ==
    ASSUME IInv, OutsideHours \/ VolumeReached
    PROVE  IInv'
<1>1. Decide(Ingested, LongWait) /\ slot' = NoSlot
  BY DEF OutsideHours, VolumeReached
<1>2. LongWait \in Nat /\ Rest(LongWait, slot.age) <= LongWait /\ Updated(Ingested)
  BY SlotFacts, ShortRest, IngestedUpdated, Params
<1> QED
  BY <1>1, <1>2, RestInv

LEMMA NoneEligibleInv ==
    ASSUME IInv, NoneEligible
    PROVE  IInv'
<1> DEFINE future == {Thawed[p].wait : p \in Active} \ {0}
           least == CHOOSE t \in future : \A u \in future : t <= u
           d == IF future = {} THEN LongWait ELSE least
<1>1. Decide(Thawed, d) /\ slot' = NoSlot
  BY DEF NoneEligible
<1>2. slot.at = "polled" /\ Choosing
  BY <1>1 DEF Decide, Choosing
<1>3. Active \subseteq Providers
  BY SlotFacts, Params DEF Active, Slot
<1>4. ASSUME NEW p \in Providers
      PROVE  Thawed[p].wait \in Nat /\ Rest(Thawed[p].wait, slot.age) <= LongWait
  <2>1. Thawed[p].wait = Ingested[p].wait /\ Ingested[p].wait \in Nat
    BY SlotFacts, ThawedUpdated, IngestFacts DEF Updated, State
  <2>2. slot.prov[p].wait <= LongWait
    BY <1>2 DEF IInv, Planned
  <2>3. Ingested[p].wait <= LongWait \/ Ingested[p].wait <= slot.age + MaxCool
    BY <2>2, SlotFacts, IngestFacts, Params DEF Punished
  <2> QED
    BY <2>1, <2>3, SlotFacts, Params DEF Rest
<1>5. d \in Nat /\ Rest(d, slot.age) <= LongWait
  <2>1. CASE future = {}
    BY <2>1, SlotFacts, ShortRest, Params
  <2>2. CASE future # {}
    <3>1. future \in SUBSET Nat /\ \A t \in future : Rest(t, slot.age) <= LongWait
      BY <1>3, <1>4
    <3> HIDE DEF future
    <3>2. least \in future
      BY <2>2, <3>1, LeastFacts
    <3> QED
      BY <2>2, <3>1, <3>2
  <2> QED
    BY <2>1, <2>2
<1>6. Updated(Thawed)
  BY SlotFacts, ThawedUpdated
<1> HIDE DEF d
<1> QED
  BY <1>1, <1>5, <1>6, RestInv

LEMMA DelayFacts ==
    ASSUME IInv, NEW d \in MinDelay..MaxDelay
    PROVE  d \in Nat /\ Rest(d, slot.age) <= LongWait
<1>1. d \in Nat /\ d <= LongWait
  BY Params
<1> QED
  BY <1>1, SlotFacts, ShortRest

LEMMA ReplyInv ==
    ASSUME IInv, NEW a \in Accounts, NEW d \in MinDelay..MaxDelay, Reply(a, d)
    PROVE  IInv'
<1>1. Decide(Ingested, d) /\ Go(a, FALSE, Ingested)
  BY DEF Reply
<1>2. Updated(Ingested) /\ Ingested \in [Providers -> State]
  BY SlotFacts, IngestedUpdated
<1>3. d \in Nat /\ Rest(d, slot.age) <= LongWait
  BY DelayFacts
<1> QED
  BY <1>1, <1>2, <1>3, GoInv

LEMMA OutboundInv ==
    ASSUME IInv, NEW a \in Accounts, NEW d \in MinDelay..MaxDelay, Outbound(a, d)
    PROVE  IInv'
<1>1. Decide(Thawed, d) /\ Go(a, TRUE, Thawed) /\ MayStart /\ a \in slot.accts /\ ProviderOf[a] \in Eligible
  BY DEF Outbound
<1>2. Updated(Thawed) /\ Thawed \in [Providers -> State]
  BY SlotFacts, ThawedUpdated
<1>3. d \in Nat /\ Rest(d, slot.age) <= LongWait
  BY DelayFacts
<1>4. SentSoFar < slot.target
  <2>1. SentSoFar \in Nat /\ slot.target \in Nat
    BY SlotFacts DEF SentSoFar, Slot
  <2> QED
    BY <1>1, <2>1 DEF MayStart, UsedUp
<1>5. conv[a] # "out" /\ Available(Ingested[ProviderOf[a]])
  BY <1>1 DEF MayStart, Pending, Eligible
<1> QED
  BY <1>1, <1>2, <1>3, <1>4, <1>5, GoInv

-----------------------------------------------------------------------------
(* The message and its record.                                             *)

LEMMA Slack ==
    ASSUME NEW m \in Nat, NEW t \in Nat, NEW c \in Nat, NEW u \in Nat, NEW v, v = u \/ v = u + 1
    PROVE  /\ m <= t + c + u => m <= t + c + v
           /\ m <= t + c + u + 1 => m <= t + c + v + 1
<1>1. CASE v = u
  BY <1>1
<1>2. CASE v = u + 1
  BY <1>2
<1> QED
  BY <1>1, <1>2

LEMMA TransmitInv ==
    ASSUME IInv, NEW res \in {"ok", "lost", "temp", "perm"}, Transmit(res)
    PROVE  IInv'
<1> DEFINE P == ProviderOf[slot.acc]
<1>1. /\ UNCHANGED <<status, due, members, healthy, sent, fresh, target, prov, conv, dsn, crashes>>
      /\ slot.at = "sending" /\ slot' = [slot EXCEPT !.at = "recording", !.res = res] /\ slot \in Slot
  BY DEF Transmit, campaign, IInv, Types
<1>2. /\ slot' \in Slot /\ slot'.at = "recording" /\ slot'.res = res /\ slot'.age = slot.age
      /\ slot'.today = slot.today /\ slot'.sent = slot.sent /\ slot'.prov = slot.prov
      /\ slot'.acc = slot.acc /\ slot'.out = slot.out
      /\ slot.age \in Nat /\ slot.out \in BOOLEAN /\ slot.today \in BOOLEAN
  BY <1>1 DEF Slot
<1>3. /\ ~Choosing' /\ Going' /\ Going /\ ~Choosing /\ ~Unrecorded /\ (Unrecorded' <=> slot.out /\ res = "ok")
      /\ ~Unsettled /\ (Unsettled' <=> slot.out /\ Left(res)) /\ (Left(slot'.res) <=> Left(res))
  BY <1>1, <1>2 DEF Choosing, Going, Unrecorded, Unsettled, Left
<1>4. slot.acc \in Accounts /\ P \in Providers /\ slot.age <= MaxAge
  BY <1>3, Params DEF IInv, Planned
<1>5. /\ real \in Nat /\ open \in [Accounts -> Nat] /\ late \in Nat /\ crashes \in Nat /\ unsure \in Nat /\ sent \in Nat /\ target \in Nat
      /\ since \in [Providers -> Nat] /\ floor \in [Providers -> Nat]
      /\ \A p \in Providers : since[p] <= Gap + MaxAge /\ floor[p] <= Gap
  BY DEF IInv, Types, Rows, Past
<1>6. /\ ~Left(res) => UNCHANGED <<real, open, since, floor, late>>
      /\ Left(res) =>
           /\ real' = IF slot.out /\ slot.today THEN real + 1 ELSE real
           /\ open' = [open EXCEPT ![slot.acc] = IF slot.out THEN @ + 1 ELSE 0]
           /\ since' = IF slot.out THEN [since EXCEPT ![P] = slot.age] ELSE since
           /\ floor' = IF slot.out THEN [floor EXCEPT ![P] = IF res = "ok" THEN Gap ELSE Least(Gap, Base)] ELSE floor
           /\ late' = IF status = "active" THEN late ELSE late + 1
      /\ unsure' = IF res = "lost" THEN unsure + 1 ELSE unsure
  BY DEF Transmit, history
<1> HIDE DEF P
<1>a. /\ unsure' \in Nat /\ (unsure' = unsure \/ unsure' = unsure + 1)
      /\ res = "lost" => unsure' = unsure + 1
  BY <1>5, <1>6
<1>b. Left(res) <=> res = "ok" \/ res = "lost"
  BY DEF Left
<1>c. Least(Gap, Base) \in Nat /\ Least(Gap, Base) <= Gap /\ Least(Gap, Base) <= Base
  BY Params DEF Least
<1>7. /\ since' \in [Providers -> Nat] /\ floor' \in [Providers -> Nat]
      /\ slot.out /\ Left(res) => since'[P] = slot.age /\ floor'[P] <= Gap /\ (res = "lost" => floor'[P] <= Base)
      /\ \A p \in Providers : (p # P \/ ~(slot.out /\ Left(res))) => since'[p] = since[p] /\ floor'[p] = floor[p]
  BY <1>2, <1>4, <1>5, <1>6, <1>b, <1>c, Params
<1>8. /\ open' \in [Accounts -> Nat]
      /\ slot.out /\ Left(res) => open'[slot.acc] = open[slot.acc] + 1
      /\ ~slot.out /\ Left(res) => open'[slot.acc] = 0
      /\ \A a \in Accounts : (a # slot.acc \/ ~Left(res)) => open'[a] = open[a]
  BY <1>2, <1>4, <1>5, <1>6
<1>9. Types'
  <2>1. Rows'
    BY <1>1, <1>a DEF IInv, Types, Rows
  <2>2. \A p \in Providers : since'[p] <= Gap + MaxAge /\ floor'[p] <= Gap
    BY <1>2, <1>4, <1>5, <1>7, Params
  <2>3. real' \in Nat /\ late' \in Nat
    BY <1>5, <1>6
  <2> QED
    BY <1>2, <1>7, <1>8, <2>1, <2>2, <2>3 DEF Types, Past
<1>10. Planned'
  BY <1>1, <1>2, <1>3, <1>4 DEF IInv, Planned
<1>11. Halted'
  <2>1. late = 0
    BY <1>1 DEF IInv, Halted
  <2> QED
    BY <1>1, <1>2, <1>3, <1>6, <2>1 DEF Halted
<1>12. Counted'
  <2>1. /\ slot.sent = sent /\ (slot.today => fresh) /\ (slot.out /\ slot.today => sent < target)
        /\ real <= target + crashes + unsure /\ (~fresh => real = 0) /\ real <= sent + crashes + unsure + 1
        /\ fresh => real <= sent + crashes + unsure
    BY <1>1, <1>3 DEF IInv, Counted
  <2>2. real' = real \/ (real' = real + 1 /\ slot.out /\ slot.today /\ (res = "ok" \/ unsure' = unsure + 1))
    BY <1>6, <1>a, <1>b
  <2>3. real <= target + crashes + unsure' /\ real <= sent + crashes + unsure' + 1
    BY <1>5, <1>a, <2>1, Slack
  <2>4. fresh => real <= sent + crashes + unsure'
    BY <1>5, <1>a, <2>1, Slack
  <2>5. CASE real' = real
    BY <1>1, <1>2, <1>3, <2>1, <2>3, <2>4, <2>5 DEF Counted
  <2>6. CASE real' = real + 1 /\ slot.out /\ slot.today /\ (res = "ok" \/ unsure' = unsure + 1)
    <3>1. sent < target /\ real <= sent + crashes + unsure /\ real <= sent + crashes + unsure' /\ fresh
      BY <2>1, <2>4, <2>6
    <3>2. real' <= target + crashes + unsure' /\ real' <= sent + crashes + unsure' + 1
      <4>1. real + 1 \in Nat /\ real + 1 <= target + crashes + unsure /\ real + 1 <= sent + crashes + unsure + 1
        BY <1>5, <3>1
      <4>2. real + 1 <= target + crashes + unsure' /\ real + 1 <= sent + crashes + unsure' + 1
        <5>1. \A n \in Nat, c \in Nat : n <= target + c + unsure => n <= target + c + unsure'
          BY <1>5, <1>a, Slack
        <5>2. \A n \in Nat, c \in Nat : n <= sent + c + unsure + 1 => n <= sent + c + unsure' + 1
          BY <1>5, <1>a, Slack
        <5> QED
          BY <1>5, <4>1, <5>1, <5>2
      <4> QED
        BY <2>6, <4>2
    <3>3. unsure' = unsure + 1 => real' <= sent + crashes + unsure'
      BY <1>5, <1>a, <2>6, <3>1
    <3> QED
      BY <1>1, <1>2, <1>3, <2>1, <2>6, <3>1, <3>2, <3>3 DEF Counted
  <2> QED
    BY <2>2, <2>5, <2>6
<1>13. Conversing'
  <2>1. ASSUME NEW a \in Accounts
        PROVE  /\ open'[a] <= 1 + crashes + unsure'
               /\ conv[a] # "out" /\ ~(Unrecorded' /\ slot.acc = a) => open'[a] <= crashes + unsure'
    <3>1. open[a] <= 1 + crashes + unsure /\ (conv[a] # "out" => open[a] <= crashes + unsure)
      BY <1>3 DEF IInv, Conversing
    <3>2. open[a] \in Nat
      BY <1>5
    <3>3. CASE a # slot.acc \/ ~Left(res)
      BY <1>3, <1>5, <1>8, <1>a, <3>1, <3>2, <3>3
    <3>4. CASE a = slot.acc /\ Left(res) /\ slot.out
      <4>1. open[a] <= crashes + unsure /\ open'[a] = open[a] + 1
        BY <1>1, <1>8, <3>1, <3>4 DEF IInv, Conversing
      <4>2. open'[a] <= 1 + crashes + unsure' /\ (res = "lost" => open'[a] <= crashes + unsure')
        BY <1>5, <1>a, <3>2, <4>1
      <4> QED
        BY <1>3, <1>b, <3>4, <4>2
    <3>5. CASE a = slot.acc /\ Left(res) /\ ~slot.out
      BY <1>5, <1>8, <1>a, <3>5
    <3> QED
      BY <3>3, <3>4, <3>5
  <2>2. ~slot.out /\ res = "ok" => open'[slot.acc] = 0
    BY <1>8, <1>b
  <2> QED
    BY <1>1, <1>2, <2>1, <2>2 DEF Conversing
<1>14. Covered'
  <2>1. ASSUME crashes = 0, NEW p \in Providers
        PROVE  /\ Owed(p)' => since'[p] + prov'[p].wait >= floor'[p]
               /\ since'[p] >= slot'.age
               /\ slot'.out /\ ProviderOf[slot'.acc] = p =>
                     /\ slot'.prov[p].wait = 0 /\ (slot'.res = "lost" => floor'[p] <= Base)
                     /\ ~Left(slot'.res) => since'[p] >= floor'[p] + slot'.age
    <3>1. /\ prov[p].status # "blocked" => since[p] + prov[p].wait >= floor[p]
          /\ since[p] >= slot.age
          /\ slot.out /\ P = p => slot.prov[p].wait = 0
      BY <1>1, <1>3, <2>1 DEF IInv, Covered, Owed, P
    <3>2. slot.out /\ P = p => since[p] >= floor[p] + slot.age
      <4>1. ~Left(slot.res)
        BY <1>1 DEF IInv, Planned
      <4> QED
        BY <1>1, <1>3, <2>1, <4>1 DEF IInv, Covered, P
    <3>3. CASE p = P /\ slot.out /\ Left(res)
      BY <1>1, <1>2, <1>3, <1>4, <1>7, <3>1, <3>3 DEF Owed, P
    <3>4. CASE p # P \/ ~(slot.out /\ Left(res))
      BY <1>1, <1>2, <1>3, <1>7, <1>b, <3>1, <3>2, <3>4 DEF Owed, P
    <3> QED
      BY <3>3, <3>4
  <2> QED
    BY <1>1, <1>3, <2>1 DEF Covered
<1> QED
  BY <1>9, <1>10, <1>11, <1>12, <1>13, <1>14 DEF IInv

LEMMA RecordInv ==
    ASSUME IInv, Record
    PROVE  IInv'
<1> DEFINE P == ProviderOf[slot.acc]
           s == IF slot.res = "ok" THEN Succeed(slot.prov[P]) ELSE Fail(slot.prov[P], slot.res = "perm", 0)
<1>1. /\ UNCHANGED <<status, due, members, healthy, fresh, target, dsn, crashes, unsure, real, open, since, floor, late>>
      /\ slot.at = "recording" /\ slot' = NoSlot /\ slot \in Slot
      /\ IF slot.out THEN Commit([slot.prov EXCEPT ![P] = s]) ELSE UNCHANGED prov
      /\ sent' = IF slot.out /\ slot.res = "ok" THEN slot.sent + 1 ELSE sent
      /\ conv' = IF slot.res = "ok" THEN [conv EXCEPT ![slot.acc] = IF slot.out THEN "out" ELSE "in"] ELSE conv
  BY DEF Record, history, IInv, Types
<1>2. slot' \in Slot /\ slot'.at = "idle" /\ slot'.age = 0 /\ ~Choosing' /\ ~Going' /\ ~Unrecorded' /\ ~Unsettled'
  BY <1>1, NoSlotFacts DEF Choosing, Going, Unrecorded, Unsettled
<1>3. /\ Going /\ ~Choosing /\ slot.acc \in Accounts /\ P \in Providers /\ slot.age \in Nat
      /\ (Unrecorded <=> slot.out /\ slot.res = "ok") /\ (Unsettled <=> slot.out /\ Left(slot.res))
      /\ (Left(slot.res) <=> slot.res = "ok" \/ slot.res = "lost")
  BY <1>1, Params DEF Going, Choosing, Unrecorded, Unsettled, Left, IInv, Planned, Slot
<1>4. /\ prov \in [Providers -> State] /\ slot.prov \in [Providers -> State] /\ sent \in Nat /\ slot.sent = sent
      /\ since \in [Providers -> Nat] /\ floor \in [Providers -> Nat] /\ crashes \in Nat /\ unsure \in Nat /\ real \in Nat
      /\ \A p \in Providers : floor[p] <= Gap /\ prov[p].wait <= LongWait
  BY <1>1 DEF IInv, Types, Rows, Past, Slot, Counted, Planned
<1>5. /\ s \in State
      /\ slot.res = "ok" => s.wait = Gap
      /\ slot.res # "ok" => s.wait <= MaxCool
      /\ slot.res = "lost" => s.wait >= Base
  <2>1. slot.prov[P] \in State
    BY <1>3, <1>4
  <2>2. CASE slot.res = "ok"
    BY <2>1, <2>2, SucceedFacts
  <2>3. CASE slot.res # "ok"
    <3> DEFINE x == Fail(slot.prov[P], slot.res = "perm", 0)
    <3>1. x \in State /\ Punished(x, 0) /\ (slot.res = "lost" => 0 + Base <= x.wait)
      BY <2>1, FailFacts
    <3>2. s = x
      BY <2>3
    <3> HIDE DEF x, s
    <3> QED
      BY <2>3, <3>1, <3>2, Params DEF Punished, State
  <2> QED
    BY <2>2, <2>3
<1> HIDE DEF s, P
<1>6. /\ prov' \in [Providers -> State]
      /\ \A p \in Providers : ~(slot.out /\ p = P) => prov'[p].wait = prov[p].wait /\ prov'[p].status = prov[p].status
      /\ slot.out => prov'[P].wait = IF s.wait # slot.prov[P].wait THEN Rest(s.wait, slot.age) ELSE prov[P].wait
  <2>1. CASE ~slot.out
    BY <1>1, <1>4, <2>1
  <2>2. CASE slot.out
    <3> DEFINE new == [slot.prov EXCEPT ![P] = s]
    <3>1. prov' = [p \in Providers |-> WriteBack(prov[p], slot.prov[p], new[p], slot.age)]
      BY <1>1, <2>2 DEF Commit
    <3>2. /\ new \in [Providers -> State] /\ new[P] = s
          /\ \A p \in Providers : p # P => new[p] = slot.prov[p]
      BY <1>3, <1>4, <1>5
    <3> HIDE DEF new
    <3>3. ASSUME NEW p \in Providers
          PROVE  Wrote(prov'[p], prov[p], slot.prov[p], new[p], slot.age)
      <4>1. prov'[p] = WriteBack(prov[p], slot.prov[p], new[p], slot.age)
        BY <3>1
      <4>2. prov[p] \in State /\ slot.prov[p] \in State /\ new[p] \in State
        BY <1>4, <3>2
      <4> QED
        BY <1>3, <4>1, <4>2, WriteBackFacts
    <3>4. prov' \in [Providers -> State]
      BY <3>1, <3>3 DEF Wrote
    <3>5. prov'[P].wait = IF s.wait # slot.prov[P].wait THEN Rest(s.wait, slot.age) ELSE prov[P].wait
      BY <1>3, <3>2, <3>3 DEF Wrote
    <3>6. ASSUME NEW p \in Providers, p # P
          PROVE  prov'[p].wait = prov[p].wait /\ prov'[p].status = prov[p].status
      <4>1. new[p] = slot.prov[p]
        BY <3>2, <3>6
      <4> QED
        BY <3>3, <4>1 DEF Wrote
    <3> QED
      BY <2>2, <3>4, <3>5, <3>6
  <2> QED
    BY <2>1, <2>2
<1>7. /\ conv' \in [Accounts -> {"none", "out", "in"}]
      /\ \A a \in Accounts : a # slot.acc \/ slot.res # "ok" => conv'[a] = conv[a]
      /\ slot.res = "ok" => conv'[slot.acc] = IF slot.out THEN "out" ELSE "in"
  BY <1>1, <1>3 DEF IInv, Types, Rows
<1>8. sent' \in Nat /\ (Unrecorded => sent' = sent + 1) /\ (~Unrecorded => sent' = sent)
  BY <1>1, <1>3, <1>4
<1>9. Types'
  BY <1>1, <1>2, <1>6, <1>7, <1>8 DEF IInv, Types, Rows, Past
<1>10. Planned'
  <2>1. \A p \in Providers : prov'[p].wait <= LongWait
    <3>1. s.wait \in Nat /\ s.wait <= LongWait
      BY <1>5, Params DEF State
    <3>2. Rest(s.wait, slot.age) <= LongWait
      BY <1>3, <3>1, ShortRest
    <3> QED
      BY <1>4, <1>6, <3>2
  <2> QED
    BY <1>1, <1>2, <2>1, Params DEF IInv, Planned
<1>11. Halted'
  BY <1>1, <1>2 DEF IInv, Halted
<1>12. Counted'
  <2>1. /\ real <= target + crashes + unsure /\ (~fresh => real = 0) /\ real <= sent + crashes + unsure + 1
        /\ fresh /\ ~Unrecorded => real <= sent + crashes + unsure
    BY DEF IInv, Counted
  <2>2. real <= sent' + crashes + unsure + 1 /\ (fresh => real <= sent' + crashes + unsure)
    <3>1. CASE Unrecorded
      BY <1>4, <1>8, <2>1, <3>1
    <3>2. CASE ~Unrecorded
      <4>1. sent' = sent
        BY <1>8, <3>2, Zenon
      <4>2. fresh => real <= sent + crashes + unsure
        BY <2>1, <3>2, Zenon
      <4> QED
        BY <2>1, <4>1, <4>2
    <3> QED
      BY <3>1, <3>2
  <2> QED
    BY <1>1, <1>2, <2>1, <2>2 DEF Counted
<1>13. Conversing'
  <2>1. ASSUME NEW a \in Accounts
        PROVE  open[a] <= 1 + crashes + unsure /\ (conv'[a] # "out" => open[a] <= crashes + unsure)
    <3>1. /\ open[a] <= 1 + crashes + unsure
          /\ conv[a] # "out" /\ ~(Unrecorded /\ slot.acc = a) => open[a] <= crashes + unsure
      BY DEF IInv, Conversing
    <3>2. CASE a # slot.acc \/ slot.res # "ok"
      BY <1>3, <1>7, <3>1, <3>2
    <3>3. CASE a = slot.acc /\ slot.res = "ok" /\ slot.out
      BY <1>7, <3>1, <3>3
    <3>4. CASE a = slot.acc /\ slot.res = "ok" /\ ~slot.out
      <4>1. open[a] = 0
        BY <1>1, <3>4 DEF IInv, Conversing
      <4> QED
        BY <1>4, <3>1, <4>1
    <3> QED
      BY <3>2, <3>3, <3>4
  <2> QED
    BY <1>1, <1>2, <2>1 DEF Conversing
<1>14. Covered'
  <2>1. ASSUME crashes = 0, NEW p \in Providers
        PROVE  prov'[p].status # "blocked" => since[p] + prov'[p].wait >= floor[p]
    <3>1. /\ prov[p].status # "blocked" /\ ~(Unsettled /\ P = p) => since[p] + prov[p].wait >= floor[p]
          /\ since[p] >= slot.age
          /\ slot.out /\ P = p => slot.prov[p].wait = 0 /\ (slot.res = "lost" => floor[p] <= Base)
          /\ slot.out /\ P = p /\ ~Left(slot.res) => since[p] >= floor[p] + slot.age
      BY <1>1, <1>3, <2>1 DEF IInv, Covered, Owed, P
    <3>2. /\ since[p] \in Nat /\ floor[p] \in Nat /\ floor[p] <= Gap /\ prov[p].wait \in Nat
          /\ prov'[p].wait \in Nat /\ s.wait \in Nat
      BY <1>4, <1>5, <1>6 DEF State
    <3>3. CASE ~(slot.out /\ p = P)
      BY <1>3, <1>6, <3>1, <3>3
    <3>4. CASE slot.out /\ p = P /\ ~Left(slot.res)
      BY <1>3, <3>1, <3>2, <3>4
    <3>5. CASE slot.out /\ p = P /\ Left(slot.res)
      <4>1. prov'[p].wait = IF s.wait # 0 THEN Rest(s.wait, slot.age) ELSE prov[p].wait
        BY <1>6, <3>1, <3>5
      <4>2. s.wait # 0 => since[p] + Rest(s.wait, slot.age) >= s.wait
        BY <1>3, <3>1, <3>2, Params DEF Rest
      <4>3. floor[p] <= s.wait
        <5>1. CASE slot.res = "ok"
          BY <1>5, <3>2, <5>1
        <5>2. CASE slot.res = "lost"
          BY <1>5, <3>1, <3>2, <3>5, <5>2, Params
        <5> QED
          BY <1>3, <3>5, <5>1, <5>2
      <4> QED
        BY <3>2, <4>1, <4>2, <4>3, Params
    <3> QED
      BY <3>3, <3>4, <3>5
  <2> QED
    BY <1>1, <1>2, <2>1 DEF Covered, Owed
<1> QED
  BY <1>9, <1>10, <1>11, <1>12, <1>13, <1>14 DEF IInv

-----------------------------------------------------------------------------
(* The invariant, and what it gives.                                       *)

LEMMA InitInv == WarmupInit => IInv
<1> SUFFICES ASSUME WarmupInit PROVE IInv
  OBVIOUS
<1>1. /\ slot \in Slot /\ slot.at = "idle" /\ slot.age = 0 /\ ~Choosing /\ ~Going /\ ~Unrecorded /\ ~Unsettled
      /\ prov \in [Providers -> State] /\ \A p \in Providers : prov[p].wait = 0
  BY NoSlotFacts DEF WarmupInit, Choosing, Going, Unrecorded, Unsettled
<1>2. /\ status = "draft" /\ due = None /\ members = Accounts /\ healthy = Accounts
      /\ sent = 0 /\ fresh = FALSE /\ target = StartVolume
      /\ conv = [a \in Accounts |-> "none"] /\ dsn = <<>> /\ crashes = 0 /\ unsure = 0
      /\ real = 0 /\ open = [a \in Accounts |-> 0]
      /\ since = [p \in Providers |-> Gap + MaxAge] /\ floor = [p \in Providers |-> Gap] /\ late = 0
  BY DEF WarmupInit
<1>3. Rows
  <2>1. due \in Nat /\ due <= None /\ target \in Nat /\ target <= MaxVolume /\ sent \in Nat /\ crashes \in Nat /\ unsure \in Nat
    BY <1>2, Params
  <2>2. conv \in [Accounts -> {"none", "out", "in"}] /\ dsn \in Seq(Notice)
    BY <1>2
  <2>3. fresh \in BOOLEAN /\ members \in SUBSET Accounts /\ healthy \in SUBSET Accounts
    BY <1>2
  <2> QED
    BY <1>1, <1>2, <2>1, <2>2, <2>3 DEF Rows
<1>4. Past
  BY <1>2, Params DEF Past
<1>5. Planned
  BY <1>1, <1>2, Params DEF Planned
<1>6. Halted
  BY <1>1, <1>2 DEF Halted
<1>7. Counted
  BY <1>1, <1>2, Params DEF Counted
<1>8. Conversing
  BY <1>1, <1>2 DEF Conversing
<1>9. Covered
  BY <1>1, <1>2, Params DEF Covered, Owed
<1> QED
  BY <1>1, <1>3, <1>4, <1>5, <1>6, <1>7, <1>8, <1>9 DEF IInv, Types

LEMMA StepInv == IInv /\ [WarmupNext]_warmupVars => IInv'
<1> SUFFICES ASSUME IInv, [WarmupNext]_warmupVars PROVE IInv'
  OBVIOUS
<1>1. CASE Claim
  BY <1>1, ClaimInv
<1>2. CASE SlotStep
  <2>1. CASE \E kept \in BOOLEAN : Fetch(kept)
    BY <2>1, FetchInv
  <2>2. CASE OutsideHours \/ VolumeReached
    BY <2>2, OutsideHoursInv
  <2>3. CASE NoneEligible
    BY <2>3, NoneEligibleInv
  <2>4. CASE \E a \in Accounts, d \in MinDelay..MaxDelay : Reply(a, d) \/ Outbound(a, d)
    BY <2>4, ReplyInv, OutboundInv
  <2>5. CASE \E res \in {"ok", "lost", "temp", "perm"} : Transmit(res)
    BY <2>5, TransmitInv
  <2>6. CASE Record
    BY <2>6, RecordInv
  <2> QED
    BY <1>2, <2>1, <2>2, <2>3, <2>4, <2>5, <2>6 DEF SlotStep
<1>3. CASE Crash
  BY <1>3, CrashInv
<1>4. CASE AdminStep
  BY <1>4, StartInv, HaltInv, ResumeInv, UpdateInv, EditInv DEF AdminStep
<1>5. CASE Tick
  BY <1>5, TickInv
<1>6. CASE NewDay
  BY <1>6, NewDayInv
<1>7. CASE PostfixStep
  <2>1. PICK a \in Accounts : Delivered(a) \/ \E perm \in BOOLEAN : Report(a, perm)
    BY <1>7 DEF PostfixStep
  <2>2. \E perm \in BOOLEAN : Report(a, perm) \/ Delivered(a)
    BY <2>1
  <2> QED
    BY <2>2, ReportInv
<1>8. CASE UNCHANGED warmupVars
  <2>1. /\ UNCHANGED <<status, due, members, healthy, sent, fresh, target, prov, conv, slot, dsn, crashes, unsure>>
        /\ UNCHANGED <<real, open, since, floor, late>>
    BY <1>8 DEF warmupVars, campaign, history
  <2>2. /\ status \in {"draft", "active", "paused"} /\ due \in Nat /\ due <= None
        /\ members \in SUBSET Accounts /\ healthy \in SUBSET Accounts /\ dsn \in Seq(Notice)
        /\ status = "active" => due <= LongWait /\ late = 0
    BY DEF IInv, Types, Rows, Planned, Halted
  <2> QED
    BY <2>1, <2>2, QuietInv
<1> QED
  BY <1>1, <1>2, <1>3, <1>4, <1>5, <1>6, <1>7, <1>8 DEF WarmupNext

LEMMA SpecInv == WarmupSpec => []IInv
BY InitInv, StepInv, PTL DEF WarmupSpec

\* A campaign that is paused or stopped sends at most the message of the slot in progress,
\* however long that slot takes and whatever else the administrator does meanwhile.
THEOREM HaltAlwaysTakesEffect == WarmupSpec => []HaltTakesEffect
<1>1. IInv => HaltTakesEffect
  BY DEF IInv, Halted, HaltTakesEffect
<1> QED
  BY <1>1, SpecInv, PTL

\* An active campaign with no slot in progress has a next run: every way a slot ends, the
\* death of the process and every edit leave one.
THEOREM NeverAnyStranded == WarmupSpec => []NeverStranded
<1>1. IInv => NeverStranded
  BY Params DEF IInv, Types, Rows, Planned, NeverStranded
<1> QED
  BY <1>1, SpecInv, PTL

\* process_campaign keeps the volume of the day, one open conversation per account and the
\* pause between two messages to a provider, although it decides on rows it loaded before
\* its network calls and writes them back after others have changed them; up to one message
\* for every crash or lost answer, and with the first cooldown as the pause after a lost one.
THEOREM PaceAlwaysKept == WarmupSpec => PaceKept
<1>1. IInv => DailyVolume
  BY DEF IInv, Counted, DailyVolume
<1>2. IInv => OneOpenConversation
  BY DEF IInv, Conversing, OneOpenConversation
<1>3. ASSUME IInv, NEW p \in Providers, crashes = 0, slot.at = "sending", slot.out, ProviderOf[slot.acc] = p
      PROVE  since[p] >= floor[p] + slot.age
  BY <1>3 DEF IInv, Planned, Covered, Going
<1>4. IInv => [\A p \in Providers :
                 (crashes = 0 /\ slot.at = "sending" /\ Left(slot'.res) /\ slot.out /\ ProviderOf[slot.acc] = p)
                     => since[p] >= floor[p] + slot.age]_warmupVars
  BY <1>3
<1> QED
  BY <1>1, <1>2, <1>4, SpecInv, PTL DEF PaceKept, GapKept
=============================================================================
