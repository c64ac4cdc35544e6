-------------------------- MODULE StagedSendProofs --------------------------
(***************************************************************************)
(* Proofs about staged sends: records and mails agree, and the sample goes *)
(* first and holds back what is riskier, for any recipients, scores,       *)
(* sample size and number of upsets.                                       *)
(***************************************************************************)
EXTENDS StagedSend, WellFoundedInduction, FiniteSetTheorems, TLAPS

-----------------------------------------------------------------------------
(* The work in memory.                                                     *)

Ats == {"idle", "score", "select sample", "dispatch", "decide", "select held", "release", "released",
        "block", "blocked"}
Outs == {"-", "sent", "released", "blocked", "skipped"}
Job == [at : Ats, todo : SUBSET Recipients, out : [Recipients -> Outs], cutoff : Nat \cup {Everything}]
NoOut == [r \in Recipients |-> "-"]

Types ==
    /\ canary \in {"none", "pending", "probing", "released", "blocked", "failed", "cancelled"}
    /\ window \in {"unset", "open", "elapsed"}
    /\ row \in [Recipients -> Statuses]
    /\ role \in [Recipients -> {"held", "sample"}]
    /\ risk \in [Recipients -> Risks \cup {NoRisk}]
    /\ job \in [Procs -> Job] /\ cancelling \in BOOLEAN
    /\ copies \in [Recipients -> Nat]
    /\ prompt \in [Recipients -> BOOLEAN]
    /\ interruptions \in Nat /\ raises \in Nat /\ decides \in Nat /\ cancels \in Nat

\* How a step changes the work of one process.
Becomes(p, x, T, o) ==
    /\ job' \in [Procs -> Job] /\ \A q \in Procs \ {p} : job'[q] = job[q]
    /\ job'[p].at = x /\ job'[p].todo = T /\ job'[p].out = o

LEMMA JobSet ==
    ASSUME Types, NEW p \in Procs, NEW J \in Job, job' = [job EXCEPT ![p] = J]
    PROVE  Becomes(p, J.at, J.todo, J.out) /\ job'[p].cutoff = J.cutoff
BY DEF Becomes, Types

LEMMA IdleFacts ==
    Idle \in Job /\ Idle.at = "idle" /\ Idle.todo = {} /\ Idle.out = NoOut /\ Idle.cutoff = 0
<1>1. NoOut \in [Recipients -> Outs] /\ "idle" \in Ats /\ Idle.out = NoOut
  BY DEF NoOut, Outs, Ats, Idle
<1> QED
  BY <1>1 DEF Idle, NoOut, Job

\* The forms in which StagedSend writes a job that starts afresh.
LEMMA JobIdle ==
    ASSUME Types, NEW p \in Procs, NEW x \in Ats, NEW T \in SUBSET Recipients
    PROVE  /\ job' = [job EXCEPT ![p] = Idle] => Becomes(p, "idle", {}, NoOut)
           /\ job' = [job EXCEPT ![p] = [Idle EXCEPT !.at = x]] => Becomes(p, x, {}, NoOut)
           /\ job' = [job EXCEPT ![p] = [Idle EXCEPT !.at = x, !.todo = T]] => Becomes(p, x, T, NoOut)
           /\ \A c \in Nat \cup {Everything} :
                job' = [job EXCEPT ![p] = [Idle EXCEPT !.at = x, !.cutoff = c]] =>
                   Becomes(p, x, {}, NoOut) /\ job'[p].cutoff = c
<1>1. ASSUME job' = [job EXCEPT ![p] = Idle] PROVE Becomes(p, "idle", {}, NoOut)
  BY <1>1, JobSet, IdleFacts
<1>2. ASSUME job' = [job EXCEPT ![p] = [Idle EXCEPT !.at = x]] PROVE Becomes(p, x, {}, NoOut)
  <2> DEFINE J == [Idle EXCEPT !.at = x]
  <2>1. J \in Job /\ J.at = x /\ J.todo = {} /\ J.out = NoOut
    BY IdleFacts DEF Job
  <2> HIDE DEF J
  <2> QED
    BY <1>2, <2>1, JobSet DEF J
<1>3. ASSUME job' = [job EXCEPT ![p] = [Idle EXCEPT !.at = x, !.todo = T]]
      PROVE  Becomes(p, x, T, NoOut)
  <2> DEFINE J == [Idle EXCEPT !.at = x, !.todo = T]
  <2>1. J \in Job /\ J.at = x /\ J.todo = T /\ J.out = NoOut
    BY IdleFacts DEF Job
  <2> HIDE DEF J
  <2> QED
    BY <1>3, <2>1, JobSet DEF J
<1>4. ASSUME NEW c \in Nat \cup {Everything},
             job' = [job EXCEPT ![p] = [Idle EXCEPT !.at = x, !.cutoff = c]]
      PROVE  Becomes(p, x, {}, NoOut) /\ job'[p].cutoff = c
  <2> DEFINE J == [Idle EXCEPT !.at = x, !.cutoff = c]
  <2>1. J \in Job /\ J.at = x /\ J.todo = {} /\ J.out = NoOut /\ J.cutoff = c
    BY IdleFacts DEF Job
  <2> HIDE DEF J
  <2> QED
    BY <1>4, <2>1, JobSet DEF J
<1> QED
  BY <1>1, <1>2, <1>3, <1>4

LEMMA JobAt ==
    ASSUME Types, NEW p \in Procs, NEW x \in Ats, job' = [job EXCEPT ![p].at = x]
    PROVE  Becomes(p, x, job[p].todo, job[p].out) /\ job'[p].cutoff = job[p].cutoff
<1> DEFINE J == [job[p] EXCEPT !.at = x]
<1>1. job[p] \in Job /\ job \in [Procs -> Job]
  BY DEF Types
<1>2. J \in Job /\ J.at = x /\ J.todo = job[p].todo /\ J.out = job[p].out /\ J.cutoff = job[p].cutoff
  BY <1>1 DEF Job
<1>3. job' = [job EXCEPT ![p] = J]
  OBVIOUS
<1> HIDE DEF J
<1> QED
  BY <1>1, <1>2, <1>3 DEF Becomes

\* A round of a loop: one recipient is done, with an outcome.
Marks(p, r, s) ==
    /\ Becomes(p, job[p].at, job[p].todo \ {r}, [job[p].out EXCEPT ![r] = s])
    /\ job'[p].cutoff = job[p].cutoff
    /\ job'[p].out[r] = s /\ \A t \in Recipients \ {r} : job'[p].out[t] = job[p].out[t]

LEMMA JobMarks ==
    ASSUME Types, NEW p \in Procs, NEW r \in Recipients, NEW s \in Outs,
           job' = [job EXCEPT ![p].todo = @ \ {r}, ![p].out[r] = s]
    PROVE  Marks(p, r, s)
<1> DEFINE T == job[p].todo \ {r}
           o == [job[p].out EXCEPT ![r] = s]
           J == [job[p] EXCEPT !.todo = T, !.out = o]
<1>1. job[p] \in Job /\ job \in [Procs -> Job]
  BY DEF Types
<1>2. T \in SUBSET Recipients /\ o \in [Recipients -> Outs]
      /\ o[r] = s /\ \A t \in Recipients \ {r} : o[t] = job[p].out[t]
  BY <1>1 DEF Job
<1>3. job' = [job EXCEPT ![p] = J]
  BY <1>1 DEF Job
<1> HIDE DEF T, o
<1>4. J \in Job /\ J.at = job[p].at /\ J.todo = T /\ J.out = o /\ J.cutoff = job[p].cutoff
  BY <1>1, <1>2 DEF Job
<1> HIDE DEF J
<1>5. Becomes(p, J.at, J.todo, J.out) /\ job'[p].cutoff = J.cutoff
  BY <1>3, <1>4, JobSet
<1>6. Becomes(p, job[p].at, T, o) /\ job'[p].cutoff = job[p].cutoff /\ job'[p].out = o
  BY <1>4, <1>5 DEF Becomes
<1> QED
  BY <1>2, <1>6 DEF Marks, T, o

-----------------------------------------------------------------------------
(* The inductive invariant.                                                *)

Scoring == {"score", "select sample", "dispatch"}
Deciding == {"decide", "select held", "release", "released", "block", "blocked"}

\* A job has rows and outcomes only in the loops that fill them, a row is
\* either still to do or done, and only the scheduler scores.
JobShape(j) ==
    /\ j.todo # {} => j.at \in {"score", "dispatch", "release"}
    /\ j.at \notin {"dispatch", "release"} => j.out = NoOut
    /\ \A r \in j.todo : j.out[r] = "-"
Shape == JobShape(job["scheduler"]) /\ JobShape(job["caller"]) /\ job["caller"].at \notin Scoring

\* Where the processes may be when the canary has a status, and what the window
\* says then.
Phases ==
    /\ canary = "none" => /\ \A p \in Procs : job[p].at = "idle"
                          /\ ~cancelling /\ \A r \in Recipients : copies[r] = 0
    /\ canary = "pending" =>
          /\ job["caller"].at = "idle" /\ job["scheduler"].at \in Scoring \cup {"idle"}
          /\ PendingRows # {} /\ (job["scheduler"].at = "score" => job["scheduler"].todo \subseteq PendingRows)
    /\ canary \in {"none", "pending"} \/ job["scheduler"].at \in Scoring => window = "unset"
    /\ canary = "probing" => window # "unset"
    /\ job["scheduler"].at \in Deciding => window = "elapsed"

\* A status that speaks of a mail, in the database or in memory, has one, and
\* the sample was scored.
Mailed ==
    \A r \in Recipients :
        /\ row[r] \in {"sent", "released"} \cup Outcomes => copies[r] > 0
        /\ \A p \in Procs : job[p].out[r] \in {"sent", "released"} => copies[r] > 0
        /\ role[r] = "sample" => risk[r] \in Risks

\* The loop over the rest is entered only after a sampled mail.
Led ==
    /\ RestAfterSample
    /\ \A p \in Procs : job[p].at \in {"select held", "release"} => \E s \in Sample : copies[s] > 0
    /\ job["scheduler"].at = "dispatch" => job["scheduler"].todo \subseteq Sample

\* The mails that are still to come count against those that may be explained.
SchedulerOwes(r) == job["scheduler"].out[r] = "-" /\ (row[r] = "pending" \/ r \in job["scheduler"].todo)
CallerOwes(r) == job["caller"].at \in {"decide", "select held", "release"} /\ job["caller"].out[r] = "-"
Counted ==
    \A r \in Recipients :
        /\ copies[r] <= 1 + interruptions + decides
        /\ SchedulerOwes(r) \/ CallerOwes(r) => copies[r] <= interruptions + decides
        /\ SchedulerOwes(r) /\ CallerOwes(r) => copies[r] + 1 <= interruptions + decides

\* Undisturbed, the records say what happened, up to what is not yet written.
Faithful ==
    Undisturbed =>
        /\ job["caller"].at = "idle"
        /\ \A r \in Recipients :
             /\ job["scheduler"].out[r] = "-" /\ row[r] \in {"pending", "blocked"} => copies[r] = 0
             /\ job["scheduler"].out[r] = "blocked" => copies[r] = 0
             /\ job["scheduler"].out[r] # "skipped"
             /\ r \in job["scheduler"].todo => row[r] \in {"pending", "blocked"}

\* Undisturbed, the rows are scored once, all together.
SpansHeld ==
    \A r \in Held : /\ \E s \in Sample : risk[s] >= risk[r]
                    /\ SampleSize > 1 => \E s \in Sample : risk[s] <= risk[r]
Unscored == canary = "none" \/ (canary = "pending" /\ job["scheduler"].at = "idle") \/ job["scheduler"].at = "score"
Spanned ==
    Undisturbed =>
        /\ Unscored => Sample = {}
        /\ ~Unscored => SpansHeld
        /\ job["scheduler"].at = "score" => PendingRows \subseteq job["scheduler"].todo
        /\ canary = "pending" /\ job["scheduler"].at = "select sample" => PendingRows \cap Sample # {}

\* Undisturbed, the rest is mailed after the window, below the cutoff that the
\* bounces before it gave.
Cut ==
    Undisturbed =>
        /\ (\E r \in Recipients \ Sample : copies[r] > 0) => window = "elapsed"
        /\ Percent = 0 /\ job["scheduler"].at \in {"select held", "release"} =>
              \A s \in Sample : row[s] = "hard_bounce" /\ prompt[s] =>
                 job["scheduler"].cutoff \in Nat /\ job["scheduler"].cutoff <= risk[s]

IInv == Types /\ Shape /\ Phases /\ Mailed /\ Led /\ Counted /\ Faithful /\ Spanned /\ Cut /\ RiskyHeld

-----------------------------------------------------------------------------
(* Steps of the processes in memory.                                       *)

LEMMA SameRows ==
    ASSUME UNCHANGED <<row, role>>
    PROVE  PendingRows' = PendingRows /\ Sample' = Sample /\ Held' = Held
BY DEF PendingRows, Sample, Held

\* A step that changes neither the database nor the mails.
Offline == UNCHANGED <<canary, window, row, role, risk, copies, prompt>>

LEMMA RisksPositive == \A x \in Risks : x \in Nat /\ x > 0
BY StagedSendAssumption

LEMMA SampleIn == Sample \subseteq Recipients
BY DEF Sample

LEMMA ShapeKept ==
    ASSUME Shape, NEW p \in Procs, JobShape(job'[p]), job'[p].at \notin Scoring,
           \A q \in Procs \ {p} : job'[q] = job[q]
    PROVE  Shape'
<1>1. CASE p = "scheduler"
  <2>1. job'["caller"] = job["caller"]
    BY <1>1 DEF Procs
  <2> QED
    BY <1>1, <2>1 DEF Shape, JobShape
<1>2. CASE p = "caller"
  <2>1. job'["scheduler"] = job["scheduler"]
    BY <1>2 DEF Procs
  <2> QED
    BY <1>2, <2>1 DEF Shape, JobShape
<1> QED
  BY <1>1, <1>2 DEF Procs

\* Nothing more is owed.
LEMMA CountedQuiet ==
    ASSUME Counted, UNCHANGED <<copies, interruptions, decides>>,
           \A r \in Recipients :
              job'["scheduler"].out[r] = "-" /\ (row'[r] = "pending" \/ r \in job'["scheduler"].todo) =>
              job["scheduler"].out[r] = "-" /\ (row[r] = "pending" \/ r \in job["scheduler"].todo),
           \A r \in Recipients :
              job'["caller"].at \in {"decide", "select held", "release"} /\ job'["caller"].out[r] = "-" =>
              job["caller"].at \in {"decide", "select held", "release"} /\ job["caller"].out[r] = "-"
    PROVE  Counted'
BY DEF Counted, SchedulerOwes, CallerOwes

\* A step that mails nothing and gives the scheduler no new cutoff.
LEMMA CutKept ==
    ASSUME Cut, RiskyHeld, Offline, UNCHANGED counters, Sample' = Sample,
           job'["scheduler"].at \in {"select held", "release"} =>
              job["scheduler"].at \in {"select held", "release"} /\ job'["scheduler"].cutoff = job["scheduler"].cutoff
    PROVE  Cut' /\ RiskyHeld'
<1>1. Undisturbed' = Undisturbed
  BY DEF Undisturbed, counters
<1>2. Cut'
  BY <1>1 DEF Cut, Offline
<1>3. RiskyHeld'
  BY <1>1 DEF RiskyHeld, Offline
<1> QED
  BY <1>2, <1>3

LEMMA PickUpInv ==
    ASSUME IInv, PickUp
    PROVE  IInv'
<1>1. /\ Offline /\ UNCHANGED <<cancelling, counters>> /\ canary = "pending"
      /\ job["scheduler"].at = "idle" /\ PendingRows \in SUBSET Recipients
      /\ Becomes("scheduler", "score", PendingRows, NoOut)
  <2>1. "score" \in Ats /\ "scheduler" \in Procs /\ PendingRows \in SUBSET Recipients
    BY DEF Ats, Procs, PendingRows
  <2> QED
    BY <2>1, JobIdle DEF IInv, PickUp, Offline, db
<1>2. /\ PendingRows' = PendingRows /\ Sample' = Sample /\ Held' = Held
      /\ job'["caller"] = job["caller"] /\ job'["scheduler"].at = "score"
      /\ job'["scheduler"].todo = PendingRows /\ job'["scheduler"].out = NoOut
      /\ job["scheduler"].out = NoOut /\ \A r \in Recipients : NoOut[r] = "-"
  BY <1>1, SameRows DEF Offline, Becomes, Procs, IInv, Shape, JobShape, NoOut
<1>3. Types'
  BY <1>1, <1>2 DEF IInv, Types, Becomes, counters, Offline
<1>4. Shape'
  BY <1>1, <1>2 DEF IInv, Shape, JobShape, Scoring
<1>5. Phases'
  BY <1>1, <1>2 DEF IInv, Phases, Procs, Scoring, Deciding, Offline
<1>6. Mailed'
  BY <1>1, <1>2 DEF IInv, Mailed, Procs, Offline
<1>7. Led'
  BY <1>1, <1>2 DEF IInv, Led, RestAfterSample, Procs, Offline
<1>8. Counted'
  BY <1>1, <1>2, CountedQuiet DEF IInv, Offline, counters, PendingRows
<1>9. Faithful'
  BY <1>1, <1>2 DEF IInv, Faithful, Undisturbed, Offline, counters, PendingRows
<1>10. Spanned'
  BY <1>1, <1>2 DEF IInv, Phases, Spanned, Unscored, SpansHeld, Undisturbed, Offline, counters
<1>11. Cut' /\ RiskyHeld'
  BY <1>1, <1>2 DEF IInv, Cut, RiskyHeld, Undisturbed, Offline, counters
<1> QED
  BY <1>3, <1>4, <1>5, <1>6, <1>7, <1>8, <1>9, <1>10, <1>11 DEF IInv

LEMMA ScoreFailsInv ==
    ASSUME IInv, ScoreFails
    PROVE  IInv'
<1>1. /\ Offline /\ UNCHANGED <<cancelling, interruptions, decides, cancels>> /\ raises' = raises + 1
      /\ job["scheduler"].at = "score" /\ Becomes("scheduler", "idle", {}, NoOut)
  <2>1. "idle" \in Ats /\ "scheduler" \in Procs /\ {} \in SUBSET Recipients
    BY DEF Ats, Procs
  <2> QED
    BY <2>1, JobIdle DEF IInv, ScoreFails, Offline, db
<1>2. /\ PendingRows' = PendingRows /\ Sample' = Sample /\ Held' = Held
      /\ job'["caller"] = job["caller"] /\ job'["scheduler"].at = "idle"
      /\ job'["scheduler"].todo = {} /\ job'["scheduler"].out = NoOut
      /\ job["scheduler"].out = NoOut /\ \A r \in Recipients : NoOut[r] = "-"
      /\ ~Undisturbed'
  <2>1. raises \in Nat
    BY DEF IInv, Types
  <2>2. ~Undisturbed'
    BY <1>1, <2>1 DEF Undisturbed
  <2> QED
    BY <1>1, <2>2, SameRows DEF Offline, Becomes, Procs, IInv, Shape, JobShape, NoOut
<1>3. Types'
  BY <1>1, <1>2 DEF IInv, Types, Becomes, counters, Offline
<1>4. Shape'
  BY <1>1, <1>2 DEF IInv, Shape, JobShape, Scoring
<1>5. Phases'
  BY <1>1, <1>2 DEF IInv, Phases, Procs, Scoring, Deciding, Offline
<1>6. Mailed'
  BY <1>1, <1>2 DEF IInv, Mailed, Procs, Offline
<1>7. Led'
  BY <1>1, <1>2 DEF IInv, Led, RestAfterSample, Procs, Offline
<1>8. Counted'
  BY <1>1, <1>2, CountedQuiet DEF IInv, Offline, PendingRows
<1>9. Faithful'
  BY <1>2 DEF Faithful
<1>10. Spanned'
  BY <1>2 DEF Spanned
<1>11. Cut' /\ RiskyHeld'
  BY <1>2 DEF Cut, RiskyHeld
<1> QED
  BY <1>3, <1>4, <1>5, <1>6, <1>7, <1>8, <1>9, <1>10, <1>11 DEF IInv

LEMMA SelectSampleInv ==
    ASSUME IInv, SelectSample
    PROVE  IInv'
<1>1. /\ Offline /\ UNCHANGED <<cancelling, counters>> /\ job["scheduler"].at = "select sample"
      /\ IF PendingRows \cap Sample = {} THEN Becomes("scheduler", "idle", {}, NoOut)
         ELSE Becomes("scheduler", "dispatch", PendingRows \cap Sample, NoOut)
  <2>1. /\ "idle" \in Ats /\ "dispatch" \in Ats /\ "scheduler" \in Procs
        /\ PendingRows \cap Sample \in SUBSET Recipients
    BY DEF Ats, Procs, PendingRows
  <2> QED
    BY <2>1, JobIdle DEF IInv, SelectSample, Offline, db
<1>2. /\ PendingRows' = PendingRows /\ Sample' = Sample /\ Held' = Held
      /\ job'["caller"] = job["caller"] /\ job'["scheduler"].out = NoOut
      /\ \/ PendingRows \cap Sample = {} /\ job'["scheduler"].at = "idle" /\ job'["scheduler"].todo = {}
         \/ job'["scheduler"].at = "dispatch" /\ job'["scheduler"].todo = PendingRows \cap Sample
      /\ job["scheduler"].out = NoOut /\ \A r \in Recipients : NoOut[r] = "-"
      /\ PendingRows \in SUBSET Recipients
  BY <1>1, SameRows DEF Offline, Becomes, Procs, IInv, Shape, JobShape, NoOut, PendingRows
<1>3. Types'
  BY <1>1, <1>2 DEF IInv, Types, Becomes, counters, Offline
<1>4. Shape'
  BY <1>1, <1>2 DEF IInv, Shape, JobShape, Scoring
<1>5. Phases'
  BY <1>1, <1>2 DEF IInv, Phases, Procs, Scoring, Deciding, Offline
<1>6. Mailed'
  BY <1>1, <1>2 DEF IInv, Mailed, Procs, Offline
<1>7. Led'
  BY <1>1, <1>2 DEF IInv, Led, RestAfterSample, Procs, Offline
<1>8. Counted'
  BY <1>1, <1>2, CountedQuiet DEF IInv, Offline, counters, PendingRows
<1>9. Faithful'
  <2> SUFFICES ASSUME Undisturbed' PROVE Faithful'
    BY DEF Faithful
  <2>1. /\ Faithful /\ Undisturbed /\ row' = row /\ copies' = copies /\ job'["caller"] = job["caller"]
        /\ job'["scheduler"].out = NoOut
    BY <1>1, <1>2 DEF IInv, Undisturbed, Offline, counters
  <2>2. \A t \in Recipients : row[t] \in {"pending", "blocked"} => copies[t] = 0
    BY <1>2, <2>1 DEF Faithful
  <2>3. \A t \in job'["scheduler"].todo : row[t] \in {"pending", "blocked"}
    BY <1>2 DEF PendingRows
  <2> QED
    BY <1>2, <2>1, <2>2, <2>3 DEF Faithful
<1>10. Spanned'
  BY <1>1, <1>2 DEF IInv, Phases, Spanned, Unscored, SpansHeld, Undisturbed, Offline, counters
<1>11. Cut' /\ RiskyHeld'
  BY <1>1, <1>2 DEF IInv, Cut, RiskyHeld, Undisturbed, Offline, counters
<1> QED
  BY <1>3, <1>4, <1>5, <1>6, <1>7, <1>8, <1>9, <1>10, <1>11 DEF IInv

LEMMA DecideDueInv ==
    ASSUME IInv, _decide_due
    PROVE  IInv'
<1>1. /\ Offline /\ UNCHANGED <<cancelling, counters>> /\ canary = "probing" /\ window = "elapsed"
      /\ job["scheduler"].at = "idle"
      /\ Becomes("scheduler", "decide", job["scheduler"].todo, job["scheduler"].out)
  <2>1. "decide" \in Ats /\ "scheduler" \in Procs
    BY DEF Ats, Procs
  <2> QED
    BY <2>1, JobAt DEF IInv, _decide_due, Offline, db
<1>2. /\ PendingRows' = PendingRows /\ Sample' = Sample /\ Held' = Held
      /\ job'["caller"] = job["caller"] /\ job'["scheduler"].at = "decide"
      /\ job["scheduler"].todo = {} /\ job'["scheduler"].todo = {} /\ job'["scheduler"].out = NoOut
      /\ job["scheduler"].out = NoOut /\ \A r \in Recipients : NoOut[r] = "-"
  BY <1>1, SameRows DEF Offline, Becomes, Procs, IInv, Shape, JobShape, NoOut
<1>3. Types'
  BY <1>1, <1>2 DEF IInv, Types, Becomes, counters, Offline
<1>4. Shape'
  BY <1>1, <1>2 DEF IInv, Shape, JobShape, Scoring
<1>5. Phases'
  BY <1>1, <1>2 DEF IInv, Phases, Procs, Scoring, Deciding, Offline
<1>6. Mailed'
  BY <1>1, <1>2 DEF IInv, Mailed, Procs, Offline
<1>7. Led'
  BY <1>1, <1>2 DEF IInv, Led, RestAfterSample, Procs, Offline
<1>8. Counted'
  BY <1>1, <1>2, CountedQuiet DEF IInv, Offline, counters, PendingRows
<1>9. Faithful'
  BY <1>1, <1>2 DEF IInv, Faithful, Undisturbed, Offline, counters, PendingRows
<1>10. Spanned'
  BY <1>1, <1>2 DEF IInv, Phases, Spanned, Unscored, SpansHeld, Undisturbed, Offline, counters
<1>11. Cut' /\ RiskyHeld'
  BY <1>1, <1>2 DEF IInv, Cut, RiskyHeld, Undisturbed, Offline, counters
<1> QED
  BY <1>3, <1>4, <1>5, <1>6, <1>7, <1>8, <1>9, <1>10, <1>11 DEF IInv

LEMMA DecideSendInv ==
    ASSUME IInv, decide_send_canary
    PROVE  IInv'
<1>1. /\ Offline /\ UNCHANGED <<cancelling, interruptions, raises, cancels>> /\ decides' = decides + 1
      /\ canary = "probing" /\ job["caller"].at = "idle"
      /\ Becomes("caller", "decide", job["caller"].todo, job["caller"].out)
  <2>1. "decide" \in Ats /\ "caller" \in Procs
    BY DEF Ats, Procs
  <2> QED
    BY <2>1, JobAt DEF IInv, decide_send_canary, Offline, db
<1>2. /\ PendingRows' = PendingRows /\ Sample' = Sample /\ Held' = Held
      /\ job'["scheduler"] = job["scheduler"] /\ job'["caller"].at = "decide"
      /\ job["caller"].todo = {} /\ job'["caller"].todo = {} /\ job'["caller"].out = NoOut
      /\ job["caller"].out = NoOut /\ \A r \in Recipients : NoOut[r] = "-"
      /\ decides \in Nat /\ interruptions \in Nat /\ copies \in [Recipients -> Nat] /\ ~Undisturbed'
  <2>1. decides \in Nat /\ interruptions \in Nat /\ copies \in [Recipients -> Nat]
    BY DEF IInv, Types
  <2>2. ~Undisturbed'
    BY <1>1, <2>1 DEF Undisturbed
  <2> QED
    BY <1>1, <2>1, <2>2, SameRows DEF Offline, Becomes, Procs, IInv, Shape, JobShape, NoOut
<1>3. Types'
  BY <1>1, <1>2 DEF IInv, Types, Becomes, counters, Offline
<1>4. Shape'
  BY <1>1, <1>2 DEF IInv, Shape, JobShape, Scoring
<1>5. Phases'
  BY <1>1, <1>2 DEF IInv, Phases, Procs, Scoring, Deciding, Offline
<1>6. Mailed'
  BY <1>1, <1>2 DEF IInv, Mailed, Procs, Offline
<1>7. Led'
  BY <1>1, <1>2 DEF IInv, Led, RestAfterSample, Procs, Offline
<1>8. Counted'
  BY <1>1, <1>2 DEF IInv, Counted, SchedulerOwes, CallerOwes, Offline
<1>9. Faithful'
  BY <1>2 DEF Faithful
<1>10. Spanned'
  BY <1>2 DEF Spanned
<1>11. Cut' /\ RiskyHeld'
  BY <1>2 DEF Cut, RiskyHeld
<1> QED
  BY <1>3, <1>4, <1>5, <1>6, <1>7, <1>8, <1>9, <1>10, <1>11 DEF IInv

LEMMA SelectHeldInv ==
    ASSUME IInv, NEW p \in Procs, SelectHeld(p)
    PROVE  IInv'
<1>1. /\ Offline /\ UNCHANGED <<cancelling, counters>> /\ job[p].at = "select held"
      /\ job[p].out = NoOut /\ Held \in SUBSET Recipients
      /\ Becomes(p, "release", Held, NoOut) /\ job'[p].cutoff = job[p].cutoff
  <2> DEFINE J == [job[p] EXCEPT !.at = "release", !.todo = Held]
  <2>1. Held \in SUBSET Recipients /\ "release" \in Ats
    BY DEF Held, PendingRows, Ats
  <2>2. job[p] \in Job /\ job[p].at = "select held" /\ job[p].out = NoOut
    BY DEF IInv, Types, Shape, JobShape, Procs, SelectHeld
  <2>3. J \in Job /\ J.at = "release" /\ J.todo = Held /\ J.out = NoOut /\ J.cutoff = job[p].cutoff
    BY <2>1, <2>2 DEF Job
  <2>4. job' = [job EXCEPT ![p] = J]
    BY DEF SelectHeld
  <2> HIDE DEF J
  <2> QED
    BY <2>1, <2>2, <2>3, <2>4, JobSet DEF IInv, SelectHeld, Offline, db
<1>2. /\ PendingRows' = PendingRows /\ Sample' = Sample /\ Held' = Held
      /\ job'[p].at = "release" /\ job'[p].todo = Held /\ job'[p].out = NoOut
      /\ \A q \in Procs \ {p} : job'[q] = job[q]
      /\ \A r \in Held : row[r] = "pending" /\ r \in Recipients
      /\ \A r \in Recipients : NoOut[r] = "-"
  BY <1>1, SameRows DEF Offline, Becomes, Procs, Held, PendingRows, NoOut
<1>3. Types'
  BY <1>1, <1>2 DEF IInv, Types, Becomes, counters, Offline
<1>4. Shape'
  <2>1. JobShape(job'[p]) /\ job'[p].at \notin Scoring
    BY <1>1, <1>2 DEF JobShape, Scoring
  <2> QED
    BY <1>2, <2>1, ShapeKept DEF IInv
<1>5. Phases'
  BY <1>1, <1>2 DEF IInv, Phases, Procs, Scoring, Deciding, Offline
<1>6. Mailed'
  BY <1>1, <1>2 DEF IInv, Mailed, Procs, Offline
<1>7. Led'
  BY <1>1, <1>2 DEF IInv, Led, RestAfterSample, Procs, Offline
<1>8. Counted'
  <2>1. Counted /\ UNCHANGED <<copies, interruptions, decides>> /\ row' = row
    BY <1>1 DEF IInv, Offline, counters
  <2>2. \A t \in Recipients :
           job'["scheduler"].out[t] = "-" /\ (row'[t] = "pending" \/ t \in job'["scheduler"].todo) =>
           job["scheduler"].out[t] = "-" /\ (row[t] = "pending" \/ t \in job["scheduler"].todo)
    <3>1. CASE p = "scheduler"
      BY <1>1, <1>2, <2>1, <3>1
    <3>2. CASE p = "caller"
      <4>1. job'["scheduler"] = job["scheduler"]
        BY <1>2, <3>2 DEF Procs
      <4> QED
        BY <2>1, <4>1
    <3> QED
      BY <3>1, <3>2 DEF Procs
  <2>3. \A t \in Recipients :
           job'["caller"].at \in {"decide", "select held", "release"} /\ job'["caller"].out[t] = "-" =>
           job["caller"].at \in {"decide", "select held", "release"} /\ job["caller"].out[t] = "-"
    <3>1. CASE p = "caller"
      BY <1>1, <1>2, <3>1
    <3>2. CASE p = "scheduler"
      <4>1. job'["caller"] = job["caller"]
        BY <1>2, <3>2 DEF Procs
      <4> QED
        BY <4>1
    <3> QED
      BY <3>1, <3>2 DEF Procs
  <2> QED
    BY <2>1, <2>2, <2>3, CountedQuiet
<1>9. Faithful'
  <2>1. CASE p = "scheduler"
    <3>1. job'["caller"] = job["caller"]
      BY <1>2, <2>1 DEF Procs
    <3> QED
      BY <1>1, <1>2, <2>1, <3>1 DEF IInv, Faithful, Undisturbed, Offline, counters
  <2>2. CASE p = "caller"
    <3>1. job'["scheduler"] = job["scheduler"]
      BY <1>2, <2>2 DEF Procs
    <3> QED
      BY <1>1, <1>2, <2>2, <3>1 DEF IInv, Faithful, Undisturbed, Offline, counters
  <2> QED
    BY <2>1, <2>2 DEF Procs
<1>10. Spanned'
  BY <1>1, <1>2 DEF IInv, Phases, Spanned, Unscored, SpansHeld, Undisturbed, Offline, counters, Procs
<1>11. Cut' /\ RiskyHeld'
  <2>1. Cut /\ RiskyHeld
    BY DEF IInv
  <2>2. job'["scheduler"].at \in {"select held", "release"} =>
           job["scheduler"].at \in {"select held", "release"} /\ job'["scheduler"].cutoff = job["scheduler"].cutoff
    <3>1. CASE p = "scheduler"
      BY <1>1, <3>1
    <3>2. CASE p = "caller"
      <4>1. job'["scheduler"] = job["scheduler"]
        BY <1>2, <3>2 DEF Procs
      <4> QED
        BY <4>1
    <3> QED
      BY <3>1, <3>2 DEF Procs
  <2> QED
    BY <1>1, <1>2, <2>1, <2>2, CutKept
<1> QED
  BY <1>3, <1>4, <1>5, <1>6, <1>7, <1>8, <1>9, <1>10, <1>11 DEF IInv

LEMMA WithholdInv ==
    ASSUME IInv, NEW p \in Procs, NEW r \in Recipients, Withhold(p, r)
    PROVE  IInv'
<1>1. /\ Offline /\ UNCHANGED <<cancelling, counters>> /\ job[p].at = "release" /\ r \in job[p].todo
      /\ Becomes(p, job[p].at, job[p].todo \ {r}, [job[p].out EXCEPT ![r] = "blocked"])
      /\ job'[p].cutoff = job[p].cutoff /\ job'[p].out[r] = "blocked"
      /\ \A t \in Recipients \ {r} : job'[p].out[t] = job[p].out[t]
  <2>1. "blocked" \in Outs /\ Types
    BY DEF Outs, IInv
  <2>2. /\ job[p].at = "release" /\ r \in job[p].todo
        /\ job' = [job EXCEPT ![p].todo = @ \ {r}, ![p].out[r] = "blocked"]
    BY DEF Withhold
  <2>3. Offline /\ UNCHANGED <<cancelling, counters>>
    BY DEF Withhold, Offline, db
  <2>4. Marks(p, r, "blocked")
    BY <2>1, <2>2, JobMarks
  <2> QED
    BY <2>2, <2>3, <2>4 DEF Marks
<1>2. /\ PendingRows' = PendingRows /\ Sample' = Sample /\ Held' = Held
      /\ job'[p].at = "release" /\ job'[p].todo = job[p].todo \ {r}
      /\ \A q \in Procs \ {p} : job'[q] = job[q]
      /\ job[p].todo \in SUBSET Recipients /\ job[p].out[r] = "-"
      /\ \A t \in job[p].todo : job[p].out[t] = "-"
  <2>1. job[p] \in Job /\ JobShape(job[p])
    BY DEF IInv, Types, Shape, Procs
  <2>2. job[p].todo \in SUBSET Recipients /\ \A t \in job[p].todo : job[p].out[t] = "-"
    BY <2>1 DEF Job, JobShape
  <2> QED
    BY <1>1, <2>2, SameRows DEF Offline, Becomes
<1>3. Types'
  BY <1>1, <1>2 DEF IInv, Types, Becomes, counters, Offline
<1>4. Shape'
  <2>1. JobShape(job'[p]) /\ job'[p].at \notin Scoring
    BY <1>1, <1>2 DEF JobShape, Scoring
  <2> QED
    BY <1>2, <2>1, ShapeKept DEF IInv
<1>5. Phases'
  <2>1. CASE p = "scheduler"
    <3>1. job'["caller"] = job["caller"]
      BY <1>2, <2>1 DEF Procs
    <3> QED
      BY <1>1, <1>2, <2>1, <3>1 DEF IInv, Phases, Scoring, Deciding, Offline, Procs
  <2>2. CASE p = "caller"
    <3>1. job'["scheduler"] = job["scheduler"]
      BY <1>2, <2>2 DEF Procs
    <3> QED
      BY <1>1, <1>2, <2>2, <3>1 DEF IInv, Phases, Scoring, Deciding, Offline, Procs
  <2> QED
    BY <2>1, <2>2 DEF Procs
<1>6. Mailed'
  <2>1. CASE p = "scheduler"
    <3>1. job'["caller"] = job["caller"]
      BY <1>2, <2>1 DEF Procs
    <3> QED
      BY <1>1, <1>2, <2>1, <3>1 DEF IInv, Mailed, Procs, Offline
  <2>2. CASE p = "caller"
    <3>1. job'["scheduler"] = job["scheduler"]
      BY <1>2, <2>2 DEF Procs
    <3> QED
      BY <1>1, <1>2, <2>2, <3>1 DEF IInv, Mailed, Procs, Offline
  <2> QED
    BY <2>1, <2>2 DEF Procs
<1>7. Led'
  <2>1. CASE p = "scheduler"
    <3>1. job'["caller"] = job["caller"]
      BY <1>2, <2>1 DEF Procs
    <3> QED
      BY <1>1, <1>2, <2>1, <3>1 DEF IInv, Led, RestAfterSample, Procs, Offline
  <2>2. CASE p = "caller"
    <3>1. job'["scheduler"] = job["scheduler"]
      BY <1>2, <2>2 DEF Procs
    <3> QED
      BY <1>1, <1>2, <2>2, <3>1 DEF IInv, Led, RestAfterSample, Procs, Offline
  <2> QED
    BY <2>1, <2>2 DEF Procs
<1>8. Counted'
  <2>1. CASE p = "scheduler"
    <3>1. job'["caller"] = job["caller"]
      BY <1>2, <2>1 DEF Procs
    <3> QED
      BY <1>1, <1>2, CountedQuiet, <2>1, <3>1 DEF IInv, Offline, counters
  <2>2. CASE p = "caller"
    <3>1. job'["scheduler"] = job["scheduler"]
      BY <1>2, <2>2 DEF Procs
    <3> QED
      BY <1>1, <1>2, CountedQuiet, <2>2, <3>1 DEF IInv, Offline, counters
  <2> QED
    BY <2>1, <2>2 DEF Procs
<1>9. Faithful'
  <2>1. CASE p = "scheduler"
    <3>1. job'["caller"] = job["caller"]
      BY <1>2, <2>1 DEF Procs
    <3> QED
      BY <1>1, <1>2, <2>1, <3>1 DEF IInv, Faithful, Undisturbed, Offline, counters, Shape, JobShape
  <2>2. CASE p = "caller"
    <3>1. job'["scheduler"] = job["scheduler"]
      BY <1>2, <2>2 DEF Procs
    <3> QED
      BY <1>1, <1>2, <2>2, <3>1 DEF IInv, Faithful, Undisturbed, Offline, counters, Shape, JobShape
  <2> QED
    BY <2>1, <2>2 DEF Procs
<1>10. Spanned'
  BY <1>1, <1>2 DEF IInv, Phases, Spanned, Unscored, SpansHeld, Undisturbed, Offline, counters, Procs
<1>11. Cut' /\ RiskyHeld'
  <2>1. Cut /\ RiskyHeld
    BY DEF IInv
  <2>2. job'["scheduler"].at \in {"select held", "release"} =>
           job["scheduler"].at \in {"select held", "release"} /\ job'["scheduler"].cutoff = job["scheduler"].cutoff
    <3>1. CASE p = "scheduler"
      BY <1>1, <3>1
    <3>2. CASE p = "caller"
      <4>1. job'["scheduler"] = job["scheduler"]
        BY <1>2, <3>2 DEF Procs
      <4> QED
        BY <4>1
    <3> QED
      BY <3>1, <3>2 DEF Procs
  <2> QED
    BY <1>1, <1>2, <2>1, <2>2, CutKept
<1> QED
  BY <1>3, <1>4, <1>5, <1>6, <1>7, <1>8, <1>9, <1>10, <1>11 DEF IInv

\* One round of a delivery loop, whoever runs it.
LEMMA DeliverInv ==
    ASSUME IInv, NEW p \in Procs, NEW r \in Recipients, NEW ok \in {"sent", "released"},
           Deliver(p, r, ok), job[p].at \in {"dispatch", "release"},
           job[p].at = "release" => ~TooRisky(p, r)
    PROVE  IInv'
<1>1. PICK s \in {ok, "skipped"} :
         /\ UNCHANGED <<canary, window, row, role, risk, prompt, cancelling, interruptions, decides, cancels>>
         /\ r \in job[p].todo /\ job' = [job EXCEPT ![p].todo = @ \ {r}, ![p].out[r] = s]
         /\ copies' \in {copies, [copies EXCEPT ![r] = @ + 1]}
         /\ \/ s = ok /\ UNCHANGED raises /\ copies' = [copies EXCEPT ![r] = @ + 1]
            \/ s = "skipped" /\ raises' = raises + 1
  BY DEF Deliver, db
<1>2. /\ PendingRows' = PendingRows /\ Sample' = Sample /\ Held' = Held /\ s \in Outs /\ s # "-" /\ s # "blocked"
      /\ job' \in [Procs -> Job] /\ job'[p].at = job[p].at /\ job'[p].todo = job[p].todo \ {r}
      /\ job'[p].cutoff = job[p].cutoff /\ job'[p].out[r] = s
      /\ \A t \in Recipients \ {r} : job'[p].out[t] = job[p].out[t]
      /\ \A q \in Procs \ {p} : job'[q] = job[q]
      /\ job[p].todo \in SUBSET Recipients /\ \A t \in job[p].todo : job[p].out[t] = "-"
      /\ copies \in [Recipients -> Nat] /\ copies' \in [Recipients -> Nat] /\ raises' \in Nat
      /\ \A t \in Recipients \ {r} : copies'[t] = copies[t]
      /\ copies'[r] <= copies[r] + 1 /\ copies[r] <= copies'[r]
      /\ s # "skipped" => copies'[r] > 0
      /\ Undisturbed' => Undisturbed /\ s # "skipped"
      /\ job[p].at = "dispatch" => p = "scheduler"
  <2>1. job[p] \in Job /\ JobShape(job[p]) /\ copies \in [Recipients -> Nat] /\ raises \in Nat
    BY DEF IInv, Types, Shape, Procs
  <2>2. job[p].todo \in SUBSET Recipients /\ \A t \in job[p].todo : job[p].out[t] = "-"
    BY <2>1 DEF Job, JobShape
  <2>3. s \in Outs /\ s # "-" /\ s # "blocked"
    BY DEF Outs
  <2>4. /\ Becomes(p, job[p].at, job[p].todo \ {r}, [job[p].out EXCEPT ![r] = s])
        /\ job'[p].cutoff = job[p].cutoff /\ job'[p].out[r] = s
        /\ \A t \in Recipients \ {r} : job'[p].out[t] = job[p].out[t]
    <3>1. Types /\ job' = [job EXCEPT ![p].todo = @ \ {r}, ![p].out[r] = s]
      BY <1>1 DEF IInv
    <3>2. Marks(p, r, s)
      BY <2>3, <3>1, JobMarks
    <3> QED
      BY <3>2 DEF Marks
  <2>5. /\ copies' \in [Recipients -> Nat] /\ \A t \in Recipients \ {r} : copies'[t] = copies[t]
        /\ copies'[r] <= copies[r] + 1 /\ copies[r] <= copies'[r]
        /\ s # "skipped" => copies'[r] > 0
    BY <1>1, <2>1
  <2>6. raises' \in Nat /\ (Undisturbed' => Undisturbed /\ s # "skipped")
    BY <1>1, <2>1 DEF Undisturbed
  <2>7. job[p].at = "dispatch" => p = "scheduler"
    BY DEF IInv, Shape, Scoring, Procs
  <2> QED
    BY <1>1, <2>1, <2>2, <2>3, <2>4, <2>5, <2>6, <2>7, SameRows DEF Becomes
<1>3. Types'
  BY <1>1, <1>2 DEF IInv, Types
<1>4. Shape'
  <2>1. JobShape(job'[p])
    BY <1>1, <1>2 DEF JobShape
  <2>2. CASE p = "scheduler"
    <3>1. job'["caller"] = job["caller"]
      BY <1>2, <2>2 DEF Procs
    <3> QED
      BY <2>1, <2>2, <3>1 DEF IInv, Shape, JobShape
  <2>3. CASE p = "caller"
    <3>1. job'[p].at \notin Scoring
      BY <1>2, <2>3 DEF IInv, Shape
    <3> QED
      BY <1>2, <2>1, <3>1, ShapeKept DEF IInv
  <2> QED
    BY <2>2, <2>3 DEF Procs
<1>5. Phases'
  <2>1. CASE p = "scheduler"
    <3>1. job'["caller"] = job["caller"]
      BY <1>2, <2>1 DEF Procs
    <3> QED
      BY <1>1, <1>2, <2>1, <3>1 DEF IInv, Phases, Scoring, Deciding, Procs
  <2>2. CASE p = "caller"
    <3>1. job'["scheduler"] = job["scheduler"]
      BY <1>2, <2>2 DEF Procs
    <3> QED
      BY <1>1, <1>2, <2>2, <3>1 DEF IInv, Phases, Scoring, Deciding, Procs
  <2> QED
    BY <2>1, <2>2 DEF Procs
<1>6. Mailed'
  <2>1. CASE p = "scheduler"
    <3>1. job'["caller"] = job["caller"]
      BY <1>2, <2>1 DEF Procs
    <3> QED
      BY <1>1, <1>2, <2>1, <3>1 DEF IInv, Mailed, Procs
  <2>2. CASE p = "caller"
    <3>1. job'["scheduler"] = job["scheduler"]
      BY <1>2, <2>2 DEF Procs
    <3> QED
      BY <1>1, <1>2, <2>2, <3>1 DEF IInv, Mailed, Procs
  <2> QED
    BY <2>1, <2>2 DEF Procs
<1>7. Led'
  <2>1. (\E s1 \in Sample : copies[s1] > 0) => \E s1 \in Sample' : copies'[s1] > 0
    BY <1>2 DEF Sample
  <2>2. r \in Sample \/ \E s1 \in Sample : copies[s1] > 0
    BY <1>1, <1>2 DEF IInv, Led
  <2>3. RestAfterSample'
    <3> SUFFICES ASSUME NEW t \in Recipients \ Sample, copies'[t] > 0
                 PROVE  \E s1 \in Sample' : copies'[s1] > 0
      BY <1>2 DEF RestAfterSample
    <3>1. CASE t = r
      BY <2>1, <2>2, <3>1
    <3>2. CASE t # r
      BY <1>2, <2>1, <3>2 DEF IInv, Led, RestAfterSample
    <3> QED
      BY <3>1, <3>2
  <2>4. \A q \in Procs : job'[q].at = job[q].at
    BY <1>2
  <2>5. job'["scheduler"].at = "dispatch" => job'["scheduler"].todo \subseteq Sample'
    BY <1>2 DEF IInv, Led, Procs
  <2> QED
    BY <2>1, <2>3, <2>4, <2>5 DEF IInv, Led
<1>8. Counted'
  <2> SUFFICES ASSUME NEW t \in Recipients
               PROVE  /\ copies'[t] <= 1 + interruptions' + decides'
                      /\ (SchedulerOwes(t) \/ CallerOwes(t))' => copies'[t] <= interruptions' + decides'
                      /\ (SchedulerOwes(t) /\ CallerOwes(t))' => copies'[t] + 1 <= interruptions' + decides'
    BY DEF Counted
  <2>1. /\ copies[t] <= 1 + interruptions + decides
        /\ SchedulerOwes(t) \/ CallerOwes(t) => copies[t] <= interruptions + decides
        /\ SchedulerOwes(t) /\ CallerOwes(t) => copies[t] + 1 <= interruptions + decides
    BY DEF IInv, Counted
  <2>2. copies[t] \in Nat /\ copies'[t] \in Nat /\ interruptions \in Nat /\ decides \in Nat
        /\ UNCHANGED <<interruptions, decides>>
    BY <1>1, <1>2 DEF IInv, Types
  <2>3. CASE t # r
    <3>1. (SchedulerOwes(t)' => SchedulerOwes(t)) /\ (CallerOwes(t)' => CallerOwes(t))
      <4>1. CASE p = "scheduler"
        <5>1. job'["caller"] = job["caller"]
          BY <1>2, <4>1 DEF Procs
        <5>2. /\ job'["scheduler"].out[t] = job["scheduler"].out[t] /\ row' = row
              /\ t \in job'["scheduler"].todo => t \in job["scheduler"].todo
          BY <1>1, <1>2, <2>3, <4>1
        <5> QED
          BY <5>1, <5>2 DEF SchedulerOwes, CallerOwes
      <4>2. CASE p = "caller"
        <5>1. job'["scheduler"] = job["scheduler"] /\ row' = row
          BY <1>1, <1>2, <4>2 DEF Procs
        <5>2. job'["caller"].out[t] = job["caller"].out[t] /\ job'["caller"].at = job["caller"].at
          BY <1>2, <2>3, <4>2
        <5> QED
          BY <5>1, <5>2 DEF SchedulerOwes, CallerOwes
      <4> QED
        BY <4>1, <4>2 DEF Procs
    <3>2. copies'[t] = copies[t]
      BY <1>2, <2>3
    <3> QED
      BY <2>1, <2>2, <3>1, <3>2
  <2>4. CASE t = r /\ p = "scheduler"
    <3>1. SchedulerOwes(t) /\ ~SchedulerOwes(t)' /\ (CallerOwes(t)' <=> CallerOwes(t))
      BY <1>1, <1>2, <2>4 DEF SchedulerOwes, CallerOwes, Procs
    <3> QED
      BY <1>2, <2>1, <2>2, <2>4, <3>1
  <2>5. CASE t = r /\ p = "caller"
    <3>1. CallerOwes(t) /\ ~CallerOwes(t)' /\ (SchedulerOwes(t)' <=> SchedulerOwes(t))
      BY <1>1, <1>2, <2>5 DEF SchedulerOwes, CallerOwes, Procs
    <3> QED
      BY <1>2, <2>1, <2>2, <2>5, <3>1
  <2> QED
    BY <2>3, <2>4, <2>5 DEF Procs
<1>9. Faithful'
  <2>1. CASE p = "scheduler"
    <3>1. job'["caller"] = job["caller"]
      BY <1>2, <2>1 DEF Procs
    <3> QED
      BY <1>1, <1>2, <2>1, <3>1 DEF IInv, Faithful
  <2>2. CASE p = "caller"
    <3>1. job'["scheduler"] = job["scheduler"]
      BY <1>2, <2>2 DEF Procs
    <3> QED
      BY <1>1, <1>2, <2>2, <3>1 DEF IInv, Faithful
  <2> QED
    BY <2>1, <2>2 DEF Procs
<1>10. Spanned'
  BY <1>1, <1>2 DEF IInv, Spanned, Unscored, SpansHeld, Procs
<1>11. Cut' /\ RiskyHeld'
  <2> SUFFICES ASSUME Undisturbed' PROVE Cut' /\ RiskyHeld'
    BY DEF Cut, RiskyHeld
  <2>1. Undisturbed /\ p = "scheduler"
    BY <1>2 DEF IInv, Faithful, Procs
  <2>2. r \in Sample \/ (job["scheduler"].at = "release" /\ window = "elapsed" /\ ~TooRisky("scheduler", r))
    BY <1>1, <2>1 DEF IInv, Led, Phases, Deciding
  <2>3. Cut'
    <3>1. (\E t \in Recipients \ Sample' : copies'[t] > 0) => window' = "elapsed"
      BY <1>1, <1>2, <2>1, <2>2 DEF IInv, Cut
    <3>2. job'["scheduler"].at = job["scheduler"].at /\ job'["scheduler"].cutoff = job["scheduler"].cutoff
      BY <1>2, <2>1
    <3> QED
      BY <1>1, <1>2, <2>1, <3>1, <3>2 DEF IInv, Cut
  <2>4. RiskyHeld'
    <3> SUFFICES ASSUME NEW t \in Recipients \ Sample, NEW s1 \in Sample, copies'[t] > 0,
                        row[s1] = "hard_bounce", prompt[s1], Percent = 0
                 PROVE  risk[t] < risk[s1]
      BY <1>1, <1>2 DEF RiskyHeld
    <3>1. CASE t # r
      BY <1>2, <2>1, <3>1 DEF IInv, RiskyHeld
    <3>2. CASE t = r
      <4>1. job["scheduler"].cutoff \in Nat /\ job["scheduler"].cutoff <= risk[s1]
        BY <2>1, <2>2, <3>2 DEF IInv, Cut
      <4>2. risk[s1] \in Nat /\ risk[s1] > 0 /\ risk[r] \in Nat
        <5>1. s1 \in Recipients /\ risk[s1] \in Risks
          BY DEF IInv, Mailed, Sample
        <5>2. risk[r] \in Risks \cup {0}
          BY DEF IInv, Types, NoRisk
        <5> QED
          BY <5>1, <5>2, RisksPositive
      <4>3. risk[r] = 0 \/ ~(risk[r] >= job["scheduler"].cutoff)
        BY <2>2, <3>2 DEF TooRisky, NoRisk
      <4> QED
        BY <3>2, <4>1, <4>2, <4>3
    <3> QED
      BY <3>1, <3>2
  <2> QED
    BY <2>3, <2>4
<1> QED
  BY <1>3, <1>4, <1>5, <1>6, <1>7, <1>8, <1>9, <1>10, <1>11 DEF IInv

LEMMA MinFacts ==
    ASSUME NEW S \in SUBSET Nat, S # {}
    PROVE  Min(S) \in S /\ \A y \in S : Min(S) <= y
<1>1. IsWellFoundedOn(OpToRel(<, Nat), Nat)
  BY NatLessThanWellFounded, Zenon
<1>2. PICK x \in S : \A y \in S : ~(<<y, x>> \in OpToRel(<, Nat))
  BY <1>1, WFMin, Zenon
<1>3. \A y \in S : x <= y
  <2> SUFFICES ASSUME NEW y \in S, ~(x <= y) PROVE FALSE
    OBVIOUS
  <2>1. y < x /\ x \in Nat /\ y \in Nat
    OBVIOUS
  <2>2. <<y, x>> \in OpToRel(<, Nat)
    <3>1. <<y, x>> \in Nat \X Nat /\ <<y, x>>[1] < <<y, x>>[2]
      BY <2>1
    <3> QED
      BY <3>1, Zenon DEF OpToRel
  <2> QED
    BY <1>2, <2>2, Zenon
<1> QED
  BY <1>3 DEF Min

\* The verdict: with a threshold of 0 the cutoff is not above any failure.
LEMMA DecideChoice ==
    ASSUME IInv, NEW p \in Procs, decide(p)
    PROVE  \E x \in {"idle", "select held", "block"} :
              /\ Becomes(p, x, {}, NoOut)
              /\ IF x = "idle" THEN canary' = "failed" ELSE canary' = canary /\ Observed # {}
              /\ Percent = 0 /\ x = "select held" =>
                    \A s \in Sample : row[s] = "hard_bounce" =>
                       job'[p].cutoff \in Nat /\ job'[p].cutoff <= risk[s]
<1> DEFINE M == {risk[r] : r \in Bounced}
<1>1. /\ Types /\ "idle" \in Ats /\ "select held" \in Ats /\ "block" \in Ats /\ {} \in SUBSET Recipients
      /\ Everything \in Nat \cup {Everything}
  BY DEF IInv, Ats
<1>2. /\ IsFiniteSet(Bounced) /\ IsFiniteSet(Observed) /\ Bounced \in SUBSET Recipients
      /\ Cardinality(Bounced) \in Nat /\ Cardinality(Observed) \in Nat
  <2>1. Bounced \in SUBSET Recipients /\ Observed \in SUBSET Recipients
    BY DEF Bounced, Observed, Sample
  <2> QED
    BY <2>1, StagedSendAssumption, FS_Subset, FS_CardinalityType
<1>3. CASE Observed = {}
  <2>1. canary' = "failed" /\ job' = [job EXCEPT ![p] = Idle]
    BY <1>3 DEF decide
  <2>2. Becomes(p, "idle", {}, NoOut)
    BY <1>1, <2>1, JobIdle
  <2> QED
    BY <2>1, <2>2
<1>4. CASE Observed # {} /\ 100 * Cardinality(Bounced) <= Percent * Cardinality(Observed)
  <2>1. canary' = canary /\ job' = [job EXCEPT ![p] = [Idle EXCEPT !.at = "select held", !.cutoff = Everything]]
    BY <1>4 DEF decide
  <2>2. Becomes(p, "select held", {}, NoOut)
    BY <1>1, <2>1, JobIdle
  <2>3. Percent = 0 => Bounced = {}
    <3> SUFFICES ASSUME Percent = 0 PROVE Bounced = {}
      OBVIOUS
    <3>1. Cardinality(Bounced) = 0
      BY <1>2, <1>4
    <3> QED
      BY <1>2, <3>1, FS_EmptySet
  <2>4. Percent = 0 => \A s \in Sample : row[s] # "hard_bounce"
    BY <2>3 DEF Bounced
  <2> QED
    BY <1>4, <2>1, <2>2, <2>4
<1>5. CASE /\ Observed # {} /\ ~(100 * Cardinality(Bounced) <= Percent * Cardinality(Observed))
           /\ Bounced = Observed
  <2>1. canary' = canary /\ job' = [job EXCEPT ![p] = [Idle EXCEPT !.at = "block"]]
    BY <1>5 DEF decide
  <2>2. Becomes(p, "block", {}, NoOut)
    BY <1>1, <2>1, JobIdle
  <2> QED
    BY <1>5, <2>1, <2>2
<1>6. CASE /\ Observed # {} /\ ~(100 * Cardinality(Bounced) <= Percent * Cardinality(Observed))
           /\ Bounced # Observed
  <2>1. canary' = canary /\ job' = [job EXCEPT ![p] = [Idle EXCEPT !.at = "select held", !.cutoff = Min(M)]]
    BY <1>6 DEF decide
  <2>2. Bounced # {}
    <3> SUFFICES ASSUME Bounced = {} PROVE FALSE
      OBVIOUS
    <3>1. Cardinality(Bounced) = 0
      BY FS_EmptySet
    <3>2. Percent \in Nat
      BY StagedSendAssumption
    <3>3. 0 <= Percent * Cardinality(Observed)
      BY <1>2, <3>2
    <3> QED
      BY <1>6, <3>1, <3>3
  <2>3. M \in SUBSET Nat /\ M # {}
    <3>1. \A r \in Bounced : risk[r] \in Nat
      BY <1>2, RisksPositive DEF Types, IInv, NoRisk
    <3> QED
      BY <2>2, <3>1
  <2> HIDE DEF M
  <2>4. Min(M) \in Nat /\ \A y \in M : Min(M) <= y
    BY <2>3, MinFacts
  <2>5. Becomes(p, "select held", {}, NoOut) /\ job'[p].cutoff = Min(M)
    BY <1>1, <2>1, <2>4, JobIdle
  <2>6. \A s \in Sample : row[s] = "hard_bounce" => risk[s] \in M
    BY DEF Bounced, M
  <2> QED
    BY <1>6, <2>1, <2>4, <2>5, <2>6
<1> QED
  BY <1>3, <1>4, <1>5, <1>6

LEMMA DecideInv ==
    ASSUME IInv, NEW p \in Procs, decide(p)
    PROVE  IInv'
<1>1. /\ UNCHANGED <<window, row, role, risk, copies, prompt, cancelling, counters>>
      /\ job[p].at = "decide"
  BY DEF decide
<1>2. PICK x \in {"idle", "select held", "block"} :
         /\ PendingRows' = PendingRows /\ Sample' = Sample /\ Held' = Held
         /\ job' \in [Procs -> Job] /\ job'[p].at = x /\ job'[p].todo = {} /\ job'[p].out = NoOut
         /\ \A q \in Procs \ {p} : job'[q] = job[q]
         /\ canary \notin {"none", "pending"} /\ canary' \in {canary, "failed"}
         /\ x = "select held" => \E s \in Sample : copies[s] > 0
         /\ Percent = 0 /\ x = "select held" =>
               \A s \in Sample : row[s] = "hard_bounce" =>
                  job'[p].cutoff \in Nat /\ job'[p].cutoff <= risk[s]
         /\ job[p].out = NoOut /\ \A r \in Recipients : NoOut[r] = "-"
  <2>1. PICK x \in {"idle", "select held", "block"} :
              /\ Becomes(p, x, {}, NoOut)
              /\ IF x = "idle" THEN canary' = "failed" ELSE canary' = canary /\ Observed # {}
              /\ Percent = 0 /\ x = "select held" =>
                    \A s \in Sample : row[s] = "hard_bounce" =>
                       job'[p].cutoff \in Nat /\ job'[p].cutoff <= risk[s]
    BY DecideChoice
  <2>2. Observed # {} => \E s \in Sample : copies[s] > 0
    BY DEF IInv, Mailed, Observed, Sample, Outcomes
  <2>3. canary \notin {"none", "pending"}
    BY <1>1 DEF IInv, Phases, Procs, Scoring
  <2>4. job[p].out = NoOut /\ \A r \in Recipients : NoOut[r] = "-"
    BY <1>1 DEF IInv, Shape, JobShape, Procs, NoOut
  <2> WITNESS x \in {"idle", "select held", "block"}
  <2> QED
    BY <1>1, <2>1, <2>2, <2>3, <2>4, SameRows DEF Becomes
<1>3. Types'
  BY <1>1, <1>2 DEF IInv, Types, counters
<1>4. Shape'
  <2>1. JobShape(job'[p]) /\ job'[p].at \notin Scoring
    BY <1>1, <1>2 DEF JobShape, Scoring
  <2> QED
    BY <1>2, <2>1, ShapeKept DEF IInv
<1>5. Phases'
  <2>1. CASE p = "scheduler"
    <3>1. job'["caller"] = job["caller"]
      BY <1>2, <2>1 DEF Procs
    <3> QED
      BY <1>1, <1>2, <2>1, <3>1 DEF IInv, Phases, Scoring, Deciding, Procs
  <2>2. CASE p = "caller"
    <3>1. job'["scheduler"] = job["scheduler"]
      BY <1>2, <2>2 DEF Procs
    <3> QED
      BY <1>1, <1>2, <2>2, <3>1 DEF IInv, Phases, Scoring, Deciding, Procs
  <2> QED
    BY <2>1, <2>2 DEF Procs
<1>6. Mailed'
  <2>1. CASE p = "scheduler"
    <3>1. job'["caller"] = job["caller"]
      BY <1>2, <2>1 DEF Procs
    <3> QED
      BY <1>1, <1>2, <2>1, <3>1 DEF IInv, Mailed, Procs
  <2>2. CASE p = "caller"
    <3>1. job'["scheduler"] = job["scheduler"]
      BY <1>2, <2>2 DEF Procs
    <3> QED
      BY <1>1, <1>2, <2>2, <3>1 DEF IInv, Mailed, Procs
  <2> QED
    BY <2>1, <2>2 DEF Procs
<1>7. Led'
  <2>1. CASE p = "scheduler"
    <3>1. job'["caller"] = job["caller"]
      BY <1>2, <2>1 DEF Procs
    <3> QED
      BY <1>1, <1>2, <2>1, <3>1 DEF IInv, Led, RestAfterSample, Procs
  <2>2. CASE p = "caller"
    <3>1. job'["scheduler"] = job["scheduler"]
      BY <1>2, <2>2 DEF Procs
    <3> QED
      BY <1>1, <1>2, <2>2, <3>1 DEF IInv, Led, RestAfterSample, Procs
  <2> QED
    BY <2>1, <2>2 DEF Procs
<1>8. Counted'
  <2>1. CASE p = "scheduler"
    <3>1. job'["caller"] = job["caller"]
      BY <1>2, <2>1 DEF Procs
    <3> QED
      BY <1>1, <1>2, CountedQuiet, <2>1, <3>1 DEF IInv, counters
  <2>2. CASE p = "caller"
    <3>1. job'["scheduler"] = job["scheduler"]
      BY <1>2, <2>2 DEF Procs
    <3> QED
      BY <1>1, <1>2, CountedQuiet, <2>2, <3>1 DEF IInv, counters
  <2> QED
    BY <2>1, <2>2 DEF Procs
<1>9. Faithful'
  <2>1. CASE p = "scheduler"
    <3>1. job'["caller"] = job["caller"]
      BY <1>2, <2>1 DEF Procs
    <3> QED
      BY <1>1, <1>2, <2>1, <3>1 DEF IInv, Faithful, Undisturbed, counters
  <2>2. CASE p = "caller"
    <3>1. job'["scheduler"] = job["scheduler"]
      BY <1>2, <2>2 DEF Procs
    <3> QED
      BY <1>1, <1>2, <2>2, <3>1 DEF IInv, Faithful, Undisturbed, counters
  <2> QED
    BY <2>1, <2>2 DEF Procs
<1>10. Spanned'
  <2>1. CASE p = "scheduler"
    <3>1. job'["caller"] = job["caller"]
      BY <1>2, <2>1 DEF Procs
    <3> QED
      BY <1>1, <1>2, <2>1, <3>1 DEF IInv, Phases, Spanned, Unscored, SpansHeld, Undisturbed, counters, Procs, Faithful
  <2>2. CASE p = "caller"
    <3>1. job'["scheduler"] = job["scheduler"]
      BY <1>2, <2>2 DEF Procs
    <3> QED
      BY <1>1, <1>2, <2>2, <3>1 DEF IInv, Phases, Spanned, Unscored, SpansHeld, Undisturbed, counters, Procs, Faithful
  <2> QED
    BY <2>1, <2>2 DEF Procs
<1>11. Cut' /\ RiskyHeld'
  <2>1. CASE p = "scheduler"
    <3>1. job'["caller"] = job["caller"]
      BY <1>2, <2>1 DEF Procs
    <3> QED
      BY <1>1, <1>2, <2>1, <3>1 DEF IInv, Cut, RiskyHeld, Undisturbed, counters, Procs, Faithful
  <2>2. CASE p = "caller"
    <3>1. job'["scheduler"] = job["scheduler"]
      BY <1>2, <2>2 DEF Procs
    <3> QED
      BY <1>1, <1>2, <2>2, <3>1 DEF IInv, Cut, RiskyHeld, Undisturbed, counters, Procs, Faithful
  <2> QED
    BY <2>1, <2>2 DEF Procs
<1> QED
  BY <1>3, <1>4, <1>5, <1>6, <1>7, <1>8, <1>9, <1>10, <1>11 DEF IInv

LEMMA ConcludeInv ==
    ASSUME IInv, NEW p \in Procs, Conclude(p)
    PROVE  IInv'
<1>1. /\ UNCHANGED <<window, row, role, risk, copies, prompt, cancelling, counters>>
      /\ job[p].at \in {"released", "blocked"} /\ canary' \in {"released", "blocked"}
      /\ Becomes(p, "idle", {}, NoOut)
  <2>1. "idle" \in Ats /\ {} \in SUBSET Recipients
    BY DEF Ats
  <2> QED
    BY <2>1, JobIdle DEF IInv, Conclude
<1>2. /\ PendingRows' = PendingRows /\ Sample' = Sample /\ Held' = Held
      /\ job'[p].at = "idle" /\ job'[p].todo = {} /\ job'[p].out = NoOut
      /\ \A q \in Procs \ {p} : job'[q] = job[q]
      /\ canary \notin {"none", "pending"}
      /\ job[p].out = NoOut /\ \A r \in Recipients : NoOut[r] = "-"
  <2>1. canary \notin {"none", "pending"}
    BY <1>1 DEF IInv, Phases, Procs, Scoring
  <2>2. job[p].out = NoOut /\ \A r \in Recipients : NoOut[r] = "-"
    BY <1>1 DEF IInv, Shape, JobShape, Procs, NoOut
  <2> QED
    BY <1>1, <2>1, <2>2, SameRows DEF Becomes
<1>3. Types'
  BY <1>1, <1>2 DEF IInv, Types, Becomes, counters
<1>4. Shape'
  <2>1. JobShape(job'[p]) /\ job'[p].at \notin Scoring
    BY <1>1, <1>2 DEF JobShape, Scoring
  <2> QED
    BY <1>2, <2>1, ShapeKept DEF IInv
<1>5. Phases'
  <2>1. CASE p = "scheduler"
    <3>1. job'["caller"] = job["caller"]
      BY <1>2, <2>1 DEF Procs
    <3> QED
      BY <1>1, <1>2, <2>1, <3>1 DEF IInv, Phases, Scoring, Deciding, Procs
  <2>2. CASE p = "caller"
    <3>1. job'["scheduler"] = job["scheduler"]
      BY <1>2, <2>2 DEF Procs
    <3> QED
      BY <1>1, <1>2, <2>2, <3>1 DEF IInv, Phases, Scoring, Deciding, Procs
  <2> QED
    BY <2>1, <2>2 DEF Procs
<1>6. Mailed'
  <2>1. CASE p = "scheduler"
    <3>1. job'["caller"] = job["caller"]
      BY <1>2, <2>1 DEF Procs
    <3> QED
      BY <1>1, <1>2, <2>1, <3>1 DEF IInv, Mailed, Procs
  <2>2. CASE p = "caller"
    <3>1. job'["scheduler"] = job["scheduler"]
      BY <1>2, <2>2 DEF Procs
    <3> QED
      BY <1>1, <1>2, <2>2, <3>1 DEF IInv, Mailed, Procs
  <2> QED
    BY <2>1, <2>2 DEF Procs
<1>7. Led'
  <2>1. CASE p = "scheduler"
    <3>1. job'["caller"] = job["caller"]
      BY <1>2, <2>1 DEF Procs
    <3> QED
      BY <1>1, <1>2, <2>1, <3>1 DEF IInv, Led, RestAfterSample, Procs
  <2>2. CASE p = "caller"
    <3>1. job'["scheduler"] = job["scheduler"]
      BY <1>2, <2>2 DEF Procs
    <3> QED
      BY <1>1, <1>2, <2>2, <3>1 DEF IInv, Led, RestAfterSample, Procs
  <2> QED
    BY <2>1, <2>2 DEF Procs
<1>8. Counted'
  <2>1. CASE p = "scheduler"
    <3>1. job'["caller"] = job["caller"]
      BY <1>2, <2>1 DEF Procs
    <3> QED
      BY <1>1, <1>2, CountedQuiet, <2>1, <3>1 DEF IInv, counters
  <2>2. CASE p = "caller"
    <3>1. job'["scheduler"] = job["scheduler"]
      BY <1>2, <2>2 DEF Procs
    <3> QED
      BY <1>1, <1>2, CountedQuiet, <2>2, <3>1 DEF IInv, counters
  <2> QED
    BY <2>1, <2>2 DEF Procs
<1>9. Faithful'
  <2>1. CASE p = "scheduler"
    <3>1. job'["caller"] = job["caller"]
      BY <1>2, <2>1 DEF Procs
    <3> QED
      BY <1>1, <1>2, <2>1, <3>1 DEF IInv, Faithful, Undisturbed, counters
  <2>2. CASE p = "caller"
    <3>1. job'["scheduler"] = job["scheduler"]
      BY <1>2, <2>2 DEF Procs
    <3> QED
      BY <1>1, <1>2, <2>2, <3>1 DEF IInv, Faithful, Undisturbed, counters
  <2> QED
    BY <2>1, <2>2 DEF Procs
<1>10. Spanned'
  <2>1. CASE p = "scheduler"
    <3>1. job'["caller"] = job["caller"]
      BY <1>2, <2>1 DEF Procs
    <3> QED
      BY <1>1, <1>2, <2>1, <3>1 DEF IInv, Phases, Spanned, Unscored, SpansHeld, Undisturbed, counters, Procs, Faithful
  <2>2. CASE p = "caller"
    <3>1. job'["scheduler"] = job["scheduler"]
      BY <1>2, <2>2 DEF Procs
    <3> QED
      BY <1>1, <1>2, <2>2, <3>1 DEF IInv, Phases, Spanned, Unscored, SpansHeld, Undisturbed, counters, Procs, Faithful
  <2> QED
    BY <2>1, <2>2 DEF Procs
<1>11. Cut' /\ RiskyHeld'
  <2>1. CASE p = "scheduler"
    <3>1. job'["caller"] = job["caller"]
      BY <1>2, <2>1 DEF Procs
    <3> QED
      BY <1>1, <1>2, <2>1, <3>1 DEF IInv, Cut, RiskyHeld, Undisturbed, counters, Procs, Faithful
  <2>2. CASE p = "caller"
    <3>1. job'["scheduler"] = job["scheduler"]
      BY <1>2, <2>2 DEF Procs
    <3> QED
      BY <1>1, <1>2, <2>2, <3>1 DEF IInv, Cut, RiskyHeld, Undisturbed, counters, Procs, Faithful
  <2> QED
    BY <2>1, <2>2 DEF Procs
<1> QED
  BY <1>3, <1>4, <1>5, <1>6, <1>7, <1>8, <1>9, <1>10, <1>11 DEF IInv

-----------------------------------------------------------------------------
(* Commits.                                                                *)

LEMMA WrittenFacts ==
    ASSUME IInv, NEW p \in Procs, row' = Written(p), role' = role
    PROVE  /\ row' \in [Recipients -> Statuses]
           /\ \A r \in Recipients : row'[r] = IF job[p].out[r] # "-" THEN job[p].out[r] ELSE row[r]
           /\ Sample' = Sample /\ PendingRows' \subseteq PendingRows /\ Held' \subseteq Held
           /\ \A r \in Recipients : row'[r] = "pending" => row[r] = "pending" /\ job[p].out[r] = "-"
           /\ \A r \in Recipients : job[p].out[r] \in Outs
           /\ \A r \in Recipients : row'[r] = "hard_bounce" => row[r] = "hard_bounce"
<1>1. row \in [Recipients -> Statuses] /\ job[p].out \in [Recipients -> Outs]
  BY DEF IInv, Types, Job
<1>2. \A r \in Recipients : row'[r] = IF job[p].out[r] # "-" THEN job[p].out[r] ELSE row[r]
  BY DEF Written
<1>3. row' \in [Recipients -> Statuses]
  BY <1>1 DEF Written, Outs, Statuses
<1>4. \A r \in Recipients : row'[r] = "pending" => row[r] = "pending" /\ job[p].out[r] = "-"
  BY <1>1, <1>2 DEF Outs
<1>5. Sample' = Sample
  BY DEF Sample
<1>6. PendingRows' \subseteq PendingRows
  BY <1>4 DEF PendingRows
<1>7. \A r \in Recipients : row'[r] = "hard_bounce" => row[r] = "hard_bounce"
  BY <1>1, <1>2 DEF Outs
<1> QED
  BY <1>1, <1>2, <1>3, <1>4, <1>5, <1>6, <1>7 DEF Held

LEMMA ReleaseRemainingInv ==
    ASSUME IInv, NEW p \in Procs, release_remaining(p)
    PROVE  IInv'
<1>1. /\ UNCHANGED <<canary, window, role, risk, copies, prompt, cancelling, counters>>
      /\ job[p].at = "release" /\ job[p].todo = {} /\ row' = Written(p)
      /\ Becomes(p, "released", {}, NoOut)
  <2>1. "released" \in Ats /\ {} \in SUBSET Recipients
    BY DEF Ats
  <2> QED
    BY <2>1, JobIdle DEF IInv, release_remaining
<1>2. /\ row' \in [Recipients -> Statuses]
      /\ \A r \in Recipients : row'[r] = IF job[p].out[r] # "-" THEN job[p].out[r] ELSE row[r]
      /\ Sample' = Sample /\ PendingRows' \subseteq PendingRows /\ Held' \subseteq Held
      /\ \A r \in Recipients : row'[r] = "pending" => row[r] = "pending" /\ job[p].out[r] = "-"
      /\ \A r \in Recipients : job[p].out[r] \in Outs
      /\ \A r \in Recipients : row'[r] = "hard_bounce" => row[r] = "hard_bounce"
      /\ job'[p].at = "released" /\ job'[p].todo = {} /\ job'[p].out = NoOut
      /\ \A q \in Procs \ {p} : job'[q] = job[q]
      /\ canary \notin {"none", "pending"} /\ \A r \in Recipients : NoOut[r] = "-"
  <2>1. canary \notin {"none", "pending"}
    BY <1>1 DEF IInv, Phases, Procs, Scoring
  <2>2. \A r \in Recipients : NoOut[r] = "-"
    BY DEF NoOut
  <2> QED
    BY <1>1, <2>1, <2>2, WrittenFacts DEF Becomes
<1>3. Types'
  BY <1>1, <1>2 DEF IInv, Types, Becomes, counters
<1>4. Shape'
  <2>1. JobShape(job'[p]) /\ job'[p].at \notin Scoring
    BY <1>1, <1>2 DEF JobShape, Scoring
  <2> QED
    BY <1>2, <2>1, ShapeKept DEF IInv
<1>5. Phases'
  <2>1. CASE p = "scheduler"
    <3>1. job'["caller"] = job["caller"]
      BY <1>2, <2>1 DEF Procs
    <3> QED
      BY <1>1, <1>2, <2>1, <3>1 DEF IInv, Phases, Scoring, Deciding, Procs
  <2>2. CASE p = "caller"
    <3>1. job'["scheduler"] = job["scheduler"]
      BY <1>2, <2>2 DEF Procs
    <3> QED
      BY <1>1, <1>2, <2>2, <3>1 DEF IInv, Phases, Scoring, Deciding, Procs
  <2> QED
    BY <2>1, <2>2 DEF Procs
<1>6. Mailed'
  <2>1. CASE p = "scheduler"
    <3>1. job'["caller"] = job["caller"]
      BY <1>2, <2>1 DEF Procs
    <3> QED
      BY <1>1, <1>2, <2>1, <3>1 DEF IInv, Mailed, Procs, Outs, Outcomes
  <2>2. CASE p = "caller"
    <3>1. job'["scheduler"] = job["scheduler"]
      BY <1>2, <2>2 DEF Procs
    <3> QED
      BY <1>1, <1>2, <2>2, <3>1 DEF IInv, Mailed, Procs, Outs, Outcomes
  <2> QED
    BY <2>1, <2>2 DEF Procs
<1>7. Led'
  <2>1. CASE p = "scheduler"
    <3>1. job'["caller"] = job["caller"]
      BY <1>2, <2>1 DEF Procs
    <3> QED
      BY <1>1, <1>2, <2>1, <3>1 DEF IInv, Led, RestAfterSample, Procs
  <2>2. CASE p = "caller"
    <3>1. job'["scheduler"] = job["scheduler"]
      BY <1>2, <2>2 DEF Procs
    <3> QED
      BY <1>1, <1>2, <2>2, <3>1 DEF IInv, Led, RestAfterSample, Procs
  <2> QED
    BY <2>1, <2>2 DEF Procs
<1>8. Counted'
  <2>1. CASE p = "scheduler"
    <3>1. job'["caller"] = job["caller"]
      BY <1>2, <2>1 DEF Procs
    <3> QED
      BY <1>1, <1>2, CountedQuiet, <2>1, <3>1 DEF IInv, counters
  <2>2. CASE p = "caller"
    <3>1. job'["scheduler"] = job["scheduler"]
      BY <1>2, <2>2 DEF Procs
    <3> QED
      BY <1>1, <1>2, CountedQuiet, <2>2, <3>1 DEF IInv, counters
  <2> QED
    BY <2>1, <2>2 DEF Procs
<1>9. Faithful'
  <2>1. CASE p = "scheduler"
    <3>1. job'["caller"] = job["caller"]
      BY <1>2, <2>1 DEF Procs
    <3> QED
      BY <1>1, <1>2, <2>1, <3>1 DEF IInv, Faithful, Undisturbed, counters
  <2>2. CASE p = "caller"
    <3>1. job'["scheduler"] = job["scheduler"]
      BY <1>2, <2>2 DEF Procs
    <3> QED
      BY <1>1, <1>2, <2>2, <3>1 DEF IInv, Faithful, Undisturbed, counters
  <2> QED
    BY <2>1, <2>2 DEF Procs
<1>10. Spanned'
  <2>1. CASE p = "scheduler"
    <3>1. job'["caller"] = job["caller"]
      BY <1>2, <2>1 DEF Procs
    <3> QED
      BY <1>1, <1>2, <2>1, <3>1 DEF IInv, Phases, Spanned, Unscored, SpansHeld, Undisturbed, counters, Procs, Faithful
  <2>2. CASE p = "caller"
    <3>1. job'["scheduler"] = job["scheduler"]
      BY <1>2, <2>2 DEF Procs
    <3> QED
      BY <1>1, <1>2, <2>2, <3>1 DEF IInv, Phases, Spanned, Unscored, SpansHeld, Undisturbed, counters, Procs, Faithful
  <2> QED
    BY <2>1, <2>2 DEF Procs
<1>11. Cut' /\ RiskyHeld'
  <2>1. Undisturbed' => Undisturbed /\ p = "scheduler"
    BY <1>1 DEF IInv, Faithful, Undisturbed, counters, Procs
  <2>2. Cut'
    BY <1>1, <1>2, <2>1 DEF IInv, Cut
  <2>3. RiskyHeld'
    BY <1>1, <1>2, <2>1, SampleIn DEF IInv, RiskyHeld
  <2> QED
    BY <2>2, <2>3
<1> QED
  BY <1>3, <1>4, <1>5, <1>6, <1>7, <1>8, <1>9, <1>10, <1>11 DEF IInv

LEMMA BlockRemainingInv ==
    ASSUME IInv, NEW p \in Procs, _block_remaining(p)
    PROVE  IInv'
<1>1. /\ UNCHANGED <<canary, window, role, risk, copies, prompt, cancelling, counters>>
      /\ job[p].at = "block" /\ job[p].todo = {} /\ job[p].out = NoOut
      /\ row' = [r \in Recipients |-> IF r \in Held THEN "blocked" ELSE row[r]]
      /\ Becomes(p, "blocked", {}, NoOut)
  <2>1. "blocked" \in Ats
    BY DEF Ats
  <2>2. job[p].at = "block" /\ job[p].todo = {} /\ job[p].out = NoOut
    BY DEF IInv, Shape, JobShape, Procs, _block_remaining
  <2> QED
    BY <2>1, <2>2, JobAt DEF IInv, _block_remaining
<1>2. /\ row' \in [Recipients -> Statuses]
      /\ \A r \in Recipients : row'[r] = IF r \in Held THEN "blocked" ELSE row[r]
      /\ \A r \in Held : row[r] = "pending"
      /\ \A r \in Recipients : row'[r] = "hard_bounce" => row[r] = "hard_bounce"
      /\ Sample' = Sample /\ PendingRows' \subseteq PendingRows /\ Held' \subseteq Held
      /\ job'[p].at = "blocked" /\ job'[p].todo = {} /\ job'[p].out = NoOut
      /\ \A q \in Procs \ {p} : job'[q] = job[q]
      /\ canary \notin {"none", "pending"} /\ \A r \in Recipients : NoOut[r] = "-"
  <2>1. canary \notin {"none", "pending"}
    BY <1>1 DEF IInv, Phases, Procs, Scoring
  <2>2. \A r \in Recipients : NoOut[r] = "-"
    BY DEF NoOut
  <2>3. row' \in [Recipients -> Statuses]
    BY <1>1 DEF IInv, Types, Statuses
  <2>4. \A r \in Held : row[r] = "pending"
    BY DEF Held, PendingRows
  <2>5. PendingRows' \subseteq PendingRows /\ Sample' = Sample
    BY <1>1 DEF PendingRows, Sample
  <2>6. Held' \subseteq Held
    BY <2>5 DEF Held
  <2>7. \A r \in Recipients : row'[r] = "hard_bounce" => row[r] = "hard_bounce"
    BY <1>1
  <2> QED
    BY <1>1, <2>1, <2>2, <2>3, <2>4, <2>5, <2>6, <2>7 DEF Becomes
<1>3. Types'
  BY <1>1, <1>2 DEF IInv, Types, Becomes, counters
<1>4. Shape'
  <2>1. JobShape(job'[p]) /\ job'[p].at \notin Scoring
    BY <1>1, <1>2 DEF JobShape, Scoring
  <2> QED
    BY <1>2, <2>1, ShapeKept DEF IInv
<1>5. Phases'
  <2>1. CASE p = "scheduler"
    <3>1. job'["caller"] = job["caller"]
      BY <1>2, <2>1 DEF Procs
    <3> QED
      BY <1>1, <1>2, <2>1, <3>1 DEF IInv, Phases, Scoring, Deciding, Procs
  <2>2. CASE p = "caller"
    <3>1. job'["scheduler"] = job["scheduler"]
      BY <1>2, <2>2 DEF Procs
    <3> QED
      BY <1>1, <1>2, <2>2, <3>1 DEF IInv, Phases, Scoring, Deciding, Procs
  <2> QED
    BY <2>1, <2>2 DEF Procs
<1>6. Mailed'
  <2>1. CASE p = "scheduler"
    <3>1. job'["caller"] = job["caller"]
      BY <1>2, <2>1 DEF Procs
    <3> QED
      BY <1>1, <1>2, <2>1, <3>1 DEF IInv, Mailed, Procs, Outcomes
  <2>2. CASE p = "caller"
    <3>1. job'["scheduler"] = job["scheduler"]
      BY <1>2, <2>2 DEF Procs
    <3> QED
      BY <1>1, <1>2, <2>2, <3>1 DEF IInv, Mailed, Procs, Outcomes
  <2> QED
    BY <2>1, <2>2 DEF Procs
<1>7. Led'
  <2>1. CASE p = "scheduler"
    <3>1. job'["caller"] = job["caller"]
      BY <1>2, <2>1 DEF Procs
    <3> QED
      BY <1>1, <1>2, <2>1, <3>1 DEF IInv, Led, RestAfterSample, Procs
  <2>2. CASE p = "caller"
    <3>1. job'["scheduler"] = job["scheduler"]
      BY <1>2, <2>2 DEF Procs
    <3> QED
      BY <1>1, <1>2, <2>2, <3>1 DEF IInv, Led, RestAfterSample, Procs
  <2> QED
    BY <2>1, <2>2 DEF Procs
<1>8. Counted'
  <2>1. CASE p = "scheduler"
    <3>1. job'["caller"] = job["caller"]
      BY <1>2, <2>1 DEF Procs
    <3> QED
      BY <1>1, <1>2, CountedQuiet, <2>1, <3>1 DEF IInv, counters
  <2>2. CASE p = "caller"
    <3>1. job'["scheduler"] = job["scheduler"]
      BY <1>2, <2>2 DEF Procs
    <3> QED
      BY <1>1, <1>2, CountedQuiet, <2>2, <3>1 DEF IInv, counters
  <2> QED
    BY <2>1, <2>2 DEF Procs
<1>9. Faithful'
  <2>1. CASE p = "scheduler"
    <3>1. job'["caller"] = job["caller"]
      BY <1>2, <2>1 DEF Procs
    <3> QED
      BY <1>1, <1>2, <2>1, <3>1 DEF IInv, Faithful, Undisturbed, counters
  <2>2. CASE p = "caller"
    <3>1. job'["scheduler"] = job["scheduler"]
      BY <1>2, <2>2 DEF Procs
    <3> QED
      BY <1>1, <1>2, <2>2, <3>1 DEF IInv, Faithful, Undisturbed, counters
  <2> QED
    BY <2>1, <2>2 DEF Procs
<1>10. Spanned'
  <2>1. CASE p = "scheduler"
    <3>1. job'["caller"] = job["caller"]
      BY <1>2, <2>1 DEF Procs
    <3> QED
      BY <1>1, <1>2, <2>1, <3>1 DEF IInv, Phases, Spanned, Unscored, SpansHeld, Undisturbed, counters, Procs, Faithful
  <2>2. CASE p = "caller"
    <3>1. job'["scheduler"] = job["scheduler"]
      BY <1>2, <2>2 DEF Procs
    <3> QED
      BY <1>1, <1>2, <2>2, <3>1 DEF IInv, Phases, Spanned, Unscored, SpansHeld, Undisturbed, counters, Procs, Faithful
  <2> QED
    BY <2>1, <2>2 DEF Procs
<1>11. Cut' /\ RiskyHeld'
  <2>1. Undisturbed' => Undisturbed /\ p = "scheduler"
    BY <1>1 DEF IInv, Faithful, Undisturbed, counters, Procs
  <2>2. Cut'
    BY <1>1, <1>2, <2>1 DEF IInv, Cut
  <2>3. RiskyHeld'
    BY <1>1, <1>2, <2>1, SampleIn DEF IInv, RiskyHeld
  <2> QED
    BY <2>2, <2>3
<1> QED
  BY <1>3, <1>4, <1>5, <1>6, <1>7, <1>8, <1>9, <1>10, <1>11 DEF IInv

LEMMA DispatchSampleInv ==
    ASSUME IInv, dispatch_sample
    PROVE  IInv'
<1>1. /\ UNCHANGED <<role, risk, copies, prompt, cancelling, counters>>
      /\ job["scheduler"].at = "dispatch" /\ job["scheduler"].todo = {} /\ row' = Written("scheduler")
      /\ canary' = "probing" /\ window' = "open" /\ "scheduler" \in Procs
      /\ Becomes("scheduler", "idle", {}, NoOut)
  <2>1. "idle" \in Ats /\ {} \in SUBSET Recipients /\ "scheduler" \in Procs
    BY DEF Ats, Procs
  <2> QED
    BY <2>1, JobIdle DEF IInv, dispatch_sample
<1>2. /\ row' \in [Recipients -> Statuses]
      /\ \A r \in Recipients : row'[r] = IF job["scheduler"].out[r] # "-" THEN job["scheduler"].out[r] ELSE row[r]
      /\ Sample' = Sample /\ PendingRows' \subseteq PendingRows /\ Held' \subseteq Held
      /\ \A r \in Recipients : row'[r] = "pending" => row[r] = "pending" /\ job["scheduler"].out[r] = "-"
      /\ \A r \in Recipients : job["scheduler"].out[r] \in Outs
      /\ \A r \in Recipients : row'[r] = "hard_bounce" => row[r] = "hard_bounce"
      /\ job'["scheduler"].at = "idle" /\ job'["scheduler"].todo = {} /\ job'["scheduler"].out = NoOut
      /\ job'["caller"] = job["caller"]
      /\ canary # "none" /\ window = "unset" /\ \A r \in Recipients : NoOut[r] = "-"
  <2>1. canary # "none" /\ window = "unset"
    BY <1>1 DEF IInv, Phases, Scoring
  <2>2. \A r \in Recipients : NoOut[r] = "-"
    BY DEF NoOut
  <2> QED
    BY <1>1, <2>1, <2>2, WrittenFacts DEF Becomes, Procs
<1>3. Types'
  BY <1>1, <1>2 DEF IInv, Types, Becomes, counters
<1>4. Shape'
  <2>1. JobShape(job'["scheduler"])
    BY <1>2 DEF JobShape
  <2>2. JobShape(job["caller"]) /\ job["caller"].at \notin Scoring
    BY DEF IInv, Shape
  <2> QED
    BY <1>2, <2>1, <2>2 DEF Shape, JobShape
<1>5. Phases'
  BY <1>1, <1>2 DEF IInv, Phases, Procs, Scoring, Deciding
<1>6. Mailed'
  BY <1>1, <1>2 DEF IInv, Mailed, Procs, Outs, Outcomes
<1>7. Led'
  BY <1>1, <1>2 DEF IInv, Led, RestAfterSample, Procs
<1>8. Counted'
  BY <1>1, <1>2, CountedQuiet DEF IInv, counters
<1>9. Faithful'
  BY <1>1, <1>2 DEF IInv, Faithful, Undisturbed, counters
<1>10. Spanned'
  BY <1>1, <1>2 DEF IInv, Phases, Spanned, Unscored, SpansHeld, Undisturbed, counters
<1>11. Cut' /\ RiskyHeld'
  BY <1>1, <1>2 DEF IInv, Cut, RiskyHeld, Undisturbed, counters, Outs, Sample
<1> QED
  BY <1>3, <1>4, <1>5, <1>6, <1>7, <1>8, <1>9, <1>10, <1>11 DEF IInv

-----------------------------------------------------------------------------
(* The sample.                                                             *)

\* A sequence that lists |S| different elements of S lists them all.
LEMMA Onto ==
    ASSUME NEW S, IsFiniteSet(S), NEW q \in [1..Cardinality(S) -> S],
           \A i, j \in 1..Cardinality(S) : i < j => q[i] # q[j]
    PROVE  \A x \in S : \E i \in 1..Cardinality(S) : q[i] = x
<1> DEFINE n == Cardinality(S)
           T == {q[i] : i \in 1..n}
<1>1. n \in Nat
  BY FS_CardinalityType
<1>2. IsFiniteSet(1..n) /\ Cardinality(1..n) = n
  BY <1>1, FS_Interval
<1>3. q \in Bijection(1..n, T)
  <2>1. \A i, j \in 1..n : q[i] = q[j] => i = j
    BY <1>1
  <2> QED
    BY <2>1 DEF Bijection, Injection, Surjection, IsInjective
<1>4. IsFiniteSet(T) /\ Cardinality(T) = n
  BY <1>2, <1>3, FS_Bijection DEF ExistsBijection
<1>5. T \in SUBSET S
  OBVIOUS
<1>6. S = T
  BY <1>4, <1>5, FS_Subset
<1> QED
  BY <1>6

LEMMA MinPair ==
    ASSUME NEW a \in Nat, NEW b \in Nat
    PROVE  Min({a, b}) = IF a <= b THEN a ELSE b
<1>1. {a, b} \in SUBSET Nat /\ {a, b} # {}
  OBVIOUS
<1>2. Min({a, b}) \in {a, b} /\ \A y \in {a, b} : Min({a, b}) <= y
  BY <1>1, MinFacts
<1> QED
  BY <1>2

LEMMA MaxPair ==
    ASSUME NEW a \in Nat, NEW b \in Nat
    PROVE  Max({a, b}) = IF a >= b THEN a ELSE b
<1> DEFINE m == IF a >= b THEN a ELSE b
<1>1. m \in {a, b} /\ \A y \in {a, b} : m >= y
  OBVIOUS
<1>2. \A x \in {a, b} : (\A y \in {a, b} : x >= y) => x = m
  OBVIOUS
<1> HIDE DEF m
<1>3. Max({a, b}) = m
  BY <1>1, <1>2 DEF Max
<1> QED
  BY <1>3 DEF m

\* A multiple of b is not rounded.
LEMMA RoundExact ==
    ASSUME NEW e \in Nat, NEW b \in Nat \ {0}
    PROVE  RoundHalfEven(b * e, b) = e
<1>1. (b * e) \div b = e /\ (b * e) % b = 0
  OBVIOUS
<1> QED
  BY <1>1 DEF RoundHalfEven

\* choose_sample takes the riskiest and, from a sample of two, the safest.
LEMMA PickedFacts ==
    ASSUME NEW n \in Nat \ {0}, NEW size \in Nat \ {0}
    PROVE  1 \in Picked(n, size) /\ (size > 1 => n \in Picked(n, size))
<1> DEFINE k == Max({1, Min({size, n})})
           m == Min({i \in 0..n : Cardinality(Spread(n, k) \cup 1..i) >= k})
<1>1. Picked(n, size) = IF k >= n THEN 1..n ELSE Spread(n, k) \cup 1..m
  BY DEF Picked
<1>2. k \in Nat /\ k >= 1 /\ (size > 1 /\ n > 1 => k > 1)
  <2>1. Min({size, n}) = IF size <= n THEN size ELSE n
    BY MinPair
  <2>2. Min({size, n}) \in Nat
    BY <2>1
  <2>3. k = IF 1 >= Min({size, n}) THEN 1 ELSE Min({size, n})
    BY <2>2, MaxPair
  <2> HIDE DEF k
  <2> QED
    BY <2>1, <2>3
<1> HIDE DEF k, m
<1>3. CASE k >= n
  BY <1>1, <1>3
<1>4. CASE ~(k >= n)
  <2>1. 1 \in Picked(n, size)
    BY <1>1, <1>4 DEF Spread
  <2>2. ASSUME size > 1 PROVE n \in Picked(n, size)
    <3>1. k > 1 /\ k - 1 \in Nat \ {0} /\ n - 1 \in Nat
      BY <1>2, <1>4, <2>2
    <3>2. RoundHalfEven((k - 1) * (n - 1), k - 1) = n - 1
      BY <3>1, RoundExact
    <3>3. 1 + Min({n - 1, n - 1}) = n
      BY <3>1, MinPair
    <3>4. 1 + Min({RoundHalfEven((k - 1) * (n - 1), k - 1), n - 1}) = n
      BY <3>2, <3>3
    <3>5. k - 1 \in 1..(k - 1)
      <4> DEFINE d == k - 1
      <4>1. d \in Nat \ {0}
        BY <3>1
      <4> HIDE DEF d
      <4>2. d \in 1..d
        BY <4>1
      <4> QED
        BY <4>2 DEF d
    <3>6. n \in Spread(n, k)
      BY <3>4, <3>5 DEF Spread
    <3> QED
      BY <1>1, <1>4, <3>6
  <2> QED
    BY <2>1, <2>2
<1> QED
  BY <1>3, <1>4

\* The sample drawn from the living rows spans their scores.
Drawn(q, S) == {q[i] : i \in Picked(Cardinality(S), SampleSize) \cap 1..Cardinality(S)}
Spans(P, S, score) ==
    /\ P \subseteq S /\ (S # {} => P # {})
    /\ \A r \in S : /\ \E s \in P : score[s] >= score[r]
                    /\ SampleSize > 1 => \E s \in P : score[s] <= score[r]

LEMMA SampleOf ==
    ASSUME NEW D, NEW S \in SUBSET D, IsFiniteSet(S), NEW score \in [D -> Nat], NEW q \in Sorted(S, score)
    PROVE  Spans(Drawn(q, S), S, score)
<1> DEFINE n == Cardinality(S)
           P == Drawn(q, S)
<1>1. n \in Nat /\ (S # {} => n # 0)
  BY FS_CardinalityType, FS_EmptySet
<1>2. /\ q \in [1..n -> S]
      /\ \A i, j \in 1..n : i < j => q[i] # q[j] /\ score[q[i]] >= score[q[j]]
  BY DEF Sorted
<1>3. \A x \in S : \E i \in 1..n : q[i] = x
  <2>1. q \in [1..Cardinality(S) -> S] /\ \A i, j \in 1..Cardinality(S) : i < j => q[i] # q[j]
    BY <1>2
  <2> QED
    BY <2>1, Onto
<1>4. ASSUME S # {}
      PROVE  /\ 1 \in Picked(n, SampleSize) /\ (SampleSize > 1 => n \in Picked(n, SampleSize))
             /\ 1 \in 1..n /\ n \in 1..n
  BY <1>1, <1>4, PickedFacts, StagedSendAssumption
<1> HIDE DEF n, P
<1>5. P \subseteq S
  BY <1>2 DEF n, P, Drawn
<1>6. ASSUME S # {} PROVE q[1] \in P /\ (SampleSize > 1 => q[n] \in P)
  BY <1>4, <1>6 DEF n, P, Drawn
<1>7. ASSUME NEW r \in S
      PROVE  score[q[1]] >= score[r] /\ score[q[n]] <= score[r]
  <2>1. PICK i \in 1..n : q[i] = r
    BY <1>3, <1>7
  <2>2. /\ 1 \in 1..n /\ n \in 1..n /\ score[r] \in Nat
        /\ score[q[1]] \in Nat /\ score[q[n]] \in Nat
    BY <1>2, <1>4, <1>7
  <2>3. score[q[1]] >= score[r]
    <3>1. CASE i = 1
      BY <2>1, <2>2, <3>1
    <3>2. CASE i # 1
      <4>1. 1 < i
        BY <1>1, <3>2, <2>1
      <4> QED
        BY <1>2, <2>1, <2>2, <4>1
    <3> QED
      BY <3>1, <3>2
  <2>4. score[q[n]] <= score[r]
    <3>1. CASE i = n
      BY <2>1, <2>2, <3>1
    <3>2. CASE i # n
      <4>1. i < n
        BY <1>1, <3>2, <2>1
      <4>2. score[q[i]] >= score[q[n]]
        BY <1>2, <2>1, <2>2, <4>1
      <4> QED
        BY <2>1, <2>2, <4>2
    <3> QED
      BY <3>1, <3>2
  <2> QED
    BY <2>3, <2>4
<1> QED
  BY <1>5, <1>6, <1>7 DEF Spans, P

\* What one scoring writes.
Scored(dead, score, sample) ==
    LET rows == job["scheduler"].todo
        live == rows \ dead
    IN /\ Spans(sample, live, score)
       /\ risk' = [r \in Recipients |-> IF r \in rows THEN score[r] ELSE risk[r]]
       /\ row' = [r \in Recipients |-> IF r \in dead THEN "skipped" ELSE row[r]]
       /\ role' = [r \in Recipients |-> IF r \in sample THEN "sample" ELSE role[r]]
       /\ canary' = IF live = {} THEN "blocked" ELSE canary
       /\ IF live = {} THEN Becomes("scheduler", "idle", {}, NoOut)
                       ELSE Becomes("scheduler", "select sample", {}, NoOut)

LEMMA ScoreChoice ==
    ASSUME IInv, score_and_assign_sample
    PROVE  \E dead \in SUBSET job["scheduler"].todo, score \in [job["scheduler"].todo -> Risks],
              sample \in SUBSET Recipients : Scored(dead, score, sample)
<1> DEFINE rows == job["scheduler"].todo
<1>1. rows \in SUBSET Recipients /\ Types
  BY DEF IInv, Types, Procs, Job
<1>2. PICK dead \in SUBSET rows, score \in [rows -> Risks] :
        LET live == rows \ dead IN
        \E q \in Sorted(live, score) :
          LET sample == {q[i] : i \in Picked(Cardinality(live), SampleSize) \cap 1..Cardinality(live)} IN
          /\ risk' = [r \in Recipients |-> IF r \in rows THEN score[r] ELSE risk[r]]
          /\ row' = [r \in Recipients |-> IF r \in dead THEN "skipped" ELSE row[r]]
          /\ role' = [r \in Recipients |-> IF r \in sample THEN "sample" ELSE role[r]]
          /\ canary' = IF live = {} THEN "blocked" ELSE canary
          /\ job' = [job EXCEPT !["scheduler"] =
                        IF live = {} THEN Idle ELSE [Idle EXCEPT !.at = "select sample"]]
  BY DEF score_and_assign_sample
<1> DEFINE live == rows \ dead
<1>3. PICK q \in Sorted(live, score) :
          LET sample == {q[i] : i \in Picked(Cardinality(live), SampleSize) \cap 1..Cardinality(live)} IN
          /\ risk' = [r \in Recipients |-> IF r \in rows THEN score[r] ELSE risk[r]]
          /\ row' = [r \in Recipients |-> IF r \in dead THEN "skipped" ELSE row[r]]
          /\ role' = [r \in Recipients |-> IF r \in sample THEN "sample" ELSE role[r]]
          /\ canary' = IF live = {} THEN "blocked" ELSE canary
          /\ job' = [job EXCEPT !["scheduler"] =
                        IF live = {} THEN Idle ELSE [Idle EXCEPT !.at = "select sample"]]
  BY <1>2
<1> DEFINE sample == Drawn(q, live)
<1>4. live \in SUBSET rows /\ IsFiniteSet(live) /\ score \in [rows -> Nat]
  BY <1>1, StagedSendAssumption, FS_Subset, RisksPositive
<1>5. Spans(sample, live, score)
  BY <1>4, SampleOf
<1>6. IF live = {} THEN Becomes("scheduler", "idle", {}, NoOut)
                   ELSE Becomes("scheduler", "select sample", {}, NoOut)
  <2>1. "scheduler" \in Procs /\ "idle" \in Ats /\ "select sample" \in Ats /\ {} \in SUBSET Recipients
    BY DEF Procs, Ats
  <2>2. job' = [job EXCEPT !["scheduler"] =
                        IF live = {} THEN Idle ELSE [Idle EXCEPT !.at = "select sample"]]
    BY <1>3
  <2> HIDE DEF live
  <2>3. CASE live = {}
    <3>1. job' = [job EXCEPT !["scheduler"] = Idle]
      BY <2>2, <2>3
    <3> QED
      BY <1>1, <2>1, <2>3, <3>1, JobIdle
  <2>4. CASE live # {}
    <3>1. job' = [job EXCEPT !["scheduler"] = [Idle EXCEPT !.at = "select sample"]]
      BY <2>2, <2>4
    <3> QED
      BY <1>1, <2>1, <2>4, <3>1, JobIdle
  <2> QED
    BY <2>3, <2>4
<1>7. /\ risk' = [r \in Recipients |-> IF r \in rows THEN score[r] ELSE risk[r]]
      /\ row' = [r \in Recipients |-> IF r \in dead THEN "skipped" ELSE row[r]]
      /\ role' = [r \in Recipients |-> IF r \in sample THEN "sample" ELSE role[r]]
      /\ canary' = IF live = {} THEN "blocked" ELSE canary
  BY <1>3 DEF Drawn
<1>8. sample \in SUBSET Recipients
  BY <1>1, <1>5 DEF Spans
<1> HIDE DEF sample
<1>9. Scored(dead, score, sample)
  BY <1>5, <1>6, <1>7 DEF Scored
<1> QED
  BY <1>8, <1>9

LEMMA ScoreInv ==
    ASSUME IInv, score_and_assign_sample
    PROVE  IInv'
<1> DEFINE rows == job["scheduler"].todo
<1>1. PICK dead \in SUBSET rows, score \in [rows -> Risks], sample \in SUBSET Recipients :
        Scored(dead, score, sample)
  BY ScoreChoice
<1> DEFINE live == rows \ dead
<1>2. /\ UNCHANGED <<window, cancelling, copies, prompt, interruptions, raises, decides, cancels>>
      /\ job["scheduler"].at = "score"
  BY DEF score_and_assign_sample, counters
<1>3. /\ rows \in SUBSET Recipients /\ job \in [Procs -> Job] /\ job["scheduler"].out = NoOut
      /\ \A r \in Recipients : NoOut[r] = "-"
      /\ job["caller"].at = "idle" \/ canary # "pending"
      /\ canary = "pending" => rows \subseteq PendingRows
      /\ window = "unset" /\ canary # "none" /\ canary # "probing"
  BY <1>2 DEF IInv, Types, Procs, Job, Shape, JobShape, NoOut, Phases, Scoring
<1>4. /\ job'["caller"] = job["caller"] /\ job' \in [Procs -> Job]
      /\ job'["scheduler"].todo = {} /\ job'["scheduler"].out = NoOut
      /\ \/ live = {} /\ job'["scheduler"].at = "idle" /\ canary' = "blocked"
         \/ live # {} /\ job'["scheduler"].at = "select sample" /\ canary' = canary
  BY <1>1 DEF Scored, Becomes, Procs
<1>5. /\ sample \subseteq live /\ (live # {} => sample # {})
      /\ \A r \in live : /\ \E s \in sample : score[s] >= score[r]
                         /\ SampleSize > 1 => \E s \in sample : score[s] <= score[r]
  BY <1>1 DEF Scored, Spans
<1>6. /\ risk' = [r \in Recipients |-> IF r \in rows THEN score[r] ELSE risk[r]]
      /\ row' = [r \in Recipients |-> IF r \in dead THEN "skipped" ELSE row[r]]
      /\ role' = [r \in Recipients |-> IF r \in sample THEN "sample" ELSE role[r]]
  BY <1>1 DEF Scored
<1>7. PendingRows' = PendingRows \ dead /\ Sample' = Sample \cup sample
  BY <1>3, <1>6 DEF PendingRows, Sample
<1>8. Types'
  <2>1. "skipped" \in Statuses
    BY DEF Statuses
  <2>2. row' \in [Recipients -> Statuses] /\ role' \in [Recipients -> {"held", "sample"}]
    BY <1>6, <2>1 DEF IInv, Types
  <2>3. risk' \in [Recipients -> Risks \cup {NoRisk}]
    BY <1>6 DEF IInv, Types
  <2> QED
    BY <1>2, <1>4, <2>2, <2>3 DEF IInv, Types
<1>9. Shape'
  BY <1>3, <1>4 DEF IInv, Shape, JobShape, Scoring
<1>10. Phases'
  <2>1. live # {} /\ canary = "pending" => PendingRows' # {}
    BY <1>3, <1>7
  <2> HIDE DEF live, rows
  <2> QED
    BY <1>2, <1>3, <1>4, <2>1 DEF IInv, Phases, Procs, Scoring, Deciding
<1>11. Mailed'
  <2> SUFFICES ASSUME NEW r \in Recipients
               PROVE  /\ row'[r] \in {"sent", "released"} \cup Outcomes => copies'[r] > 0
                      /\ \A p \in Procs : job'[p].out[r] \in {"sent", "released"} => copies'[r] > 0
                      /\ role'[r] = "sample" => risk'[r] \in Risks
    BY DEF Mailed
  <2>1. row'[r] \in {"sent", "released"} \cup Outcomes => copies'[r] > 0
    BY <1>2, <1>6 DEF IInv, Mailed, Outcomes
  <2>2. \A p \in Procs : job'[p].out[r] \in {"sent", "released"} => copies'[r] > 0
    BY <1>2, <1>3, <1>4 DEF IInv, Mailed, Procs
  <2>3. role'[r] = "sample" => risk'[r] \in Risks
    BY <1>5, <1>6 DEF IInv, Mailed
  <2> QED
    BY <2>1, <2>2, <2>3
<1>12. Led'
  <2> HIDE DEF live, rows
  <2>1. RestAfterSample'
    BY <1>2, <1>7 DEF IInv, Led, RestAfterSample
  <2>2. \A p \in Procs : job'[p].at \in {"select held", "release"} => \E s \in Sample' : copies'[s] > 0
    BY <1>2, <1>4, <1>7 DEF IInv, Led, Procs
  <2> QED
    BY <1>4, <2>1, <2>2 DEF Led
<1>13. Counted'
  <2>1. \A r \in Recipients : row'[r] = "pending" => row[r] = "pending"
    BY <1>6
  <2> QED
    BY <1>2, <1>3, <1>4, <2>1, CountedQuiet DEF IInv
<1>14. Faithful'
  <2>1. \A r \in Recipients : row'[r] \in {"pending", "blocked"} => row[r] = row'[r]
    BY <1>6
  <2> HIDE DEF live, rows
  <2> QED
    BY <1>2, <1>3, <1>4, <2>1 DEF IInv, Faithful, Undisturbed
<1>15. Spanned'
  <2> SUFFICES ASSUME Undisturbed'
               PROVE  /\ Unscored' => Sample' = {}
                      /\ ~Unscored' => SpansHeld'
                      /\ job'["scheduler"].at = "score" => PendingRows' \subseteq job'["scheduler"].todo
                      /\ canary' = "pending" /\ job'["scheduler"].at = "select sample" =>
                            PendingRows' \cap Sample' # {}
    BY DEF Spanned
  <2>1. PendingRows \subseteq rows
    BY <1>2 DEF IInv, Spanned, Undisturbed
  <2>2. SpansHeld'
    <3> SUFFICES ASSUME NEW r \in Held'
                 PROVE  /\ \E s \in Sample' : risk'[s] >= risk'[r]
                        /\ SampleSize > 1 => \E s \in Sample' : risk'[s] <= risk'[r]
      BY DEF SpansHeld
    <3>1. r \in live /\ r \in Recipients
      BY <1>7, <2>1, <1>3 DEF Held
    <3>2. \A s \in live : risk'[s] = score[s]
      BY <1>3, <1>6
    <3> HIDE DEF live, rows
    <3> QED
      BY <1>5, <1>7, <3>1, <3>2
  <2>3. ~Unscored'
    BY <1>3, <1>4 DEF Unscored
  <2>4. canary' = "pending" /\ job'["scheduler"].at = "select sample" => PendingRows' \cap Sample' # {}
    BY <1>3, <1>4, <1>5, <1>7
  <2> QED
    BY <1>4, <2>2, <2>3, <2>4
<1>16. Cut' /\ RiskyHeld'
  <2> SUFFICES ASSUME Undisturbed' PROVE Cut' /\ RiskyHeld'
    BY DEF Cut, RiskyHeld
  <2>1. Sample = {}
    BY <1>2 DEF IInv, Spanned, Undisturbed, Unscored
  <2>2. \A r \in Recipients : ~(copies'[r] > 0)
    BY <1>2, <2>1 DEF IInv, Led, RestAfterSample
  <2> HIDE DEF live, rows
  <2> QED
    BY <1>4, <2>2 DEF Cut, RiskyHeld
<1> QED
  BY <1>8, <1>9, <1>10, <1>11, <1>12, <1>13, <1>14, <1>15, <1>16 DEF IInv

-----------------------------------------------------------------------------
(* Requests, bounces, the clock and the process.                           *)

LEMMA CreateInv ==
    ASSUME IInv, create_canary
    PROVE  IInv'
<1>1. /\ UNCHANGED <<window, role, risk, job, cancelling, copies, prompt, interruptions, raises, decides, cancels>>
      /\ canary = "none" /\ row' \in [Recipients -> {"skipped", "pending"}]
      /\ \/ canary' = "pending" /\ PendingRows' # {}
         \/ canary' = "blocked" /\ PendingRows' = {}
  <2>1. PICK suppressed \in SUBSET Domains :
          /\ canary' = IF UNION suppressed # Recipients THEN "pending" ELSE "blocked"
          /\ row' = [r \in Recipients |-> IF r \in UNION suppressed THEN "skipped" ELSE "pending"]
    BY DEF create_canary
  <2> DEFINE S == UNION suppressed
  <2>0. S \in SUBSET Recipients
    BY StagedSendAssumption
  <2> HIDE DEF S
  <2>2. PendingRows' = Recipients \ S
    BY <2>1 DEF PendingRows, S
  <2> QED
    BY <2>0, <2>1, <2>2 DEF create_canary, counters, S
<1>2. /\ Sample' = Sample /\ job["scheduler"].at = "idle" /\ job["caller"].at = "idle"
      /\ \A p \in Procs : job[p].todo = {} /\ job[p].out = NoOut
      /\ \A r \in Recipients : NoOut[r] = "-" /\ copies[r] = 0
      /\ ~cancelling /\ window = "unset" /\ interruptions \in Nat /\ decides \in Nat
  BY <1>1 DEF IInv, Types, Phases, Shape, JobShape, Procs, Sample, NoOut
<1>3. Types'
  <2>1. {"skipped", "pending"} \subseteq Statuses
    BY DEF Statuses
  <2>2. row' \in [Recipients -> Statuses]
    BY <1>1, <2>1
  <2> QED
    BY <1>1, <2>2 DEF IInv, Types
<1>4. Shape'
  BY <1>1 DEF IInv, Shape
<1>5. Phases'
  BY <1>1, <1>2 DEF Phases, Procs, Scoring, Deciding
<1>6. Mailed'
  BY <1>1, <1>2 DEF IInv, Mailed, Procs, Outcomes
<1>7. Led'
  <2>1. \A r \in Recipients : ~(copies'[r] > 0)
    BY <1>1, <1>2
  <2> QED
    BY <1>1, <1>2, <2>1 DEF Led, RestAfterSample, Procs
<1>8. Counted'
  BY <1>1, <1>2 DEF Counted, SchedulerOwes, CallerOwes
<1>9. Faithful'
  BY <1>1, <1>2 DEF Faithful, Procs
<1>10. Spanned'
  <2>1. Held' = PendingRows' \ Sample'
    BY DEF Held
  <2>2. Undisturbed' => Sample = {}
    BY <1>1 DEF IInv, Spanned, Undisturbed, Unscored
  <2> QED
    BY <1>1, <1>2, <2>1, <2>2 DEF Spanned, Unscored, SpansHeld
<1>11. Cut' /\ RiskyHeld'
  BY <1>1, <1>2 DEF Cut, RiskyHeld
<1> QED
  BY <1>3, <1>4, <1>5, <1>6, <1>7, <1>8, <1>9, <1>10, <1>11 DEF IInv

LEMMA LoadForCancelInv ==
    ASSUME IInv, LoadForCancel
    PROVE  IInv'
<1>1. /\ UNCHANGED <<canary, window, row, role, risk, job, copies, prompt, interruptions, raises, decides>>
      /\ canary # "none" /\ cancelling' = TRUE /\ cancels' = cancels + 1
  BY DEF LoadForCancel, db
<1>2. PendingRows' = PendingRows /\ Sample' = Sample /\ Held' = Held
  BY <1>1, SameRows
<1>3. Types'
  BY <1>1 DEF IInv, Types
<1>4. Shape'
  BY <1>1 DEF IInv, Shape
<1>5. Phases'
  BY <1>1, <1>2 DEF IInv, Phases
<1>6. Mailed'
  BY <1>1 DEF IInv, Mailed
<1>7. Led'
  BY <1>1, <1>2 DEF IInv, Led, RestAfterSample
<1>8. Counted'
  BY <1>1 DEF IInv, Counted, SchedulerOwes, CallerOwes
<1>9. Faithful'
  BY <1>1 DEF IInv, Faithful, Undisturbed
<1>10. Spanned'
  BY <1>1, <1>2 DEF IInv, Spanned, Undisturbed, Unscored, SpansHeld
<1>11. Cut' /\ RiskyHeld'
  BY <1>1, <1>2 DEF IInv, Cut, RiskyHeld, Undisturbed
<1> QED
  BY <1>3, <1>4, <1>5, <1>6, <1>7, <1>8, <1>9, <1>10, <1>11 DEF IInv

LEMMA CancelInv ==
    ASSUME IInv, cancel_send_canary
    PROVE  IInv'
<1>1. /\ UNCHANGED <<window, role, risk, job, copies, prompt, interruptions, raises, decides, cancels>>
      /\ canary' = "cancelled" /\ cancelling' = FALSE
      /\ row' = [r \in Recipients |-> IF r \in PendingRows THEN "blocked" ELSE row[r]]
  BY DEF cancel_send_canary, counters
<1>2. /\ PendingRows' = {} /\ Held' = {} /\ Sample' = Sample
      /\ \A r \in Recipients : /\ row[r] = "pending" => row'[r] = "blocked"
                               /\ row[r] # "pending" => row'[r] = row[r]
  <2>1. \A r \in Recipients : /\ row[r] = "pending" => row'[r] = "blocked"
                              /\ row[r] # "pending" => row'[r] = row[r]
    BY <1>1 DEF PendingRows
  <2>2. PendingRows' = {} /\ Sample' = Sample
    BY <1>1, <2>1 DEF PendingRows, Sample
  <2> QED
    BY <2>1, <2>2 DEF Held
<1>3. Types'
  <2>1. row' \in [Recipients -> Statuses]
    BY <1>1 DEF IInv, Types, Statuses
  <2> QED
    BY <1>1, <2>1 DEF IInv, Types
<1>4. Shape'
  BY <1>1 DEF IInv, Shape
<1>5. Phases'
  BY <1>1, <1>2 DEF IInv, Phases
<1>6. Mailed'
  BY <1>1, <1>2 DEF IInv, Mailed, Outcomes
<1>7. Led'
  BY <1>1, <1>2 DEF IInv, Led, RestAfterSample
<1>8. Counted'
  BY <1>1, <1>2, CountedQuiet DEF IInv
<1>9. Faithful'
  BY <1>1, <1>2 DEF IInv, Faithful, Undisturbed
<1>10. Spanned'
  BY <1>1, <1>2 DEF IInv, Spanned, Undisturbed, Unscored, SpansHeld
<1>11. Cut' /\ RiskyHeld'
  <2>1. \A s \in Sample : row'[s] = "hard_bounce" => row[s] = "hard_bounce"
    BY <1>2, SampleIn
  <2> QED
    BY <1>1, <1>2, <2>1 DEF IInv, Cut, RiskyHeld, Undisturbed
<1> QED
  BY <1>3, <1>4, <1>5, <1>6, <1>7, <1>8, <1>9, <1>10, <1>11 DEF IInv

LEMMA BounceInv ==
    ASSUME IInv, NEW r \in Recipients, NEW o \in Outcomes, apply_bounce(r, o)
    PROVE  IInv'
<1>1. /\ UNCHANGED <<canary, window, role, risk, job, cancelling, copies, interruptions, raises, decides, cancels>>
      /\ prompt' = [prompt EXCEPT ![r] = /\ o = "hard_bounce" /\ window # "elapsed"
                                          /\ \A p \in Procs : job[p].at \in {"idle", "dispatch"}]
      /\ row[r] = "sent" /\ row' = [row EXCEPT ![r] = o]
  BY DEF apply_bounce, counters
<1>2. /\ PendingRows' = PendingRows /\ Held' = Held /\ Sample' = Sample
      /\ row \in [Recipients -> Statuses] /\ prompt \in [Recipients -> BOOLEAN]
      /\ \A t \in Recipients : /\ t # r => row'[t] = row[t] /\ prompt'[t] = prompt[t]
                               /\ row[t] # "sent" => row'[t] = row[t]
                               /\ row[t] = "sent" => row'[t] \in Outcomes \cup {"sent"}
      /\ window = "elapsed" => prompt'[r] = FALSE
  <2>1. row \in [Recipients -> Statuses] /\ prompt \in [Recipients -> BOOLEAN]
    BY DEF IInv, Types
  <2>2. \A t \in Recipients : /\ t # r => row'[t] = row[t] /\ prompt'[t] = prompt[t]
                              /\ row[t] # "sent" => row'[t] = row[t]
                              /\ row[t] = "sent" => row'[t] \in Outcomes \cup {"sent"}
    BY <1>1, <2>1
  <2>3. window = "elapsed" => prompt'[r] = FALSE
    BY <1>1, <2>1
  <2>4. PendingRows' = PendingRows /\ Sample' = Sample
    BY <1>1, <2>2 DEF PendingRows, Sample, Outcomes
  <2> QED
    BY <2>1, <2>2, <2>3, <2>4 DEF Held
<1>3. Types'
  <2>1. row' \in [Recipients -> Statuses]
    BY <1>1, <1>2 DEF IInv, Types, Statuses
  <2>2. prompt' \in [Recipients -> BOOLEAN]
    <3>1. (o = "hard_bounce" /\ window # "elapsed" /\ \A p \in Procs : job[p].at \in {"idle", "dispatch"}) \in BOOLEAN
      OBVIOUS
    <3> QED
      BY <1>1, <1>2, <3>1
  <2> QED
    BY <1>1, <2>1, <2>2 DEF IInv, Types
<1>4. Shape'
  BY <1>1 DEF IInv, Shape
<1>5. Phases'
  BY <1>1, <1>2 DEF IInv, Phases
<1>6. Mailed'
  <2>1. \A t \in Recipients : row'[t] \in {"sent", "released"} \cup Outcomes => copies[t] > 0
    BY <1>1, <1>2 DEF IInv, Mailed, Outcomes
  <2> QED
    BY <1>1, <2>1 DEF IInv, Mailed
<1>7. Led'
  BY <1>1, <1>2 DEF IInv, Led, RestAfterSample
<1>8. Counted'
  <2>1. \A t \in Recipients : row'[t] = "pending" => row[t] = "pending"
    BY <1>2 DEF Outcomes
  <2> QED
    BY <1>1, <2>1, CountedQuiet DEF IInv
<1>9. Faithful'
  <2>1. \A t \in Recipients : row'[t] \in {"pending", "blocked"} <=> row[t] \in {"pending", "blocked"}
    BY <1>2 DEF Outcomes
  <2> QED
    BY <1>1, <2>1 DEF IInv, Faithful, Undisturbed
<1>10. Spanned'
  BY <1>1, <1>2 DEF IInv, Spanned, Undisturbed, Unscored, SpansHeld
<1>11. Cut' /\ RiskyHeld'
  <2> SUFFICES ASSUME Undisturbed' PROVE Cut' /\ RiskyHeld'
    BY DEF Cut, RiskyHeld
  <2>1. \A s \in Sample : window = "elapsed" /\ row'[s] = "hard_bounce" /\ prompt'[s] =>
           row[s] = "hard_bounce" /\ prompt[s]
    BY <1>2, SampleIn
  <2>2. job["scheduler"].at \in {"select held", "release"} => window = "elapsed"
    BY DEF IInv, Phases, Deciding
  <2>3. (\E t \in Recipients \ Sample : copies[t] > 0) => window = "elapsed"
    BY <1>1 DEF IInv, Cut, Undisturbed
  <2>4. Cut'
    BY <1>1, <1>2, <2>1, <2>2, <2>3 DEF IInv, Cut, Undisturbed
  <2>5. RiskyHeld'
    BY <1>1, <1>2, <2>1, <2>3 DEF IInv, RiskyHeld, Undisturbed
  <2> QED
    BY <2>4, <2>5
<1> QED
  BY <1>3, <1>4, <1>5, <1>6, <1>7, <1>8, <1>9, <1>10, <1>11 DEF IInv

LEMMA ElapseInv ==
    ASSUME IInv, Elapse
    PROVE  IInv'
<1>1. /\ UNCHANGED <<canary, row, role, risk, job, cancelling, copies, prompt, interruptions, raises, decides, cancels>>
      /\ window = "open" /\ window' = "elapsed"
  BY DEF Elapse, counters
<1>2. PendingRows' = PendingRows /\ Sample' = Sample /\ Held' = Held
  BY <1>1, SameRows
<1>3. Types'
  BY <1>1 DEF IInv, Types
<1>4. Shape'
  BY <1>1 DEF IInv, Shape
<1>5. Phases'
  BY <1>1, <1>2 DEF IInv, Phases
<1>6. Mailed'
  BY <1>1 DEF IInv, Mailed
<1>7. Led'
  BY <1>1, <1>2 DEF IInv, Led, RestAfterSample
<1>8. Counted'
  BY <1>1 DEF IInv, Counted, SchedulerOwes, CallerOwes
<1>9. Faithful'
  BY <1>1 DEF IInv, Faithful, Undisturbed
<1>10. Spanned'
  BY <1>1, <1>2 DEF IInv, Spanned, Undisturbed, Unscored, SpansHeld
<1>11. Cut' /\ RiskyHeld'
  BY <1>1, <1>2 DEF IInv, Cut, RiskyHeld, Undisturbed
<1> QED
  BY <1>3, <1>4, <1>5, <1>6, <1>7, <1>8, <1>9, <1>10, <1>11 DEF IInv

LEMMA CrashInv ==
    ASSUME IInv, ProcessDies
    PROVE  IInv'
<1>1. /\ UNCHANGED <<canary, window, row, role, risk, copies, prompt, raises, decides, cancels>>
      /\ interruptions' = interruptions + 1 /\ cancelling' = FALSE
      /\ interruptions \in Nat /\ decides \in Nat /\ copies \in [Recipients -> Nat]
      /\ job' = [p \in Procs |-> Idle]
  BY DEF ProcessDies, db, IInv, Types
<1>2. /\ PendingRows' = PendingRows /\ Sample' = Sample /\ Held' = Held
      /\ job' \in [Procs -> Job] /\ \A r \in Recipients : NoOut[r] = "-"
      /\ \A p \in Procs : job'[p].at = "idle" /\ job'[p].todo = {} /\ job'[p].out = NoOut
      /\ ~Undisturbed'
  <2>1. ~Undisturbed'
    BY <1>1 DEF Undisturbed
  <2>2. job' \in [Procs -> Job] /\ \A p \in Procs : job'[p] = Idle
    BY <1>1, IdleFacts
  <2> QED
    BY <1>1, <2>1, <2>2, SameRows, IdleFacts DEF NoOut
<1>3. Types'
  <2>1. interruptions' \in Nat
    BY <1>1
  <2>2. cancelling' \in BOOLEAN
    BY <1>1, Zenon
  <2> QED
    BY <1>1, <1>2, <2>1, <2>2 DEF IInv, Types
<1>4. Shape'
  BY <1>2 DEF Shape, JobShape, Procs, Scoring
<1>5. Phases'
  BY <1>1, <1>2 DEF IInv, Phases, Procs, Scoring, Deciding
<1>6. Mailed'
  BY <1>1, <1>2 DEF IInv, Mailed
<1>7. Led'
  BY <1>1, <1>2 DEF IInv, Led, RestAfterSample, Procs
<1>8. Counted'
  <2>1. \A r \in Recipients : copies[r] <= 1 + interruptions + decides
    BY DEF IInv, Counted
  <2>2. \A r \in Recipients : copies'[r] <= interruptions' + decides'
    BY <1>1, <2>1
  <2>3. \A r \in Recipients : ~CallerOwes(r)'
    BY <1>2 DEF CallerOwes, Procs
  <2> QED
    BY <1>1, <2>2, <2>3 DEF Counted
<1>9. Faithful'
  BY <1>2 DEF Faithful
<1>10. Spanned'
  BY <1>2 DEF Spanned
<1>11. Cut' /\ RiskyHeld'
  BY <1>2 DEF Cut, RiskyHeld
<1> QED
  BY <1>3, <1>4, <1>5, <1>6, <1>7, <1>8, <1>9, <1>10, <1>11 DEF IInv

LEMMA CommitFailsInv ==
    ASSUME IInv, NEW p \in Procs, CommitFails(p)
    PROVE  IInv'
<1>1. /\ Offline /\ UNCHANGED <<cancelling, raises, decides, cancels>> /\ interruptions' = interruptions + 1
      /\ Becomes(p, "idle", {}, NoOut)
      /\ interruptions \in Nat /\ decides \in Nat /\ copies \in [Recipients -> Nat]
  <2>1. "idle" \in Ats /\ {} \in SUBSET Recipients
    BY DEF Ats
  <2>2. /\ Offline /\ UNCHANGED <<cancelling, raises, decides, cancels>> /\ interruptions' = interruptions + 1
        /\ job' = [job EXCEPT ![p] = Idle] /\ Types
    BY DEF IInv, CommitFails, Offline, db
  <2> QED
    BY <2>1, <2>2, JobIdle DEF Types
<1>2. /\ PendingRows' = PendingRows /\ Sample' = Sample /\ Held' = Held
      /\ job' \in [Procs -> Job] /\ \A r \in Recipients : NoOut[r] = "-"
      /\ job'[p].at = "idle" /\ job'[p].todo = {} /\ job'[p].out = NoOut
      /\ \A q \in Procs \ {p} : job'[q] = job[q]
      /\ ~Undisturbed'
  <2>1. ~Undisturbed'
    BY <1>1 DEF Undisturbed
  <2> QED
    BY <1>1, <2>1, SameRows DEF Offline, Becomes, NoOut
<1>3. Types'
  <2>1. interruptions' \in Nat
    BY <1>1
  <2> QED
    BY <1>1, <1>2, <2>1 DEF IInv, Types, Offline
<1>4. Shape'
  BY <1>2, ShapeKept DEF IInv, JobShape, Scoring
<1>5. Phases'
  BY <1>1, <1>2 DEF IInv, Phases, Procs, Scoring, Deciding, Offline
<1>6. Mailed'
  BY <1>1, <1>2 DEF IInv, Mailed, Offline
<1>7. Led'
  BY <1>1, <1>2 DEF IInv, Led, RestAfterSample, Procs, Offline
<1>8. Counted'
  <2> SUFFICES ASSUME NEW r \in Recipients
               PROVE  /\ copies[r] <= 1 + interruptions' + decides
                      /\ SchedulerOwes(r)' \/ CallerOwes(r)' => copies[r] <= interruptions' + decides
                      /\ SchedulerOwes(r)' /\ CallerOwes(r)' => copies[r] + 1 <= interruptions' + decides
    BY <1>1 DEF Counted, Offline
  <2>1. copies[r] \in Nat /\ copies[r] <= 1 + interruptions + decides
        /\ (CallerOwes(r) => copies[r] <= interruptions + decides)
    BY <1>1 DEF IInv, Counted
  <2>2. CallerOwes(r)' => CallerOwes(r)
    BY <1>2 DEF CallerOwes, Procs
  <2> QED
    BY <1>1, <2>1, <2>2
<1>9. Faithful'
  BY <1>2 DEF Faithful
<1>10. Spanned'
  BY <1>2 DEF Spanned
<1>11. Cut' /\ RiskyHeld'
  BY <1>2 DEF Cut, RiskyHeld
<1> QED
  BY <1>3, <1>4, <1>5, <1>6, <1>7, <1>8, <1>9, <1>10, <1>11 DEF IInv

-----------------------------------------------------------------------------
(* The invariant holds, and with it what the runs check.                   *)

LEMMA InitInv == StagedInit => IInv
<1> SUFFICES ASSUME StagedInit PROVE IInv
  OBVIOUS
<1>1. /\ canary = "none" /\ window = "unset" /\ ~cancelling
      /\ interruptions = 0 /\ raises = 0 /\ decides = 0 /\ cancels = 0
      /\ \A r \in Recipients : row[r] = "-" /\ role[r] = "held" /\ copies[r] = 0 /\ NoOut[r] = "-"
      /\ job \in [Procs -> Job]
      /\ \A p \in Procs : job[p].at = "idle" /\ job[p].todo = {} /\ job[p].out = NoOut
  <2>1. job \in [Procs -> Job] /\ \A p \in Procs : job[p] = Idle
    BY IdleFacts DEF StagedInit
  <2> QED
    BY <2>1, IdleFacts DEF StagedInit, NoOut
<1>2. Sample = {}
  BY <1>1 DEF Sample
<1>3. Types
  <2>1. row \in [Recipients -> Statuses] /\ role \in [Recipients -> {"held", "sample"}]
    BY DEF StagedInit, Statuses
  <2>2. risk \in [Recipients -> Risks \cup {NoRisk}] /\ copies \in [Recipients -> Nat]
    BY DEF StagedInit
  <2>3. prompt \in [Recipients -> BOOLEAN] /\ cancelling \in BOOLEAN
    BY DEF StagedInit
  <2> QED
    BY <1>1, <2>1, <2>2, <2>3 DEF Types
<1>4. Shape /\ Phases /\ Mailed
  BY <1>1 DEF Shape, JobShape, Phases, Mailed, Procs, Scoring, Deciding, Outcomes
<1>5. Led /\ Counted /\ Faithful
  <2>1. \A r \in Recipients : ~(copies[r] > 0)
    BY <1>1
  <2>2. Led
    BY <1>1, <2>1 DEF Led, RestAfterSample, Procs
  <2>3. Counted
    <3>1. \A r \in Recipients : ~CallerOwes(r)
      BY <1>1 DEF CallerOwes, Procs
    <3>2. \A r \in Recipients : copies[r] <= interruptions + decides /\ copies[r] <= 1 + interruptions + decides
      BY <1>1
    <3> QED
      BY <3>1, <3>2 DEF Counted
  <2>4. Faithful
    BY <1>1 DEF Faithful, Procs
  <2> QED
    BY <2>2, <2>3, <2>4
<1>6. Spanned
  BY <1>1, <1>2 DEF Spanned, Unscored, Procs
<1>7. Cut /\ RiskyHeld
  BY <1>1, <1>2 DEF Cut, RiskyHeld, Procs
<1> QED
  BY <1>3, <1>4, <1>5, <1>6, <1>7 DEF IInv

LEMMA DecideStepInv ==
    ASSUME IInv, NEW p \in Procs, DecideStep(p)
    PROVE  IInv'
<1>1. CASE decide(p)
  BY <1>1, DecideInv
<1>2. CASE SelectHeld(p)
  BY <1>2, SelectHeldInv
<1>3. CASE release_remaining(p)
  BY <1>3, ReleaseRemainingInv
<1>4. CASE _block_remaining(p)
  BY <1>4, BlockRemainingInv
<1>5. CASE Conclude(p)
  BY <1>5, ConcludeInv
<1>6. ASSUME NEW r \in Recipients, Withhold(p, r) PROVE IInv'
  BY <1>6, WithholdInv
<1>7. ASSUME NEW r \in Recipients, Release(p, r) PROVE IInv'
  <2>1. Deliver(p, r, "released") /\ job[p].at = "release" /\ ~TooRisky(p, r)
    BY <1>7 DEF Release
  <2> QED
    BY <2>1, DeliverInv
<1> QED
  BY <1>1, <1>2, <1>3, <1>4, <1>5, <1>6, <1>7 DEF DecideStep

LEMMA SchedulerStepInv ==
    ASSUME IInv, SchedulerStep
    PROVE  IInv'
<1>1. CASE PickUp
  BY <1>1, PickUpInv
<1>2. CASE ScoreFails
  BY <1>2, ScoreFailsInv
<1>3. CASE score_and_assign_sample
  BY <1>3, ScoreInv
<1>4. CASE SelectSample
  BY <1>4, SelectSampleInv
<1>5. CASE dispatch_sample
  BY <1>5, DispatchSampleInv
<1>6. CASE _decide_due
  BY <1>6, DecideDueInv
<1>7. CASE DecideStep("scheduler")
  BY <1>7, DecideStepInv DEF Procs
<1>8. ASSUME NEW r \in Recipients, SendSample(r) PROVE IInv'
  <2>1. Deliver("scheduler", r, "sent") /\ job["scheduler"].at = "dispatch" /\ "scheduler" \in Procs
    BY <1>8 DEF SendSample, Procs
  <2> QED
    BY <2>1, DeliverInv
<1> QED
  BY <1>1, <1>2, <1>3, <1>4, <1>5, <1>6, <1>7, <1>8 DEF SchedulerStep

LEMMA StepInv == IInv /\ [StagedNext]_stagedVars => IInv'
<1> SUFFICES ASSUME IInv, [StagedNext]_stagedVars PROVE IInv'
  OBVIOUS
<1>1. CASE create_canary
  BY <1>1, CreateInv
<1>2. CASE SchedulerStep
  BY <1>2, SchedulerStepInv
<1>3. CASE decide_send_canary
  BY <1>3, DecideSendInv
<1>4. CASE DecideStep("caller")
  BY <1>4, DecideStepInv DEF Procs
<1>5. CASE LoadForCancel
  BY <1>5, LoadForCancelInv
<1>6. CASE cancel_send_canary
  BY <1>6, CancelInv
<1>7. ASSUME NEW r \in Recipients, NEW o \in Outcomes, apply_bounce(r, o) PROVE IInv'
  BY <1>7, BounceInv
<1>8. CASE Elapse
  BY <1>8, ElapseInv
<1>9. CASE ProcessDies
  BY <1>9, CrashInv
<1>10. ASSUME NEW p \in Procs, CommitFails(p) PROVE IInv'
  BY <1>10, CommitFailsInv
<1>11. CASE OthersLeave \/ UNCHANGED stagedVars
  <2>1. UNCHANGED <<canary, window, row, role, risk, job, cancelling, copies, prompt,
                    interruptions, raises, decides, cancels>>
    BY <1>11 DEF OthersLeave, stagedVars, db, counters
  <2>2. PendingRows' = PendingRows /\ Sample' = Sample /\ Held' = Held
    BY <2>1, SameRows
  <2>3. Types' /\ Shape' /\ Phases' /\ Mailed'
    BY <2>1, <2>2 DEF IInv, Types, Shape, Phases, Mailed
  <2>4. Led' /\ Counted' /\ Faithful'
    BY <2>1, <2>2 DEF IInv, Led, RestAfterSample, Counted, SchedulerOwes, CallerOwes, Faithful, Undisturbed
  <2>5. Spanned' /\ Cut' /\ RiskyHeld'
    BY <2>1, <2>2 DEF IInv, Spanned, Unscored, SpansHeld, Cut, RiskyHeld, Undisturbed
  <2> QED
    BY <2>3, <2>4, <2>5 DEF IInv
<1> QED
  BY <1>1, <1>2, <1>3, <1>4, <1>5, <1>6, <1>7, <1>8, <1>9, <1>10, <1>11 DEF StagedNext

LEMMA SpecInv == StagedSpec => []IInv
BY InitInv, StepInv, PTL DEF StagedSpec

\* canary.py:264-337: a recipient is mailed again at most once for each crash and
\* each decide request, and without those, and with nothing in progress, a row
\* says what happened to its recipient.
THEOREM RecordsAlwaysFollowMail == StagedSpec => []RecordsFollowMail
<1>1. IInv => CopiesExplained
  BY DEF IInv, Counted, CopiesExplained
<1>2. ASSUME IInv, Undisturbed, Quiet, NEW r \in Recipients
      PROVE  /\ row[r] \in {"pending", "blocked"} => copies[r] = 0
             /\ row[r] \in {"sent", "released"} \cup Outcomes => copies[r] > 0
  <2>1. job["scheduler"].at = "idle" /\ NoOut[r] = "-"
    BY <1>2 DEF Quiet, Procs, NoOut
  <2>2. job["scheduler"].out[r] = "-"
    BY <1>2, <2>1 DEF IInv, Shape, JobShape
  <2> QED
    BY <1>2, <2>2 DEF IInv, Faithful, Mailed
<1>3. IInv => RecordsTrue
  BY <1>2 DEF RecordsTrue
<1>4. IInv => RecordsFollowMail
  BY <1>1, <1>3 DEF RecordsFollowMail
<1> QED
  BY <1>4, SpecInv, PTL

\* canary.py:58-92 and :340-410: no held recipient is mailed before a sampled one;
\* undisturbed, the sample spans the scores of those it is watched for, and a
\* bounce on record when the window elapses keeps the riskier ones back.
THEOREM AlwaysStagedByRisk == StagedSpec => []StagedByRisk
<1>1. ASSUME IInv, Undisturbed, canary = "probing" PROVE SpansHeld
  <2>1. ~Unscored
    BY <1>1 DEF IInv, Phases, Unscored, Scoring
  <2> QED
    BY <1>1, <2>1 DEF IInv, Spanned
<1>2. IInv => SampleSpans
  BY <1>1 DEF SampleSpans, SpansHeld
<1>3. IInv => StagedByRisk
  BY <1>2 DEF IInv, Led, StagedByRisk
<1> QED
  BY <1>3, SpecInv, PTL

=============================================================================
