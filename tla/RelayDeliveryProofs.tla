------------------------ MODULE RelayDeliveryProofs ------------------------
(***************************************************************************)
(* Under the retry policy a message Postfix deletes has reached every      *)
(* recipient, for any recipients, tunnels, MX counts and number of         *)
(* overlapping requests, and the relay implements AtLeastOnce.             *)
(***************************************************************************)
EXTENDS RelayDelivery, TLAPS

-----------------------------------------------------------------------------
(* The inductive invariant.                                                *)

\* A delivered result, at an edge or in the sidecar, stands for a copy.
ResultsBacked == \A i \in 1..Len(req), r \in Rcpts :
                    req[i].results[r] = "delivered" => copies[r] > 0
AccBacked == \A r \in Rcpts : sub.acc[r] = "delivered" => copies[r] > 0

\* Either no tunnel has answered the submission and all of it remains, or
\* every recipient of it has an outcome.
AccComplete == \/ sub.acc = NoOutcome /\ sub.remaining = sub.rcpts
               \/ \A r \in sub.rcpts : sub.acc[r] # "none"

\* The awaited request is about the recipients that remain.
AwaitedIsRemaining == sub.wait # 0 => /\ sub.wait \in 1..Len(req)
                                      /\ req[sub.wait].rcpts = sub.remaining

\* A recipient without a result belongs to a domain still to be served.
UnservedHasDomain == \A i \in 1..Len(req) : \A r \in req[i].rcpts :
                        req[i].results[r] = "none" => DomainOf[r] \in req[i].todo

\* A submission is about queued recipients.
SubmittedQueued == \A r \in sub.rcpts : fate[r] = "queued"

\* Under the retry policy what Postfix marks sent has a copy.
SentBacked == Policy = "retry" => SentWasDelivered

IInv == /\ TypeOK
        /\ SentBacked /\ ResultsBacked /\ AccBacked /\ AccComplete
        /\ AwaitedIsRemaining /\ UnservedHasDomain /\ SubmittedQueued

-----------------------------------------------------------------------------
LEMMA NoOutcomeType == NoOutcome \in Outcomes
BY DEF NoOutcome, Outcomes, Verdict

\* upsert_outcome keeps types, invents no delivery and forgets no outcome.
LEMMA UpsertFacts ==
    ASSUME NEW acc \in Outcomes, NEW results \in Outcomes
    PROVE  LET u == upsert_outcome(acc, results)
           IN  /\ u \in Outcomes
               /\ \A r \in Rcpts : /\ u[r] \in {acc[r], results[r]}
                                   /\ u[r] = "none" => acc[r] = "none" /\ results[r] = "none"
BY DEF upsert_outcome, Outcomes, Verdict

\* Under the retry policy 250 means that every known outcome is a delivery.
LEMMA AcceptMeansAll ==
    ASSUME Policy = "retry", NEW acc \in Outcomes, map_outcomes(acc) = 250
    PROVE  \A r \in Rcpts : acc[r] # "none" => acc[r] = "delivered"
BY DEF map_outcomes, With, Outcomes, Verdict

LEMMA RemainingType ==
    ASSUME NEW results \in Outcomes
    PROVE  Remaining(results) \in SUBSET Rcpts
BY DEF Remaining, NotDelivered, With

\* Replacing one element of a sequence.
LEMMA ReplaceFacts ==
    ASSUME NEW S, NEW s \in Seq(S), NEW i \in 1..Len(s), NEW e \in S
    PROVE  LET t == [s EXCEPT ![i] = e]
           IN  /\ t \in Seq(S) /\ Len(t) = Len(s) /\ t[i] = e
               /\ \A j \in 1..Len(s) : j # i => t[j] = s[j]
OBVIOUS

\* What an edge step does to the requests: one request changes, its recipients
\* stay, and each result is the old one or that of the domain in hand.
LEMMA PlaceFacts ==
    ASSUME TypeOK, NEW i \in 1..Len(req), NEW outcome \in [Rcpts -> Verdict],
           Busy(i), Place(i, outcome)
    PROVE  /\ req' \in Seq(Request) /\ Len(req') = Len(req)
           /\ \A j \in 1..Len(req) : j # i => req'[j] = req[j]
           /\ req'[i].rcpts = req[i].rcpts
           /\ req'[i].todo = req[i].todo \ {Min(req[i].todo)}
           /\ \A r \in Rcpts : req'[i].results[r] =
                 IF r \in Group(req[i]) THEN outcome[r] ELSE req[i].results[r]
<1>1. req \in Seq(Request) /\ req[i] \in Request
  BY DEF TypeOK
<1>2. MxCount \in 0..MxCount
  BY DeliveryAssumption
<1> DEFINE q == [req[i] EXCEPT !.todo = req[i].todo \ {Min(req[i].todo)}, !.mx = MxCount,
                   !.results = [r \in Rcpts |-> IF r \in Group(req[i])
                                                THEN outcome[r] ELSE req[i].results[r]]]
<1>3. req' = [req EXCEPT ![i] = q]
  BY DEF Place
<1>4. q \in Request
  BY <1>1, <1>2 DEF Request, Outcomes
<1>5. /\ q.rcpts = req[i].rcpts
      /\ q.todo = req[i].todo \ {Min(req[i].todo)}
      /\ \A r \in Rcpts : q.results[r] =
                 IF r \in Group(req[i]) THEN outcome[r] ELSE req[i].results[r]
  BY <1>1 DEF Request, Outcomes
<1> HIDE DEF q
<1>6. /\ req' \in Seq(Request) /\ Len(req') = Len(req) /\ req'[i] = q
      /\ \A j \in 1..Len(req) : j # i => req'[j] = req[j]
  BY <1>1, <1>3, <1>4, ReplaceFacts
<1> QED
  BY <1>5, <1>6

-----------------------------------------------------------------------------
(* Every step preserves the invariant.                                     *)

LEMMA InitInv == DeliveryInit => IInv
<1> SUFFICES ASSUME DeliveryInit PROVE IInv
  OBVIOUS
<1>1. Idle \in Submission
  BY NoOutcomeType, DeliveryAssumption DEF Idle, Submission
<1>2. TypeOK
  BY <1>1, DeliveryAssumption DEF DeliveryInit, TypeOK
<1>3. Len(req) = 0
  BY DEF DeliveryInit
<1>4. SentBacked /\ ResultsBacked /\ UnservedHasDomain /\ SubmittedQueued
  BY <1>3 DEF DeliveryInit, Idle, SentBacked, SentWasDelivered, ResultsBacked, UnservedHasDomain, SubmittedQueued
<1>5. AccBacked /\ AccComplete /\ AwaitedIsRemaining
  BY DEF DeliveryInit, Idle, NoOutcome, AccBacked, AccComplete, AwaitedIsRemaining
<1> QED
  BY <1>2, <1>4, <1>5 DEF IInv

\* Postfix's part: the submission starts, is answered or is lost.
LEMMA SubmitInv ==
    ASSUME IInv, NEW candidates \in SUBSET Tunnels, NEW ordered \in BOOLEAN,
           Submit(candidates, ordered)
    PROVE  IInv'
<1>1. Queued \in SUBSET Rcpts /\ NoOutcome \in Outcomes
  BY NoOutcomeType DEF Queued
<1>2. sub' = [active |-> TRUE, ordered |-> ordered, todo |-> candidates, rcpts |-> Queued,
              remaining |-> Queued, acc |-> NoOutcome, wait |-> 0]
  BY DEF Submit, Idle
<1>3. sub' \in Submission
  BY <1>1, <1>2, DeliveryAssumption DEF Submission
<1>4. UNCHANGED <<fate, req, copies, crashes>>
  BY DEF Submit
<1>5. TypeOK'
  BY <1>3, <1>4 DEF IInv, TypeOK
<1>6. (SentBacked /\ ResultsBacked /\ UnservedHasDomain)'
  BY <1>4 DEF IInv, SentBacked, SentWasDelivered, ResultsBacked, UnservedHasDomain
<1>7. (AccBacked /\ AccComplete /\ AwaitedIsRemaining /\ SubmittedQueued)'
  BY <1>2, <1>4 DEF AccBacked, AccComplete, AwaitedIsRemaining, SubmittedQueued, NoOutcome, Queued
<1> QED
  BY <1>5, <1>6, <1>7 DEF IInv

\* A submission that is over leaves nothing behind in the sidecar.
LEMMA IdleInv ==
    ASSUME IInv, sub' = Idle, UNCHANGED <<req, copies>>,
           fate' \in [Rcpts -> {"queued", "sent", "bounced"}],
           crashes' \in 0..MaxCrashes, SentBacked'
    PROVE  IInv'
<1>1. Idle \in Submission
  BY NoOutcomeType, DeliveryAssumption DEF Idle, Submission
<1>2. TypeOK'
  BY <1>1 DEF IInv, TypeOK
<1>3. (ResultsBacked /\ UnservedHasDomain)'
  BY DEF IInv, ResultsBacked, UnservedHasDomain
<1>4. (AccBacked /\ AccComplete /\ AwaitedIsRemaining /\ SubmittedQueued)'
  BY DEF Idle, NoOutcome, AccBacked, AccComplete, AwaitedIsRemaining, SubmittedQueued
<1> QED
  BY <1>2, <1>3, <1>4 DEF IInv

LEMMA ReplyInv ==
    ASSUME IInv, Reply
    PROVE  IInv' /\ (Policy = "retry" => \A r \in sub.rcpts : fate'[r] = "sent" => copies[r] > 0)
<1> DEFINE code == IF sub.acc = NoOutcome THEN 421 ELSE map_outcomes(sub.acc)
<1>1. sub.acc \in Outcomes /\ sub.rcpts \in SUBSET Rcpts
  BY DEF IInv, TypeOK, Submission
<1>2. Settle(code) /\ sub' = Idle /\ UNCHANGED <<req, copies, crashes>>
  BY DEF Reply
<1>3. Policy = "retry" /\ code = 250 => \A r \in sub.rcpts : copies[r] > 0
  <2> SUFFICES ASSUME Policy = "retry", code = 250, NEW r \in sub.rcpts PROVE copies[r] > 0
    OBVIOUS
  <2>1. sub.acc # NoOutcome /\ map_outcomes(sub.acc) = 250
    OBVIOUS
  <2>2. sub.acc[r] # "none"
    BY <2>1 DEF IInv, AccComplete
  <2>3. sub.acc[r] = "delivered"
    BY <1>1, <2>1, <2>2, AcceptMeansAll
  <2> QED
    BY <1>1, <2>3 DEF IInv, AccBacked
<1> HIDE DEF code
<1>4. /\ fate' \in [Rcpts -> {"queued", "sent", "bounced"}]
      /\ \A r \in Rcpts \ sub.rcpts : fate'[r] = fate[r]
      /\ \A r \in sub.rcpts : fate'[r] = "sent" => code = 250
  BY <1>1, <1>2 DEF Settle, IInv, TypeOK
<1>5. SentBacked'
  BY <1>1, <1>2, <1>3, <1>4 DEF IInv, SentBacked, SentWasDelivered
<1>6. crashes' \in 0..MaxCrashes
  BY <1>2 DEF IInv, TypeOK
<1> QED
  BY <1>2, <1>3, <1>4, <1>5, <1>6, IdleInv

LEMMA CrashInv ==
    ASSUME IInv, SidecarCrash
    PROVE  IInv'
<1>1. /\ sub' = Idle /\ UNCHANGED <<fate, req, copies>>
      /\ crashes' \in 0..MaxCrashes
  BY DeliveryAssumption DEF SidecarCrash, IInv, TypeOK
<1>2. SentBacked' /\ fate' \in [Rcpts -> {"queued", "sent", "bounced"}]
  BY <1>1 DEF IInv, SentBacked, SentWasDelivered, TypeOK
<1> QED
  BY <1>1, <1>2, IdleInv

\* The sidecar goes on to the next tunnel without a result.
LEMMA NextTunnelInv ==
    ASSUME IInv, UNCHANGED <<fate, req, copies, crashes>>,
           sub' \in Submission, sub'.wait = 0,
           sub'.rcpts = sub.rcpts, sub'.remaining = sub.remaining, sub'.acc = sub.acc
    PROVE  IInv'
<1>1. TypeOK'
  BY DEF IInv, TypeOK
<1>2. (SentBacked /\ ResultsBacked /\ UnservedHasDomain)'
  BY DEF IInv, SentBacked, SentWasDelivered, ResultsBacked, UnservedHasDomain
<1>3. (AccBacked /\ AccComplete /\ AwaitedIsRemaining /\ SubmittedQueued)'
  BY DEF IInv, AccBacked, AccComplete, AwaitedIsRemaining, SubmittedQueued
<1> QED
  BY <1>1, <1>2, <1>3 DEF IInv

LEMMA TunnelErrorInv ==
    ASSUME IInv, NEW t \in Tunnels, TunnelError(t)
    PROVE  IInv'
<1>1. sub \in Submission /\ sub' = [sub EXCEPT !.todo = sub.todo \ {t}] /\ sub.wait = 0
  BY DEF IInv, TypeOK, TunnelError
<1>2. sub' \in Submission /\ sub'.wait = 0 /\ sub'.rcpts = sub.rcpts
      /\ sub'.remaining = sub.remaining /\ sub'.acc = sub.acc
  BY <1>1 DEF Submission
<1> QED
  BY <1>2, NextTunnelInv DEF TunnelError

LEMMA GiveUpInv ==
    ASSUME IInv, GiveUp
    PROVE  IInv'
<1>1. sub \in Submission /\ sub' = [sub EXCEPT !.wait = 0]
  BY DEF IInv, TypeOK, GiveUp
<1>2. sub' \in Submission /\ sub'.wait = 0 /\ sub'.rcpts = sub.rcpts
      /\ sub'.remaining = sub.remaining /\ sub'.acc = sub.acc
  BY <1>1, DeliveryAssumption DEF Submission
<1> QED
  BY <1>2, NextTunnelInv DEF GiveUp

LEMMA SendRelayInv ==
    ASSUME IInv, NEW t \in Tunnels, SendRelay(t)
    PROVE  IInv'
<1> DEFINE q == [rcpts |-> sub.remaining, todo |-> DomainsOf(sub.remaining),
                 mx |-> MxCount, results |-> NoOutcome, open |-> TRUE]
<1>1. sub \in Submission /\ req \in Seq(Request) /\ Len(req) \in Nat /\ Len(req) < MaxRequests
  BY DEF IInv, TypeOK, SendRelay
<1>2. sub.remaining \in SUBSET Rcpts
  BY <1>1 DEF Submission
<1>3. DomainsOf(sub.remaining) \in SUBSET Nat
  BY <1>2, DeliveryAssumption DEF DomainsOf
<1>4. q \in Request
  BY <1>2, <1>3, NoOutcomeType, DeliveryAssumption DEF Request
<1>5. /\ q.rcpts = sub.remaining
      /\ \A r \in Rcpts : q.results[r] = "none"
      /\ \A r \in q.rcpts : DomainOf[r] \in q.todo
  BY <1>2 DEF NoOutcome, DomainsOf
<1>6. req' = Append(req, q) /\ UNCHANGED <<fate, copies, crashes>>
  BY DEF SendRelay
<1>7. sub' = [sub EXCEPT !.todo = sub.todo \ {t}, !.wait = Len(req) + 1]
  BY DEF SendRelay
<1> HIDE DEF q
<1>8. /\ req' \in Seq(Request) /\ Len(req') = Len(req) + 1
      /\ req'[Len(req) + 1] = q /\ \A j \in 1..Len(req) : req'[j] = req[j]
  BY <1>1, <1>4, <1>6
<1>9. /\ sub' \in Submission /\ sub'.rcpts = sub.rcpts /\ sub'.acc = sub.acc
      /\ sub'.remaining = sub.remaining /\ sub'.wait = Len(req) + 1
  <2>1. Len(req) + 1 \in 0..MaxRequests
    BY <1>1, DeliveryAssumption
  <2> QED
    BY <1>1, <1>7, <2>1 DEF Submission
<1>10. TypeOK'
  BY <1>1, <1>6, <1>8, <1>9, DeliveryAssumption DEF IInv, TypeOK
<1>11. \A j \in 1..Len(req') : j = Len(req) + 1 \/ j \in 1..Len(req)
  BY <1>1, <1>8
<1>12. (SentBacked /\ AccBacked /\ AccComplete /\ SubmittedQueued)'
  BY <1>6, <1>9 DEF IInv, SentBacked, SentWasDelivered, AccBacked, AccComplete, SubmittedQueued
<1>13. ResultsBacked'
  BY <1>5, <1>6, <1>8, <1>11 DEF IInv, ResultsBacked
<1>14. UnservedHasDomain'
  BY <1>5, <1>8, <1>11 DEF IInv, UnservedHasDomain
<1>15. AwaitedIsRemaining'
  BY <1>1, <1>5, <1>8, <1>9 DEF AwaitedIsRemaining
<1> QED
  BY <1>10, <1>12, <1>13, <1>14, <1>15 DEF IInv

LEMMA ReceiveInv ==
    ASSUME IInv, ReceiveResult
    PROVE  IInv'
<1> DEFINE q == req[sub.wait]  closed == [q EXCEPT !.open = FALSE]
<1>1. /\ sub \in Submission /\ req \in Seq(Request) /\ Len(req) \in Nat
      /\ sub.wait \in 1..Len(req) /\ q.rcpts = sub.remaining /\ q.todo = {}
  BY DEF IInv, TypeOK, ReceiveResult, AwaitedIsRemaining
<1>2. q \in Request /\ q.results \in Outcomes /\ sub.acc \in Outcomes
  <2>1. q \in Request
    BY <1>1
  <2> QED
    BY <1>1, <2>1 DEF Request, Submission
<1>3. req' = [req EXCEPT ![sub.wait] = closed] /\ UNCHANGED <<fate, copies, crashes>>
  BY <1>1 DEF ReceiveResult
<1>4. /\ closed \in Request /\ closed.rcpts = q.rcpts /\ closed.todo = q.todo
      /\ closed.results = q.results
  BY <1>2 DEF Request
<1>5. sub' = [sub EXCEPT !.wait = 0, !.remaining = Remaining(q.results),
                         !.acc = upsert_outcome(sub.acc, q.results)]
  BY DEF ReceiveResult
<1>6. \A r \in q.rcpts : q.results[r] # "none"
  BY <1>1 DEF IInv, UnservedHasDomain
<1>7. \A r \in Rcpts : q.results[r] = "delivered" => copies[r] > 0
  BY <1>1 DEF IInv, ResultsBacked
<1> HIDE DEF q, closed
<1>8. /\ req' \in Seq(Request) /\ Len(req') = Len(req) /\ req'[sub.wait] = closed
      /\ \A j \in 1..Len(req) : j # sub.wait => req'[j] = req[j]
  BY <1>1, <1>3, <1>4, ReplaceFacts
<1>9. /\ Remaining(q.results) \in SUBSET Rcpts
      /\ upsert_outcome(sub.acc, q.results) \in Outcomes
  BY <1>2, RemainingType, UpsertFacts
<1>10. /\ sub' \in Submission /\ sub'.wait = 0 /\ sub'.rcpts = sub.rcpts
       /\ sub'.acc = upsert_outcome(sub.acc, q.results)
  <2>1. 0 \in 0..MaxRequests
    BY DeliveryAssumption
  <2> QED
    BY <1>1, <1>5, <1>9, <2>1 DEF Submission
<1>11. /\ \A r \in Rcpts : sub'.acc[r] \in {sub.acc[r], q.results[r]}
       /\ \A r \in Rcpts : sub'.acc[r] = "none" => sub.acc[r] = "none" /\ q.results[r] = "none"
  BY <1>2, <1>10, UpsertFacts
<1>12. TypeOK'
  BY <1>3, <1>8, <1>10 DEF IInv, TypeOK
<1>13. (SentBacked /\ SubmittedQueued /\ AwaitedIsRemaining)'
  BY <1>3, <1>10 DEF IInv, SentBacked, SentWasDelivered, SubmittedQueued, AwaitedIsRemaining
<1>14. AccBacked'
  BY <1>3, <1>7, <1>11 DEF IInv, AccBacked
<1>15. AccComplete'
  <2>1. sub.rcpts \subseteq Rcpts
    BY <1>1 DEF Submission
  <2>2. \A r \in sub.rcpts : sub'.acc[r] # "none"
    BY <1>1, <1>6, <1>11, <2>1 DEF IInv, AccComplete
  <2> QED
    BY <1>10, <2>2 DEF AccComplete
<1>16. ResultsBacked'
  BY <1>1, <1>3, <1>4, <1>7, <1>8 DEF IInv, ResultsBacked
<1>17. UnservedHasDomain'
  BY <1>1, <1>4, <1>6, <1>8 DEF IInv, UnservedHasDomain
<1> QED
  BY <1>12, <1>13, <1>14, <1>15, <1>16, <1>17 DEF IInv

-----------------------------------------------------------------------------
(* The edge's part: request i changes, the sidecar does not notice.        *)

LEMMA EdgeInv ==
    ASSUME IInv, UNCHANGED <<fate, sub, crashes>>,
           copies' \in [Rcpts -> Nat], \A r \in Rcpts : copies'[r] >= copies[r],
           NEW i \in 1..Len(req), req' \in Seq(Request), Len(req') = Len(req),
           \A j \in 1..Len(req) : j # i => req'[j] = req[j],
           req'[i].rcpts = req[i].rcpts,
           \A r \in Rcpts : req'[i].results[r] = "delivered" => copies'[r] > 0,
           \A r \in req[i].rcpts : req'[i].results[r] = "none" => DomainOf[r] \in req'[i].todo
    PROVE  IInv'
<1>1. TypeOK'
  BY DEF IInv, TypeOK
<1>2. copies \in [Rcpts -> Nat] /\ \A r \in Rcpts : copies[r] > 0 => copies'[r] > 0
  BY DEF IInv, TypeOK
<1>3. (SentBacked /\ AccBacked)'
  BY <1>2 DEF IInv, SentBacked, SentWasDelivered, AccBacked
<1>4. (AccComplete /\ SubmittedQueued)'
  BY DEF IInv, AccComplete, SubmittedQueued
<1>5. AwaitedIsRemaining'
  <2>1. \A j \in 1..Len(req) : req'[j].rcpts = req[j].rcpts
    OBVIOUS
  <2> QED
    BY <2>1 DEF IInv, AwaitedIsRemaining
<1>6. ResultsBacked'
  BY <1>2 DEF IInv, ResultsBacked
<1>7. UnservedHasDomain'
  BY DEF IInv, UnservedHasDomain
<1> QED
  BY <1>1, <1>3, <1>4, <1>5, <1>6, <1>7 DEF IInv

\* Steps that place no result: the MX walk advances, or the request ends.
LEMMA WalkInv ==
    ASSUME IInv, NEW i \in 1..Len(req), UNCHANGED <<fate, sub, crashes>>,
           copies' \in [Rcpts -> Nat], \A r \in Rcpts : copies'[r] >= copies[r],
           \/ req' = [req EXCEPT ![i].mx = req[i].mx - 1] /\ req[i].mx > 0
           \/ req' = [req EXCEPT ![i].open = FALSE]
    PROVE  IInv'
<1>1. req \in Seq(Request) /\ req[i] \in Request
  BY DEF IInv, TypeOK
<1>2. PICK q \in Request : /\ req' = [req EXCEPT ![i] = q] /\ q.rcpts = req[i].rcpts
                           /\ q.todo = req[i].todo /\ q.results = req[i].results
  <2>1. CASE req' = [req EXCEPT ![i].mx = req[i].mx - 1] /\ req[i].mx > 0
    <3> DEFINE q == [req[i] EXCEPT !.mx = req[i].mx - 1]
    <3>3. req[i].mx \in 0..MxCount
      BY <1>1 DEF Request
    <3>4. req[i].mx - 1 \in 0..MxCount
      BY <2>1, <3>3, DeliveryAssumption
    <3>1. /\ q \in Request /\ q.rcpts = req[i].rcpts
          /\ q.todo = req[i].todo /\ q.results = req[i].results
      BY <1>1, <3>4 DEF Request
    <3>2. req' = [req EXCEPT ![i] = q]
      BY <2>1
    <3> QED
      BY <3>1, <3>2
  <2>2. CASE req' = [req EXCEPT ![i].open = FALSE]
    <3> DEFINE q == [req[i] EXCEPT !.open = FALSE]
    <3>1. /\ q \in Request /\ q.rcpts = req[i].rcpts
          /\ q.todo = req[i].todo /\ q.results = req[i].results
      BY <1>1 DEF Request
    <3>2. req' = [req EXCEPT ![i] = q]
      BY <2>2
    <3> QED
      BY <3>1, <3>2
  <2> QED
    BY <2>1, <2>2
<1>3. /\ req' \in Seq(Request) /\ Len(req') = Len(req) /\ req'[i] = q
      /\ \A j \in 1..Len(req) : j # i => req'[j] = req[j]
  BY <1>1, <1>2, ReplaceFacts
<1>4. \A r \in Rcpts : copies[r] > 0 => copies'[r] > 0
  BY DEF IInv, TypeOK
<1>5. \A r \in Rcpts : req'[i].results[r] = "delivered" => copies'[r] > 0
  BY <1>2, <1>3, <1>4 DEF IInv, ResultsBacked
<1>6. \A r \in req[i].rcpts : req'[i].results[r] = "none" => DomainOf[r] \in req'[i].todo
  BY <1>2, <1>3 DEF IInv, UnservedHasDomain
<1>7. req'[i].rcpts = req[i].rcpts
  BY <1>2, <1>3
<1> QED
  BY <1>3, <1>5, <1>6, <1>7, EdgeInv

\* Steps that settle the domain in hand.
LEMMA PlaceInv ==
    ASSUME IInv, NEW i \in 1..Len(req), NEW outcome \in [Rcpts -> Verdict],
           Busy(i), Place(i, outcome), UNCHANGED <<fate, sub, crashes>>,
           copies' \in [Rcpts -> Nat], \A r \in Rcpts : copies'[r] >= copies[r],
           \A r \in Group(req[i]) : outcome[r] = "delivered" => copies'[r] > 0
    PROVE  IInv'
<1>1. TypeOK
  BY DEF IInv
<1>2. /\ req' \in Seq(Request) /\ Len(req') = Len(req)
      /\ \A j \in 1..Len(req) : j # i => req'[j] = req[j]
      /\ req'[i].rcpts = req[i].rcpts
      /\ req'[i].todo = req[i].todo \ {Min(req[i].todo)}
      /\ \A r \in Rcpts : req'[i].results[r] =
            IF r \in Group(req[i]) THEN outcome[r] ELSE req[i].results[r]
  BY <1>1, PlaceFacts
<1>3. \A r \in Rcpts : copies[r] > 0 => copies'[r] > 0
  BY DEF IInv, TypeOK
<1>4. \A r \in Rcpts : req'[i].results[r] = "delivered" => copies'[r] > 0
  BY <1>2, <1>3 DEF IInv, ResultsBacked
<1>5. \A r \in req[i].rcpts : req'[i].results[r] = "none" => DomainOf[r] \in req'[i].todo
  <2> SUFFICES ASSUME NEW r \in req[i].rcpts, req'[i].results[r] = "none"
               PROVE  DomainOf[r] \in req'[i].todo
    OBVIOUS
  <2>1. r \in Rcpts
    <3>1. req[i] \in Request
      BY <1>1 DEF TypeOK
    <3> QED
      BY <3>1 DEF Request
  <2>2. r \notin Group(req[i])
    BY <1>2, <2>1 DEF Verdict
  <2>3. req[i].results[r] = "none" /\ DomainOf[r] # Min(req[i].todo)
    BY <1>2, <2>1, <2>2 DEF Group
  <2>4. DomainOf[r] \in req[i].todo
    BY <2>3 DEF IInv, UnservedHasDomain
  <2> QED
    BY <1>2, <2>3, <2>4
<1> QED
  BY <1>2, <1>4, <1>5, EdgeInv

\* Copies only grow, and only at recipients whose MX accepted the body.
LEMMA CopiesGrow ==
    ASSUME TypeOK, NEW S \in SUBSET Rcpts,
           copies' = [r \in Rcpts |-> IF r \in S THEN copies[r] + 1 ELSE copies[r]]
    PROVE  /\ copies' \in [Rcpts -> Nat]
           /\ \A r \in Rcpts : copies'[r] >= copies[r]
           /\ \A r \in S : copies'[r] > 0
BY DEF TypeOK

LEMMA GroupType ==
    ASSUME TypeOK, NEW i \in 1..Len(req)
    PROVE  Group(req[i]) \in SUBSET Rcpts
<1>1. req[i] \in Request
  BY DEF TypeOK
<1> QED
  BY <1>1 DEF Request, Group

\* One SMTP session that reaches the recipients: the copies it leaves are
\* those of the accepted recipients.
LEMMA DeliverMxInv ==
    ASSUME IInv, NEW i \in 1..Len(req), NEW refused \in Refusals,
           NEW final \in Verdict, DeliverMx(i, refused, final)
    PROVE  /\ IInv'
           /\ \E S \in SUBSET Rcpts : Abstract!Copy(S)
<1> DEFINE accepted == {r \in Group(req[i]) : refused[r] = "none"}
           S == IF final = "delivered" THEN accepted ELSE {}
           outcome == [r \in Rcpts |-> IF r \in accepted THEN final
                                       ELSE IF r \in Group(req[i]) THEN refused[r] ELSE "temp"]
<1>1. TypeOK /\ Group(req[i]) \in SUBSET Rcpts
  BY GroupType DEF IInv
<1>2. /\ copies' = [r \in Rcpts |-> IF r \in S THEN copies[r] + 1 ELSE copies[r]]
      /\ UNCHANGED <<fate, sub, crashes>> /\ Busy(i)
  BY DEF DeliverMx
<1>3. outcome \in [Rcpts -> Verdict]
  BY <1>1 DEF Refusals, Verdict
<1>4. Place(i, outcome)
  <2>1. Place(i, [r \in Rcpts |-> IF r \in accepted THEN final ELSE refused[r]])
    BY DEF DeliverMx
  <2> QED
    BY <1>1, <2>1 DEF Place
<1>5. S \in SUBSET Rcpts
  BY <1>1
<1>6. \A r \in Group(req[i]) : outcome[r] = "delivered" => r \in S
  BY <1>1 DEF Refusals
<1> HIDE DEF S, outcome
<1>7. /\ copies' \in [Rcpts -> Nat] /\ \A r \in Rcpts : copies'[r] >= copies[r]
      /\ \A r \in S : copies'[r] > 0
  BY <1>1, <1>2, <1>5, CopiesGrow
<1>8. IInv'
  BY <1>2, <1>3, <1>4, <1>6, <1>7, PlaceInv
<1>9. Abstract!Copy(S)
  BY <1>2 DEF Abstract!Copy
<1> QED
  BY <1>5, <1>8, <1>9

LEMMA LoseFinalReplyInv ==
    ASSUME IInv, NEW i \in 1..Len(req), NEW accepted \in SUBSET Rcpts,
           LoseFinalReply(i, accepted)
    PROVE  /\ IInv'
           /\ \E S \in SUBSET Rcpts : Abstract!Copy(S)
<1>1. /\ UNCHANGED <<fate, sub, crashes>> /\ req[i].mx > 0
      /\ req' = [req EXCEPT ![i].mx = req[i].mx - 1]
      /\ copies' = [r \in Rcpts |-> IF r \in accepted THEN copies[r] + 1 ELSE copies[r]]
  BY DEF LoseFinalReply
<1>2. copies' \in [Rcpts -> Nat] /\ \A r \in Rcpts : copies'[r] >= copies[r]
  BY <1>1, CopiesGrow DEF IInv
<1>3. IInv'
  BY <1>1, <1>2, WalkInv
<1>4. Abstract!Copy(accepted)
  BY <1>1 DEF Abstract!Copy
<1> QED
  BY <1>3, <1>4

\* Edge steps that move no mail.
LEMMA QuietEdgeInv ==
    ASSUME IInv, NEW i \in 1..Len(req), DropRequest(i) \/ NoUsableMx(i) \/ SkipMx(i)
    PROVE  IInv' /\ UNCHANGED <<fate, copies>>
<1>1. UNCHANGED <<fate, sub, copies, crashes>>
  BY DEF DropRequest, NoUsableMx, SkipMx
<1>2. copies' \in [Rcpts -> Nat] /\ \A r \in Rcpts : copies'[r] >= copies[r]
  BY <1>1 DEF IInv, TypeOK
<1>3. CASE DropRequest(i)
  BY <1>1, <1>2, <1>3, WalkInv DEF DropRequest
<1>4. CASE SkipMx(i)
  BY <1>1, <1>2, <1>4, WalkInv DEF SkipMx
<1>5. CASE NoUsableMx(i)
  <2> DEFINE outcome == [r \in Rcpts |-> "temp"]
  <2>1. outcome \in [Rcpts -> Verdict] /\ Busy(i) /\ Place(i, outcome)
    BY <1>5 DEF NoUsableMx, Verdict
  <2>2. \A r \in Group(req[i]) : outcome[r] = "delivered" => copies'[r] > 0
    BY GroupType DEF IInv
  <2> QED
    BY <1>1, <1>2, <2>1, <2>2, PlaceInv
<1> QED
  BY <1>1, <1>3, <1>4, <1>5

\* The reply reports all recipients of the transaction, or none.
LEMMA ReplyReports ==
    ASSUME Policy = "retry", IInv, Reply
    PROVE  Abstract!Next \/ UNCHANGED <<fate, copies>>
<1> DEFINE code == IF sub.acc = NoOutcome THEN 421 ELSE map_outcomes(sub.acc)
<1>1. Settle(code) /\ UNCHANGED copies
  BY DEF Reply
<1>2. /\ sub.rcpts \in SUBSET Rcpts /\ \A r \in sub.rcpts : fate[r] = "queued"
      /\ fate \in [Rcpts -> {"queued", "sent", "bounced"}]
  BY DEF IInv, TypeOK, Submission, SubmittedQueued
<1>3. \A r \in sub.rcpts : fate'[r] = "sent" => copies[r] > 0
  BY ReplyInv
<1> HIDE DEF code
<1>4. CASE code = 250
  <2>1. fate' = [r \in Rcpts |-> IF r \in sub.rcpts THEN "sent" ELSE fate[r]]
    BY <1>1, <1>2, <1>4 DEF Settle
  <2>2. Abstract!Report(sub.rcpts, "sent")
    BY <1>1, <1>2, <1>3, <2>1 DEF Abstract!Report
  <2> QED
    BY <1>2, <2>2 DEF Abstract!Next
<1>5. CASE code = 554
  <2>1. fate' = [r \in Rcpts |-> IF r \in sub.rcpts THEN "bounced" ELSE fate[r]]
    BY <1>1, <1>2, <1>5 DEF Settle
  <2>2. Abstract!Report(sub.rcpts, "bounced")
    BY <1>1, <1>2, <2>1 DEF Abstract!Report
  <2> QED
    BY <1>2, <2>2 DEF Abstract!Next
<1>6. CASE code # 250 /\ code # 554
  <2>1. fate' = [r \in Rcpts |-> IF r \in sub.rcpts THEN "queued" ELSE fate[r]]
    BY <1>1, <1>2, <1>6 DEF Settle
  <2>2. fate' = fate
    BY <1>2, <2>1
  <2> QED
    BY <1>1, <2>2
<1> QED
  BY <1>4, <1>5, <1>6

\* Every step preserves the invariant and, under the retry policy, is a step
\* of AtLeastOnce, or none.
LEMMA StepInv ==
    ASSUME IInv, [DeliveryNext]_deliveryVars
    PROVE  IInv' /\ (Policy = "retry" => Abstract!Next \/ UNCHANGED <<fate, copies>>)
<1>1. CASE UNCHANGED deliveryVars
  <2>1. IInv'
    BY <1>1 DEF deliveryVars, IInv, TypeOK, SentBacked, SentWasDelivered, ResultsBacked, AccBacked, AccComplete,
                AwaitedIsRemaining, UnservedHasDomain, SubmittedQueued
  <2> QED
    BY <1>1, <2>1 DEF deliveryVars
<1>2. CASE \E candidates \in SUBSET Tunnels, ordered \in BOOLEAN : Submit(candidates, ordered)
  BY <1>2, SubmitInv DEF Submit
<1>3. CASE Reply
  BY <1>3, ReplyInv, ReplyReports
<1>4. CASE ReceiveResult
  BY <1>4, ReceiveInv DEF ReceiveResult
<1>5. CASE GiveUp
  BY <1>5, GiveUpInv DEF GiveUp
<1>6. CASE \E t \in Tunnels : SendRelay(t)
  BY <1>6, SendRelayInv DEF SendRelay
<1>7. CASE \E t \in Tunnels : TunnelError(t)
  BY <1>7, TunnelErrorInv DEF TunnelError
<1>8. CASE SidecarCrash
  BY <1>8, CrashInv DEF SidecarCrash
<1>9. CASE EdgeStep
  <2>1. PICK i \in 1..Len(req) :
          \/ DropRequest(i) \/ NoUsableMx(i) \/ SkipMx(i)
          \/ \E refused \in Refusals, final \in Verdict : DeliverMx(i, refused, final)
          \/ \E accepted \in SUBSET Rcpts : LoseFinalReply(i, accepted)
    BY <1>9 DEF EdgeStep
  <2>2. CASE DropRequest(i) \/ NoUsableMx(i) \/ SkipMx(i)
    BY <2>2, QuietEdgeInv
  <2>3. CASE \E refused \in Refusals, final \in Verdict : DeliverMx(i, refused, final)
    BY <2>3, DeliverMxInv DEF Abstract!Next
  <2>4. CASE \E accepted \in SUBSET Rcpts : LoseFinalReply(i, accepted)
    BY <2>4, LoseFinalReplyInv DEF Abstract!Next
  <2> QED
    BY <2>1, <2>2, <2>3, <2>4
<1> QED
  BY <1>1, <1>2, <1>3, <1>4, <1>5, <1>6, <1>7, <1>8, <1>9 DEF DeliveryNext, SidecarStep

-----------------------------------------------------------------------------
\* Under the retry policy every recipient that Postfix marks sent, on the
\* strength of the reply map_outcomes computes, has a copy of the message:
\* no interleaving of failover, timeouts, restarts and late edges loses mail.
THEOREM SentWasDeliveredAlways ==
    ASSUME Policy = "retry"
    PROVE  DeliverySpec => []SentWasDelivered
<1>1. IInv /\ [DeliveryNext]_deliveryVars => IInv'
  BY StepInv
<1>2. IInv => SentWasDelivered
  BY DEF IInv, SentBacked
<1> QED
  BY InitInv, <1>1, <1>2, PTL DEF DeliverySpec

\* Under the retry policy sidecar and edges together implement at-least-once
\* delivery: each DeliverMx or lost reply is a Copy, each Reply a Report of the
\* whole transaction or nothing, every other step is invisible to Postfix.
THEOREM DeliveryImplementsAtLeastOnce ==
    ASSUME Policy = "retry"
    PROVE  DeliverySpec => ImplementsAtLeastOnce
<1>1. IInv /\ [DeliveryNext]_deliveryVars => IInv'
  BY StepInv
<1>2. IInv /\ [DeliveryNext]_deliveryVars => [Abstract!Next]_<<fate, copies>>
  BY StepInv
<1>3. DeliveryInit => Abstract!Init
  BY DEF DeliveryInit, Abstract!Init
<1> QED
  BY InitInv, <1>1, <1>2, <1>3, PTL DEF DeliverySpec, ImplementsAtLeastOnce, Abstract!Spec

-----------------------------------------------------------------------------
(* What justifies a further attempt and a bounce.                          *)

\* An edge has results for the recipients of the request, for no others.
ResultsOfRequest == \A i \in 1..Len(req), r \in Rcpts :
                       req[i].results[r] # "none" => r \in req[i].rcpts

\* No recipient that is still to settle is served.
RemainingUnserved == \A r \in sub.remaining : sub.acc[r] # "delivered"

\* In ordered failover the first verdict leaves nothing to settle.
OrderedDone == sub.ordered /\ sub.acc # NoOutcome => sub.remaining = {}

\* A refusal the sidecar counts was given in a request that is over.
RefusalsGiven == \A r \in Rcpts : sub.acc[r] = "perm" =>
                    \E i \in 1..Len(req) : ~req[i].open /\ req[i].results[r] = "perm"

JInv == IInv /\ ResultsOfRequest /\ RemainingUnserved /\ OrderedDone /\ RefusalsGiven

\* What an edge step does to the requests, and what it leaves to the sidecar.
EdgeFrame ==
    /\ UNCHANGED <<fate, sub>> /\ Len(req') = Len(req)
    /\ \A j \in 1..Len(req) :
          /\ req'[j].rcpts = req[j].rcpts
          /\ ~req[j].open => ~req'[j].open /\ req'[j].results = req[j].results
          /\ \A r \in Rcpts : req'[j].results[r] # "none"
                                => req[j].results[r] # "none" \/ r \in req[j].rcpts

LEMMA EdgeChanges ==
    ASSUME IInv, EdgeStep
    PROVE  EdgeFrame
<1>1. PICK i \in 1..Len(req) :
        \/ DropRequest(i) \/ NoUsableMx(i) \/ SkipMx(i)
        \/ \E refused \in Refusals, final \in Verdict : DeliverMx(i, refused, final)
        \/ \E accepted \in SUBSET Rcpts : LoseFinalReply(i, accepted)
  BY DEF EdgeStep
<1>2. req \in Seq(Request) /\ req[i] \in Request /\ Len(req) \in Nat
  BY DEF IInv, TypeOK
<1>3. UNCHANGED <<fate, sub>>
  BY <1>1 DEF DropRequest, NoUsableMx, SkipMx, DeliverMx, LoseFinalReply
<1>4. req[i].open
  BY <1>1 DEF DropRequest, NoUsableMx, SkipMx, DeliverMx, LoseFinalReply, Busy
<1>5. CASE DropRequest(i) \/ SkipMx(i) \/ \E accepted \in SUBSET Rcpts : LoseFinalReply(i, accepted)
  <2>1. \/ req' = [req EXCEPT ![i].mx = req[i].mx - 1]
        \/ req' = [req EXCEPT ![i].open = FALSE]
    BY <1>5 DEF DropRequest, SkipMx, LoseFinalReply
  <2>2. /\ Len(req') = Len(req) /\ \A j \in 1..Len(req) : j # i => req'[j] = req[j]
        /\ req'[i].rcpts = req[i].rcpts /\ req'[i].results = req[i].results
    BY <1>2, <2>1 DEF Request
  <2> QED
    BY <1>3, <1>4, <2>2 DEF EdgeFrame
<1>6. CASE NoUsableMx(i) \/ \E refused \in Refusals, final \in Verdict : DeliverMx(i, refused, final)
  <2>1. PICK outcome : Busy(i) /\ Place(i, outcome)
    BY <1>6 DEF NoUsableMx, DeliverMx
  <2>2. /\ Len(req') = Len(req) /\ \A j \in 1..Len(req) : j # i => req'[j] = req[j]
        /\ req'[i].rcpts = req[i].rcpts
        /\ \A r \in Rcpts : req'[i].results[r] =
              IF r \in Group(req[i]) THEN outcome[r] ELSE req[i].results[r]
    <3> DEFINE res == [r \in Rcpts |-> IF r \in Group(req[i]) THEN outcome[r] ELSE req[i].results[r]]
               q == [req[i] EXCEPT !.todo = req[i].todo \ {Min(req[i].todo)}, !.mx = MxCount,
                                   !.results = res]
    <3>1. req' = [req EXCEPT ![i] = q]
      BY <2>1 DEF Place
    <3>2. q.rcpts = req[i].rcpts /\ q.results = res
      <4> HIDE DEF res
      <4> QED BY <1>2 DEF Request
    <3> HIDE DEF q
    <3> QED
      BY <1>2, <3>1, <3>2
  <2>3. \A r \in Group(req[i]) : r \in req[i].rcpts
    BY DEF Group
  <2> QED
    BY <1>3, <1>4, <2>2, <2>3 DEF EdgeFrame
<1> QED
  BY <1>1, <1>5, <1>6

\* Steps at which the sidecar learns nothing and asks nobody.
LEMMA JustifiedFrame ==
    ASSUME JInv, IInv', UNCHANGED req, sub'.acc = sub.acc, sub'.remaining = sub.remaining,
           sub'.ordered = sub.ordered
    PROVE  JInv'
BY DEF JInv, ResultsOfRequest, RemainingUnserved, OrderedDone, RefusalsGiven

\* A submission that starts, or has ended, knows no outcome.
LEMMA JustifiedFresh ==
    ASSUME JInv, IInv', UNCHANGED req, sub'.acc = NoOutcome
    PROVE  JInv'
<1>1. \A r \in sub'.remaining : r \in Rcpts
  BY DEF IInv, TypeOK, Submission
<1> QED
  BY <1>1 DEF JInv, ResultsOfRequest, RemainingUnserved, OrderedDone, RefusalsGiven, NoOutcome

LEMMA JustifiedSend ==
    ASSUME JInv, IInv', NEW t \in Tunnels, SendRelay(t)
    PROVE  JInv'
<1> DEFINE q == [rcpts |-> sub.remaining, todo |-> DomainsOf(sub.remaining),
                 mx |-> MxCount, results |-> NoOutcome, open |-> TRUE]
<1>1. sub \in Submission /\ req \in Seq(Request) /\ Len(req) \in Nat
  BY DEF JInv, IInv, TypeOK
<1>2. req' = Append(req, q) /\ sub' = [sub EXCEPT !.todo = sub.todo \ {t}, !.wait = Len(req) + 1]
  BY DEF SendRelay
<1>3. /\ Len(req') = Len(req) + 1 /\ req'[Len(req) + 1] = q
      /\ \A j \in 1..Len(req) : req'[j] = req[j]
  BY <1>1, <1>2
<1>4. sub'.acc = sub.acc /\ sub'.remaining = sub.remaining /\ sub'.ordered = sub.ordered
  BY <1>1, <1>2 DEF Submission
<1>5. \A r \in Rcpts : q.results[r] = "none"
  BY DEF NoOutcome
<1> HIDE DEF q
<1>6. \A j \in 1..Len(req') : j \in 1..Len(req) \/ j = Len(req) + 1
  BY <1>1, <1>3
<1>7. ResultsOfRequest'
  BY <1>3, <1>5, <1>6 DEF JInv, ResultsOfRequest
<1>8. RefusalsGiven'
  <2>1. \A j \in 1..Len(req) : j \in 1..Len(req')
    BY <1>1, <1>3
  <2> QED
    BY <1>3, <1>4, <2>1 DEF JInv, RefusalsGiven
<1> QED
  BY <1>4, <1>7, <1>8 DEF JInv, RemainingUnserved, OrderedDone

\* The answer of a tunnel: what it leaves was not served before, and its
\* refusals are from now on in a request that is over.
LEMMA JustifiedReceive ==
    ASSUME JInv, IInv', ReceiveResult
    PROVE  JInv'
<1> DEFINE w == sub.wait  q == req[w]
<1>1. /\ sub \in Submission /\ req \in Seq(Request) /\ Len(req) \in Nat
      /\ w \in 1..Len(req) /\ q.rcpts = sub.remaining
  BY DEF JInv, IInv, TypeOK, ReceiveResult, AwaitedIsRemaining
<1>2. q \in Request
  BY <1>1
<1>3. q.results \in Outcomes /\ sub.acc \in Outcomes
  BY <1>1, <1>2 DEF Request, Submission
<1>4. req' = [req EXCEPT ![w] = [q EXCEPT !.open = FALSE]]
  BY <1>1 DEF ReceiveResult
<1>5. /\ sub'.remaining = Remaining(q.results) /\ sub'.acc = upsert_outcome(sub.acc, q.results)
      /\ sub'.ordered = sub.ordered
  BY <1>1 DEF ReceiveResult, Submission
<1>6. /\ Len(req') = Len(req) /\ \A j \in 1..Len(req) : j # w => req'[j] = req[j]
      /\ req'[w].rcpts = q.rcpts /\ req'[w].results = q.results /\ ~req'[w].open
  BY <1>1, <1>2, <1>4 DEF Request
<1> HIDE DEF w, q
<1>7. ResultsOfRequest'
  BY <1>1, <1>6 DEF JInv, ResultsOfRequest, q
<1>8. RemainingUnserved'
  <2> SUFFICES ASSUME NEW r \in sub'.remaining PROVE sub'.acc[r] # "delivered"
    BY DEF RemainingUnserved
  <2>1. r \in Rcpts /\ q.results[r] \in {"temp", "perm"}
    BY <1>5 DEF Remaining, NotDelivered, With
  <2>2. r \in sub.remaining
    BY <1>1, <2>1 DEF JInv, ResultsOfRequest, q
  <2>3. sub.acc[r] # "delivered"
    BY <2>2 DEF JInv, RemainingUnserved
  <2> QED
    BY <1>3, <1>5, <2>1, <2>3, UpsertFacts
<1>9. OrderedDone'
  BY <1>5 DEF OrderedDone, Remaining
<1>10. RefusalsGiven'
  <2> SUFFICES ASSUME NEW r \in Rcpts, sub'.acc[r] = "perm"
               PROVE  \E i \in 1..Len(req') : ~req'[i].open /\ req'[i].results[r] = "perm"
    BY DEF RefusalsGiven
  <2>1. sub.acc[r] = "perm" \/ q.results[r] = "perm"
    BY <1>3, <1>5, UpsertFacts
  <2>2. CASE q.results[r] = "perm"
    BY <1>1, <1>6, <2>2
  <2>3. CASE sub.acc[r] = "perm"
    <3>1. PICK i \in 1..Len(req) : ~req[i].open /\ req[i].results[r] = "perm"
      BY <2>3 DEF JInv, RefusalsGiven
    <3> QED
      BY <1>6, <3>1 DEF q
  <2> QED
    BY <2>1, <2>2, <2>3
<1> QED
  BY <1>7, <1>8, <1>9, <1>10 DEF JInv

LEMMA JustifiedEdge ==
    ASSUME JInv, IInv', EdgeStep
    PROVE  JInv'
<1>1. EdgeFrame
  BY EdgeChanges DEF JInv
<1>2. ResultsOfRequest'
  BY <1>1 DEF JInv, ResultsOfRequest, EdgeFrame
<1>3. RefusalsGiven'
  BY <1>1 DEF JInv, RefusalsGiven, EdgeFrame
<1> QED
  BY <1>1, <1>2, <1>3 DEF JInv, RemainingUnserved, OrderedDone, EdgeFrame

\* Every step has its reason, and keeps the invariant.
Justified ==
    /\ \A r \in Rcpts : (Len(req') > Len(req) /\ r \in req'[Len(req')].rcpts)
                          => sub.acc[r] # "delivered"
    /\ sub.ordered /\ Len(req') > Len(req) => sub.acc = NoOutcome
    /\ \A r \in Rcpts : (fate[r] # "bounced" /\ fate'[r] = "bounced")
                          => \A s \in sub.rcpts : \E i \in 1..Len(req) : req[i].results[s] = "perm"

LEMMA JustifiedQuiet ==
    ASSUME IInv, UNCHANGED fate, Len(req') = Len(req)
    PROVE  Justified
<1>1. Len(req) \in Nat
  BY DEF IInv, TypeOK
<1> QED
  BY <1>1 DEF Justified

LEMMA SendJustified ==
    ASSUME JInv, NEW t \in Tunnels, SendRelay(t)
    PROVE  Justified
<1>1. req \in Seq(Request) /\ UNCHANGED fate /\ sub.remaining # {}
  BY DEF JInv, IInv, TypeOK, SendRelay
<1>2. req'[Len(req')].rcpts = sub.remaining
  BY <1>1 DEF SendRelay
<1>3. \A r \in sub.remaining : sub.acc[r] # "delivered"
  BY DEF JInv, RemainingUnserved
<1>4. sub.ordered => sub.acc = NoOutcome
  BY <1>1 DEF JInv, OrderedDone
<1> QED
  BY <1>1, <1>2, <1>3, <1>4 DEF Justified

\* 554 needs a refusal of every recipient that has an outcome; and they all
\* have one once a tunnel has answered.
LEMMA ReplyJustified ==
    ASSUME JInv, Reply
    PROVE  Justified
<1> DEFINE code == IF sub.acc = NoOutcome THEN 421 ELSE map_outcomes(sub.acc)
<1>1. sub.acc \in Outcomes /\ sub.rcpts \in SUBSET Rcpts /\ Len(req) \in Nat
  BY DEF JInv, IInv, TypeOK, Submission
<1>2. Settle(code) /\ UNCHANGED req
  BY DEF Reply
<1>3. code = 554 => \A s \in sub.rcpts : sub.acc[s] = "perm"
  <2> SUFFICES ASSUME code = 554, NEW s \in sub.rcpts PROVE sub.acc[s] = "perm"
    OBVIOUS
  <2>1. sub.acc # NoOutcome /\ map_outcomes(sub.acc) = 554
    OBVIOUS
  <2>2. sub.acc[s] # "none"
    BY <2>1 DEF JInv, IInv, AccComplete
  <2>3. s \in Rcpts \ With(sub.acc, "none")
    BY <1>1, <2>2 DEF With
  <2>4. With(sub.acc, "perm") = Rcpts \ With(sub.acc, "none")
    BY <2>1, <2>3 DEF map_outcomes
  <2> QED
    BY <2>3, <2>4 DEF With
<1> HIDE DEF code
<1>4. ASSUME NEW r \in Rcpts, fate[r] # "bounced", fate'[r] = "bounced"
      PROVE  \A s \in sub.rcpts : \E i \in 1..Len(req) : req[i].results[s] = "perm"
  <2>1. code = 554
    BY <1>2, <1>4 DEF Settle
  <2> QED
    BY <1>1, <1>3, <2>1 DEF JInv, RefusalsGiven
<1> QED
  BY <1>1, <1>2, <1>4 DEF Justified

LEMMA JustifiedStep ==
    ASSUME JInv, [DeliveryNext]_deliveryVars
    PROVE  JInv' /\ Justified
<1>1. IInv /\ IInv'
  BY StepInv DEF JInv
<1>2. sub \in Submission
  BY <1>1 DEF IInv, TypeOK
<1>3. CASE UNCHANGED deliveryVars
  BY <1>1, <1>3, JustifiedFrame, JustifiedQuiet DEF deliveryVars
<1>4. CASE \E candidates \in SUBSET Tunnels, ordered \in BOOLEAN : Submit(candidates, ordered)
  <2>1. UNCHANGED <<fate, req>> /\ sub'.acc = NoOutcome
    BY <1>4 DEF Submit, Idle
  <2> QED
    BY <1>1, <2>1, JustifiedFresh, JustifiedQuiet
<1>5. CASE Reply
  <2>1. UNCHANGED req /\ sub'.acc = NoOutcome
    BY <1>5 DEF Reply, Idle
  <2> QED
    BY <1>1, <1>5, <2>1, JustifiedFresh, ReplyJustified
<1>6. CASE SidecarCrash
  <2>1. UNCHANGED <<fate, req>> /\ sub'.acc = NoOutcome
    BY <1>6 DEF SidecarCrash, Idle
  <2> QED
    BY <1>1, <2>1, JustifiedFresh, JustifiedQuiet
<1>7. CASE GiveUp \/ \E t \in Tunnels : TunnelError(t)
  <2>1. /\ UNCHANGED <<fate, req>> /\ sub'.acc = sub.acc /\ sub'.remaining = sub.remaining
        /\ sub'.ordered = sub.ordered
    BY <1>2, <1>7 DEF GiveUp, TunnelError, Submission
  <2> QED
    BY <1>1, <2>1, JustifiedFrame, JustifiedQuiet
<1>8. CASE ReceiveResult
  <2>1. UNCHANGED fate /\ Len(req') = Len(req)
    BY <1>1, <1>8 DEF ReceiveResult, IInv, TypeOK
  <2> QED
    BY <1>1, <1>8, <2>1, JustifiedReceive, JustifiedQuiet
<1>9. CASE \E t \in Tunnels : SendRelay(t)
  BY <1>1, <1>9, JustifiedSend, SendJustified
<1>10. CASE EdgeStep
  BY <1>1, <1>10, JustifiedEdge, EdgeChanges, JustifiedQuiet DEF EdgeFrame
<1> QED
  BY <1>3, <1>4, <1>5, <1>6, <1>7, <1>8, <1>9, <1>10 DEF DeliveryNext, SidecarStep

LEMMA JustifiedInit == DeliveryInit => JInv
<1> SUFFICES ASSUME DeliveryInit PROVE JInv
  OBVIOUS
<1>1. IInv /\ Len(req) = 0 /\ sub = Idle
  BY InitInv DEF DeliveryInit
<1> QED
  BY <1>1 DEF JInv, ResultsOfRequest, RemainingUnserved, OrderedDone, RefusalsGiven, Idle, NoOutcome

\* Under either policy, and however requests overlap: a tunnel is never asked
\* to serve a recipient that is served, an ordered submission asks nobody after
\* its first verdict, and a message bounces only when an MX refused each of
\* its recipients for good.
THEOREM AttemptsAlwaysJustified == DeliverySpec => AttemptsJustified
<1>1. JInv /\ [DeliveryNext]_deliveryVars => JInv'
  BY JustifiedStep
<1>2. JInv /\ [DeliveryNext]_deliveryVars => [Justified]_deliveryVars
  BY JustifiedStep
<1>3. DeliverySpec => [][Justified]_deliveryVars
  BY JustifiedInit, <1>1, <1>2, PTL DEF DeliverySpec
<1>4. [Justified]_deliveryVars
        => [\A r \in Rcpts : (Len(req') > Len(req) /\ r \in req'[Len(req')].rcpts)
                               => sub.acc[r] # "delivered"]_deliveryVars
  BY DEF Justified
<1>5. [Justified]_deliveryVars => [sub.ordered /\ Len(req') > Len(req) => sub.acc = NoOutcome]_deliveryVars
  BY DEF Justified
<1>6. [Justified]_deliveryVars
        => [\A r \in Rcpts : (fate[r] # "bounced" /\ fate'[r] = "bounced")
               => \A s \in sub.rcpts : \E i \in 1..Len(req) : req[i].results[s] = "perm"]_deliveryVars
  BY DEF Justified
<1> QED
  BY <1>3, <1>4, <1>5, <1>6, PTL
     DEF AttemptsJustified, OnlyFailedReattempted, VerdictIsFinal, BounceNeedsRefusal

=============================================================================
