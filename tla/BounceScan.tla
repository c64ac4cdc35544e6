----------------------------- MODULE BounceScan -----------------------------
(***************************************************************************)
(* The bounce scanner (backend/app/emails/bounce_scanner.py) on one        *)
(* mailbox: it lists the newest page of INBOX, fetches the notifications   *)
(* above the last UID it remembers, records what they say, and remembers   *)
(* the highest UID it listed.  Mail arrives and is deleted meanwhile, and  *)
(* the folder may be recreated with UIDs from 1.                           *)
(***************************************************************************)
EXTENDS Naturals, Sequences, FiniteSets, FiniteSetsExt, SequencesExt

CONSTANTS Page,                  \* _MAX_MESSAGES_PER_MAILBOX
          MaxMsgs, MaxFaults   \* bounds

VARIABLES
    uid, dsn,            \* of every message that ever arrived: its UID, is it a notification
    present, nextUid,    \* the messages in the folder now; the folder's next UID
    last,                \* MailboxBounceScan.last_uid, 0 without a row
    scan,                \* _scan_mailbox
    recorded,            \* history: how often each message's outcome was recorded
    overflow,            \* history: a listing left new messages out
    fails, fetchFails, crashes, recreates

folder == <<uid, dsn, present, nextUid>>
counters == <<fails, fetchFails, crashes, recreates>>
vars == <<folder, last, scan, recorded, overflow, counters>>

Msgs == 1..Len(uid)
MoreFaults == fails + fetchFails + crashes + recreates < MaxFaults
Idle == [at |-> "idle", todo |-> <<>>, highest |-> 0]
Newest(n) == {m \in present : Cardinality({k \in present : uid[k] > uid[m]}) < n}

-----------------------------------------------------------------------------
(* The scanner.                                                            *)

New(u) == u > last

\* One page of the folder, newest first; the candidates are the notifications.
List ==
    LET listed == Newest(Page)
        found == {uid[m] : m \in {k \in listed : New(uid[k]) /\ dsn[k]}}
    IN /\ scan.at = "idle"
       /\ scan' = [at |-> "fetch", highest |-> Max({last} \cup {uid[m] : m \in listed}),
                   todo |-> SetToSortSeq(found, LAMBDA a, b : a > b)]
       /\ overflow' = (overflow \/ \E m \in present \ listed : uid[m] > last)
       /\ UNCHANGED <<folder, last, recorded, counters>>

\* The message that has the UID now, if any, is fetched, parsed and recorded.
Record ==
    /\ scan.at = "fetch" /\ scan.todo # <<>>
    /\ scan' = [scan EXCEPT !.todo = Tail(@)]
    /\ recorded' = [m \in Msgs |-> recorded[m] +
                       (IF m \in present /\ uid[m] = Head(scan.todo) /\ dsn[m] THEN 1 ELSE 0)]
    /\ UNCHANGED <<overflow, folder, last, counters>>

FetchFails ==
    /\ scan.at = "fetch" /\ scan.todo # <<>> /\ MoreFaults
    /\ scan' = [scan EXCEPT !.todo = Tail(@)]
    /\ fetchFails' = fetchFails + 1
    /\ UNCHANGED <<overflow, folder, last, recorded, fails, crashes, recreates>>

\* The database raises: scan_once logs it and goes to the next mailbox.
RecordFails ==
    /\ scan.at = "fetch" /\ scan.todo # <<>> /\ MoreFaults
    /\ scan' = Idle /\ fails' = fails + 1
    /\ UNCHANGED <<overflow, folder, last, recorded, fetchFails, crashes, recreates>>

\* Mutant: the folder's highest UID is remembered, not the listing's.
RememberNow ==
    /\ scan.at = "fetch" /\ scan.todo = <<>>
    /\ last' = Max({last, nextUid - 1}) /\ scan' = Idle
    /\ UNCHANGED <<overflow, folder, recorded, counters>>

Remember ==
    /\ scan.at = "fetch" /\ scan.todo = <<>>
    /\ last' = scan.highest /\ scan' = Idle
    /\ UNCHANGED <<overflow, folder, recorded, counters>>

-----------------------------------------------------------------------------
(* The mailbox, and the process.                                           *)

Arrive ==
    /\ Len(uid) < MaxMsgs
    /\ \E n \in BOOLEAN : dsn' = Append(dsn, n)
    /\ uid' = Append(uid, nextUid) /\ nextUid' = nextUid + 1
    /\ present' = present \cup {Len(uid) + 1}
    /\ recorded' = Append(recorded, 0)
    /\ UNCHANGED <<overflow, last, scan, counters>>

Delete ==
    /\ \E m \in present : present' = present \ {m}
    /\ UNCHANGED <<overflow, uid, dsn, nextUid, last, scan, recorded, counters>>

Recreate ==
    /\ MoreFaults /\ recreates' = recreates + 1
    /\ present' = {} /\ nextUid' = 1
    /\ UNCHANGED <<overflow, uid, dsn, last, scan, recorded, fails, fetchFails, crashes>>

Crash ==
    /\ MoreFaults /\ crashes' = crashes + 1
    /\ scan' = Idle
    /\ UNCHANGED <<overflow, folder, last, recorded, fails, fetchFails, recreates>>

Init ==
    /\ uid = <<>> /\ dsn = <<>> /\ present = {} /\ nextUid = 1
    /\ last = 0 /\ scan = Idle /\ recorded = <<>> /\ overflow = FALSE
    /\ fails = 0 /\ fetchFails = 0 /\ crashes = 0 /\ recreates = 0

Scan == List \/ Record \/ Remember
Next == Scan \/ FetchFails \/ RecordFails \/ Arrive \/ Delete \/ Recreate \/ Crash

Spec == Init /\ [][Next]_vars

-----------------------------------------------------------------------------
(* Properties.                                                             *)

\* The folder and the scan agree: UIDs are unique in the folder, and a scan
\* never looks below what it remembers.
TypeOK ==
    /\ dsn \in [Msgs -> BOOLEAN] /\ recorded \in [Msgs -> Nat]
    /\ present \subseteq Msgs /\ last \in Nat
    /\ \A m, k \in present : uid[m] = uid[k] => m = k
    /\ \A m \in present : uid[m] < nextUid
    /\ scan.at = "fetch" => scan.highest >= last /\ \A i \in DOMAIN scan.todo : scan.todo[i] > last

\* bounce_scanner.py:126: an outcome is counted once, and once more for each
\* crash or error between recording it and remembering its UID.
RecordedOnce == \A m \in Msgs : recorded[m] <= 1 + crashes + fails

\* What the scanner relies on: no more new mail than a page between two scans,
\* messages that can be fetched, and a folder that keeps its UIDs.
Intact == ~overflow /\ fetchFails = 0 /\ recreates = 0

\* validation_router.py:135: bounces are "ingested automatically".  A
\* notification is recorded in the end, unless somebody deletes it.
EveryBounceRead ==
    \A m \in 1..MaxMsgs :
        (m \in present /\ dsn[m]) ~> (m \notin present \/ recorded[m] > 0 \/ ~Intact)
=============================================================================
