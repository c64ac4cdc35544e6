---------------------------- MODULE AtLeastOnce ----------------------------
(***************************************************************************)
(* What a mail relay promises its submitter about one message: a recipient *)
(* reported as sent has received a copy; a recipient not yet reported may  *)
(* receive any number of copies; a report is final.                        *)
(***************************************************************************)
EXTENDS Naturals

CONSTANTS Rcpts

VARIABLES fate,     \* what the submitter was told: "queued", "sent", "bounced"
          copies    \* copies the destination accepted

Init == /\ fate = [r \in Rcpts |-> "queued"]
        /\ copies = [r \in Rcpts |-> 0]

\* Destinations take copies of the message for some of the recipients.
Copy(S) ==
    /\ copies' = [r \in Rcpts |-> IF r \in S THEN copies[r] + 1 ELSE copies[r]]
    /\ UNCHANGED fate

\* The submitter is told of recipients: sent only if a copy has arrived.
Report(S, f) ==
    /\ \A r \in S : fate[r] = "queued"
    /\ f = "sent" => \A r \in S : copies[r] > 0
    /\ fate' = [r \in Rcpts |-> IF r \in S THEN f ELSE fate[r]]
    /\ UNCHANGED copies

Next == \E S \in SUBSET Rcpts :
           Copy(S) \/ \E f \in {"sent", "bounced"} : Report(S, f)

Spec == Init /\ [][Next]_<<fate, copies>>
=============================================================================
