---------------------------- MODULE SendingLoops ----------------------------
(***************************************************************************)
(* The two loops of the backend that send mail on their own: the scheduler *)
(* of staged sends and that of warmup campaigns.  They share the process   *)
(* and no rows; a behaviour is about one of them ("loop").                 *)
(***************************************************************************)
EXTENDS StagedSend, Warmup

VARIABLE loop
vars == <<loop, stagedVars, warmupVars>>

Init == loop \in {"staged", "warmup"} /\ StagedInit /\ WarmupInit

Only(name) ==
    /\ loop = name /\ UNCHANGED loop
    /\ name # "staged" => UNCHANGED stagedVars
    /\ name # "warmup" => UNCHANGED warmupVars

Next ==
    \/ Only("staged") /\ StagedNext
    \/ Only("warmup") /\ WarmupNext

\* The scheduler's loop never ends, its awaits have timeouts, time passes, and the
\* sends in front are decided in the end, by the scheduler or by their callers.  The
\* loop of warmup is checked for safety.
Fairness ==
    /\ WF_vars(Only("staged") /\ SchedulerStep)
    /\ WF_vars(Only("staged") /\ Elapse)
    /\ WF_vars(Only("staged") /\ OthersLeave)

Spec == Init /\ [][Next]_vars /\ Fairness
=============================================================================
