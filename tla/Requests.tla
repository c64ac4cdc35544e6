------------------------------ MODULE Requests ------------------------------
(***************************************************************************)
(* HTTP requests of the backend.  One process serves them with coroutines: *)
(* a handler runs from one await to the next, so each step of a request is *)
(* atomic and other requests run in between.  "part" is the interface that *)
(* a behaviour exercises.                                                  *)
(***************************************************************************)
EXTENDS Naturals, Sequences, FiniteSets

CONSTANT Slots      \* requests that may be in flight together

VARIABLES
    part,        \* the interface
    req,         \* requests in flight
    budget,      \* bound: requests still to come
    overlap      \* history: two requests were in flight together

requestVars == <<part, req, budget, overlap>>

Idle == [op |-> "idle"]
At(s, op) == req[s].op = op
Quiet == \A s \in Slots : req[s] = Idle

RequestsInit(name, n) ==
    /\ part = name /\ budget = n /\ overlap = FALSE
    /\ req = [s \in Slots |-> Idle]

Begin(s, r) ==
    /\ req[s] = Idle /\ budget > 0
    /\ budget' = budget - 1 /\ req' = [req EXCEPT ![s] = r]
    /\ overlap' = (overlap \/ \E t \in Slots : req[t] # Idle)
    /\ UNCHANGED part

Goto(s, r) == req' = [req EXCEPT ![s] = r] /\ UNCHANGED <<part, budget, overlap>>
Step(s, op) == Goto(s, [req[s] EXCEPT !.op = op])
End(s) == Goto(s, Idle)

\* A request that one step serves.
Serve == /\ budget > 0 /\ budget' = budget - 1 /\ UNCHANGED <<part, req, overlap>>
=============================================================================
