------------------------------ MODULE EventBus ------------------------------
(***************************************************************************)
(* The in-process event bus and the SSE streams it feeds (backend/app/     *)
(* events).  publish puts an event in the queue of every subscriber that   *)
(* may see its mailbox, without waiting, prunes the subscribers whose      *)
(* queue is full, then awaits the listeners one after the other; several   *)
(* publishers are in that phase at once.                                   *)
(***************************************************************************)
EXTENDS Naturals, Sequences, FiniteSets, SequencesExt

CONSTANTS Clients, Mailboxes, Listeners,
          QueueSize,               \* maxsize of a subscriber's queue
          MaxEvents, MaxOpens      \* bounds

None == "-"

VARIABLES
    subscribers,     \* EventBus._subscribers: the registered clients
    allowed, queue,  \* of each client's subscription
    stream,          \* _event_generator: is it running, did it ever
    log,             \* history: the mailbox of every event published
    from, got,       \* history: the log when the stream opened, what the client received
    todo, called,    \* per event: listeners still to be awaited; history: those that ran
    opens

vars == <<subscribers, allowed, queue, stream, log, from, got, todo, called, opens>>

\* The events that a client may see, of those since its stream opened and up to the k-th.
Visible(c, k) == {e \in (from[c] + 1)..k : log[e] \in allowed[c]}

-----------------------------------------------------------------------------
\* A stream is opened with the mailboxes its user owns now.
event_stream(c) ==
    /\ stream[c] = "closed" /\ opens < MaxOpens /\ opens' = opens + 1
    /\ \E boxes \in SUBSET Mailboxes : allowed' = [allowed EXCEPT ![c] = boxes]
    /\ subscribers' = subscribers \cup {c}
    /\ queue' = [queue EXCEPT ![c] = <<>>] /\ stream' = [stream EXCEPT ![c] = "open"]
    /\ from' = [from EXCEPT ![c] = Len(log)] /\ got' = [got EXCEPT ![c] = <<>>]
    /\ UNCHANGED <<log, todo, called>>

\* _event_mailbox: None for an event without a mailbox.
MayReceive(c, box) == c \in subscribers /\ box # None /\ box \in allowed[c]

Full(c) == Len(queue[c]) >= QueueSize

\* Mutant: a subscriber whose queue is full stays registered.
PruneNone(stale) == subscribers
Prune(stale) == subscribers \ stale

\* The part of publish before its first await.
publish(box) ==
    LET e == Len(log) + 1
        to == {c \in Clients : MayReceive(c, box)}
    IN /\ Len(log) < MaxEvents
       /\ log' = Append(log, box)
       /\ queue' = [c \in Clients |-> IF c \in to /\ ~Full(c) THEN Append(queue[c], e) ELSE queue[c]]
       /\ subscribers' = Prune({c \in to : Full(c)})
       /\ todo' = Append(todo, SetToSeq(Listeners)) /\ called' = Append(called, {})
       /\ UNCHANGED <<allowed, stream, from, got, opens>>

\* A listener returns or raises; what it raises is logged and goes no further.
Continue(e) == Tail(todo[e])

Listen(e) ==
    /\ todo[e] # <<>>
    /\ called' = [called EXCEPT ![e] = @ \cup {Head(todo[e])}]
    /\ todo' = [todo EXCEPT ![e] = Continue(e)]
    /\ UNCHANGED <<subscribers, allowed, queue, stream, log, from, got, opens>>

\* The generator hands the next event to its client; without one it only
\* sends heartbeats, registered or not.
Yield(c) ==
    /\ stream[c] = "open" /\ queue[c] # <<>>
    /\ got' = [got EXCEPT ![c] = Append(@, Head(queue[c]))]
    /\ queue' = [queue EXCEPT ![c] = Tail(@)]
    /\ UNCHANGED <<subscribers, allowed, stream, log, from, todo, called, opens>>

unsubscribe(c) ==
    /\ stream[c] = "open" /\ stream' = [stream EXCEPT ![c] = "closed"]
    /\ subscribers' = subscribers \ {c}
    /\ UNCHANGED <<allowed, queue, log, from, got, todo, called, opens>>

Init ==
    /\ subscribers = {} /\ allowed = [c \in Clients |-> {}]
    /\ queue = [c \in Clients |-> <<>>] /\ stream = [c \in Clients |-> "closed"]
    /\ log = <<>> /\ from = [c \in Clients |-> 0] /\ got = [c \in Clients |-> <<>>]
    /\ todo = <<>> /\ called = <<>> /\ opens = 0

Next ==
    \/ \E c \in Clients : event_stream(c) \/ Yield(c) \/ unsubscribe(c)
    \/ \E box \in Mailboxes \cup {None} : publish(box)
    \/ \E e \in DOMAIN todo : Listen(e)

Spec == Init /\ [][Next]_vars

-----------------------------------------------------------------------------
(* Properties.                                                             *)

\* bus.py:52: a queue never holds more than its size, and a subscription
\* belongs to a stream that is open.
TypeOK ==
    /\ subscribers \subseteq {c \in Clients : stream[c] = "open"}
    /\ \A c \in Clients : Len(queue[c]) <= QueueSize
    /\ \A e \in DOMAIN todo : \A i \in DOMAIN todo[e] : todo[e][i] \notin called[e]

\* bus.py:86-97: what a stream has delivered and holds is, in order and with
\* no gap, what was published since it was opened for its mailboxes; all of it
\* while the client is registered, a beginning of it once it was pruned.
NoGap ==
    \A c \in Clients : stream[c] = "open" =>
        LET seen == got[c] \o queue[c]
        IN /\ \A i, j \in DOMAIN seen : i < j => seen[i] < seen[j]
           /\ \E k \in from[c]..Len(log) : Range(seen) = Visible(c, k) /\ (c \in subscribers => k = Len(log))

\* bus.py:100-106: a listener that raises does not keep the event from the
\* others: an event whose publish has returned was given to every listener.
EveryListenerCalled == \A e \in DOMAIN todo : todo[e] = <<>> => called[e] = Listeners
=============================================================================
