----------------------------- MODULE EdgeServer -----------------------------
(***************************************************************************)
(* The edge's connections (serve and handle_connection in edge/src/main.rs)*)
(* A connection is one task: handshake, allow-list, Hello, then one frame  *)
(* at a time.  Relays and probes of one client key share a semaphore.      *)
(* Shutdown drains for a while and then aborts what is left.               *)
(***************************************************************************)
EXTENDS Naturals, Sequences, FiniteSets, SequencesExt

CONSTANTS Keys,         \* client public keys
          Conns,        \* connections over the life of the process, numbered as they come
          PerClient,    \* per_client_concurrency, as configured
          MaxEdits      \* bound: edits of authorized_clients

VARIABLES
    allow,     \* authorized_clients on disk
    conn,      \* task per connection
    free,      \* permits left per key with a semaphore; 0 entries: none yet
    queue,     \* tasks waiting for a permit of the key, in order
    phase,     \* "serving", "draining", "stopped"
    edits

vars == <<allow, conn, free, queue, phase, edits>>

Permits == IF PerClient > 1 THEN PerClient ELSE 1
States  == {"new", "handshake", "hello", "ready", "waiting", "working", "closed"}
NoSemaphore == Permits + 1

Task == [st : States, key : Keys]
Live(c) == conn[c].st \notin {"new", "closed"}
With(st) == {c \in Conns : conn[c].st = st}
Closed(task) == [task EXCEPT !.st = "closed"]
Set(c, st) == conn' = [conn EXCEPT ![c].st = st]

-----------------------------------------------------------------------------
(* The accept loop.                                                        *)

Accept(c, k) ==
    /\ phase = "serving" /\ conn[c].st = "new" /\ \A d \in Conns : conn[d].st = "new" => c <= d
    /\ conn' = [conn EXCEPT ![c] = [st |-> "handshake", key |-> k]]
    /\ UNCHANGED <<allow, free, queue, phase, edits>>

Shutdown ==
    /\ phase = "serving"
    /\ phase' = "draining"
    /\ UNCHANGED <<allow, conn, free, queue, edits>>

\* All connection tasks have ended within the drain window.
Drained ==
    /\ phase = "draining" /\ \A c \in Conns : ~Live(c)
    /\ phase' = "stopped"
    /\ UNCHANGED <<allow, conn, free, queue, edits>>

\* The window is over: JoinSet::shutdown drops every task, and with it its permit.
Abort ==
    /\ phase = "draining" /\ \E c \in Conns : Live(c)
    /\ conn' = [c \in Conns |-> IF Live(c) THEN Closed(conn[c]) ELSE conn[c]]
    /\ free' = [k \in Keys |-> IF free[k] = NoSemaphore THEN free[k] ELSE Permits]
    /\ queue' = [k \in Keys |-> <<>>]
    /\ phase' = "stopped"
    /\ UNCHANGED <<allow, edits>>

-----------------------------------------------------------------------------
(* One connection.                                                         *)

\* Handshake or read failed, timed out, hit the end of the stream, or the
\* client broke the protocol: the task ends.
Leave(c) ==
    /\ conn[c].st \in {"handshake", "hello", "ready"}
    /\ Set(c, "closed")
    /\ UNCHANGED <<allow, free, queue, phase, edits>>

\* The allow-list is read anew on every handshake; an unreadable file is an
\* empty list (Leave).  The semaphore of the key is created on first use.
Authorize(c) ==
    /\ conn[c].st = "handshake"
    /\ LET k == conn[c].key
       IN  IF k \in allow
           THEN /\ Set(c, "hello")
                /\ free' = [free EXCEPT ![k] = IF @ = NoSemaphore THEN Permits ELSE @]
           ELSE Set(c, "closed") /\ UNCHANGED free
    /\ UNCHANGED <<allow, queue, phase, edits>>

Hello(c) ==
    /\ conn[c].st = "hello"
    /\ Set(c, "ready")
    /\ UNCHANGED <<allow, free, queue, phase, edits>>

\* A Relay or Probe frame is read: take a permit or wait for one.  A Ping is
\* answered without one and changes nothing.  From here to the reply the task
\* does not watch its socket: a client that gives up is not noticed.
Request(c) ==
    /\ conn[c].st = "ready"
    /\ LET k == conn[c].key
       IN  IF free[k] > 0 /\ queue[k] = <<>>
           THEN Set(c, "working") /\ free' = [free EXCEPT ![k] = @ - 1] /\ UNCHANGED queue
           ELSE Set(c, "waiting") /\ queue' = [queue EXCEPT ![k] = Append(@, c)] /\ UNCHANGED free
    /\ UNCHANGED <<allow, phase, edits>>

\* Mutant: a permit goes to any waiting task, not to the first.
GrantAny(c) ==
    /\ conn[c].st = "waiting" /\ free[conn[c].key] > 0
    /\ Set(c, "working")
    /\ free' = [free EXCEPT ![conn[c].key] = @ - 1]
    /\ queue' = [queue EXCEPT ![conn[c].key] = SelectSeq(@, LAMBDA d : d # c)]
    /\ UNCHANGED <<allow, phase, edits>>

\* The semaphore serves its waiters in order.
Grant(c) ==
    /\ conn[c].st = "waiting" /\ free[conn[c].key] > 0
    /\ Head(queue[conn[c].key]) = c
    /\ Set(c, "working")
    /\ free' = [free EXCEPT ![conn[c].key] = @ - 1]
    /\ queue' = [queue EXCEPT ![conn[c].key] = Tail(@)]
    /\ UNCHANGED <<allow, phase, edits>>

\* handle_relay or handle_probe returns; the reply is written, or cannot be,
\* or a rejected request ends the connection.  The permit is dropped.
Complete(c, stays) ==
    /\ conn[c].st = "working"
    /\ Set(c, IF stays THEN "ready" ELSE "closed")
    /\ free' = [free EXCEPT ![conn[c].key] = @ + 1]
    /\ UNCHANGED <<allow, queue, phase, edits>>

-----------------------------------------------------------------------------
(* Environment.                                                            *)

EditAllow(new) ==
    /\ edits < MaxEdits /\ new # allow
    /\ allow' = new /\ edits' = edits + 1
    /\ UNCHANGED <<conn, free, queue, phase>>

Init ==
    /\ allow = Keys /\ edits = 0 /\ phase = "serving"
    /\ conn = [c \in Conns |-> [st |-> "new", key |-> CHOOSE k \in Keys : TRUE]]
    /\ free = [k \in Keys |-> NoSemaphore] /\ queue = [k \in Keys |-> <<>>]

TaskStep(c) == Authorize(c) \/ Hello(c) \/ Request(c) \/ Grant(c)
               \/ \E stays \in BOOLEAN : Complete(c, stays)

Next ==
    \/ Shutdown \/ Drained \/ Abort
    \/ \E new \in SUBSET Keys : EditAllow(new)
    \/ \E c \in Conns : TaskStep(c) \/ Leave(c)
    \/ \E c \in Conns, k \in Keys : Accept(c, k)

Spec == Init /\ [][Next]_vars

-----------------------------------------------------------------------------
\* Types, and the bookkeeping of the semaphores: a task that waits for a permit
\* is queued exactly once, at the key it came with, and nobody else is.
TypeOK ==
    /\ allow \subseteq Keys /\ conn \in [Conns -> Task]
    /\ free \in [Keys -> 0..NoSemaphore] /\ queue \in [Keys -> Seq(Conns)]
    /\ phase \in {"serving", "draining", "stopped"} /\ edits \in 0..MaxEdits
    /\ \A k \in Keys : /\ ToSet(queue[k]) = {c \in With("waiting") : conn[c].key = k}
                       /\ Len(queue[k]) = Cardinality(ToSet(queue[k]))

\* Over all of its connections a client never has more requests under way than
\* it is allowed, and permits are neither lost nor multiplied, whichever way a
\* task ends.
PermitsConserved ==
    \A k \in Keys :
        LET busy == Cardinality({c \in With("working") : conn[c].key = k})
        IN  IF free[k] = NoSemaphore THEN busy = 0 ELSE free[k] + busy = Permits

\* Past(k): the connections of key k that are past the allow-list.
Past(k) == {c \in Conns : Live(c) /\ conn[c].st # "handshake" /\ conn[c].key = k}

\* While a key is off authorized_clients its connections only get fewer: those
\* it had go on, and no new one gets past the handshake, although the key has
\* a semaphore from before.
RevocationTakesEffect == [][\A k \in Keys : k \notin allow => Past(k)' \subseteq Past(k)]_vars

\* A request that waits for a permit gets one, or the edge stops.
WaitersServed == \A c \in Conns : conn[c].st = "waiting" ~> conn[c].st # "waiting"

\* A shutdown completes although clients keep their connections open, and
\* leaves no task behind.
ShutdownCompletes == phase = "draining" ~> (phase = "stopped" /\ \A c \in Conns : ~Live(c))
=============================================================================
