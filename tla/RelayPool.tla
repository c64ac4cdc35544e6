------------------------------ MODULE RelayPool ------------------------------
(***************************************************************************)
(* The sidecar's shared connection pool: tunnel/crates/sidecar/src/pool.rs *)
(* with the two background tasks of main.rs that work on it (the keepalive *)
(* loop and the reload task) and the relay/probe tasks that lease          *)
(* connections from it.                                                    *)
(*                                                                         *)
(* The pool is one mutex-protected map from tunnel id to slot.  Every      *)
(* critical section of that mutex is one action; between two critical      *)
(* sections any other task may run.  A tunnel that is not a key of the map *)
(* (not in "known") has a default slot here, so entry(..).or_default() is  *)
(* "add the key, then use the slot".                                       *)
(***************************************************************************)
EXTENDS Naturals, Sequences, FiniteSets

CONSTANTS Tunnels,      \* tunnel ids that tunnels.json may ever hold
          NoTunnel,     \* not a tunnel: a task that works on none
          Workers,      \* relay and probe tasks
          Views,        \* the contents tunnels.json takes: [Tunnels -> Listing]
          IdleCap,      \* pool_idle_per_tunnel
          Threshold,    \* unhealthy_after_consecutive_failures
          CounterMax,   \* where the saturating failure counter stops (u32::MAX)
          MaxFaults     \* bound: outages and connection losses per behaviour

Listing == {"absent", "disabled", "enabled"}

\* config.rs clamps both limits with max(1).
ASSUME PoolAssumption ==
    /\ IsFiniteSet(Workers)
    /\ NoTunnel \notin Tunnels
    /\ Views # {} /\ Views \subseteq [Tunnels -> Listing]
    /\ IdleCap \in Nat \ {0}
    /\ Threshold \in Nat \ {0}
    /\ CounterMax \in Nat /\ CounterMax >= Threshold
    /\ MaxFaults \in Nat

VARIABLES
    view,      \* the registry's current view of tunnels.json
    dirty,     \* the watch channel holds a version the reload task has not seen
    known,     \* keys of Pool.inner
    pool,      \* Pool.inner: tunnel -> slot
    wk,        \* relay and probe tasks
    ka,        \* the keepalive task
    rl,        \* the reload task
    up,        \* environment: the tunnel's edge accepts connections
    faults     \* environment: faults so far

vars == <<view, dirty, known, pool, wk, ka, rl, up, faults>>

Conn == {"live", "dead"}
Slot == [idle : Seq(Conn), healthy : BOOLEAN, fails : 0..CounterMax, inflight : Nat]
DefaultSlot == [idle |-> <<>>, healthy |-> TRUE, fails |-> 0, inflight |-> 0]

Worker == [pc   : {"rest", "view", "cand", "lease", "open", "mark", "holding"},
           cand : SUBSET Tunnels,
           tun  : Tunnels \cup {NoTunnel},
           conn : Conn]
AtRest == [pc |-> "rest", cand |-> {}, tun |-> NoTunnel, conn |-> "live"]

Keepalive == [pc   : {"sleep", "loop", "ping"},
              todo : SUBSET Tunnels,
              tun  : Tunnels \cup {NoTunnel},
              conn : Conn]
Asleep == [pc |-> "sleep", todo |-> {}, tun |-> NoTunnel, conn |-> "live"]

Reload == [pc : {"wait", "snap", "retain", "ensure"}, ids : SUBSET Tunnels]

Listed(v)  == {t \in Tunnels : v[t] # "absent"}
Enabled(v) == {t \in Tunnels : v[t] = "enabled"}

-----------------------------------------------------------------------------
(* What a critical section does to one slot.                               *)

\* A success resets the failure streak and the health bit.
Succeed(s) == [s EXCEPT !.healthy = TRUE, !.fails = 0]

\* Mutant: ">" instead of ">=" at the threshold.
FailLate(s) ==
    LET f == IF s.fails < CounterMax THEN s.fails + 1 ELSE CounterMax
    IN  [s EXCEPT !.fails = f,
                  !.healthy = IF f > Threshold THEN FALSE ELSE s.healthy]

\* A failure extends the streak; at the threshold the tunnel is unhealthy.
Fail(s) ==
    LET f == IF s.fails < CounterMax THEN s.fails + 1 ELSE CounterMax
    IN  [s EXCEPT !.fails = f,
                  !.healthy = IF f >= Threshold THEN FALSE ELSE s.healthy]

\* Mutant: decrement without the "> 0" test.
UnmarkUnguarded(s) == [s EXCEPT !.inflight = s.inflight - 1]

Unmark(s) == [s EXCEPT !.inflight = IF s.inflight > 0 THEN s.inflight - 1 ELSE 0]

\* The connection goes back to the queue unless the queue is full.
GiveBack(s, c) ==
    IF Len(s.idle) < IdleCap THEN [s EXCEPT !.idle = Append(s.idle, c)] ELSE s

ReleaseSlot(s, c) == GiveBack(Unmark(Succeed(s)), c)

\* Mutant: discard forgets the in-flight gauge.
DiscardSlotStillMarked(s) == Fail(s)

DiscardSlot(s)    == Unmark(Fail(s))

\* g.entry(t).or_default() followed by an update of the slot.
Entry(t, s) ==
    /\ known' = known \cup {t}
    /\ pool' = [pool EXCEPT ![t] = s]

-----------------------------------------------------------------------------
(* Relay and probe tasks.                                                  *)

\* registry.snapshot(): the enabled tunnels of the view at this instant.
SnapshotView(w) ==
    /\ wk[w].pc = "rest"
    /\ wk' = [wk EXCEPT ![w] = [AtRest EXCEPT !.pc = "view", !.cand = Enabled(view)]]
    /\ UNCHANGED <<view, dirty, known, pool, ka, rl, up, faults>>

\* pool.healthy_ids() and the selector's filter; no candidate means 421.
healthy_ids == {t \in known : pool[t].healthy}

PickCandidates(w) ==
    /\ wk[w].pc = "view"
    /\ LET c == wk[w].cand \cap healthy_ids
       IN  wk' = [wk EXCEPT ![w] =
                    IF c = {} THEN AtRest
                    ELSE [AtRest EXCEPT !.pc = "cand", !.cand = c]]
    /\ UNCHANGED <<view, dirty, known, pool, ka, rl, up, faults>>

\* The next candidate.  The selector's order does not matter to the pool.
TryTunnel(w, t) ==
    /\ wk[w].pc = "cand"
    /\ t \in wk[w].cand
    /\ wk' = [wk EXCEPT ![w] = [AtRest EXCEPT !.pc = "lease",
                                              !.cand = wk[w].cand \ {t},
                                              !.tun = t]]
    /\ UNCHANGED <<view, dirty, known, pool, ka, rl, up, faults>>

\* Pool::lease pops the oldest idle connection.  One that has been idle too
\* long is dropped and the loop goes on; an empty queue means opening one.
LeasePop(w, expired) ==
    /\ wk[w].pc = "lease"
    /\ LET t == wk[w].tun
           s == pool[t]
       IN  IF s.idle = <<>>
           THEN /\ ~expired
                /\ Entry(t, s)
                /\ wk' = [wk EXCEPT ![w].pc = "open"]
           ELSE /\ Entry(t, [s EXCEPT !.idle = Tail(s.idle)])
                /\ wk' = [wk EXCEPT ![w] =
                            IF expired THEN @
                            ELSE [@ EXCEPT !.pc = "mark", !.conn = Head(s.idle)]]
    /\ UNCHANGED <<view, dirty, ka, rl, up, faults>>

\* After an attempt the task goes on with its other candidates, or is done
\* (every recipient settled, or a probe task, which tries one tunnel only).
EndAttempt(w, done) ==
    wk' = [wk EXCEPT ![w] = IF done \/ wk[w].cand = {} THEN AtRest
                            ELSE [AtRest EXCEPT !.pc = "cand", !.cand = wk[w].cand]]

\* Pool::open: connect, Noise handshake, Hello and HelloAck all succeeded.
OpenOk(w) ==
    /\ wk[w].pc = "open"
    /\ up[wk[w].tun]
    /\ Entry(wk[w].tun, Succeed(pool[wk[w].tun]))
    /\ wk' = [wk EXCEPT ![w].pc = "mark", ![w].conn = "live"]
    /\ UNCHANGED <<view, dirty, ka, rl, up, faults>>

\* Every failure of open that calls note_open_failure.
OpenFail(w, done) ==
    /\ wk[w].pc = "open"
    /\ Entry(wk[w].tun, Fail(pool[wk[w].tun]))
    /\ EndAttempt(w, done)
    /\ UNCHANGED <<view, dirty, ka, rl, up, faults>>

\* No HelloAck in time, or a probe's lease timeout cancels open: not counted.
OpenUncounted(w, done) ==
    /\ wk[w].pc = "open"
    /\ EndAttempt(w, done)
    /\ UNCHANGED <<view, dirty, known, pool, ka, rl, up, faults>>

\* mark_inflight(id, true), a critical section of its own.
MarkInflight(w) ==
    /\ wk[w].pc = "mark"
    /\ LET t == wk[w].tun
       IN  Entry(t, [pool[t] EXCEPT !.inflight = pool[t].inflight + 1])
    /\ wk' = [wk EXCEPT ![w].pc = "holding"]
    /\ UNCHANGED <<view, dirty, ka, rl, up, faults>>

\* The exchange on the leased connection succeeded: Pool::release.
Release(w, done) ==
    /\ wk[w].pc = "holding"
    /\ wk[w].conn = "live"
    /\ Entry(wk[w].tun, ReleaseSlot(pool[wk[w].tun], wk[w].conn))
    /\ EndAttempt(w, done)
    /\ UNCHANGED <<view, dirty, ka, rl, up, faults>>

\* It failed (a dead peer, a timeout, an Error or unexpected frame).
Discard(w, done) ==
    /\ wk[w].pc = "holding"
    /\ Entry(wk[w].tun, DiscardSlot(pool[wk[w].tun]))
    /\ EndAttempt(w, done)
    /\ UNCHANGED <<view, dirty, ka, rl, up, faults>>

-----------------------------------------------------------------------------
(* Pool::keepalive_loop: one idle connection per tunnel and round.         *)

KeepaliveCollect ==
    /\ ka.pc = "sleep"
    /\ ka' = [Asleep EXCEPT !.pc = "loop", !.todo = {t \in known : pool[t].idle # <<>>}]
    /\ UNCHANGED <<view, dirty, known, pool, wk, rl, up, faults>>

KeepaliveSleep ==
    /\ ka.pc = "loop"
    /\ ka.todo = {}
    /\ ka' = Asleep
    /\ UNCHANGED <<view, dirty, known, pool, wk, rl, up, faults>>

\* Mutant: the newest connection is pinged, so that an old dead one stays behind
\* a live one that is pinged and given back for ever.
KeepalivePopNewest(t) ==
    /\ ka.pc = "loop"
    /\ t \in ka.todo
    /\ LET s == pool[t]
           n == Len(s.idle)
       IN  IF s.idle = <<>>
           THEN /\ Entry(t, s)
                /\ ka' = [ka EXCEPT !.todo = ka.todo \ {t}]
           ELSE /\ Entry(t, [s EXCEPT !.idle = SubSeq(s.idle, 1, n - 1)])
                /\ ka' = [ka EXCEPT !.pc = "ping", !.todo = ka.todo \ {t},
                                    !.tun = t, !.conn = s.idle[n]]
    /\ UNCHANGED <<view, dirty, wk, rl, up, faults>>

\* The oldest idle connection is taken, as by a lease; an empty queue is skipped.
KeepalivePop(t) ==
    /\ ka.pc = "loop"
    /\ t \in ka.todo
    /\ LET s == pool[t]
       IN  IF s.idle = <<>>
           THEN /\ Entry(t, s)
                /\ ka' = [ka EXCEPT !.todo = ka.todo \ {t}]
           ELSE /\ Entry(t, [s EXCEPT !.idle = Tail(s.idle)])
                /\ ka' = [ka EXCEPT !.pc = "ping", !.todo = ka.todo \ {t},
                                    !.tun = t, !.conn = Head(s.idle)]
    /\ UNCHANGED <<view, dirty, wk, rl, up, faults>>

\* The Pong came back: release, as for a relay.
KeepalivePong ==
    /\ ka.pc = "ping"
    /\ ka.conn = "live"
    /\ Entry(ka.tun, ReleaseSlot(pool[ka.tun], ka.conn))
    /\ ka' = [Asleep EXCEPT !.pc = "loop", !.todo = ka.todo]
    /\ UNCHANGED <<view, dirty, wk, rl, up, faults>>

\* No Pong: discard, as for a relay.
KeepaliveFail ==
    /\ ka.pc = "ping"
    /\ Entry(ka.tun, DiscardSlot(pool[ka.tun]))
    /\ ka' = [Asleep EXCEPT !.pc = "loop", !.todo = ka.todo]
    /\ UNCHANGED <<view, dirty, wk, rl, up, faults>>

-----------------------------------------------------------------------------
(* The registry and the reload task of main.rs.                            *)

\* The watcher parsed tunnels.json, changed or only touched: TunnelRegistry::set.
SetView(v) ==
    /\ view' = v
    /\ dirty' = TRUE
    /\ UNCHANGED <<known, pool, wk, ka, rl, up, faults>>

ReloadChanged ==
    /\ rl.pc = "wait"
    /\ dirty
    /\ dirty' = FALSE
    /\ rl' = [rl EXCEPT !.pc = "snap"]
    /\ UNCHANGED <<view, known, pool, wk, ka, up, faults>>

ReloadSnapshot ==
    /\ rl.pc = "snap"
    /\ rl' = [pc |-> "retain", ids |-> Listed(view)]
    /\ UNCHANGED <<view, dirty, known, pool, wk, ka, up, faults>>

\* Pool::retain drops the slots, and the idle connections, of other tunnels.
Retain ==
    /\ rl.pc = "retain"
    /\ known' = known \cap rl.ids
    /\ pool' = [t \in Tunnels |-> IF t \in rl.ids THEN pool[t] ELSE DefaultSlot]
    /\ rl' = [rl EXCEPT !.pc = "ensure"]
    /\ UNCHANGED <<view, dirty, wk, ka, up, faults>>

Ensure(t) ==
    /\ rl.pc = "ensure"
    /\ t \in rl.ids
    /\ Entry(t, pool[t])
    /\ rl' = [rl EXCEPT !.ids = rl.ids \ {t}]
    /\ UNCHANGED <<view, dirty, wk, ka, up, faults>>

ReloadDone ==
    /\ rl.pc = "ensure"
    /\ rl.ids = {}
    /\ rl' = [rl EXCEPT !.pc = "wait"]
    /\ UNCHANGED <<view, dirty, known, pool, wk, ka, up, faults>>

-----------------------------------------------------------------------------
(* The environment: edges fail and come back, connections break.           *)

EdgeDown(t) ==
    /\ up[t] /\ faults < MaxFaults
    /\ up' = [up EXCEPT ![t] = FALSE]
    /\ faults' = faults + 1
    /\ pool' = [pool EXCEPT ![t].idle = [i \in 1..Len(pool[t].idle) |-> "dead"]]
    /\ wk' = [w \in Workers |->
                IF wk[w].tun = t /\ wk[w].pc \in {"mark", "holding"}
                THEN [wk[w] EXCEPT !.conn = "dead"] ELSE wk[w]]
    /\ ka' = IF ka.tun = t THEN [ka EXCEPT !.conn = "dead"] ELSE ka
    /\ UNCHANGED <<view, dirty, known, rl>>

EdgeUp(t) ==
    /\ ~up[t]
    /\ up' = [up EXCEPT ![t] = TRUE]
    /\ UNCHANGED <<view, dirty, known, pool, wk, ka, rl, faults>>

\* The edge's idle timeout, or the network, breaks one pooled connection.
IdleConnBreaks(t, i) ==
    /\ i \in 1..Len(pool[t].idle)
    /\ pool[t].idle[i] = "live"
    /\ faults < MaxFaults
    /\ faults' = faults + 1
    /\ pool' = [pool EXCEPT ![t].idle = [pool[t].idle EXCEPT ![i] = "dead"]]
    /\ UNCHANGED <<view, dirty, known, wk, ka, rl, up>>

-----------------------------------------------------------------------------
\* serve() loads tunnels.json, ensures a slot for every entry and subscribes
\* with a receiver that has not seen the first version.
Init ==
    /\ view \in Views
    /\ dirty = TRUE
    /\ known = Listed(view)
    /\ pool = [t \in Tunnels |-> DefaultSlot]
    /\ wk = [w \in Workers |-> AtRest]
    /\ ka = Asleep
    /\ rl = [pc |-> "wait", ids |-> {}]
    /\ up = [t \in Tunnels |-> TRUE]
    /\ faults = 0

WorkerStep(w) ==
    \/ SnapshotView(w) \/ PickCandidates(w)
    \/ \E t \in Tunnels : TryTunnel(w, t)
    \/ \E expired \in BOOLEAN : LeasePop(w, expired)
    \/ OpenOk(w) \/ MarkInflight(w)
    \/ \E done \in BOOLEAN :
          OpenFail(w, done) \/ OpenUncounted(w, done)
            \/ Release(w, done) \/ Discard(w, done)

KeepaliveStep ==
    \/ KeepaliveCollect \/ KeepaliveSleep
    \/ \E t \in Tunnels : KeepalivePop(t)
    \/ KeepalivePong \/ KeepaliveFail

ReloadStep ==
    \/ ReloadChanged \/ ReloadSnapshot \/ Retain \/ ReloadDone
    \/ \E t \in Tunnels : Ensure(t)

EnvStep ==
    \/ \E v \in Views : SetView(v)
    \/ \E t \in Tunnels :
          EdgeDown(t) \/ EdgeUp(t)
            \/ \E i \in 1..IdleCap : IdleConnBreaks(t, i)

Next ==
    \/ \E w \in Workers : WorkerStep(w)
    \/ KeepaliveStep \/ ReloadStep \/ EnvStep

Spec == Init /\ [][Next]_vars

\* For instances: every tunnel is deleted and added again together; never edited.
OneTunnelViews == {[t \in Tunnels |-> l] : l \in {"absent", "enabled"}}
FixedView == {[t \in Tunnels |-> "enabled"]}

-----------------------------------------------------------------------------
(* Safety.                                                                 *)

\* Every variable has its type; in particular no gauge goes below zero and
\* the failure counter stays within its saturating range.
TypeOK ==
    /\ view \in Views
    /\ dirty \in BOOLEAN
    /\ known \subseteq Tunnels
    /\ pool \in [Tunnels -> Slot]
    /\ wk \in [Workers -> Worker]
    /\ ka \in Keepalive
    /\ rl \in Reload
    /\ up \in [Tunnels -> BOOLEAN]
    /\ faults \in 0..MaxFaults

\* Whatever relays, probes, pings and reloads interleave, no slot ever holds
\* more than pool_idle_per_tunnel idle connections (Pool::release).
IdleBounded == \A t \in Tunnels : Len(pool[t].idle) <= IdleCap

\* The health bit the selector reads always agrees with the failure streak:
\* a tunnel is skipped exactly when its last Threshold operations failed.
HealthFollowsStreak ==
    \A t \in Tunnels : pool[t].healthy <=> pool[t].fails < Threshold

Holders(t) == {w \in Workers : wk[w].pc = "holding" /\ wk[w].tun = t}

\* The in-flight gauge never over-reports: a slot counts at most the tasks
\* that hold a leased connection, so nothing leaks when they have all ended.
\* (Keepalive releases and slot removal make it under-report.)
InflightNeverOverstated ==
    \A t \in Tunnels : pool[t].inflight <= Cardinality(Holders(t))

-----------------------------------------------------------------------------
(* Liveness.  Every await of the keepalive, reload and lease code is       *)
(* bounded by a timeout, so these tasks always take their next step.       *)

Fairness ==
    /\ WF_vars(KeepaliveStep)
    /\ WF_vars(ReloadStep)
    /\ \A w \in Workers : WF_vars(wk[w].pc # "rest" /\ WorkerStep(w))

LiveSpec == Spec /\ Fairness

\* "prunes dead ones": once connections stop breaking, the keepalive loop
\* and the leases remove every dead connection from every idle queue, although
\* a round pings one connection and live ones are given back behind dead ones
\* and in front of them leases come and go.
DeadConnsPruned ==
    <>[](\A t \in Tunnels : \A i \in 1..Len(pool[t].idle) : pool[t].idle[i] = "live")

\* A tunnel that tunnels.json lists gets a slot (so that the selector can
\* pick it) unless the file drops it again first.
ListedTunnelAdopted ==
    \A t \in Tunnels : (t \in Listed(view)) ~> (t \in known \/ t \notin Listed(view))

\* Postfix keeps retrying, and an edge that is up does not refuse for ever.
RetryFairness ==
    \A w \in Workers : WF_vars(SnapshotView(w)) /\ SF_vars(OpenOk(w))

RetrySpec == LiveSpec /\ RetryFairness

\* An enabled tunnel whose edge is up for good is used again.
RecoversAfterOutage ==
    \A t \in Tunnels : <>[](up[t] /\ view[t] = "enabled") => []<>(pool[t].healthy)

\* Keepalive and reload bring the pool in line with the edges and the file.
PoolConverges == DeadConnsPruned /\ ListedTunnelAdopted
=============================================================================
