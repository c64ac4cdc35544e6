--------------------------- MODULE RelayPoolProofs ---------------------------
(***************************************************************************)
(* Proofs about RelayPool for every set of tunnels, every finite set of    *)
(* tasks and every limit: types, the idle cap, the agreement of the health *)
(* bit with the failure streak, and the in-flight gauge.                   *)
(***************************************************************************)
EXTENDS RelayPool, FiniteSetTheorems, TLAPS

\* A task past "pick" works on a tunnel: without this the updates of known
\* and pool in lease, release and discard would not be well typed.
Located ==
    /\ \A w \in Workers :
          wk[w].pc \in {"lease", "open", "mark", "holding"} => wk[w].tun \in Tunnels
    /\ ka.pc = "ping" => ka.tun \in Tunnels

\* What every critical section keeps of a slot.
SlotInv(s) ==
    /\ s \in Slot
    /\ Len(s.idle) <= IdleCap
    /\ s.healthy <=> s.fails < Threshold

PoolInv == \A t \in Tunnels : SlotInv(pool[t])

BaseInv == TypeOK /\ Located /\ PoolInv

-----------------------------------------------------------------------------
(* The slot operators.                                                     *)

\* The numeric part of the assumption, for the leaves that only count.
LEMMA Limits ==
    /\ IdleCap \in Nat /\ 0 < IdleCap
    /\ Threshold \in Nat /\ 0 < Threshold
    /\ CounterMax \in Nat /\ Threshold <= CounterMax /\ 0 \in 0..CounterMax
BY PoolAssumption

\* A success (open, release) keeps a slot well formed.
LEMMA SucceedSlot ==
    ASSUME NEW s, SlotInv(s)
    PROVE  SlotInv(Succeed(s)) /\ Succeed(s).inflight = s.inflight
           /\ Succeed(s).idle = s.idle
BY Limits DEF SlotInv, Slot, Succeed

\* A counted failure keeps a slot well formed: the counter saturates at or
\* above the threshold, so the health bit cannot drift from it.
LEMMA FailSlot ==
    ASSUME NEW s, SlotInv(s)
    PROVE  SlotInv(Fail(s)) /\ Fail(s).inflight = s.inflight
<1> DEFINE f == IF s.fails < CounterMax THEN s.fails + 1 ELSE CounterMax
           h == IF f >= Threshold THEN FALSE ELSE s.healthy
<1>1. s \in Slot /\ s.fails \in 0..CounterMax /\ s.healthy \in BOOLEAN BY DEF SlotInv, Slot
<1>2. f \in 0..CounterMax BY <1>1, Limits
<1>3. h \in BOOLEAN BY <1>1
<1>4. h <=> f < Threshold BY <1>1, Limits DEF SlotInv
<1>5. Fail(s) = [s EXCEPT !.fails = f, !.healthy = h] BY DEF Fail
<1> HIDE DEF f, h
<1>6. /\ Fail(s) \in Slot /\ Fail(s).fails = f /\ Fail(s).healthy = h
      /\ Fail(s).idle = s.idle /\ Fail(s).inflight = s.inflight
  BY <1>1, <1>2, <1>3, <1>5 DEF Slot
<1>7. QED BY <1>4, <1>6 DEF SlotInv

\* The guarded decrement keeps the gauge a natural number.
LEMMA UnmarkSlot ==
    ASSUME NEW s, SlotInv(s)
    PROVE  /\ SlotInv(Unmark(s))
           /\ Unmark(s).inflight = IF s.inflight > 0 THEN s.inflight - 1 ELSE 0
           /\ Unmark(s).idle = s.idle
BY Limits DEF SlotInv, Slot, Unmark

\* Returning a connection respects the cap.
LEMMA GiveBackSlot ==
    ASSUME NEW s, SlotInv(s), NEW c \in Conn
    PROVE  SlotInv(GiveBack(s, c)) /\ GiveBack(s, c).inflight = s.inflight
BY Limits DEF SlotInv, Slot, GiveBack

\* Popping the queue keeps a slot well formed and yields a connection.
LEMMA PopSlot ==
    ASSUME NEW s, SlotInv(s), s.idle # <<>>
    PROVE  /\ SlotInv([s EXCEPT !.idle = Tail(s.idle)])
           /\ [s EXCEPT !.idle = Tail(s.idle)].inflight = s.inflight
           /\ Head(s.idle) \in Conn
<1>1. s \in Slot /\ s.idle \in Seq(Conn) BY DEF SlotInv, Slot
<1>2. Tail(s.idle) \in Seq(Conn) /\ Head(s.idle) \in Conn /\ Len(Tail(s.idle)) <= Len(s.idle)
  BY <1>1
<1>3. /\ [s EXCEPT !.idle = Tail(s.idle)] \in Slot
      /\ [s EXCEPT !.idle = Tail(s.idle)].idle = Tail(s.idle)
      /\ [s EXCEPT !.idle = Tail(s.idle)].fails = s.fails
      /\ [s EXCEPT !.idle = Tail(s.idle)].healthy = s.healthy
      /\ [s EXCEPT !.idle = Tail(s.idle)].inflight = s.inflight
  BY <1>1, <1>2 DEF Slot
<1>4. Len(Tail(s.idle)) <= IdleCap BY <1>1, <1>2, Limits DEF SlotInv
<1>5. QED BY <1>2, <1>3, <1>4 DEF SlotInv

\* release and discard as compositions of the above.
LEMMA ReleaseDiscardSlot ==
    ASSUME NEW s, SlotInv(s), NEW c \in Conn
    PROVE  /\ SlotInv(ReleaseSlot(s, c))
           /\ SlotInv(DiscardSlot(s))
           /\ ReleaseSlot(s, c).inflight = IF s.inflight > 0 THEN s.inflight - 1 ELSE 0
           /\ DiscardSlot(s).inflight = IF s.inflight > 0 THEN s.inflight - 1 ELSE 0
<1>1. SlotInv(Unmark(Succeed(s))) BY SucceedSlot, UnmarkSlot
<1>2. Unmark(Succeed(s)).inflight = IF s.inflight > 0 THEN s.inflight - 1 ELSE 0
  BY SucceedSlot, UnmarkSlot
<1>3. QED BY <1>1, <1>2, GiveBackSlot, FailSlot, UnmarkSlot DEF ReleaseSlot, DiscardSlot

LEMMA DefaultSlotInv == SlotInv(DefaultSlot)
BY Limits DEF SlotInv, Slot, DefaultSlot

\* entry(t).or_default() with a well-formed slot keeps the map well formed.
LEMMA EntryKeeps ==
    ASSUME TypeOK, PoolInv, NEW t \in Tunnels, NEW s, SlotInv(s), Entry(t, s)
    PROVE  /\ known' \subseteq Tunnels
           /\ pool' \in [Tunnels -> Slot]
           /\ PoolInv'
           /\ pool'[t] = s
           /\ \A u \in Tunnels : u # t => pool'[u] = pool[u]
BY DEF TypeOK, PoolInv, SlotInv, Entry

-----------------------------------------------------------------------------
LEMMA InitBase == Init => BaseInv
<1> SUFFICES ASSUME Init PROVE BaseInv OBVIOUS
<1>1. TypeOK
  BY PoolAssumption, DefaultSlotInv
     DEF Init, TypeOK, SlotInv, Listed, Worker, AtRest, Keepalive, Asleep, Reload, Conn
<1>2. Located BY DEF Init, Located, AtRest, Asleep
<1>3. PoolInv BY DefaultSlotInv DEF Init, PoolInv
<1>4. QED BY <1>1, <1>2, <1>3 DEF BaseInv

-----------------------------------------------------------------------------
(* Every step keeps BaseInv.                                               *)

\* A task ends an attempt in a well-typed control state that needs no tunnel.
LEMMA EndAttemptKeeps ==
    ASSUME BaseInv, NEW w \in Workers, NEW done, EndAttempt(w, done)
    PROVE  /\ wk' \in [Workers -> Worker]
           /\ wk'[w].pc \in {"rest", "cand"}
           /\ \A v \in Workers : v # w => wk'[v] = wk[v]
<1>1. wk[w] \in Worker /\ wk[w].cand \subseteq Tunnels BY DEF BaseInv, TypeOK, Worker
<1>2. AtRest \in Worker BY DEF AtRest, Worker, Conn
<1>3. [AtRest EXCEPT !.pc = "cand", !.cand = wk[w].cand] \in Worker
  BY <1>1, <1>2 DEF Worker
<1>4. AtRest.pc = "rest" /\ [AtRest EXCEPT !.pc = "cand", !.cand = wk[w].cand].pc = "cand"
  BY DEF AtRest
<1>5. QED BY <1>2, <1>3, <1>4 DEF EndAttempt, BaseInv, TypeOK

LEMMA WorkerKeeps ==
    ASSUME BaseInv, NEW w \in Workers, WorkerStep(w)
    PROVE  BaseInv'
<1> USE DEF BaseInv
<1>w. wk \in [Workers -> Worker] /\ wk[w] \in Worker BY DEF TypeOK
<1>r. AtRest \in Worker /\ AtRest.pc = "rest" BY DEF AtRest, Worker, Conn
<1>1. CASE SnapshotView(w)
  <2>1. Enabled(view) \subseteq Tunnels BY DEF Enabled
  <2>2. [AtRest EXCEPT !.pc = "view", !.cand = Enabled(view)] \in Worker
    BY <2>1, <1>r DEF Worker
  <2>3. [AtRest EXCEPT !.pc = "view", !.cand = Enabled(view)].pc = "view" BY DEF AtRest
  <2>4. TypeOK' BY <1>1, <1>w, <2>2 DEF SnapshotView, TypeOK
  <2>5. Located' BY <1>1, <1>w, <2>3 DEF SnapshotView, Located
  <2>6. PoolInv' BY <1>1 DEF SnapshotView, PoolInv
  <2>7. QED BY <2>4, <2>5, <2>6
<1>2. CASE PickCandidates(w)
  <2> DEFINE c == wk[w].cand \cap healthy_ids
             r == IF c = {} THEN AtRest ELSE [AtRest EXCEPT !.pc = "cand", !.cand = c]
  <2>1. c \subseteq Tunnels BY <1>w DEF Worker
  <2>2. r \in Worker BY <2>1, <1>r DEF Worker
  <2>3. r.pc \in {"rest", "cand"} BY DEF AtRest
  <2>4. wk' = [wk EXCEPT ![w] = r] BY <1>2 DEF PickCandidates
  <2> HIDE DEF c, r
  <2>5. TypeOK' BY <1>2, <1>w, <2>2, <2>4 DEF PickCandidates, TypeOK
  <2>6. Located' BY <1>2, <1>w, <2>3, <2>4 DEF PickCandidates, Located
  <2>7. PoolInv' BY <1>2 DEF PickCandidates, PoolInv
  <2>8. QED BY <2>5, <2>6, <2>7
<1>3. ASSUME NEW t \in Tunnels, TryTunnel(w, t) PROVE BaseInv'
  <2> DEFINE r == [AtRest EXCEPT !.pc = "lease", !.cand = wk[w].cand \ {t}, !.tun = t]
  <2>1. r \in Worker BY <1>w, <1>r DEF Worker
  <2>2. r.tun = t BY DEF AtRest
  <2>3. wk' = [wk EXCEPT ![w] = r] BY <1>3 DEF TryTunnel
  <2> HIDE DEF r
  <2>4. TypeOK' BY <1>3, <1>w, <2>1, <2>3 DEF TryTunnel, TypeOK
  <2>5. Located' BY <1>3, <1>w, <2>2, <2>3 DEF TryTunnel, Located
  <2>6. PoolInv' BY <1>3 DEF TryTunnel, PoolInv
  <2>7. QED BY <2>4, <2>5, <2>6
<1>4. ASSUME NEW expired \in BOOLEAN, LeasePop(w, expired) PROVE BaseInv'
  <2> DEFINE t == wk[w].tun
             s == pool[t]
             r == IF s.idle = <<>> THEN [wk[w] EXCEPT !.pc = "open"]
                  ELSE IF expired THEN wk[w]
                  ELSE [wk[w] EXCEPT !.pc = "mark", !.conn = Head(s.idle)]
             n == IF s.idle = <<>> THEN s ELSE [s EXCEPT !.idle = Tail(s.idle)]
  <2>1. t \in Tunnels /\ wk[w].pc = "lease" BY <1>4 DEF LeasePop, Located
  <2>2. SlotInv(s) BY <2>1 DEF PoolInv
  <2>3. SlotInv(n) BY <2>2, PopSlot
  <2>4. r \in Worker
    <3>1. CASE s.idle = <<>> BY <3>1, <1>w DEF Worker
    <3>2. CASE s.idle # <<>>
      <4>1. Head(s.idle) \in Conn BY <2>2, <3>2, PopSlot
      <4>2. QED BY <3>2, <4>1, <1>w DEF Worker
    <3>3. QED BY <3>1, <3>2
  <2>5. r.tun = t BY <1>w DEF Worker
  <2>6. Entry(t, n) /\ wk' = [wk EXCEPT ![w] = r] BY <1>4, <1>w DEF LeasePop, Worker
  <2>7. UNCHANGED <<view, dirty, ka, rl, up, faults>> BY <1>4 DEF LeasePop
  <2> HIDE DEF t, s, r, n
  <2>8. TypeOK' BY <1>w, <2>1, <2>3, <2>4, <2>6, <2>7, EntryKeeps DEF TypeOK
  <2>9. Located' BY <1>w, <2>1, <2>5, <2>6, <2>7 DEF Located
  <2>10. PoolInv' BY <2>1, <2>3, <2>6, EntryKeeps
  <2>11. QED BY <2>8, <2>9, <2>10
<1>5. CASE OpenOk(w)
  <2> DEFINE t == wk[w].tun
  <2>1. t \in Tunnels BY <1>5 DEF OpenOk, Located
  <2>2. SlotInv(Succeed(pool[t])) BY <2>1, SucceedSlot DEF PoolInv
  <2>3. Entry(t, Succeed(pool[t])) BY <1>5 DEF OpenOk
  <2>4. /\ wk' = [wk EXCEPT ![w] = [wk[w] EXCEPT !.pc = "mark", !.conn = "live"]]
        /\ UNCHANGED <<view, dirty, ka, rl, up, faults>>
    BY <1>5, <1>w DEF OpenOk, Worker
  <2>5. [wk[w] EXCEPT !.pc = "mark", !.conn = "live"] \in Worker
        /\ [wk[w] EXCEPT !.pc = "mark", !.conn = "live"].tun = t
    BY <1>w DEF Worker, Conn
  <2> HIDE DEF t
  <2>6. TypeOK' BY <1>w, <2>1, <2>2, <2>3, <2>4, <2>5, EntryKeeps DEF TypeOK
  <2>7. Located' BY <1>w, <2>1, <2>4, <2>5 DEF Located
  <2>8. PoolInv' BY <2>1, <2>2, <2>3, EntryKeeps
  <2>9. QED BY <2>6, <2>7, <2>8
<1>6. CASE MarkInflight(w)
  <2> DEFINE t == wk[w].tun
             n == [pool[t] EXCEPT !.inflight = pool[t].inflight + 1]
  <2>1. t \in Tunnels BY <1>6 DEF MarkInflight, Located
  <2>2. SlotInv(pool[t]) BY <2>1 DEF PoolInv
  <2>3. SlotInv(n) BY <2>2 DEF SlotInv, Slot
  <2>4. /\ Entry(t, n)
        /\ wk' = [wk EXCEPT ![w] = [wk[w] EXCEPT !.pc = "holding"]]
        /\ UNCHANGED <<view, dirty, ka, rl, up, faults>>
    BY <1>6 DEF MarkInflight
  <2>5. [wk[w] EXCEPT !.pc = "holding"] \in Worker /\ [wk[w] EXCEPT !.pc = "holding"].tun = t
    BY <1>w DEF Worker
  <2> HIDE DEF t, n
  <2>6. TypeOK' BY <1>w, <2>1, <2>3, <2>4, <2>5, EntryKeeps DEF TypeOK
  <2>7. Located' BY <1>w, <2>1, <2>4, <2>5 DEF Located
  <2>8. PoolInv' BY <2>1, <2>3, <2>4, EntryKeeps
  <2>9. QED BY <2>6, <2>7, <2>8
<1>7. ASSUME NEW done \in BOOLEAN, NEW s, SlotInv(s), wk[w].tun \in Tunnels,
             Entry(wk[w].tun, s), EndAttempt(w, done),
             UNCHANGED <<view, dirty, ka, rl, up, faults>>
      PROVE  BaseInv'
  <2>1. TypeOK' BY <1>7, EntryKeeps, EndAttemptKeeps DEF TypeOK
  <2>2. Located' BY <1>7, EndAttemptKeeps DEF Located
  <2>3. PoolInv' BY <1>7, EntryKeeps
  <2>4. QED BY <2>1, <2>2, <2>3
<1>8. ASSUME NEW done \in BOOLEAN,
             OpenFail(w, done) \/ Release(w, done) \/ Discard(w, done)
      PROVE  BaseInv'
  <2>1. wk[w].tun \in Tunnels BY <1>8 DEF OpenFail, Release, Discard, Located
  <2>2. SlotInv(pool[wk[w].tun]) BY <2>1 DEF PoolInv
  <2>3. wk[w].conn \in Conn BY <1>w DEF Worker
  <2>4. CASE OpenFail(w, done) BY <2>1, <2>2, <2>4, <1>7, FailSlot DEF OpenFail
  <2>5. CASE Release(w, done) BY <2>1, <2>2, <2>3, <2>5, <1>7, ReleaseDiscardSlot DEF Release
  <2>6. CASE Discard(w, done) BY <2>1, <2>2, <2>3, <2>6, <1>7, ReleaseDiscardSlot DEF Discard
  <2>7. QED BY <1>8, <2>4, <2>5, <2>6
<1>9. ASSUME NEW done \in BOOLEAN, OpenUncounted(w, done) PROVE BaseInv'
  <2>1. EndAttempt(w, done) /\ UNCHANGED <<view, dirty, known, pool, ka, rl, up, faults>>
    BY <1>9 DEF OpenUncounted
  <2>2. TypeOK' BY <2>1, EndAttemptKeeps DEF TypeOK
  <2>3. Located' BY <2>1, EndAttemptKeeps DEF Located
  <2>4. PoolInv' BY <2>1 DEF PoolInv
  <2>5. QED BY <2>2, <2>3, <2>4
<1>10. QED BY <1>1, <1>2, <1>3, <1>4, <1>5, <1>6, <1>8, <1>9 DEF WorkerStep

\* A keepalive critical section on tunnel u: the slot it writes is well formed
\* and the loop moves on without a tunnel in hand.
LEMMA KeepaliveKeeps ==
    ASSUME BaseInv, KeepaliveStep
    PROVE  BaseInv'
<1> USE DEF BaseInv
<1>k. ka \in Keepalive /\ ka.todo \subseteq Tunnels /\ ka.conn \in Conn
  BY DEF TypeOK, Keepalive
<1>a. Asleep \in Keepalive /\ Asleep.pc = "sleep" BY DEF Asleep, Keepalive, Conn
<1>l. [Asleep EXCEPT !.pc = "loop", !.todo = ka.todo] \in Keepalive
      /\ [Asleep EXCEPT !.pc = "loop", !.todo = ka.todo].pc = "loop"
  BY <1>k DEF Asleep, Keepalive, Conn
<1>1. CASE KeepaliveCollect
  <2> DEFINE T == {t \in known : pool[t].idle # <<>>}
  <2>1. T \subseteq Tunnels BY DEF TypeOK
  <2> HIDE DEF T
  <2>2. [Asleep EXCEPT !.pc = "loop", !.todo = T] \in Keepalive
        /\ [Asleep EXCEPT !.pc = "loop", !.todo = T].pc = "loop"
    BY <2>1 DEF Asleep, Keepalive, Conn
  <2>3. ka' = [Asleep EXCEPT !.pc = "loop", !.todo = T]
        /\ UNCHANGED <<view, dirty, known, pool, wk, rl, up, faults>>
    BY <1>1 DEF KeepaliveCollect, T
  <2>4. TypeOK' BY <2>2, <2>3 DEF TypeOK
  <2>5. Located' BY <2>2, <2>3 DEF Located
  <2>6. PoolInv' BY <2>3 DEF PoolInv
  <2>7. QED BY <2>4, <2>5, <2>6
<1>2. CASE KeepaliveSleep
  <2>1. TypeOK' BY <1>2, <1>a DEF KeepaliveSleep, TypeOK
  <2>2. Located' BY <1>2, <1>a DEF KeepaliveSleep, Located
  <2>3. PoolInv' BY <1>2 DEF KeepaliveSleep, PoolInv
  <2>4. QED BY <2>1, <2>2, <2>3
<1>3. ASSUME NEW t \in Tunnels, KeepalivePop(t) PROVE BaseInv'
  <2> DEFINE s == pool[t]
             r == IF s.idle = <<>> THEN [ka EXCEPT !.todo = ka.todo \ {t}]
                  ELSE [ka EXCEPT !.pc = "ping", !.todo = ka.todo \ {t},
                                  !.tun = t, !.conn = Head(s.idle)]
             n == IF s.idle = <<>> THEN s ELSE [s EXCEPT !.idle = Tail(s.idle)]
  <2>1. SlotInv(s) BY DEF PoolInv
  <2>2. SlotInv(n) BY <2>1, PopSlot
  <2>3. r \in Keepalive /\ (r.pc = "ping" => r.tun = t)
    <3>1. CASE s.idle = <<>>
      <4>1. ka.pc = "loop" BY <1>3 DEF KeepalivePop
      <4>2. QED BY <3>1, <4>1, <1>k DEF Keepalive
    <3>2. CASE s.idle # <<>>
      <4>1. Head(s.idle) \in Conn BY <2>1, <3>2, PopSlot
      <4>2. QED BY <3>2, <4>1, <1>k DEF Keepalive
    <3>3. QED BY <3>1, <3>2
  <2>4. /\ Entry(t, n) /\ ka' = r
        /\ UNCHANGED <<view, dirty, wk, rl, up, faults>>
    BY <1>3 DEF KeepalivePop
  <2> HIDE DEF s, r, n
  <2>5. TypeOK' BY <2>2, <2>3, <2>4, EntryKeeps DEF TypeOK
  <2>6. Located' BY <2>3, <2>4 DEF Located
  <2>7. PoolInv' BY <2>2, <2>4, EntryKeeps
  <2>8. QED BY <2>5, <2>6, <2>7
<1>4. CASE KeepalivePong \/ KeepaliveFail
  <2>1. ka.tun \in Tunnels BY <1>4 DEF KeepalivePong, KeepaliveFail, Located
  <2>2. SlotInv(pool[ka.tun]) BY <2>1 DEF PoolInv
  <2>3. PICK s : SlotInv(s) /\ Entry(ka.tun, s)
    BY <1>4, <1>k, <2>2, ReleaseDiscardSlot DEF KeepalivePong, KeepaliveFail
  <2>4. /\ ka' = [Asleep EXCEPT !.pc = "loop", !.todo = ka.todo]
        /\ UNCHANGED <<view, dirty, wk, rl, up, faults>>
    BY <1>4 DEF KeepalivePong, KeepaliveFail
  <2>5. TypeOK' BY <1>l, <2>1, <2>3, <2>4, EntryKeeps DEF TypeOK
  <2>6. Located' BY <1>l, <2>4 DEF Located
  <2>7. PoolInv' BY <2>1, <2>3, EntryKeeps
  <2>8. QED BY <2>5, <2>6, <2>7
<1>5. QED BY <1>1, <1>2, <1>3, <1>4 DEF KeepaliveStep

\* The reload task: retain resets whole slots, ensure leaves them as they are.
LEMMA ReloadKeeps ==
    ASSUME BaseInv, ReloadStep
    PROVE  BaseInv'
<1> USE DEF BaseInv
<1>r. rl \in Reload /\ rl.ids \subseteq Tunnels BY DEF TypeOK, Reload
<1>1. CASE ReloadChanged
  <2>1. [rl EXCEPT !.pc = "snap"] \in Reload BY <1>r DEF Reload
  <2>2. TypeOK' BY <1>1, <2>1 DEF ReloadChanged, TypeOK
  <2>3. Located' /\ PoolInv' BY <1>1 DEF ReloadChanged, Located, PoolInv
  <2>4. QED BY <2>2, <2>3
<1>2. CASE ReloadSnapshot
  <2>1. [pc |-> "retain", ids |-> Listed(view)] \in Reload BY DEF Reload, Listed
  <2>2. TypeOK' BY <1>2, <2>1 DEF ReloadSnapshot, TypeOK
  <2>3. Located' /\ PoolInv' BY <1>2 DEF ReloadSnapshot, Located, PoolInv
  <2>4. QED BY <2>2, <2>3
<1>3. CASE Retain
  <2>1. [rl EXCEPT !.pc = "ensure"] \in Reload BY <1>r DEF Reload
  <2>2. \A t \in Tunnels : pool'[t] = IF t \in rl.ids THEN pool[t] ELSE DefaultSlot
    BY <1>3 DEF Retain
  <2>3. PoolInv' BY <2>2, DefaultSlotInv DEF PoolInv
  <2>4. pool' \in [Tunnels -> Slot]
    BY <1>3, <2>2, DefaultSlotInv DEF Retain, TypeOK, SlotInv
  <2>5. TypeOK' BY <1>3, <2>1, <2>4 DEF Retain, TypeOK
  <2>6. Located' BY <1>3 DEF Retain, Located
  <2>7. QED BY <2>3, <2>5, <2>6
<1>4. ASSUME NEW t \in Tunnels, Ensure(t) PROVE BaseInv'
  <2>1. [rl EXCEPT !.ids = rl.ids \ {t}] \in Reload BY <1>r DEF Reload
  <2>2. SlotInv(pool[t]) BY DEF PoolInv
  <2>3. TypeOK' BY <1>4, <2>1, <2>2, EntryKeeps DEF Ensure, TypeOK
  <2>4. Located' BY <1>4 DEF Ensure, Located
  <2>5. PoolInv' BY <1>4, <2>2, EntryKeeps DEF Ensure
  <2>6. QED BY <2>3, <2>4, <2>5
<1>5. CASE ReloadDone
  <2>1. [rl EXCEPT !.pc = "wait"] \in Reload BY <1>r DEF Reload
  <2>2. TypeOK' BY <1>5, <2>1 DEF ReloadDone, TypeOK
  <2>3. Located' /\ PoolInv' BY <1>5 DEF ReloadDone, Located, PoolInv
  <2>4. QED BY <2>2, <2>3
<1>6. QED BY <1>1, <1>2, <1>3, <1>4, <1>5 DEF ReloadStep

\* The environment only turns connections dead; queues keep their length.
LEMMA EnvKeeps ==
    ASSUME BaseInv, EnvStep
    PROVE  BaseInv'
<1> USE DEF BaseInv
<1>n. MaxFaults \in Nat BY PoolAssumption
<1>1. ASSUME NEW v \in Views, SetView(v) PROVE BaseInv'
  <2>1. TypeOK' BY <1>1 DEF SetView, TypeOK
  <2>2. Located' /\ PoolInv' BY <1>1 DEF SetView, Located, PoolInv
  <2>3. QED BY <2>1, <2>2
<1>2. ASSUME NEW t \in Tunnels, NEW q \in Seq(Conn), Len(q) = Len(pool[t].idle),
             pool' = [pool EXCEPT ![t].idle = q]
      PROVE  pool' \in [Tunnels -> Slot] /\ PoolInv'
  <2> DEFINE n == [pool[t] EXCEPT !.idle = q]
  <2>1. SlotInv(pool[t]) BY DEF PoolInv
  <2>2. /\ n \in Slot /\ n.idle = q /\ n.fails = pool[t].fails
        /\ n.healthy = pool[t].healthy
    BY <1>2, <2>1 DEF SlotInv, Slot
  <2>3. pool' = [pool EXCEPT ![t] = n] BY <1>2
  <2> HIDE DEF n
  <2>4. SlotInv(n) BY <1>2, <2>1, <2>2 DEF SlotInv
  <2>5. QED BY <2>2, <2>3, <2>4 DEF TypeOK, PoolInv
<1>3. ASSUME NEW t \in Tunnels, EdgeDown(t) PROVE BaseInv'
  <2> DEFINE q == [i \in 1..Len(pool[t].idle) |-> "dead"]
             moved(w) == IF wk[w].tun = t /\ wk[w].pc \in {"mark", "holding"}
                         THEN [wk[w] EXCEPT !.conn = "dead"] ELSE wk[w]
  <2>1. pool[t].idle \in Seq(Conn) BY DEF TypeOK, Slot
  <2>2. q \in Seq(Conn) /\ Len(q) = Len(pool[t].idle) BY <2>1 DEF Conn
  <2>3. pool' = [pool EXCEPT ![t].idle = q] BY <1>3 DEF EdgeDown
  <2> HIDE DEF q
  <2>4. pool' \in [Tunnels -> Slot] /\ PoolInv' BY <1>2, <2>2, <2>3
  <2>5. \A w \in Workers :
           moved(w) \in Worker /\ moved(w).tun = wk[w].tun /\ moved(w).pc = wk[w].pc
    <3> SUFFICES ASSUME NEW w \in Workers
                 PROVE moved(w) \in Worker /\ moved(w).tun = wk[w].tun
                       /\ moved(w).pc = wk[w].pc
      OBVIOUS
    <3>1. wk[w] \in Worker BY DEF TypeOK
    <3>2. QED BY <3>1 DEF Worker, Conn
  <2>6. wk' = [w \in Workers |-> moved(w)] BY <1>3 DEF EdgeDown
  <2> HIDE DEF moved
  <2>7. /\ wk' \in [Workers -> Worker]
        /\ \A w \in Workers : wk'[w].tun = wk[w].tun /\ wk'[w].pc = wk[w].pc
    BY <2>5, <2>6
  <2>8. ka' \in Keepalive /\ ka'.tun = ka.tun /\ ka'.pc = ka.pc
    <3>1. ka \in Keepalive BY DEF TypeOK
    <3>2. QED BY <1>3, <3>1 DEF EdgeDown, Keepalive, Conn
  <2>9. up' \in [Tunnels -> BOOLEAN] BY <1>3 DEF EdgeDown, TypeOK
  <2>10. faults' \in 0..MaxFaults BY <1>3, <1>n DEF EdgeDown, TypeOK
  <2>11. UNCHANGED <<view, dirty, known, rl>> BY <1>3 DEF EdgeDown
  <2>12. TypeOK' BY <2>4, <2>7, <2>8, <2>9, <2>10, <2>11 DEF TypeOK
  <2>13. Located' BY <2>7, <2>8 DEF Located
  <2>14. QED BY <2>4, <2>12, <2>13
<1>4. ASSUME NEW t \in Tunnels, EdgeUp(t) PROVE BaseInv'
  <2>1. up' \in [Tunnels -> BOOLEAN] BY <1>4 DEF EdgeUp, TypeOK
  <2>2. TypeOK' BY <1>4, <2>1 DEF EdgeUp, TypeOK
  <2>3. Located' /\ PoolInv' BY <1>4 DEF EdgeUp, Located, PoolInv
  <2>4. QED BY <2>2, <2>3
<1>5. ASSUME NEW t \in Tunnels, NEW i \in 1..IdleCap, IdleConnBreaks(t, i) PROVE BaseInv'
  <2> DEFINE q == [pool[t].idle EXCEPT ![i] = "dead"]
  <2>1. pool[t].idle \in Seq(Conn) /\ i \in 1..Len(pool[t].idle)
    BY <1>5 DEF IdleConnBreaks, TypeOK, Slot
  <2>2. q \in Seq(Conn) /\ Len(q) = Len(pool[t].idle) BY <2>1 DEF Conn
  <2>3. pool' = [pool EXCEPT ![t].idle = q] BY <1>5 DEF IdleConnBreaks
  <2> HIDE DEF q
  <2>4. pool' \in [Tunnels -> Slot] /\ PoolInv' BY <1>2, <2>2, <2>3
  <2>5. faults' \in 0..MaxFaults BY <1>5, <1>n DEF IdleConnBreaks, TypeOK
  <2>6. UNCHANGED <<view, dirty, known, wk, ka, rl, up>> BY <1>5 DEF IdleConnBreaks
  <2>7. TypeOK' BY <2>4, <2>5, <2>6 DEF TypeOK
  <2>8. Located' BY <2>6 DEF Located
  <2>9. QED BY <2>4, <2>7, <2>8
<1>6. QED BY <1>1, <1>3, <1>4, <1>5 DEF EnvStep

LEMMA NextBase == BaseInv /\ [Next]_vars => BaseInv'
<1> SUFFICES ASSUME BaseInv, [Next]_vars PROVE BaseInv' OBVIOUS
<1>1. CASE Next BY <1>1, WorkerKeeps, KeepaliveKeeps, ReloadKeeps, EnvKeeps DEF Next
<1>2. CASE UNCHANGED vars
  <2>1. TypeOK' BY <1>2 DEF BaseInv, vars, TypeOK
  <2>2. Located' BY <1>2 DEF BaseInv, vars, Located
  <2>3. PoolInv' BY <1>2 DEF BaseInv, vars, PoolInv
  <2>4. QED BY <2>1, <2>2, <2>3 DEF BaseInv
<1>3. QED BY <1>1, <1>2

\* The types and the slot invariant hold in every reachable state.
THEOREM BaseInvariant == Spec => []BaseInv
BY InitBase, NextBase, PTL DEF Spec

\* Types hold for every set of tunnels and tasks; in particular the gauges of
\* pool.rs never go below zero and the streak never leaves its range.
THEOREM TypeCorrect == Spec => []TypeOK
<1>1. BaseInv => TypeOK BY DEF BaseInv
<1>2. QED BY <1>1, BaseInvariant, PTL

\* Pool::release keeps every idle queue within pool_idle_per_tunnel.
THEOREM IdleBoundedAlways == Spec => []IdleBounded
<1>1. BaseInv => IdleBounded BY DEF BaseInv, PoolInv, SlotInv, IdleBounded
<1>2. QED BY <1>1, BaseInvariant, PTL

\* The health bit read by Pool::healthy_ids is exactly "streak below the
\* threshold", whatever release, discard, open and keepalive interleave.
THEOREM HealthAlways == Spec => []HealthFollowsStreak
<1>1. BaseInv => HealthFollowsStreak BY DEF BaseInv, PoolInv, SlotInv, HealthFollowsStreak
<1>2. QED BY <1>1, BaseInvariant, PTL

-----------------------------------------------------------------------------
(* The in-flight gauge.  It is counted in critical sections of its own, so *)
(* the argument is about which tasks hold a lease before and after a step. *)

LEMMA HoldersFinite ==
    ASSUME NEW t
    PROVE  IsFiniteSet(Holders(t)) /\ Cardinality(Holders(t)) \in Nat
<1>1. IsFiniteSet(Workers) BY PoolAssumption
<1>2. Holders(t) \subseteq Workers BY DEF Holders
<1>3. IsFiniteSet(Holders(t)) BY <1>1, <1>2, FS_Subset
<1>4. QED BY <1>3, FS_CardinalityType

\* A step that moves no lease and raises no gauge.
LEMMA GaugeKeeps ==
    ASSUME InflightNeverOverstated, BaseInv, BaseInv',
           \A t \in Tunnels : pool'[t].inflight <= pool[t].inflight,
           \A w \in Workers : /\ wk'[w].pc = "holding" <=> wk[w].pc = "holding"
                              /\ wk[w].pc = "holding" => wk'[w].tun = wk[w].tun
    PROVE  InflightNeverOverstated'
<1> SUFFICES ASSUME NEW t \in Tunnels
             PROVE  pool'[t].inflight <= Cardinality(Holders(t)')
  BY DEF InflightNeverOverstated
<1>1. Holders(t)' = Holders(t) BY DEF Holders
<1>2. pool[t].inflight <= Cardinality(Holders(t)) BY DEF InflightNeverOverstated
<1>3. pool[t].inflight \in Nat /\ pool'[t].inflight \in Nat BY DEF BaseInv, TypeOK, Slot
<1>4. Cardinality(Holders(t)) \in Nat BY HoldersFinite
<1>5. QED BY <1>1, <1>2, <1>3, <1>4

\* A task gives up its lease and its tunnel's gauge is decremented.
LEMMA GaugeDrops ==
    ASSUME InflightNeverOverstated, BaseInv, NEW w \in Workers, NEW s, NEW done,
           wk[w].pc = "holding", Entry(wk[w].tun, s), EndAttempt(w, done),
           SlotInv(s),
           s.inflight = IF pool[wk[w].tun].inflight > 0
                        THEN pool[wk[w].tun].inflight - 1 ELSE 0
    PROVE  InflightNeverOverstated'
<1> DEFINE u == wk[w].tun
<1>1. u \in Tunnels BY DEF BaseInv, Located
<1>2. SUFFICES ASSUME NEW t \in Tunnels
               PROVE  pool'[t].inflight <= Cardinality(Holders(t)')
  BY DEF InflightNeverOverstated
<1>3. wk'[w].pc # "holding" /\ \A v \in Workers : v # w => wk'[v] = wk[v]
  BY EndAttemptKeeps
<1>4. pool'[u] = s /\ \A t0 \in Tunnels : t0 # u => pool'[t0] = pool[t0]
  BY <1>1, EntryKeeps DEF BaseInv
<1>5. pool[t].inflight <= Cardinality(Holders(t)) BY DEF InflightNeverOverstated
<1>6. CASE t # u
  <2>1. Holders(t)' = Holders(t) BY <1>3, <1>6 DEF Holders
  <2>2. QED BY <1>4, <1>5, <1>6, <2>1
<1>7. CASE t = u
  <2>1. w \in Holders(t) BY <1>7 DEF Holders
  <2>2. Holders(t)' = Holders(t) \ {w} BY <1>3, <1>7 DEF Holders
  <2>3. Cardinality(Holders(t) \ {w}) = Cardinality(Holders(t)) - 1
    BY <2>1, HoldersFinite, FS_RemoveElement
  <2>4. Cardinality(Holders(t)) \in Nat /\ Cardinality(Holders(t) \ {w}) \in Nat
    <3>1. IsFiniteSet(Holders(t) \ {w}) BY HoldersFinite, FS_Subset, Holders(t) \ {w} \subseteq Holders(t)
    <3>2. QED BY <3>1, HoldersFinite, FS_CardinalityType
  <2>5. pool[t].inflight \in Nat BY DEF BaseInv, TypeOK, Slot
  <2>6. pool'[t].inflight = IF pool[t].inflight > 0 THEN pool[t].inflight - 1 ELSE 0
    BY <1>4, <1>7
  <2>7. QED BY <1>5, <2>2, <2>3, <2>4, <2>5, <2>6
<1>8. QED BY <1>6, <1>7

\* mark_inflight: the task becomes a holder in the step that counts it.
LEMMA GaugeRises ==
    ASSUME InflightNeverOverstated, BaseInv, NEW w \in Workers, MarkInflight(w)
    PROVE  InflightNeverOverstated'
<1> DEFINE u == wk[w].tun
           n == [pool[u] EXCEPT !.inflight = pool[u].inflight + 1]
<1>1. u \in Tunnels /\ wk[w] \in Worker /\ wk[w].pc = "mark" /\ wk \in [Workers -> Worker]
  BY DEF BaseInv, Located, TypeOK, MarkInflight
<1>2. pool[u] \in Slot /\ pool[u].inflight \in Nat BY <1>1 DEF BaseInv, TypeOK, Slot
<1>3. n.inflight = pool[u].inflight + 1 BY <1>2 DEF Slot
<1>4. pool' = [pool EXCEPT ![u] = n] BY DEF MarkInflight, Entry
<1>5. wk' = [wk EXCEPT ![w] = [wk[w] EXCEPT !.pc = "holding"]] BY DEF MarkInflight
<1>6. [wk[w] EXCEPT !.pc = "holding"].pc = "holding" /\ [wk[w] EXCEPT !.pc = "holding"].tun = u
  BY <1>1 DEF Worker
<1> HIDE DEF n
<1>7. wk'[w].pc = "holding" /\ wk'[w].tun = u /\ \A v \in Workers : v # w => wk'[v] = wk[v]
  BY <1>1, <1>5, <1>6
<1>8. SUFFICES ASSUME NEW t \in Tunnels
               PROVE  pool'[t].inflight <= Cardinality(Holders(t)')
  BY DEF InflightNeverOverstated
<1>9. pool[t].inflight <= Cardinality(Holders(t)) BY DEF InflightNeverOverstated
<1>10. CASE t # u
  <2>1. Holders(t)' = Holders(t) BY <1>1, <1>7, <1>10 DEF Holders
  <2>2. pool'[t] = pool[t] BY <1>4, <1>10 DEF BaseInv, TypeOK
  <2>3. QED BY <1>9, <2>1, <2>2
<1>11. CASE t = u
  <2>1. w \notin Holders(t) BY <1>1 DEF Holders
  <2>2. Holders(t)' = Holders(t) \cup {w} BY <1>1, <1>7, <1>11 DEF Holders
  <2>3. Cardinality(Holders(t) \cup {w}) = Cardinality(Holders(t)) + 1
    BY <2>1, HoldersFinite, FS_AddElement
  <2>4. Cardinality(Holders(t)) \in Nat BY HoldersFinite
  <2>5. pool'[t] = n BY <1>1, <1>4, <1>11 DEF BaseInv, TypeOK
  <2>6. QED BY <1>2, <1>3, <1>9, <1>11, <2>2, <2>3, <2>4, <2>5
<1>12. QED BY <1>10, <1>11

\* A write of one slot that does not raise its gauge raises none.
LEMMA EntryLowers ==
    ASSUME BaseInv, NEW t \in Tunnels, NEW s, SlotInv(s), Entry(t, s),
           s.inflight <= pool[t].inflight
    PROVE  \A u \in Tunnels : pool'[u].inflight <= pool[u].inflight
<1> SUFFICES ASSUME NEW u \in Tunnels PROVE pool'[u].inflight <= pool[u].inflight
  OBVIOUS
<1>1. pool[u].inflight \in Nat BY DEF BaseInv, TypeOK, Slot
<1>2. CASE u = t BY <1>2, EntryKeeps DEF BaseInv
<1>3. CASE u # t BY <1>1, <1>3, EntryKeeps DEF BaseInv
<1>4. QED BY <1>2, <1>3

LEMMA WorkerGauge ==
    ASSUME InflightNeverOverstated, BaseInv, BaseInv', NEW w \in Workers, WorkerStep(w)
    PROVE  InflightNeverOverstated'
<1>n. \A t \in Tunnels : pool[t].inflight \in Nat BY DEF BaseInv, TypeOK, Slot
<1>w. wk \in [Workers -> Worker] /\ wk[w] \in Worker BY DEF BaseInv, TypeOK
<1>i. \A t \in Tunnels : SlotInv(pool[t]) BY DEF BaseInv, PoolInv
<1>1. ASSUME UNCHANGED pool, wk[w].pc # "holding", wk'[w].pc # "holding",
             \A v \in Workers : v # w => wk'[v] = wk[v]
      PROVE  InflightNeverOverstated'
  BY <1>1, <1>n, GaugeKeeps
<1>2. CASE SnapshotView(w)
  BY <1>1, <1>2, <1>w DEF SnapshotView, AtRest
<1>3. CASE PickCandidates(w)
  <2> DEFINE c == wk[w].cand \cap healthy_ids
             r == IF c = {} THEN AtRest ELSE [AtRest EXCEPT !.pc = "cand", !.cand = c]
  <2>1. r.pc # "holding" BY DEF AtRest
  <2>2. wk' = [wk EXCEPT ![w] = r] BY <1>3 DEF PickCandidates
  <2> HIDE DEF r
  <2>3. QED BY <1>1, <1>3, <1>w, <2>1, <2>2 DEF PickCandidates
<1>4. ASSUME NEW t \in Tunnels, TryTunnel(w, t) PROVE InflightNeverOverstated'
  BY <1>1, <1>4, <1>w DEF TryTunnel, AtRest
<1>5. ASSUME NEW t \in Tunnels, NEW s, SlotInv(s), Entry(t, s),
             s.inflight <= pool[t].inflight,
             wk[w].pc # "holding", wk'[w].pc # "holding",
             \A v \in Workers : v # w => wk'[v] = wk[v]
      PROVE  InflightNeverOverstated'
  BY <1>5, GaugeKeeps, EntryLowers
<1>6. ASSUME NEW expired \in BOOLEAN, LeasePop(w, expired) PROVE InflightNeverOverstated'
  <2> DEFINE t == wk[w].tun
             s == pool[t]
             n == IF s.idle = <<>> THEN s ELSE [s EXCEPT !.idle = Tail(s.idle)]
             r == IF s.idle = <<>> THEN [wk[w] EXCEPT !.pc = "open"]
                  ELSE IF expired THEN wk[w]
                  ELSE [wk[w] EXCEPT !.pc = "mark", !.conn = Head(s.idle)]
  <2>1. t \in Tunnels /\ wk[w].pc = "lease" BY <1>6 DEF LeasePop, BaseInv, Located
  <2>2. SlotInv(n) /\ n.inflight = s.inflight BY <1>i, <2>1, PopSlot
  <2>3. Entry(t, n) BY <1>6 DEF LeasePop
  <2>4. wk'[w].pc # "holding" /\ \A v \in Workers : v # w => wk'[v] = wk[v]
    <3>1. wk' = [wk EXCEPT ![w] = r] BY <1>6, <1>w DEF LeasePop, Worker
    <3>2. r.pc # "holding" BY <1>w, <2>1 DEF Worker
    <3> HIDE DEF r
    <3>3. QED BY <1>w, <3>1, <3>2
  <2>5. n.inflight <= pool[t].inflight BY <1>n, <2>1, <2>2
  <2> HIDE DEF t, s, n
  <2>6. QED BY <1>5, <2>1, <2>2, <2>3, <2>4, <2>5
<1>7. CASE OpenOk(w)
  <2> DEFINE t == wk[w].tun
  <2>1. t \in Tunnels /\ wk[w].pc = "open" BY <1>7 DEF OpenOk, BaseInv, Located
  <2>2. SlotInv(Succeed(pool[t])) /\ Succeed(pool[t]).inflight <= pool[t].inflight
    BY <1>i, <1>n, <2>1, SucceedSlot
  <2>3. Entry(t, Succeed(pool[t])) BY <1>7 DEF OpenOk
  <2>4. wk'[w].pc = "mark" /\ \A v \in Workers : v # w => wk'[v] = wk[v]
    BY <1>7, <1>w DEF OpenOk, Worker
  <2> HIDE DEF t
  <2>5. QED BY <1>5, <2>1, <2>2, <2>3, <2>4
<1>8. CASE MarkInflight(w) BY <1>8, GaugeRises
<1>9. ASSUME NEW done \in BOOLEAN, OpenFail(w, done) PROVE InflightNeverOverstated'
  <2>1. wk[w].tun \in Tunnels /\ wk[w].pc = "open" BY <1>9 DEF OpenFail, BaseInv, Located
  <2>2. SlotInv(Fail(pool[wk[w].tun])) /\ Fail(pool[wk[w].tun]).inflight <= pool[wk[w].tun].inflight
    BY <1>i, <1>n, <2>1, FailSlot
  <2>3. wk'[w].pc # "holding" /\ \A v \in Workers : v # w => wk'[v] = wk[v]
    BY <1>9, EndAttemptKeeps DEF OpenFail
  <2>4. Entry(wk[w].tun, Fail(pool[wk[w].tun])) BY <1>9 DEF OpenFail
  <2>5. QED BY <1>5, <2>1, <2>2, <2>3, <2>4
<1>10. ASSUME NEW done \in BOOLEAN, OpenUncounted(w, done) PROVE InflightNeverOverstated'
  <2>1. wk'[w].pc # "holding" /\ \A v \in Workers : v # w => wk'[v] = wk[v]
    BY <1>10, EndAttemptKeeps DEF OpenUncounted
  <2>2. QED BY <1>1, <1>10, <2>1 DEF OpenUncounted
<1>11. ASSUME NEW done \in BOOLEAN, Release(w, done) \/ Discard(w, done)
       PROVE  InflightNeverOverstated'
  <2>1. wk[w].tun \in Tunnels /\ wk[w].pc = "holding" /\ EndAttempt(w, done)
    BY <1>11 DEF Release, Discard, BaseInv, Located
  <2>2. wk[w].conn \in Conn BY <1>w DEF Worker
  <2>3. SlotInv(pool[wk[w].tun]) BY <1>i, <2>1
  <2>4. CASE Release(w, done)
    BY <2>1, <2>2, <2>3, <2>4, ReleaseDiscardSlot, GaugeDrops DEF Release
  <2>5. CASE Discard(w, done)
    BY <2>1, <2>2, <2>3, <2>5, ReleaseDiscardSlot, GaugeDrops DEF Discard
  <2>6. QED BY <1>11, <2>4, <2>5
<1>12. QED
  BY <1>2, <1>3, <1>4, <1>6, <1>7, <1>8, <1>9, <1>10, <1>11 DEF WorkerStep

\* Neither background task nor the environment takes or ends a lease.
LEMMA OtherGauge ==
    ASSUME InflightNeverOverstated, BaseInv, BaseInv',
           KeepaliveStep \/ ReloadStep \/ EnvStep
    PROVE  InflightNeverOverstated'
<1>n. \A t \in Tunnels : pool[t].inflight \in Nat BY DEF BaseInv, TypeOK, Slot
<1>i. \A t \in Tunnels : SlotInv(pool[t]) BY DEF BaseInv, PoolInv
<1>1. ASSUME UNCHANGED <<pool, wk>> PROVE InflightNeverOverstated'
  BY <1>1, <1>n, GaugeKeeps
<1>2. ASSUME NEW t \in Tunnels, NEW s, SlotInv(s), Entry(t, s),
             s.inflight <= pool[t].inflight, UNCHANGED wk
      PROVE  InflightNeverOverstated'
  BY <1>2, GaugeKeeps, EntryLowers
<1>3. CASE KeepaliveCollect \/ KeepaliveSleep \/ ReloadChanged \/ ReloadSnapshot \/ ReloadDone
  BY <1>1, <1>3 DEF KeepaliveCollect, KeepaliveSleep, ReloadChanged, ReloadSnapshot, ReloadDone
<1>4. ASSUME NEW t \in Tunnels, KeepalivePop(t) PROVE InflightNeverOverstated'
  <2> DEFINE s == pool[t]
             n == IF s.idle = <<>> THEN s ELSE [s EXCEPT !.idle = Tail(s.idle)]
  <2>1. SlotInv(n) /\ n.inflight = s.inflight BY <1>i, PopSlot
  <2>2. Entry(t, n) /\ UNCHANGED wk BY <1>4 DEF KeepalivePop
  <2>3. n.inflight <= pool[t].inflight BY <1>n, <2>1
  <2> HIDE DEF s, n
  <2>4. QED BY <1>2, <2>1, <2>2, <2>3
<1>5. CASE KeepalivePong \/ KeepaliveFail
  <2>1. ka.tun \in Tunnels BY <1>5 DEF KeepalivePong, KeepaliveFail, BaseInv, Located
  <2>2. ka.conn \in Conn BY DEF BaseInv, TypeOK, Keepalive
  <2>3. SlotInv(pool[ka.tun]) /\ pool[ka.tun].inflight \in Nat BY <1>i, <1>n, <2>1
  <2>4. PICK s : SlotInv(s) /\ Entry(ka.tun, s)
                 /\ s.inflight = IF pool[ka.tun].inflight > 0
                                 THEN pool[ka.tun].inflight - 1 ELSE 0
    BY <1>5, <2>2, <2>3, ReleaseDiscardSlot DEF KeepalivePong, KeepaliveFail
  <2>5. s.inflight <= pool[ka.tun].inflight BY <2>3, <2>4
  <2>6. UNCHANGED wk BY <1>5 DEF KeepalivePong, KeepaliveFail
  <2>7. QED BY <1>2, <2>1, <2>4, <2>5, <2>6
<1>6. CASE Retain
  <2>1. \A t \in Tunnels : pool'[t] = IF t \in rl.ids THEN pool[t] ELSE DefaultSlot
    BY <1>6 DEF Retain
  <2>2. DefaultSlot.inflight = 0 BY DEF DefaultSlot
  <2>3. \A t \in Tunnels : pool'[t].inflight <= pool[t].inflight BY <1>n, <2>1, <2>2
  <2>4. QED BY <1>6, <2>3, GaugeKeeps DEF Retain
<1>7. ASSUME NEW t \in Tunnels, Ensure(t) PROVE InflightNeverOverstated'
  BY <1>2, <1>7, <1>i, <1>n DEF Ensure
<1>8. ASSUME NEW v \in Views, SetView(v) PROVE InflightNeverOverstated'
  BY <1>1, <1>8 DEF SetView
<1>9. ASSUME NEW t \in Tunnels, NEW q, pool' = [pool EXCEPT ![t].idle = q]
      PROVE  \A u \in Tunnels : pool'[u].inflight <= pool[u].inflight
  <2> SUFFICES ASSUME NEW u \in Tunnels PROVE pool'[u].inflight <= pool[u].inflight
    OBVIOUS
  <2>1. pool \in [Tunnels -> Slot] /\ pool[t] \in Slot BY DEF BaseInv, TypeOK
  <2>2. [pool[t] EXCEPT !.idle = q].inflight = pool[t].inflight BY <2>1 DEF Slot
  <2>3. pool'[u] = IF u = t THEN [pool[t] EXCEPT !.idle = q] ELSE pool[u] BY <1>9, <2>1
  <2>4. QED BY <1>n, <2>2, <2>3
<1>10. ASSUME NEW t \in Tunnels, EdgeDown(t) PROVE InflightNeverOverstated'
  <2>1. \A u \in Tunnels : pool'[u].inflight <= pool[u].inflight BY <1>9, <1>10 DEF EdgeDown
  <2>2. \A w \in Workers : wk'[w].pc = wk[w].pc /\ wk'[w].tun = wk[w].tun
    <3> SUFFICES ASSUME NEW w \in Workers
                 PROVE  wk'[w].pc = wk[w].pc /\ wk'[w].tun = wk[w].tun
      OBVIOUS
    <3>1. wk[w] \in Worker BY DEF BaseInv, TypeOK
    <3>2. QED BY <1>10, <3>1 DEF EdgeDown, Worker
  <2>3. QED BY <2>1, <2>2, GaugeKeeps
<1>11. ASSUME NEW t \in Tunnels, EdgeUp(t) PROVE InflightNeverOverstated'
  BY <1>1, <1>11 DEF EdgeUp
<1>12. ASSUME NEW t \in Tunnels, NEW i \in 1..IdleCap, IdleConnBreaks(t, i)
       PROVE  InflightNeverOverstated'
  <2>1. \A u \in Tunnels : pool'[u].inflight <= pool[u].inflight
    BY <1>9, <1>12 DEF IdleConnBreaks
  <2>2. UNCHANGED wk BY <1>12 DEF IdleConnBreaks
  <2>3. QED BY <2>1, <2>2, GaugeKeeps
<1>13. QED
  BY <1>3, <1>4, <1>5, <1>6, <1>7, <1>8, <1>10, <1>11, <1>12
     DEF KeepaliveStep, ReloadStep, EnvStep

\* The in-flight gauge of a slot never exceeds the number of tasks that hold
\* a lease on its tunnel, although marking, releasing, pinging and retaining
\* are separate critical sections: no lease is leaked in the statistics.
THEOREM InflightAlways == Spec => []InflightNeverOverstated
<1>1. Init => InflightNeverOverstated
  <2> SUFFICES ASSUME Init, NEW t \in Tunnels
               PROVE  pool[t].inflight <= Cardinality(Holders(t))
    BY DEF InflightNeverOverstated
  <2>1. pool[t].inflight = 0 BY DEF Init, DefaultSlot
  <2>2. Cardinality(Holders(t)) \in Nat BY HoldersFinite
  <2>3. QED BY <2>1, <2>2
<1>2. /\ InflightNeverOverstated /\ BaseInv /\ BaseInv'
      /\ [Next]_vars
      => InflightNeverOverstated'
  <2> SUFFICES ASSUME InflightNeverOverstated, BaseInv, BaseInv', [Next]_vars
               PROVE  InflightNeverOverstated'
    OBVIOUS
  <2>1. CASE Next BY <2>1, WorkerGauge, OtherGauge DEF Next
  <2>2. CASE UNCHANGED vars BY <2>2 DEF vars, InflightNeverOverstated, Holders
  <2>3. QED BY <2>1, <2>2
<1>3. QED BY <1>1, <1>2, BaseInvariant, PTL DEF Spec
=============================================================================
