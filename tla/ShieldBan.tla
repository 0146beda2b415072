----------------------------- MODULE ShieldBan -----------------------------
(***************************************************************************)
(* The repeat-offender ban list of ngx_http_shield_ban.c as the request    *)
(* handler of ngx_http_shield_module.c uses it.                            *)
(*                                                                         *)
(* Worker processes share one zone: a tree of nodes keyed by address, a    *)
(* ring through all nodes (most recently touched first) and an eviction    *)
(* cursor.  Each locked call is one action, except that the loop of        *)
(* ngx_http_shield_ban_expire is one action per iteration while the worker *)
(* holds the lock.  is_banned and record take the lock separately, so      *)
(* other workers, the clock and other requests of the same client come in  *)
(* between; and each reads ngx_time(), the time its own process cached     *)
(* last, before it waits for the lock.                                     *)
(***************************************************************************)
EXTENDS Naturals, FiniteSets, Sequences

CONSTANTS
    Addrs,      \* client addresses
    Workers,    \* in-flight requests, one per worker; two requests of one
                \* process are two workers whose cached times agree
    Policies,   \* shield_ban count=, window=, bantime= of the locations that
                \* share the zone, before and after reloads
    Capacity,   \* nodes that fit in the slab
    SCAN, EVICT,
    TimeMax,    \* largest time_t
    MaxClock,   \* bound: the clock of the instance
    Lag,        \* bound: how far a cached time falls behind the clock
    HistoryLen, \* bound: hits of an address that the history remembers
    CounterMod, \* the bans counter wraps (2^64 in the code)
    Steps,      \* bound: how often the wall clock is stepped backward
    Sentinel,   \* the queue head embedded in shctx
    NoWorker

ASSUME PolicyAssumption ==
    \A p \in Policies : /\ p.count \in Nat \ {0}
                        /\ p.window \in Nat \ {0}
                        /\ p.bantime \in Nat \ {0}
ASSUME BanAssumption ==
    /\ Capacity \in Nat /\ SCAN \in Nat /\ EVICT \in Nat
    /\ TimeMax \in Nat /\ MaxClock \in Nat \ {0}
    /\ MaxClock < TimeMax
    /\ CounterMod \in Nat \ {0} /\ HistoryLen \in Nat /\ Lag \in Nat
    /\ Steps \in Nat
    /\ Sentinel \notin Addrs
    /\ NoWorker \notin Workers

VARIABLES
    node,   \* node[a]: the node of each tracked address (the rbtree)
    ring,   \* the queue links: next and prev of each node and the sentinel
    cursor, \* where the next expire starts
    bans,   \* bans armed, for shield_ban_status
    lock,   \* the worker that holds the slab mutex
    req,    \* req[w]: the request that worker w is serving
    loop,   \* the locals of ngx_http_shield_ban_expire, for the lock holder
    clock,  \* the wall clock
    cached, \* cached[w]: ngx_time() in worker w
    steps,  \* history: the seconds that the wall clock was stepped backward
    until,  \* history: the furthest deadline that a ban of each address was
            \* given, 0 once it has passed
    recent  \* history: times of the hits recorded since the last ban lapsed

zone == <<node, ring, cursor, bans>>
hist == <<until, recent>>
time == <<clock, cached, steps>>
vars == <<zone, lock, req, loop, time, hist>>

Time == 0 .. TimeMax
Node == [window_start : Time, banned_until : Time, hits : Nat]
Link == Addrs \cup {Sentinel}
Idle == [pc |-> "idle"]
NoLoop == [q |-> Sentinel, scanned |-> 0, evicted |-> 0, wrapped |-> FALSE]
Tracked == DOMAIN node

TypeOK ==
    /\ Tracked \subseteq Addrs
    /\ node \in [Tracked -> Node]
    /\ ring.next \in [Tracked \cup {Sentinel} -> Link]
    /\ ring.prev \in [Tracked \cup {Sentinel} -> Link]
    /\ cursor \in Link
    /\ bans \in 0 .. CounterMod - 1
    /\ lock \in Workers \cup {NoWorker}
    /\ req \in [Workers -> {Idle} \cup [pc : {"inspect", "expire"},
                                        addr : Addrs, pol : Policies]]
    /\ loop \in [q : Link, scanned : 0 .. SCAN, evicted : 0 .. EVICT,
                 wrapped : BOOLEAN]
    /\ clock \in 1 .. MaxClock
    /\ cached \in [Workers -> 1 .. MaxClock]
    /\ steps \in 0 .. Steps
    /\ until \in [Addrs -> Nat]
    /\ recent \in [Addrs -> Seq(Nat)]

----------------------------------------------------------------------------
(* The queue                                                               *)

(* ngx_queue_remove: x leaves the ring. *)
QueueRemove(r, x) ==
    LET rest == DOMAIN r.next \ {x}
    IN  [next |-> [y \in rest |-> IF y = r.prev[x] THEN r.next[x] ELSE r.next[y]],
         prev |-> [y \in rest |-> IF y = r.next[x] THEN r.prev[x] ELSE r.prev[y]]]

(* Mutant of QueueInsertHead: the old first node keeps its prev. *)
QueueInsertHeadOneWay(r, x) ==
    LET all == DOMAIN r.next \cup {x}
        first == r.next[Sentinel]
    IN  [next |-> [y \in all |-> IF y = x THEN first
                                 ELSE IF y = Sentinel THEN x ELSE r.next[y]],
         prev |-> [y \in all |-> IF y = x THEN Sentinel ELSE r.prev[y]]]

(* ngx_queue_insert_head: x becomes the most recently touched. *)
QueueInsertHead(r, x) ==
    LET all == DOMAIN r.next \cup {x}
        first == r.next[Sentinel]
    IN  [next |-> [y \in all |-> IF y = x THEN first
                                 ELSE IF y = Sentinel THEN x ELSE r.next[y]],
         prev |-> [y \in all |-> IF y = x THEN Sentinel
                                 ELSE IF y = first THEN x ELSE r.prev[y]]]

(* What ngx_http_shield_ban_lookup does to the ring: a hit moves the node  *)
(* to the head.                                                            *)
lookup(a) ==
    IF a \in Tracked THEN QueueInsertHead(QueueRemove(ring, a), a) ELSE ring

(* Mutant of time_add_clamp: the sum wraps. *)
TimeAddWraps(now, delta) == (now + delta) % (TimeMax + 1)

time_add_clamp(now, delta) ==
    IF delta > TimeMax - now THEN TimeMax ELSE now + delta

----------------------------------------------------------------------------
(* record_locked: the node after one more hit                              *)

(* Mutant of Retire: a lapsed ban stays armed until the window rolls. *)
RetireNever(n, now) == n.banned_until

(* Mutant of Retire: every recorded hit clears the ban. *)
RetireAlways(n, now) == 0

(* A lapsed ban is retired as soon as it is seen. *)
Retire(n, now) == IF n.banned_until <= now THEN 0 ELSE n.banned_until

(* The window has elapsed, or the clock stepped back behind its start. *)
Rolls(n, now, pol) ==
    now < n.window_start \/ now - n.window_start >= pol.window

HitsAfter(n, now, pol) == (IF Rolls(n, now, pol) THEN 0 ELSE n.hits) + 1

Arms(n, now, pol) == HitsAfter(n, now, pol) >= pol.count

Counted(n, now, pol) ==
    IF Arms(n, now, pol)
      THEN [window_start |-> now, hits |-> 0,
            banned_until |-> time_add_clamp(now, pol.bantime)]
      ELSE [window_start |-> IF Rolls(n, now, pol) THEN now ELSE n.window_start,
            hits |-> HitsAfter(n, now, pol),
            banned_until |-> Retire(n, now)]

Fresh(now) == [window_start |-> now, banned_until |-> 0, hits |-> 0]

Remember(times, now) ==
    LET all == Append(times, now)
    IN  IF Len(all) > HistoryLen THEN Tail(all) ELSE all

Later(s, t) == IF s > t THEN s ELSE t

(* The hit of address a is written to its node n.  An arming sets the      *)
(* deadline whatever it was; the history keeps the furthest one.           *)
Record(a, n, now, pol) ==
    /\ node' = [b \in Tracked \cup {a} |->
                  IF b = a THEN Counted(n, now, pol) ELSE node[b]]
    /\ IF Arms(n, now, pol)
         THEN /\ bans' = (bans + 1) % CounterMod
              /\ until' = [until EXCEPT ![a] = Later(@, now + pol.bantime)]
              /\ recent' = [recent EXCEPT ![a] = <<>>]
         ELSE /\ recent' = [recent EXCEPT ![a] = IF n.banned_until > now THEN @
                                                ELSE Remember(@, now)]
              /\ UNCHANGED <<bans, until>>

----------------------------------------------------------------------------
(* The request handler                                                     *)

Init ==
    /\ node = << >>
    /\ ring = [next |-> [x \in {Sentinel} |-> Sentinel],
               prev |-> [x \in {Sentinel} |-> Sentinel]]
    /\ cursor = Sentinel
    /\ bans = 0
    /\ lock = NoWorker
    /\ req = [w \in Workers |-> Idle]
    /\ loop = NoLoop
    /\ clock = 1
    /\ cached = [w \in Workers |-> 1]
    /\ steps = 0
    /\ until = [a \in Addrs |-> 0]
    /\ recent = [a \in Addrs |-> <<>>]

banned(a, now) == a \in Tracked /\ node[a].banned_until > now

(* A request arrives; a banned client is cut off before any inspection. *)
Arrive(w, a) ==
    /\ req[w] = Idle
    /\ lock = NoWorker
    /\ ring' = lookup(a)
    /\ IF banned(a, cached[w])
         THEN UNCHANGED req
         ELSE \E p \in Policies :
                req' = [req EXCEPT ![w] =
                          [pc |-> "inspect", addr |-> a, pol |-> p]]
    /\ UNCHANGED <<node, cursor, bans, lock, loop, time, hist>>

(* Inspection, which may wait for the request body, finds nothing. *)
NoHit(w) ==
    /\ req[w].pc = "inspect"
    /\ req' = [req EXCEPT ![w] = Idle]
    /\ UNCHANGED <<zone, lock, loop, time, hist>>

(* A hit of an address that has a node. *)
RecordTracked(w) ==
    /\ req[w].pc = "inspect"
    /\ lock = NoWorker
    /\ LET a == req[w].addr
       IN  /\ a \in Tracked
           /\ ring' = lookup(a)
           /\ Record(a, node[a], cached[w], req[w].pol)
    /\ req' = [req EXCEPT ![w] = Idle]
    /\ UNCHANGED <<cursor, lock, loop, time>>

(* A hit of an address that has none: expire starts at the cursor. *)
RecordNew(w) ==
    /\ req[w].pc = "inspect"
    /\ lock = NoWorker
    /\ req[w].addr \notin Tracked
    /\ lock' = w
    /\ loop' = [NoLoop EXCEPT
                  !.q = IF cursor = Sentinel THEN ring.prev[Sentinel] ELSE cursor,
                  !.wrapped = (cursor = Sentinel)]
    /\ req' = [req EXCEPT ![w].pc = "expire"]
    /\ UNCHANGED <<zone, time, hist>>

----------------------------------------------------------------------------
(* ngx_http_shield_ban_expire                                              *)

(* Not evictable: banned, or unarmed and inside its counting window. *)
Live(n, now, window) ==
    \/ n.banned_until > now
    \/ /\ n.banned_until = 0
       /\ now >= n.window_start
       /\ time_add_clamp(n.window_start, window) > now

(* Mutant of Budget: only the scan is bounded. *)
BudgetScanOnly(w) == req[w].pc = "expire" /\ loop.scanned < SCAN

(* The loop goes on. *)
Budget(w) ==
    /\ req[w].pc = "expire"
    /\ loop.scanned < SCAN
    /\ loop.evicted < EVICT

(* Ran off the head for the first time: go on at the tail. *)
ExpireWrap(w) ==
    /\ Budget(w)
    /\ loop.q = Sentinel /\ ~ loop.wrapped
    /\ loop' = [loop EXCEPT !.wrapped = TRUE, !.q = ring.prev[Sentinel]]
    /\ UNCHANGED <<zone, lock, req, time, hist>>

ExpireSkip(w) ==
    /\ Budget(w)
    /\ loop.q # Sentinel
    /\ Live(node[loop.q], cached[w], req[w].pol.window)
    /\ loop' = [loop EXCEPT !.scanned = @ + 1, !.q = ring.prev[loop.q]]
    /\ UNCHANGED <<zone, lock, req, time, hist>>

(* Mutant of ExpireEvict: the node is freed before q moves on. *)
ExpireEvictInPlace(w) ==
    /\ Budget(w)
    /\ loop.q # Sentinel
    /\ ~ Live(node[loop.q], cached[w], req[w].pol.window)
    /\ node' = [b \in Tracked \ {loop.q} |-> node[b]]
    /\ ring' = QueueRemove(ring, loop.q)
    /\ loop' = [loop EXCEPT !.scanned = @ + 1, !.evicted = EVICT]
    /\ UNCHANGED <<cursor, bans, lock, req, time, hist>>

(* q moves to its predecessor before the node is freed. *)
ExpireEvict(w) ==
    /\ Budget(w)
    /\ loop.q # Sentinel
    /\ ~ Live(node[loop.q], cached[w], req[w].pol.window)
    /\ node' = [b \in Tracked \ {loop.q} |-> node[b]]
    /\ ring' = QueueRemove(ring, loop.q)
    /\ loop' = [loop EXCEPT !.scanned = @ + 1, !.evicted = @ + 1,
                            !.q = ring.prev[loop.q]]
    /\ UNCHANGED <<cursor, bans, lock, req, time, hist>>

ExpireOver(w) ==
    /\ req[w].pc = "expire"
    /\ \/ loop.scanned >= SCAN
       \/ loop.evicted >= EVICT
       \/ loop.q = Sentinel /\ loop.wrapped

(* The walk ends and parks the cursor; the slab has room for a node, which *)
(* becomes the head of the queue.                                          *)
Allocate(w) ==
    /\ ExpireOver(w)
    /\ Cardinality(Tracked) < Capacity
    /\ cursor' = loop.q
    /\ ring' = QueueInsertHead(ring, req[w].addr)
    /\ Record(req[w].addr, Fresh(cached[w]), cached[w], req[w].pol)
    /\ lock' = NoWorker
    /\ req' = [req EXCEPT ![w] = Idle]
    /\ loop' = NoLoop
    /\ UNCHANGED time

(* The walk ends, the slab is full and the hit is dropped. *)
DropHit(w) ==
    /\ ExpireOver(w)
    /\ Cardinality(Tracked) >= Capacity
    /\ cursor' = loop.q
    /\ lock' = NoWorker
    /\ req' = [req EXCEPT ![w] = Idle]
    /\ loop' = NoLoop
    /\ UNCHANGED <<node, ring, bans, time, hist>>

----------------------------------------------------------------------------
(* The wall clock, and the time that each event loop caches (external)     *)

(* The clock moves on, and so do the workers that would lag too far. *)
Tick ==
    /\ clock < MaxClock
    /\ clock' = clock + 1
    /\ \A w \in Workers : cached[w] + Lag < clock' => lock # w
    /\ cached' = [w \in Workers |->
                    IF cached[w] + Lag < clock' THEN clock' ELSE cached[w]]
    /\ until' = [a \in Addrs |-> IF until[a] <= clock' THEN 0 ELSE until[a]]
    /\ UNCHANGED <<zone, lock, req, loop, steps, recent>>

(* ngx_time_update, at the next turn of a worker's event loop. *)
TimeUpdate(w) ==
    /\ lock # w
    /\ cached[w] # clock
    /\ cached' = [cached EXCEPT ![w] = clock]
    /\ UNCHANGED <<zone, lock, req, loop, clock, steps, hist>>

(* A backward step restarts the observation of hits. *)
StepBack ==
    /\ steps < Steps
    /\ clock > 1
    /\ clock' = clock - 1
    /\ steps' = steps + 1
    /\ recent' = [a \in Addrs |-> <<>>]
    /\ UNCHANGED <<zone, lock, req, loop, cached, until>>

Worker(w) ==
    \/ \E a \in Addrs : Arrive(w, a)
    \/ NoHit(w)
    \/ RecordTracked(w)
    \/ RecordNew(w)
    \/ ExpireWrap(w)
    \/ ExpireSkip(w)
    \/ ExpireEvict(w)
    \/ Allocate(w)
    \/ DropHit(w)
    \/ TimeUpdate(w)

Next == (\E w \in Workers : Worker(w)) \/ Tick \/ StepBack

Spec == Init /\ [][Next]_vars

(* Requests are served to their end, and clients that have no node keep    *)
(* sending requests that hit, so expire runs again and again.              *)
Served(w) ==
    \/ ExpireWrap(w)
    \/ ExpireSkip(w)
    \/ ExpireEvict(w)
    \/ Allocate(w)
    \/ DropHit(w)

Fairness ==
    \A w \in Workers :
       /\ WF_vars(Served(w))
       /\ SF_vars(RecordNew(w))
       /\ SF_vars(\E a \in Addrs \ Tracked : Arrive(w, a))
       /\ WF_vars(NoHit(w) \/ RecordTracked(w) \/ RecordNew(w))

FairSpec == Spec /\ Fairness

----------------------------------------------------------------------------
(* Properties                                                              *)

(* Neither the cursor between two calls, nor the position of the loop in a *)
(* call, points to freed memory: each is the sentinel or a node that is    *)
(* still in the tree, whatever lookups did to the ring in between.         *)
CursorLive ==
    /\ lock = NoWorker => cursor = Sentinel \/ cursor \in Tracked
    /\ loop.q = Sentinel \/ loop.q \in Tracked

(* r links the sentinel and exactly the nodes N into one ring: next and    *)
(* prev are inverse, and no set of nodes is closed under prev.             *)
Ring(r, N) ==
    LET on == N \cup {Sentinel}
    IN  /\ DOMAIN r.next = on /\ DOMAIN r.prev = on
        /\ \A x \in on : /\ r.next[x] \in on /\ r.prev[r.next[x]] = x
                         /\ r.prev[x] \in on /\ r.next[r.prev[x]] = x
        /\ \A S \in SUBSET N : S # {} => \E x \in S : r.prev[x] \notin S

(* The queue and the tree hold the same nodes, and the walk reaches the    *)
(* sentinel from every node, after any interleaving of lookups, insertions *)
(* and evictions.                                                          *)
RingIntact == Ring(ring, Tracked)

(* The furthest deadline of a ban is still ahead by more than re-arming    *)
(* can have taken from it: record sets banned_until unconditionally, so a  *)
(* worker whose cached time lags, a clock that was stepped back or a       *)
(* policy with a shorter bantime moves the deadline of a live ban forward; *)
(* a worker that has not noticed a step reaches it early once more.        *)
Owed(a) ==
    /\ until[a] # 0
    /\ \A p, q \in Policies :
          clock + Lag + 2 * steps + p.bantime < until[a] + q.bantime

(* A ban lasts: whatever is evicted and whatever requests that were past   *)
(* is_banned record meanwhile, also where now + bantime exceeds what       *)
(* time_t can hold, every worker finds the address banned until its        *)
(* furthest deadline, less at most the lag of a cached time, twice the     *)
(* seconds stepped back and the difference of the policies' bantimes.      *)
(* Under one policy and with clocks that agree nothing is taken off.       *)
BanHolds ==
    \A a \in Addrs : Owed(a) =>
       banned(a, clock) /\ \A w \in Workers : banned(a, cached[w])

(* No evasion by eviction (S27-1, S32): under one policy, 2 * count - 1    *)
(* recorded hits of one address within less than a window lead to a ban.   *)
(* A fixed window alone guarantees that number; evicting a node that is    *)
(* still counting, or still counted as armed after its ban, would lose it. *)
(* Hits of requests that were in flight when the ban was armed, recorded   *)
(* under it, are not among them: the node is evictable when the ban lapses *)
(* whatever they counted.  (Where the workers agree on the time: Lag = 0.) *)
NoEvasion ==
    \A p \in Policies : \A a \in Addrs :
       LET n == 2 * p.count - 1
           k == Len(recent[a])
       IN  k >= n => recent[a][k] - recent[a][k - n + 1] >= p.window

(* "`now < window_start` can only happen if the wall clock was stepped     *)
(* backward (ngx_time() is wall-clock based)": where it never is, a window *)
(* never starts earlier than the one it replaces.                          *)
WindowsMoveOn ==
    [][Steps = 0 => \A a \in Tracked \cap DOMAIN node' :
                     node'[a].window_start >= node[a].window_start]_vars

Stale(a) ==
    /\ a \in Tracked
    /\ \A p \in Policies : ~ Live(node[a], clock, p.window)

(* "the walk is cyclic and every node is eventually examined": as long as  *)
(* expire keeps being called, no node that is stale under every policy     *)
(* stays at the tail for ever, where only an examination can remove it.    *)
EveryNodeExamined ==
    \A a \in Addrs : []<> ~ (Stale(a) /\ ring.prev[Sentinel] = a)
=============================================================================
