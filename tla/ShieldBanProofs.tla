-------------------------- MODULE ShieldBanProofs --------------------------
(***************************************************************************)
(* Proofs about the ban list, for any number of addresses, workers and     *)
(* policies, any slab size and any budgets.                                *)
(***************************************************************************)
EXTENDS ShieldBan, Integers, TLAPS

----------------------------------------------------------------------------
(* The queue                                                               *)

(* Removing a node from a ring leaves a ring through the others. *)
LEMMA RemoveRing ==
    ASSUME NEW r, NEW N, Sentinel \notin N, Ring(r, N), NEW x \in N
    PROVE  Ring(QueueRemove(r, x), N \ {x})
<1> DEFINE q == QueueRemove(r, x)
           on == N \cup {Sentinel}
           rest == (N \ {x}) \cup {Sentinel}
<1>1. DOMAIN r.next = on /\ DOMAIN r.prev = on /\ x # Sentinel
  BY DEF Ring
<1>2. on \ {x} = rest
  BY <1>1
<1>3. /\ q.next = [y \in rest |-> IF y = r.prev[x] THEN r.next[x] ELSE r.next[y]]
      /\ q.prev = [y \in rest |-> IF y = r.next[x] THEN r.prev[x] ELSE r.prev[y]]
  BY <1>1, <1>2 DEF QueueRemove
<1>4. \A y \in on : /\ r.next[y] \in on /\ r.prev[r.next[y]] = y
                    /\ r.prev[y] \in on /\ r.next[r.prev[y]] = y
  BY DEF Ring
<1>5. ASSUME NEW S \in SUBSET N, S # {}
      PROVE  \E y \in S : r.prev[y] \notin S
  BY <1>5 DEF Ring
<1>6. r.prev[x] # x /\ r.next[x] # x
  <2>1. r.prev[x] # x
    BY <1>5, {x} \in SUBSET N
  <2> QED
    BY <2>1, <1>4
<1> HIDE DEF q
<1>7. ASSUME NEW y \in rest
      PROVE  /\ q.next[y] \in rest /\ q.prev[q.next[y]] = y
             /\ q.prev[y] \in rest /\ q.next[q.prev[y]] = y
  <2>1. y \in on /\ y # x
    BY <1>1
  <2>2. q.next[y] \in rest /\ q.prev[q.next[y]] = y
    <3>1. CASE y = r.prev[x]
      BY <3>1, <2>1, <1>1, <1>3, <1>4, <1>6
    <3>2. CASE y # r.prev[x]
      BY <3>2, <2>1, <1>1, <1>3, <1>4, <1>6
    <3> QED
      BY <3>1, <3>2
  <2>3. q.prev[y] \in rest /\ q.next[q.prev[y]] = y
    <3>1. CASE y = r.next[x]
      BY <3>1, <2>1, <1>1, <1>3, <1>4, <1>6
    <3>2. CASE y # r.next[x]
      BY <3>2, <2>1, <1>1, <1>3, <1>4, <1>6
    <3> QED
      BY <3>1, <3>2
  <2> QED
    BY <2>2, <2>3
<1>8. ASSUME NEW S \in SUBSET (N \ {x}), S # {}
      PROVE  \E y \in S : q.prev[y] \notin S
  <2> SUFFICES ASSUME \A y \in S : q.prev[y] \in S PROVE FALSE
    OBVIOUS
  <2>1. \A y \in S : y \in rest
    OBVIOUS
  <2>2. CASE r.next[x] \in S
    <3>1. r.prev[x] \in S
      BY <2>1, <2>2, <1>3
    <3>2. ASSUME NEW y \in S \cup {x} PROVE r.prev[y] \in S \cup {x}
      <4>1. CASE y = x
        BY <3>1, <4>1
      <4>2. CASE y = r.next[x]
        <5>1. r.prev[r.next[x]] = x
          BY <1>1, <1>4
        <5> QED
          BY <4>2, <5>1
      <4>3. CASE y # x /\ y # r.next[x]
        <5>1. y \in S /\ y \in rest
          BY <4>3, <2>1
        <5>2. q.prev[y] = r.prev[y]
          BY <4>3, <5>1, <1>3
        <5> QED
          BY <5>1, <5>2
      <4> QED
        BY <4>1, <4>2, <4>3
    <3>3. S \cup {x} \in SUBSET N /\ S \cup {x} # {}
      OBVIOUS
    <3> QED
      BY <3>2, <3>3, <1>5
  <2>3. CASE r.next[x] \notin S
    <3>1. \A y \in S : r.prev[y] \in S
      BY <2>1, <2>3, <1>3
    <3> QED
      BY <3>1, <1>5, <1>8
  <2> QED
    BY <2>2, <2>3
<1> QED
  BY <1>3, <1>7, <1>8 DEF Ring, q

(* Inserting a new node at the head of a ring gives a ring through it. *)
LEMMA InsertRing ==
    ASSUME NEW r, NEW N, Sentinel \notin N, Ring(r, N),
           NEW x, x \notin N, x # Sentinel
    PROVE  Ring(QueueInsertHead(r, x), N \cup {x})
<1> DEFINE q == QueueInsertHead(r, x)
           on == N \cup {Sentinel}
           all == N \cup {x} \cup {Sentinel}
           first == r.next[Sentinel]
<1>1. DOMAIN r.next = on /\ DOMAIN r.prev = on
  BY DEF Ring
<1>2. on \cup {x} = all
  OBVIOUS
<1>3. /\ q.next = [y \in all |-> IF y = x THEN first
                                 ELSE IF y = Sentinel THEN x ELSE r.next[y]]
      /\ q.prev = [y \in all |-> IF y = x THEN Sentinel
                                 ELSE IF y = first THEN x ELSE r.prev[y]]
  BY <1>1, <1>2 DEF QueueInsertHead
<1>4. \A y \in on : /\ r.next[y] \in on /\ r.prev[r.next[y]] = y
                    /\ r.prev[y] \in on /\ r.next[r.prev[y]] = y
  BY DEF Ring
<1>5. ASSUME NEW S \in SUBSET N, S # {}
      PROVE  \E y \in S : r.prev[y] \notin S
  BY <1>5 DEF Ring
<1>6. first \in on /\ r.prev[first] = Sentinel /\ x \notin on
  BY <1>4
<1> HIDE DEF q, first
<1>7. ASSUME NEW y \in all
      PROVE  /\ q.next[y] \in all /\ q.prev[q.next[y]] = y
             /\ q.prev[y] \in all /\ q.next[q.prev[y]] = y
  <2>1. q.next[y] \in all /\ q.prev[q.next[y]] = y
    <3>1. CASE y = x
      BY <3>1, <1>3, <1>6
    <3>2. CASE y = Sentinel
      BY <3>2, <1>3, <1>6
    <3>3. CASE y # x /\ y # Sentinel
      BY <3>3, <1>3, <1>4, <1>6
    <3> QED
      BY <3>1, <3>2, <3>3
  <2>2. q.prev[y] \in all /\ q.next[q.prev[y]] = y
    <3>1. CASE y = x
      BY <3>1, <1>3, <1>6
    <3>2. CASE y = first
      BY <3>2, <1>3, <1>6
    <3>3. CASE y # x /\ y # first
      BY <3>3, <1>3, <1>4, <1>6 DEF first
    <3> QED
      BY <3>1, <3>2, <3>3
  <2> QED
    BY <2>1, <2>2
<1>8. ASSUME NEW S \in SUBSET (N \cup {x}), S # {}
      PROVE  \E y \in S : q.prev[y] \notin S
  <2>1. CASE x \in S
    BY <2>1, <1>3
  <2>2. CASE x \notin S
    <3>1. PICK y \in S : r.prev[y] \notin S
      BY <2>2, <1>5, <1>8
    <3>2. q.prev[y] = x \/ q.prev[y] = r.prev[y]
      BY <3>1, <2>2, <1>3
    <3> QED
      BY <3>1, <3>2, <2>2
  <2> QED
    BY <2>1, <2>2
<1> QED
  BY <1>3, <1>7, <1>8 DEF Ring, q

----------------------------------------------------------------------------
(* The inductive invariant                                                 *)

(* Only the lock holder is in expire, for an address that has no node, and *)
(* without a holder the loop is at rest.                                   *)
Locking ==
    /\ \A w \in Workers : req[w].pc = "expire" =>
          lock = w /\ req[w].addr \notin Tracked
    /\ lock = NoWorker => loop = NoLoop

(* A cached time is at most Lag behind the clock, and ahead of it only by  *)
(* steps that its worker has not noticed.                                  *)
Clocks ==
    \A w \in Workers : cached[w] <= clock + steps /\ clock <= cached[w] + Lag

(* u is no further from t than a ban may last. *)
Reach(u, t) == \E p \in Policies : u <= t + p.bantime

(* u is no further than t, give or take the difference of two policies. *)
Within(u, t) == \E p, q \in Policies : u + q.bantime <= t + p.bantime

(* b, the deadline in the node, is what re-arming may have left of u. *)
Stands(u, b, s) == b = TimeMax \/ Within(u, b + Lag + s)

(* The furthest deadline of an address is used up, or stands in its node. *)
Met(a) ==
    /\ Reach(until[a], clock + steps)
    /\ \/ Within(until[a], clock + Lag + 2 * steps)
       \/ a \in Tracked /\ Stands(until[a], node[a].banned_until, steps)

Deadlines == \A a \in Addrs : until[a] # 0 => Met(a)

BInv == TypeOK /\ RingIntact /\ CursorLive /\ Locking /\ Clocks /\ Deadlines

(* Reach and Within are monotonic in t. *)
LEMMA ReachLater ==
    ASSUME NEW u \in Nat, NEW s \in Nat, NEW t \in Nat, s <= t, Reach(u, s)
    PROVE  Reach(u, t)
BY PolicyAssumption DEF Reach

LEMMA WithinLater ==
    ASSUME NEW u \in Nat, NEW s \in Nat, NEW t \in Nat, s <= t, Within(u, s)
    PROVE  Within(u, t)
<1>1. PICK p \in Policies, q \in Policies : u + q.bantime <= s + p.bantime
  BY DEF Within
<1>2. p.bantime \in Nat /\ q.bantime \in Nat
  BY PolicyAssumption
<1>3. u + q.bantime <= t + p.bantime
  BY <1>1, <1>2
<1> QED
  BY <1>3 DEF Within

(* A deadline in the node that now has passed leaves nothing of u. *)
LEMMA PassedWithin ==
    ASSUME NEW u \in Nat, NEW b \in Nat, NEW now \in Nat, NEW c \in Nat, NEW s \in Nat,
           Stands(u, b, s), b <= now, now < TimeMax, now <= c + s
    PROVE  Within(u, c + Lag + 2 * s)
<1>1. Lag \in Nat /\ TimeMax \in Nat
  BY BanAssumption
<1>2. b # TimeMax
  BY <1>1
<1>3. Within(u, b + Lag + s)
  BY <1>2 DEF Stands
<1>4. /\ b + Lag + s \in Nat /\ c + Lag + 2 * s \in Nat
      /\ b + Lag + s <= c + Lag + 2 * s
  BY <1>1
<1> QED
  BY <1>3, <1>4, WithinLater

(* Addition of times saturates. *)
LEMMA ClampLemma ==
    ASSUME NEW now \in Time, NEW d \in Nat
    PROVE  /\ time_add_clamp(now, d) \in Time
           /\ time_add_clamp(now, d) = now + d \/ time_add_clamp(now, d) = TimeMax
BY BanAssumption DEF time_add_clamp, Time

(* A counted node is well typed and keeps a ban that has not lapsed. *)
LEMMA CountedLemma ==
    ASSUME NEW n \in Node, NEW now \in Time, NEW pol \in Policies
    PROVE  /\ Counted(n, now, pol) \in Node
           /\ Arms(n, now, pol) => Counted(n, now, pol).banned_until
                                    = time_add_clamp(now, pol.bantime)
           /\ ~ Arms(n, now, pol) /\ n.banned_until > now =>
                Counted(n, now, pol).banned_until = n.banned_until
<1>1. /\ n.window_start \in Time /\ n.banned_until \in Time /\ n.hits \in Nat
  BY DEF Node
<1>2. pol.bantime \in Nat /\ 0 \in Time /\ Time \subseteq Nat
  BY PolicyAssumption, BanAssumption DEF Time
<1>3. HitsAfter(n, now, pol) \in Nat
  BY <1>1 DEF HitsAfter
<1>4. Retire(n, now) \in Time
        /\ (n.banned_until > now => Retire(n, now) = n.banned_until)
  <2>1. n.banned_until \in Nat /\ now \in Nat
    BY <1>1, <1>2
  <2> QED
    BY <2>1, <1>1, <1>2 DEF Retire
<1>5. time_add_clamp(now, pol.bantime) \in Time
  BY <1>2, ClampLemma
<1>6. CASE Arms(n, now, pol)
  <2>1. Counted(n, now, pol) = [window_start |-> now, hits |-> 0,
                  banned_until |-> time_add_clamp(now, pol.bantime)]
    BY <1>6 DEF Counted
  <2> QED
    BY <2>1, <1>5, <1>6 DEF Node
<1>7. CASE ~ Arms(n, now, pol)
  <2>1. Counted(n, now, pol) =
          [window_start |-> IF Rolls(n, now, pol) THEN now ELSE n.window_start,
           hits |-> HitsAfter(n, now, pol), banned_until |-> Retire(n, now)]
    BY <1>7 DEF Counted
  <2>2. Counted(n, now, pol).banned_until = Retire(n, now)
    BY <2>1
  <2> QED
    BY <2>1, <2>2, <1>1, <1>3, <1>4, <1>7 DEF Node
<1> QED
  BY <1>6, <1>7

(* Init establishes the invariant. *)
LEMMA InitBInv == Init => BInv
<1> SUFFICES ASSUME Init PROVE BInv
  OBVIOUS
<1>1. Tracked = {}
  BY DEF Init, Tracked
<1>2. TypeOK
  <2>1. /\ node \in [Tracked -> Node]
        /\ ring.next \in [Tracked \cup {Sentinel} -> Link]
        /\ ring.prev \in [Tracked \cup {Sentinel} -> Link]
    BY <1>1 DEF Init, Tracked, Link
  <2>2. loop \in [q : Link, scanned : 0 .. SCAN, evicted : 0 .. EVICT,
                  wrapped : BOOLEAN]
    BY BanAssumption DEF Init, NoLoop, Link
  <2>3. /\ until \in [Addrs -> Nat]
        /\ recent \in [Addrs -> Seq(Nat)]
    BY DEF Init
  <2>4. /\ clock \in 1 .. MaxClock /\ bans \in 0 .. CounterMod - 1
        /\ cached \in [Workers -> 1 .. MaxClock] /\ steps \in 0 .. Steps
    BY BanAssumption DEF Init
  <2> QED
    BY <1>1, <2>1, <2>2, <2>3, <2>4 DEF Init, TypeOK, Link
<1>3. RingIntact
  BY <1>1 DEF Init, RingIntact, Ring
<1>4. CursorLive /\ Locking /\ Deadlines
  BY DEF Init, CursorLive, Locking, Deadlines, NoLoop, Idle
<1>5. Clocks
  BY BanAssumption DEF Init, Clocks
<1> QED
  BY <1>2, <1>3, <1>4, <1>5 DEF BInv

(* The links of a ring through addresses are well typed. *)
LEMMA QueueTyped ==
    ASSUME NEW r, NEW x, NEW q, NEW N \in SUBSET Addrs, Ring(q, N),
           q = QueueRemove(r, x) \/ q = QueueInsertHead(r, x)
    PROVE  /\ q.next \in [N \cup {Sentinel} -> Link]
           /\ q.prev \in [N \cup {Sentinel} -> Link]
<1>1. /\ DOMAIN q.next = N \cup {Sentinel} /\ DOMAIN q.prev = N \cup {Sentinel}
      /\ \A y \in N \cup {Sentinel} : q.next[y] \in Link /\ q.prev[y] \in Link
  BY DEF Ring, Link
<1>2. /\ q.next = [y \in DOMAIN q.next |-> q.next[y]]
      /\ q.prev = [y \in DOMAIN q.prev |-> q.prev[y]]
  <2>1. CASE q = QueueRemove(r, x)
    BY <2>1 DEF QueueRemove
  <2>2. CASE q = QueueInsertHead(r, x)
    BY <2>2 DEF QueueInsertHead
  <2> QED
    BY <2>1, <2>2
<1> QED
  BY <1>1, <1>2

(* A lookup keeps the ring, of the same nodes. *)
LEMMA LookupRing ==
    ASSUME BInv, NEW a \in Addrs
    PROVE  /\ Ring(lookup(a), Tracked)
           /\ lookup(a).next \in [Tracked \cup {Sentinel} -> Link]
           /\ lookup(a).prev \in [Tracked \cup {Sentinel} -> Link]
<1>1. Sentinel \notin Tracked /\ Tracked \in SUBSET Addrs /\ Ring(ring, Tracked)
  BY BanAssumption DEF BInv, TypeOK, RingIntact
<1>2. CASE a \in Tracked
  <2> DEFINE q == QueueRemove(ring, a)
  <2>1. Ring(q, Tracked \ {a})
    BY <1>1, <1>2, RemoveRing
  <2>2. Ring(QueueInsertHead(q, a), (Tracked \ {a}) \cup {a})
    <3> HIDE DEF q
    <3>1. Sentinel \notin Tracked \ {a} /\ a \notin Tracked \ {a} /\ a # Sentinel
      BY <1>1, <1>2
    <3> QED
      BY <2>1, <3>1, InsertRing
  <2>3. (Tracked \ {a}) \cup {a} = Tracked
    BY <1>2
  <2>4. lookup(a) = QueueInsertHead(q, a)
    BY <1>2 DEF lookup
  <2>5. Ring(lookup(a), Tracked)
    BY <2>2, <2>3, <2>4
  <2> HIDE DEF q
  <2> QED
    BY <1>1, <2>4, <2>5, QueueTyped
<1>3. CASE a \notin Tracked
  BY <1>1, <1>3 DEF lookup, BInv, TypeOK
<1> QED
  BY <1>2, <1>3

(* A request's record and the loop, when the lock is free. *)
LEMMA ReqTyped ==
    ASSUME BInv, NEW w \in Workers, req[w].pc # "idle"
    PROVE  /\ req[w] \in [pc : {"inspect", "expire"}, addr : Addrs, pol : Policies]
           /\ req[w].addr \in Addrs /\ req[w].pol \in Policies
BY DEF BInv, TypeOK, Idle

(* Arrivals only move a node in the ring and start a request. *)
LEMMA ArriveBInv ==
    ASSUME BInv, NEW w \in Workers, NEW a \in Addrs, Arrive(w, a)
    PROVE  BInv'
<1>1. /\ ring' = lookup(a) /\ lock = NoWorker /\ req[w] = Idle
      /\ UNCHANGED <<node, cursor, bans, lock, loop, clock, cached, steps, until, recent>>
  BY DEF Arrive, hist, time
<1>2. Tracked' = Tracked
  BY <1>1 DEF Tracked
<1>3. /\ req' \in [Workers -> {Idle} \cup [pc : {"inspect", "expire"},
                                          addr : Addrs, pol : Policies]]
      /\ \A v \in Workers : req'[v].pc = "expire" => req'[v] = req[v]
  <2>1. CASE UNCHANGED req
    BY <2>1 DEF BInv, TypeOK
  <2>2. CASE \E p \in Policies :
               req' = [req EXCEPT ![w] = [pc |-> "inspect", addr |-> a, pol |-> p]]
    BY <2>2 DEF BInv, TypeOK
  <2> QED
    BY <2>1, <2>2 DEF Arrive
<1>4. TypeOK'
  BY <1>1, <1>2, <1>3, LookupRing DEF BInv, TypeOK
<1>5. RingIntact'
  BY <1>1, <1>2, LookupRing DEF RingIntact
<1>6. CursorLive' /\ Clocks' /\ Deadlines'
  BY <1>1, <1>2 DEF BInv, CursorLive, Clocks, Deadlines, Met
<1>7. Locking'
  BY <1>1, <1>2, <1>3 DEF BInv, Locking
<1> QED
  BY <1>4, <1>5, <1>6, <1>7 DEF BInv

(* A request that ends without a hit leaves the zone alone. *)
LEMMA NoHitBInv ==
    ASSUME BInv, NEW w \in Workers, NoHit(w)
    PROVE  BInv'
<1>1. /\ req' = [req EXCEPT ![w] = Idle]
      /\ UNCHANGED <<node, ring, cursor, bans, lock, loop, clock, cached, steps, until, recent>>
  BY DEF NoHit, zone, hist, time
<1>2. Tracked' = Tracked
  BY <1>1 DEF Tracked
<1>3. TypeOK'
  BY <1>1, <1>2 DEF BInv, TypeOK
<1>4. RingIntact' /\ CursorLive' /\ Clocks' /\ Deadlines'
  BY <1>1, <1>2 DEF BInv, RingIntact, CursorLive, Clocks, Deadlines, Met
<1>5. Locking'
  BY <1>1, <1>2 DEF BInv, Locking, TypeOK, Idle
<1> QED
  BY <1>3, <1>4, <1>5 DEF BInv

(* What an arming leaves of the furthest deadline u. *)
LEMMA ArmStands ==
    ASSUME NEW u \in Nat, NEW now \in Nat, NEW c \in Nat, NEW s \in Nat,
           NEW pol \in Policies, NEW b \in Nat,
           now <= c + s, c <= now + Lag,
           u # 0 => Reach(u, c + s),
           b = now + pol.bantime \/ b = TimeMax
    PROVE  /\ Later(u, now + pol.bantime) \in Nat
           /\ Reach(Later(u, now + pol.bantime), c + s)
           /\ Stands(Later(u, now + pol.bantime), b, s)
<1> DEFINE d == now + pol.bantime
<1>1. Lag \in Nat /\ pol.bantime \in Nat \ {0} /\ d \in Nat
  BY BanAssumption, PolicyAssumption
<1>2. CASE u > d
  <2>1. Later(u, d) = u /\ u # 0
    BY <1>1, <1>2 DEF Later
  <2>2. PICK p \in Policies : u <= (c + s) + p.bantime
    BY <2>1 DEF Reach
  <2>3. p.bantime \in Nat
    BY PolicyAssumption
  <2>4. u + pol.bantime <= (d + Lag + s) + p.bantime
    BY <1>1, <2>2, <2>3
  <2>5. Within(u, d + Lag + s)
    BY <2>4 DEF Within
  <2> HIDE DEF d
  <2>6. b = d \/ b = TimeMax
    BY DEF d
  <2> QED
    BY <2>1, <2>5, <2>6 DEF Stands, d
<1>3. CASE ~ (u > d)
  <2>1. Later(u, d) = d
    BY <1>3 DEF Later
  <2>2. d <= (c + s) + pol.bantime /\ d + pol.bantime <= (d + Lag + s) + pol.bantime
    BY <1>1
  <2>3. Reach(d, c + s) /\ Within(d, d + Lag + s)
    BY <2>2 DEF Reach, Within
  <2> HIDE DEF d
  <2>4. b = d \/ b = TimeMax
    BY DEF d
  <2> QED
    BY <1>1, <2>1, <2>3, <2>4 DEF Stands, d
<1> QED
  BY <1>2, <1>3

(* What writing a hit does to the nodes and to the history. *)
LEMMA RecordLemma ==
    ASSUME BInv, NEW a \in Addrs, NEW n \in Node, NEW now \in 0 .. MaxClock,
           NEW pol \in Policies, Record(a, n, now, pol),
           clock' = clock, cached' = cached, steps' = steps,
           now <= clock + steps, clock <= now + Lag,
           until[a] # 0 => \/ Within(until[a], clock + Lag + 2 * steps)
                           \/ Stands(until[a], n.banned_until, steps)
    PROVE  /\ Tracked' = Tracked \cup {a}
           /\ node' \in [Tracked' -> Node]
           /\ bans' \in 0 .. CounterMod - 1
           /\ until' \in [Addrs -> Nat]
           /\ recent' \in [Addrs -> Seq(Nat)]
           /\ Deadlines'
<1> DEFINE n1 == Counted(n, now, pol)
<1>1. /\ Tracked \subseteq Addrs /\ node \in [Tracked -> Node]
      /\ bans \in 0 .. CounterMod - 1 /\ until \in [Addrs -> Nat]
      /\ recent \in [Addrs -> Seq(Nat)] /\ clock \in Nat /\ steps \in Nat
  BY DEF BInv, TypeOK
<1>2. /\ now \in Nat /\ now \in Time /\ now < TimeMax
      /\ pol.bantime \in Nat \ {0} /\ n.banned_until \in Nat
  BY PolicyAssumption, BanAssumption DEF Time, Node
<1>3. node' = [b \in Tracked \cup {a} |-> IF b = a THEN n1 ELSE node[b]]
  BY DEF Record
<1>4. n1 \in Node /\ n1.banned_until \in Nat
  <2>1. n1 \in Node
    BY <1>2, CountedLemma
  <2> HIDE DEF n1
  <2> QED
    BY <2>1 DEF Node, Time
<1> HIDE DEF n1
<1>5. Tracked' = Tracked \cup {a} /\ node' \in [Tracked' -> Node]
  BY <1>1, <1>3, <1>4 DEF Tracked
<1>6. ASSUME NEW b \in Addrs, b # a, until'[b] = until[b], until'[b] # 0
      PROVE  Met(b)'
  <2>1. Met(b)
    BY <1>6 DEF BInv, Deadlines
  <2>2. b \in Tracked => b \in Tracked' /\ node'[b] = node[b]
    BY <1>3, <1>5, <1>6
  <2> QED
    BY <2>1, <2>2, <1>6 DEF Met
<1>7. CASE Arms(n, now, pol)
  <2>1. /\ bans' = (bans + 1) % CounterMod
        /\ until' = [until EXCEPT ![a] = Later(until[a], now + pol.bantime)]
        /\ recent' = [recent EXCEPT ![a] = <<>>]
    BY <1>7 DEF Record
  <2>2. bans' \in 0 .. CounterMod - 1
    BY <2>1, <1>1, BanAssumption
  <2>3. n1.banned_until = now + pol.bantime \/ n1.banned_until = TimeMax
    BY <1>2, <1>7, CountedLemma, ClampLemma DEF n1
  <2>4. until[a] \in Nat /\ (until[a] # 0 => Reach(until[a], clock + steps))
    BY <1>1 DEF BInv, Deadlines, Met
  <2>5. /\ Later(until[a], now + pol.bantime) \in Nat
        /\ Reach(Later(until[a], now + pol.bantime), clock + steps)
        /\ Stands(Later(until[a], now + pol.bantime), n1.banned_until, steps)
    BY <1>1, <1>2, <1>4, <2>3, <2>4, ArmStands
  <2>6. until' \in [Addrs -> Nat] /\ recent' \in [Addrs -> Seq(Nat)]
    BY <2>1, <2>5, <1>1
  <2>7. ASSUME NEW b \in Addrs, until'[b] # 0
        PROVE  Met(b)'
    <3>1. CASE b = a
      <4>1. until'[a] = Later(until[a], now + pol.bantime)
        BY <2>1, <1>1
      <4>2. node'[a] = n1 /\ a \in Tracked'
        BY <1>3, <1>5
      <4> QED
        BY <4>1, <4>2, <3>1, <2>5 DEF Met
    <3>2. CASE b # a
      <4>1. until'[b] = until[b]
        BY <2>1, <3>2, <1>1
      <4> QED
        BY <4>1, <3>2, <2>7, <1>6
    <3> QED
      BY <3>1, <3>2
  <2> QED
    BY <1>5, <2>2, <2>6, <2>7 DEF Deadlines
<1>8. CASE ~ Arms(n, now, pol)
  <2>1. /\ recent' = [recent EXCEPT ![a] = IF n.banned_until > now THEN recent[a]
                                           ELSE Remember(recent[a], now)]
        /\ bans' = bans /\ until' = until
    BY <1>8 DEF Record
  <2>2. Remember(recent[a], now) \in Seq(Nat)
    <3> DEFINE all == Append(recent[a], now)
    <3>0. recent[a] \in Seq(Nat)
      BY <1>1
    <3>1. all \in Seq(Nat) /\ all # << >>
      BY <3>0, <1>2
    <3> HIDE DEF all
    <3>2. Tail(all) \in Seq(Nat)
      BY <3>1
    <3> QED
      BY <3>1, <3>2 DEF Remember, all
  <2>3. recent' \in [Addrs -> Seq(Nat)]
    BY <2>1, <2>2, <1>1
  <2>4. ASSUME NEW b \in Addrs, until'[b] # 0
        PROVE  Met(b)'
    <3>1. until'[b] = until[b]
      BY <2>1
    <3>2. CASE b = a
      <4>1. until[a] # 0 /\ until[a] \in Nat /\ Reach(until[a], clock + steps)
        BY <3>1, <3>2, <2>4, <1>1 DEF BInv, Deadlines, Met
      <4>2. node'[a] = n1 /\ a \in Tracked'
        BY <1>3, <1>5
      <4>3. CASE Within(until[a], clock + Lag + 2 * steps)
        BY <4>1, <4>3, <3>1, <3>2 DEF Met
      <4>4. CASE Stands(until[a], n.banned_until, steps) /\ n.banned_until > now
        <5>1. n1.banned_until = n.banned_until
          BY <4>4, <1>2, <1>8, CountedLemma DEF n1
        <5> QED
          BY <5>1, <4>1, <4>2, <4>4, <3>1, <3>2 DEF Met
      <4>5. CASE Stands(until[a], n.banned_until, steps) /\ ~ (n.banned_until > now)
        <5>1. n.banned_until <= now
          BY <4>5, <1>2
        <5>2. Within(until[a], clock + Lag + 2 * steps)
          BY <5>1, <4>1, <4>5, <1>1, <1>2, PassedWithin
        <5> QED
          BY <5>2, <4>3
      <4> QED
        BY <4>1, <4>3, <4>4, <4>5
    <3>3. CASE b # a
      BY <3>1, <3>3, <2>4, <1>6
    <3> QED
      BY <3>2, <3>3
  <2> QED
    BY <1>1, <1>5, <2>1, <2>3, <2>4 DEF Deadlines
<1> QED
  BY <1>7, <1>8

(* A hit of a tracked address: the lookup moves its node, which is then    *)
(* counted.                                                                *)
LEMMA RecordTrackedBInv ==
    ASSUME BInv, NEW w \in Workers, RecordTracked(w)
    PROVE  BInv'
<1> DEFINE a == req[w].addr
           pol == req[w].pol
<1>1. /\ a \in Addrs /\ pol \in Policies
  BY ReqTyped DEF RecordTracked
<1>2. /\ a \in Tracked /\ ring' = lookup(a) /\ Record(a, node[a], cached[w], pol)
      /\ req' = [req EXCEPT ![w] = Idle] /\ lock = NoWorker
      /\ UNCHANGED <<cursor, lock, loop, clock, cached, steps>>
  BY DEF RecordTracked, time
<1>3. /\ node[a] \in Node /\ cached[w] \in 0 .. MaxClock
      /\ cached[w] <= clock + steps /\ clock <= cached[w] + Lag
      /\ until[a] # 0 => \/ Within(until[a], clock + Lag + 2 * steps)
                         \/ Stands(until[a], node[a].banned_until, steps)
  BY <1>1, <1>2, BanAssumption DEF BInv, TypeOK, Clocks, Deadlines, Met
<1> HIDE DEF a, pol
<1>4. /\ Tracked' = Tracked
      /\ node' \in [Tracked' -> Node] /\ bans' \in 0 .. CounterMod - 1
      /\ until' \in [Addrs -> Nat] /\ recent' \in [Addrs -> Seq(Nat)]
      /\ Deadlines'
  <2>1. Tracked \cup {a} = Tracked
    BY <1>2
  <2>2. clock' = clock /\ cached' = cached /\ steps' = steps
    BY <1>2
  <2> QED
    BY <1>1, <1>2, <1>3, <2>1, <2>2, RecordLemma
<1>5. TypeOK'
  BY <1>1, <1>2, <1>4, LookupRing DEF BInv, TypeOK
<1>6. RingIntact'
  BY <1>1, <1>2, <1>4, LookupRing DEF RingIntact
<1>7. CursorLive' /\ Locking' /\ Clocks'
  BY <1>2, <1>4 DEF BInv, TypeOK, CursorLive, Locking, Clocks, Idle
<1> QED
  BY <1>4, <1>5, <1>6, <1>7 DEF BInv

(* expire takes the lock and starts at a node that exists. *)
LEMMA RecordNewBInv ==
    ASSUME BInv, NEW w \in Workers, RecordNew(w)
    PROVE  BInv'
<1>1. /\ req[w].pc = "inspect" /\ lock = NoWorker /\ req[w].addr \notin Tracked
      /\ lock' = w /\ req' = [req EXCEPT ![w].pc = "expire"]
      /\ UNCHANGED <<node, ring, cursor, bans, clock, cached, steps, until, recent>>
  BY DEF RecordNew, zone, hist, time
<1>2. Tracked' = Tracked
  BY <1>1 DEF Tracked
<1>3. loop' = [q |-> IF cursor = Sentinel THEN ring.prev[Sentinel] ELSE cursor,
               scanned |-> 0, evicted |-> 0, wrapped |-> (cursor = Sentinel)]
  BY DEF RecordNew, NoLoop
<1>4. ring.prev[Sentinel] \in Tracked \cup {Sentinel}
  BY DEF BInv, RingIntact, Ring
<1>5. loop'.q \in Tracked \cup {Sentinel}
  BY <1>1, <1>3, <1>4 DEF BInv, CursorLive
<1>6. loop' \in [q : Link, scanned : 0 .. SCAN, evicted : 0 .. EVICT,
                 wrapped : BOOLEAN]
  <2>1. loop'.q \in Link
    BY <1>5 DEF BInv, TypeOK, Link
  <2> QED
    BY <1>3, <2>1, BanAssumption
<1>7. req' \in [Workers -> {Idle} \cup [pc : {"inspect", "expire"},
                                        addr : Addrs, pol : Policies]]
  <2>1. req[w] \in [pc : {"inspect", "expire"}, addr : Addrs, pol : Policies]
    BY <1>1, ReqTyped
  <2>2. [req[w] EXCEPT !.pc = "expire"]
          \in [pc : {"inspect", "expire"}, addr : Addrs, pol : Policies]
    BY <2>1
  <2>3. req' = [req EXCEPT ![w] = [req[w] EXCEPT !.pc = "expire"]]
    BY <1>1
  <2> QED
    BY <2>2, <2>3 DEF BInv, TypeOK
<1>8. TypeOK'
  BY <1>1, <1>2, <1>6, <1>7 DEF BInv, TypeOK
<1>9. RingIntact' /\ Clocks' /\ Deadlines'
  BY <1>1, <1>2, <1>5 DEF BInv, RingIntact, Clocks, Deadlines, Met
<1>10. CursorLive'
  BY <1>1, <1>2, <1>5, BanAssumption DEF CursorLive
<1>11. Locking'
  <2>1. \A v \in Workers : v # w => req'[v] = req[v]
    BY <1>1 DEF BInv, TypeOK
  <2>2. req'[w].addr = req[w].addr
    BY <1>1, ReqTyped DEF BInv, TypeOK
  <2> QED
    BY <1>1, <1>2, <2>1, <2>2, BanAssumption DEF BInv, Locking
<1> QED
  BY <1>8, <1>9, <1>10, <1>11 DEF BInv

(* The walk moves its position along the ring and touches nothing else. *)
LEMMA WalkBInv ==
    ASSUME BInv, NEW w \in Workers, ExpireWrap(w) \/ ExpireSkip(w)
    PROVE  BInv'
<1>1. /\ req[w].pc = "expire" /\ loop.scanned < SCAN /\ loop.evicted < EVICT
      /\ UNCHANGED <<node, ring, cursor, bans, lock, req, clock, cached, steps, until, recent>>
  BY DEF ExpireWrap, ExpireSkip, Budget, zone, hist, time
<1>2. Tracked' = Tracked
  BY <1>1 DEF Tracked
<1>3. lock = w /\ lock # NoWorker
  BY <1>1, BanAssumption DEF BInv, Locking
<1>4. loop.q \in Tracked \cup {Sentinel}
  BY DEF BInv, CursorLive
<1>5. \A x \in Tracked \cup {Sentinel} : ring.prev[x] \in Tracked \cup {Sentinel}
  BY DEF BInv, RingIntact, Ring
<1>6. loop' \in [q : Tracked \cup {Sentinel}, scanned : 0 .. SCAN,
                 evicted : 0 .. EVICT, wrapped : BOOLEAN]
  <2>1. CASE ExpireWrap(w)
    BY <2>1, <1>5 DEF ExpireWrap, BInv, TypeOK
  <2>2. CASE ExpireSkip(w)
    <3>1. loop.scanned + 1 \in 0 .. SCAN
      BY <1>1, BanAssumption DEF BInv, TypeOK
    <3> QED
      BY <2>2, <3>1, <1>4, <1>5 DEF ExpireSkip, BInv, TypeOK
  <2> QED
    BY <2>1, <2>2
<1>7. TypeOK'
  <2>1. loop' \in [q : Link, scanned : 0 .. SCAN, evicted : 0 .. EVICT,
                   wrapped : BOOLEAN]
    BY <1>6 DEF BInv, TypeOK, Link
  <2> QED
    BY <2>1, <1>1, <1>2 DEF BInv, TypeOK
<1>8. RingIntact' /\ Clocks' /\ Deadlines'
  BY <1>1, <1>2, <1>6 DEF BInv, RingIntact, Clocks, Deadlines, Met
<1>9. CursorLive' /\ Locking'
  BY <1>1, <1>2, <1>3, <1>6 DEF BInv, CursorLive, Locking
<1> QED
  BY <1>7, <1>8, <1>9 DEF BInv

(* An evicted node is not the position of the walk any more, and nothing   *)
(* of its ban is owed.                                                     *)
LEMMA ExpireEvictBInv ==
    ASSUME BInv, NEW w \in Workers, ExpireEvict(w)
    PROVE  BInv'
<1> DEFINE q == loop.q
<1>1. /\ req[w].pc = "expire" /\ loop.scanned < SCAN /\ loop.evicted < EVICT
      /\ q # Sentinel /\ ~ Live(node[q], cached[w], req[w].pol.window)
      /\ node' = [b \in Tracked \ {q} |-> node[b]]
      /\ ring' = QueueRemove(ring, q)
      /\ loop' = [loop EXCEPT !.scanned = @ + 1, !.evicted = @ + 1,
                              !.q = ring.prev[q]]
      /\ UNCHANGED <<cursor, bans, lock, req, clock, cached, steps, until, recent>>
  BY DEF ExpireEvict, Budget, hist, time
<1>2. q \in Tracked /\ q \in Addrs
  BY <1>1 DEF BInv, CursorLive, TypeOK
<1>3. lock = w /\ lock # NoWorker
  BY <1>1, BanAssumption DEF BInv, Locking
<1>4. Tracked' = Tracked \ {q} /\ node' \in [Tracked' -> Node]
  BY <1>1 DEF Tracked, BInv, TypeOK
<1>5. /\ ring.prev[q] \in Tracked \cup {Sentinel} /\ ring.prev[q] # q
  <2>1. {q} \in SUBSET Tracked /\ {q} # {}
    BY <1>2
  <2> HIDE DEF q
  <2>2. \A S \in SUBSET Tracked : S # {} => \E x \in S : ring.prev[x] \notin S
    BY DEF BInv, RingIntact, Ring
  <2>3. ring.prev[q] # q
    BY <2>1, <2>2
  <2>4. ring.prev[q] \in Tracked \cup {Sentinel}
    BY <1>2 DEF BInv, RingIntact, Ring
  <2> QED
    BY <2>3, <2>4
<1>6. RingIntact'
  <2>1. Sentinel \notin Tracked /\ Ring(ring, Tracked)
    BY BanAssumption DEF BInv, TypeOK, RingIntact
  <2>2. Ring(QueueRemove(ring, q), Tracked \ {q})
    BY <1>2, <2>1, RemoveRing
  <2> QED
    BY <1>1, <1>4, <2>2 DEF RingIntact
<1>7. /\ ring'.next \in [Tracked' \cup {Sentinel} -> Link]
      /\ ring'.prev \in [Tracked' \cup {Sentinel} -> Link]
  <2>1. Ring(ring', Tracked') /\ Tracked' \in SUBSET Addrs
    BY <1>4, <1>6 DEF RingIntact, BInv, TypeOK
  <2> HIDE DEF q
  <2> QED
    BY <1>1, <2>1, QueueTyped
<1>8. /\ loop' \in [q : Link, scanned : 0 .. SCAN, evicted : 0 .. EVICT,
                    wrapped : BOOLEAN]
      /\ loop'.q = ring.prev[q]
  <2>1. /\ loop.scanned + 1 \in 0 .. SCAN /\ loop.evicted + 1 \in 0 .. EVICT
    <3>1. loop.scanned \in 0 .. SCAN /\ loop.evicted \in 0 .. EVICT
      BY DEF BInv, TypeOK
    <3>2. loop.scanned < SCAN /\ loop.evicted < EVICT
      BY <1>1
    <3> QED
      BY <3>1, <3>2, BanAssumption
  <2>2. ring.prev[q] \in Link
    BY <1>5 DEF BInv, TypeOK, Link
  <2> QED
    BY <1>1, <2>1, <2>2 DEF BInv, TypeOK
<1>9. TypeOK'
  BY <1>1, <1>4, <1>7, <1>8 DEF BInv, TypeOK
<1>10. CursorLive'
  BY <1>1, <1>3, <1>4, <1>5, <1>8 DEF CursorLive
<1>11. Locking'
  BY <1>1, <1>3, <1>4 DEF BInv, Locking
<1>12. until[q] # 0 => Within(until[q], clock + Lag + 2 * steps)
  <2> SUFFICES ASSUME until[q] # 0, ~ Within(until[q], clock + Lag + 2 * steps)
               PROVE  FALSE
    OBVIOUS
  <2>1. Stands(until[q], node[q].banned_until, steps)
    BY <1>2 DEF BInv, Deadlines, Met
  <2>2. /\ until[q] \in Nat /\ node[q].banned_until \in Nat
        /\ cached[w] \in Nat /\ cached[w] < TimeMax
        /\ clock \in Nat /\ steps \in Nat /\ cached[w] <= clock + steps
    <3>1. node[q] \in Node /\ until[q] \in Nat
      BY <1>2 DEF BInv, TypeOK
    <3>2. cached[w] \in 1 .. MaxClock /\ cached[w] <= clock + steps
      BY DEF BInv, TypeOK, Clocks
    <3>3. clock \in 1 .. MaxClock /\ steps \in 0 .. Steps
      BY DEF BInv, TypeOK
    <3>4. /\ cached[w] \in Nat /\ cached[w] < TimeMax
          /\ clock \in Nat /\ steps \in Nat
      BY <3>2, <3>3, BanAssumption
    <3>5. node[q].banned_until \in Nat
      BY <3>1, BanAssumption DEF Node, Time
    <3> QED
      BY <3>1, <3>2, <3>4, <3>5
  <2>3. node[q].banned_until <= cached[w]
    BY <1>1, <2>2 DEF Live
  <2> HIDE DEF q
  <2> QED
    BY <2>1, <2>2, <2>3, PassedWithin
<1>13. Deadlines'
  <2> SUFFICES ASSUME NEW b \in Addrs, until'[b] # 0 PROVE Met(b)'
    BY DEF Deadlines
  <2>1. until[b] # 0 /\ until'[b] = until[b] /\ Met(b)
    BY <1>1 DEF BInv, Deadlines
  <2>2. CASE b = q
    BY <1>1, <1>12, <2>1, <2>2 DEF Met
  <2>3. CASE b # q
    <3>1. b \in Tracked => b \in Tracked' /\ node'[b] = node[b]
      BY <1>1, <1>4, <2>3
    <3> QED
      BY <1>1, <2>1, <3>1 DEF Met
  <2> QED
    BY <2>2, <2>3
<1>14. Clocks'
  BY <1>1 DEF BInv, Clocks
<1> QED
  BY <1>6, <1>9, <1>10, <1>11, <1>13, <1>14 DEF BInv

(* Parking the cursor and giving the lock back ends the request. *)
LEMMA ParkLemma ==
    ASSUME BInv, NEW w \in Workers, req[w].pc = "expire",
           cursor' = loop.q, lock' = NoWorker, loop' = NoLoop,
           req' = [req EXCEPT ![w] = Idle], Tracked \subseteq Tracked'
    PROVE  /\ cursor' \in Link /\ lock' \in Workers \cup {NoWorker}
           /\ loop' \in [q : Link, scanned : 0 .. SCAN, evicted : 0 .. EVICT,
                         wrapped : BOOLEAN]
           /\ req' \in [Workers -> {Idle} \cup [pc : {"inspect", "expire"},
                                               addr : Addrs, pol : Policies]]
           /\ CursorLive' /\ Locking'
<1>1. /\ loop' \in [q : Link, scanned : 0 .. SCAN, evicted : 0 .. EVICT,
                    wrapped : BOOLEAN]
      /\ loop'.q = Sentinel
  BY BanAssumption DEF NoLoop, Link
<1>2. \A v \in Workers : req'[v].pc # "expire"
  <2>1. \A v \in Workers : v # w => req[v].pc # "expire"
    BY DEF BInv, Locking
  <2> QED
    BY <2>1 DEF BInv, TypeOK, Idle
<1>3. CursorLive'
  BY <1>1 DEF BInv, CursorLive
<1>4. Locking'
  BY <1>2 DEF Locking
<1>5. /\ cursor' \in Link
      /\ req' \in [Workers -> {Idle} \cup [pc : {"inspect", "expire"},
                                          addr : Addrs, pol : Policies]]
  BY DEF BInv, TypeOK
<1> QED
  BY <1>1, <1>3, <1>4, <1>5

(* A new node joins the ring at its head. *)
LEMMA AllocateBInv ==
    ASSUME BInv, NEW w \in Workers, Allocate(w)
    PROVE  BInv'
<1> DEFINE a == req[w].addr
           pol == req[w].pol
           now == cached[w]
<1>1. /\ req[w].pc = "expire" /\ cursor' = loop.q
      /\ ring' = QueueInsertHead(ring, a) /\ Record(a, Fresh(now), now, pol)
      /\ lock' = NoWorker /\ req' = [req EXCEPT ![w] = Idle] /\ loop' = NoLoop
      /\ clock' = clock /\ cached' = cached /\ steps' = steps
  BY DEF Allocate, ExpireOver, time
<1>2. a \in Addrs /\ pol \in Policies /\ a \notin Tracked
  <2>1. req[w].pc # "idle"
    BY <1>1
  <2> QED
    BY <1>1, <2>1, ReqTyped DEF BInv, Locking
<1>3. /\ now \in 0 .. MaxClock /\ Fresh(now) \in Node
      /\ now <= clock + steps /\ clock <= now + Lag
      /\ until[a] # 0 => Within(until[a], clock + Lag + 2 * steps)
  <2>1. now \in 0 .. MaxClock
    BY BanAssumption DEF BInv, TypeOK
  <2>2. now \in Time /\ 0 \in Time
    BY <2>1, BanAssumption DEF Time
  <2>3. Fresh(now) \in Node
    BY <2>2 DEF Fresh, Node
  <2> QED
    BY <1>2, <2>1, <2>3 DEF BInv, Clocks, Deadlines, Met
<1> HIDE DEF a, pol, now
<1>5. /\ Tracked' = Tracked \cup {a}
      /\ node' \in [Tracked' -> Node] /\ bans' \in 0 .. CounterMod - 1
      /\ until' \in [Addrs -> Nat] /\ recent' \in [Addrs -> Seq(Nat)]
      /\ Deadlines'
  BY <1>1, <1>2, <1>3, RecordLemma
<1>6. RingIntact'
  <2>1. Sentinel \notin Tracked /\ Ring(ring, Tracked) /\ a # Sentinel
    BY <1>2, BanAssumption DEF BInv, TypeOK, RingIntact
  <2>2. Ring(QueueInsertHead(ring, a), Tracked \cup {a})
    BY <1>2, <2>1, InsertRing
  <2> QED
    BY <1>1, <1>5, <2>2 DEF RingIntact
<1>7. /\ ring'.next \in [Tracked' \cup {Sentinel} -> Link]
      /\ ring'.prev \in [Tracked' \cup {Sentinel} -> Link]
      /\ Tracked' \subseteq Addrs
  <2>1. Ring(ring', Tracked') /\ Tracked' \in SUBSET Addrs
    BY <1>2, <1>5, <1>6 DEF RingIntact, BInv, TypeOK
  <2> QED
    BY <1>1, <2>1, QueueTyped
<1>8. Tracked \subseteq Tracked'
  BY <1>5
<1>9. TypeOK'
  BY <1>1, <1>5, <1>7, <1>8, ParkLemma DEF BInv, TypeOK
<1>10. CursorLive' /\ Locking'
  BY <1>1, <1>8, ParkLemma
<1>11. Clocks'
  BY <1>1 DEF BInv, Clocks
<1> QED
  BY <1>5, <1>6, <1>9, <1>10, <1>11 DEF BInv

(* A dropped hit changes the cursor only. *)
LEMMA DropHitBInv ==
    ASSUME BInv, NEW w \in Workers, DropHit(w)
    PROVE  BInv'
<1>1. /\ req[w].pc = "expire" /\ cursor' = loop.q
      /\ lock' = NoWorker /\ req' = [req EXCEPT ![w] = Idle] /\ loop' = NoLoop
      /\ UNCHANGED <<node, ring, bans, clock, cached, steps, until, recent>>
  BY DEF DropHit, ExpireOver, hist, time
<1>2. Tracked' = Tracked
  BY <1>1 DEF Tracked
<1>3. TypeOK'
  BY <1>1, <1>2, ParkLemma DEF BInv, TypeOK
<1>4. CursorLive' /\ Locking'
  BY <1>1, <1>2, ParkLemma
<1>5. RingIntact'
  BY <1>1, <1>2 DEF BInv, RingIntact
<1>6. Clocks' /\ Deadlines'
  BY <1>1, <1>2 DEF BInv, Clocks, Deadlines, Met
<1> QED
  BY <1>3, <1>4, <1>5, <1>6 DEF BInv

(* A deadline that is not forgotten stays met while time moves on: the     *)
(* latest time a worker may have seen never goes back.                     *)
LEMMA MetLater ==
    ASSUME NEW a \in Addrs, Met(a), until'[a] = until[a], node' = node,
           until[a] \in Nat, a \in Tracked => node[a] \in Node,
           clock \in Nat, clock' \in Nat, steps \in Nat, steps' \in Nat,
           clock + steps <= clock' + steps', steps <= steps'
    PROVE  Met(a)'
<1>1. Lag \in Nat
  BY BanAssumption
<1>2. PICK c \in Nat, s \in Nat : c = clock' /\ s = steps'
  OBVIOUS
<1>9. clock + steps <= c + s /\ steps <= s
  BY <1>2
<1>3. /\ clock + steps <= c + s /\ clock + steps \in Nat /\ c + s \in Nat
      /\ clock + Lag + 2 * steps <= c + Lag + 2 * s
      /\ clock + Lag + 2 * steps \in Nat /\ c + Lag + 2 * s \in Nat
  BY <1>1, <1>9
<1>4. Reach(until[a], c + s)
  BY <1>3, ReachLater DEF Met
<1>5. CASE Within(until[a], clock + Lag + 2 * steps)
  <2>1. Within(until[a], c + Lag + 2 * s)
    BY <1>3, <1>5, WithinLater
  <2> QED
    BY <1>2, <1>4, <2>1 DEF Met
<1>6. CASE a \in Tracked /\ Stands(until[a], node[a].banned_until, steps)
  <2>1. node[a].banned_until \in Nat
    BY <1>6 DEF Node, Time
  <2>2. PICK b \in Nat : b = node[a].banned_until
    BY <2>1
  <2>3. b + Lag + steps \in Nat /\ b + Lag + s \in Nat /\ b + Lag + steps <= b + Lag + s
    BY <1>1, <1>9
  <2>4. Stands(until[a], b, s)
    BY <1>6, <2>2, <2>3, WithinLater DEF Stands
  <2>5. Tracked' = Tracked
    BY DEF Tracked
  <2> QED
    BY <1>2, <1>4, <1>6, <2>2, <2>4, <2>5 DEF Met
<1> QED
  BY <1>5, <1>6 DEF Met

(* The clock and the cached times move; deadlines that pass are forgotten. *)
LEMMA ClockBInv ==
    ASSUME BInv, Tick \/ StepBack \/ \E w \in Workers : TimeUpdate(w)
    PROVE  BInv'
<1>1. UNCHANGED <<node, ring, cursor, bans, lock, req, loop>>
  BY DEF Tick, StepBack, TimeUpdate, zone
<1>2. Tracked' = Tracked
  BY <1>1 DEF Tracked
<1>3. RingIntact' /\ CursorLive' /\ Locking'
  BY <1>1, <1>2 DEF BInv, RingIntact, CursorLive, Locking
<1>4. /\ clock \in 1 .. MaxClock /\ cached \in [Workers -> 1 .. MaxClock]
      /\ until \in [Addrs -> Nat] /\ MaxClock \in Nat /\ steps \in 0 .. Steps
      /\ Steps \in Nat /\ Lag \in Nat /\ node \in [Tracked -> Node]
  BY BanAssumption DEF BInv, TypeOK
<1>5. ASSUME clock' \in 1 .. MaxClock, cached' \in [Workers -> 1 .. MaxClock],
             steps' \in 0 .. Steps,
             until' \in [Addrs -> Nat], recent' \in [Addrs -> Seq(Nat)],
             Clocks',
             \A a \in Addrs : until'[a] # 0 => Met(a)'
      PROVE  BInv'
  <2>1. TypeOK'
    BY <1>1, <1>2, <1>5 DEF BInv, TypeOK
  <2>2. Deadlines'
    BY <1>5 DEF Deadlines
  <2> QED
    BY <1>3, <1>5, <2>1, <2>2 DEF BInv
<1>6. CASE Tick
  <2>1. /\ clock' = clock + 1 /\ clock < MaxClock /\ recent' = recent
        /\ steps' = steps
        /\ cached' = [w \in Workers |->
                        IF cached[w] + Lag < clock' THEN clock' ELSE cached[w]]
        /\ until' = [a \in Addrs |-> IF until[a] <= clock' THEN 0 ELSE until[a]]
    BY <1>6 DEF Tick
  <2>2. clock' \in 1 .. MaxClock /\ until' \in [Addrs -> Nat]
    BY <2>1, <1>4
  <2>3. cached' \in [Workers -> 1 .. MaxClock]
    BY <2>1, <2>2, <1>4
  <2>4. Clocks'
    <3> SUFFICES ASSUME NEW w \in Workers
                 PROVE  cached'[w] <= clock' + steps' /\ clock' <= cached'[w] + Lag
      BY DEF Clocks
    <3>1. cached[w] <= clock + steps /\ cached[w] \in Nat
      BY <1>4 DEF BInv, Clocks
    <3>2. cached'[w] = IF cached[w] + Lag < clock' THEN clock' ELSE cached[w]
      BY <2>1
    <3> QED
      BY <1>4, <2>1, <3>1, <3>2
  <2>5. ASSUME NEW a \in Addrs, until'[a] # 0
        PROVE  Met(a)'
    <3>1. until'[a] = until[a] /\ until[a] # 0
      BY <2>1, <2>5
    <3>2. Met(a)
      BY <3>1 DEF BInv, Deadlines
    <3>3. until[a] \in Nat /\ (a \in Tracked => node[a] \in Node)
      BY <1>4
    <3>4. /\ clock \in Nat /\ clock' \in Nat /\ steps \in Nat /\ steps' \in Nat
          /\ clock + steps <= clock' + steps' /\ steps <= steps'
      BY <1>4, <2>1, <2>2
    <3> QED
      BY <1>1, <3>1, <3>2, <3>3, <3>4, MetLater
  <2> QED
    BY <1>4, <1>5, <2>1, <2>2, <2>3, <2>4, <2>5 DEF BInv, TypeOK
<1>7. CASE StepBack
  <2>1. /\ clock' = clock - 1 /\ clock > 1 /\ until' = until /\ cached' = cached
        /\ steps' = steps + 1 /\ steps < Steps
        /\ recent' = [a \in Addrs |-> <<>>]
    BY <1>7 DEF StepBack
  <2>2. clock' \in 1 .. MaxClock /\ steps' \in 0 .. Steps
    BY <2>1, <1>4
  <2>3. recent' \in [Addrs -> Seq(Nat)]
    BY <2>1
  <2>4. Clocks'
    <3> SUFFICES ASSUME NEW w \in Workers
                 PROVE  cached'[w] <= clock' + steps' /\ clock' <= cached'[w] + Lag
      BY DEF Clocks
    <3>1. /\ cached[w] <= clock + steps /\ clock <= cached[w] + Lag
          /\ cached[w] \in Nat
      BY <1>4 DEF BInv, Clocks
    <3> QED
      BY <1>4, <2>1, <3>1
  <2>5. ASSUME NEW a \in Addrs, until'[a] # 0
        PROVE  Met(a)'
    <3>1. Met(a)
      BY <2>1, <2>5 DEF BInv, Deadlines
    <3>2. until[a] \in Nat /\ (a \in Tracked => node[a] \in Node)
      BY <1>4
    <3>3. /\ clock \in Nat /\ clock' \in Nat /\ steps \in Nat /\ steps' \in Nat
          /\ clock + steps <= clock' + steps' /\ steps <= steps'
      BY <1>4, <2>1, <2>2
    <3> QED
      BY <1>1, <2>1, <3>1, <3>2, <3>3, MetLater
  <2> QED
    BY <1>4, <1>5, <2>1, <2>2, <2>3, <2>4, <2>5
<1>8. ASSUME NEW w \in Workers, TimeUpdate(w) PROVE BInv'
  <2>1. /\ clock' = clock /\ until' = until /\ recent' = recent
        /\ steps' = steps /\ cached' = [cached EXCEPT ![w] = clock]
    BY <1>8 DEF TimeUpdate, hist
  <2>2. cached' \in [Workers -> 1 .. MaxClock]
    BY <2>1, <1>4
  <2>3. Clocks'
    <3> SUFFICES ASSUME NEW v \in Workers
                 PROVE  cached'[v] <= clock' + steps' /\ clock' <= cached'[v] + Lag
      BY DEF Clocks
    <3>1. cached[v] <= clock + steps /\ clock <= cached[v] + Lag
      BY DEF BInv, Clocks
    <3>2. cached'[v] = clock \/ cached'[v] = cached[v]
      BY <2>1, <1>4
    <3> QED
      BY <1>4, <2>1, <3>1, <3>2
  <2>4. ASSUME NEW a \in Addrs, until'[a] # 0 PROVE Met(a)'
    BY <1>1, <1>2, <2>1, <2>4 DEF BInv, Deadlines, Met
  <2> QED
    BY <1>4, <1>5, <2>1, <2>2, <2>3, <2>4 DEF BInv, TypeOK
<1> QED
  BY <1>6, <1>7, <1>8

(* Every step keeps the invariant. *)
LEMMA NextBInv == BInv /\ [Next]_vars => BInv'
<1> SUFFICES ASSUME BInv, [Next]_vars PROVE BInv'
  OBVIOUS
<1>1. CASE UNCHANGED vars
  <2>1. UNCHANGED <<node, ring, cursor, bans, lock, req, loop, clock, cached, steps, until, recent>>
    BY <1>1 DEF vars, zone, hist, time
  <2>2. Tracked' = Tracked
    BY <2>1 DEF Tracked
  <2>3. TypeOK'
    BY <2>1, <2>2 DEF BInv, TypeOK
  <2> QED
    BY <2>1, <2>2, <2>3
      DEF BInv, RingIntact, CursorLive, Locking, Clocks, Deadlines, Met
<1>2. ASSUME NEW w \in Workers, Worker(w) PROVE BInv'
  BY <1>2, ArriveBInv, NoHitBInv, RecordTrackedBInv, RecordNewBInv, WalkBInv,
     ExpireEvictBInv, AllocateBInv, DropHitBInv, ClockBInv DEF Worker
<1> QED
  BY <1>1, <1>2, ClockBInv DEF Next

----------------------------------------------------------------------------
(* The theorems                                                            *)

(* The invariant holds in every reachable state. *)
LEMMA BanInvariant == Spec => []BInv
BY InitBInv, NextBInv, PTL DEF Spec

(* The zone, the requests and the walk are always well typed; the walk     *)
(* stays within its budgets SCAN and EVICT.                                *)
THEOREM BanTypeCorrect == Spec => []TypeOK
<1>1. BInv => TypeOK
  BY DEF BInv
<1> QED
  BY <1>1, BanInvariant, PTL

(* No lookup, insertion or eviction ever breaks the queue or lets it       *)
(* differ from the tree.                                                   *)
THEOREM QueueIntact == Spec => []RingIntact
<1>1. BInv => RingIntact
  BY DEF BInv
<1> QED
  BY <1>1, BanInvariant, PTL

(* The cursor that expire parks in shared memory is never a freed node     *)
(* when the next worker reads it.                                          *)
THEOREM CursorNeverDangles == Spec => []CursorLive
<1>1. BInv => CursorLive
  BY DEF BInv
<1> QED
  BY <1>1, BanInvariant, PTL

(* Every worker finds a banned client banned until the furthest deadline   *)
(* that its ban was given, less at most what re-arming can take from it,   *)
(* under any mix of policies and any slab size, with saturated deadlines,  *)
(* cached times that lag and a clock that steps back.                      *)
THEOREM BansServed == Spec => []BanHolds
<1>1. BInv => BanHolds
  <2> SUFFICES ASSUME BInv, NEW a \in Addrs, Owed(a)
               PROVE  /\ banned(a, clock)
                      /\ \A w \in Workers : banned(a, cached[w])
    BY DEF BanHolds
  <2>1. /\ until[a] \in Nat /\ clock \in Nat /\ steps \in Nat /\ clock < TimeMax
        /\ Lag \in Nat /\ clock <= clock + steps
    BY BanAssumption DEF BInv, TypeOK
  <2>2. ~ Within(until[a], clock + Lag + 2 * steps)
    <3>1. \A p, q \in Policies :
             ~ (until[a] + q.bantime <= (clock + Lag + 2 * steps) + p.bantime)
      <4> TAKE p, q \in Policies
      <4>1. p.bantime \in Nat /\ q.bantime \in Nat
        BY PolicyAssumption
      <4>2. clock + Lag + 2 * steps + p.bantime < until[a] + q.bantime
        BY DEF Owed
      <4> QED
        BY <4>1, <4>2, <2>1
    <3> QED
      BY <3>1 DEF Within
  <2>3. a \in Tracked /\ Stands(until[a], node[a].banned_until, steps)
    BY <2>2 DEF Owed, BInv, Deadlines, Met
  <2>4. node[a].banned_until \in Nat
    BY <2>3 DEF BInv, TypeOK, Node, Time
  <2>5. ASSUME NEW t \in Nat, t < TimeMax, t <= clock + steps
        PROVE  banned(a, t)
    <3>1. ~ (node[a].banned_until <= t)
      BY <2>1, <2>2, <2>3, <2>4, <2>5, PassedWithin
    <3> QED
      BY <3>1, <2>3, <2>4 DEF banned
  <2>6. \A w \in Workers : /\ cached[w] \in Nat /\ cached[w] < TimeMax
                            /\ cached[w] <= clock + steps
    BY BanAssumption DEF BInv, TypeOK, Clocks
  <2> QED
    BY <2>1, <2>5, <2>6
<1> QED
  BY <1>1, BanInvariant, PTL

----------------------------------------------------------------------------
(* No evasion                                                              *)

(* All but the last m of the times in R are at most x. *)
Old(R, m, x) == \A i \in 1 .. Len(R) : i + m <= Len(R) => R[i] <= x

(* The promise of NoEvasion under policy p for the times R. *)
Spread(R, p) ==
    LET n == 2 * p.count - 1
        k == Len(R)
    IN  k >= n => R[k] - R[k - n + 1] >= p.window

LEMMA OldWeakens ==
    ASSUME NEW R \in Seq(Nat), NEW m \in Nat, NEW x \in Int, Old(R, m, x),
           NEW l \in Nat, NEW y \in Int, m <= l, x <= y
    PROVE  Old(R, l, y)
<1> SUFFICES ASSUME NEW i \in 1 .. Len(R), i + l <= Len(R) PROVE R[i] <= y
  BY DEF Old
<1>1. Len(R) \in Nat /\ R[i] \in Nat
  OBVIOUS
<1>2. i + m <= Len(R)
  BY <1>1
<1>3. R[i] <= x
  BY <1>2 DEF Old
<1> QED BY <1>1, <1>3

(* A history is cut off at its old end. *)
LEMMA OldTail ==
    ASSUME NEW R \in Seq(Nat), R # << >>, NEW m \in Nat, NEW x \in Int, Old(R, m, x)
    PROVE  Old(Tail(R), m, x)
<1>1. /\ Len(R) \in Nat /\ Len(Tail(R)) = Len(R) - 1
      /\ \A i \in 1 .. Len(Tail(R)) : Tail(R)[i] = R[i + 1] /\ i + 1 \in 1 .. Len(R)
  OBVIOUS
<1>2. ASSUME NEW i \in 1 .. Len(Tail(R)), i + m <= Len(Tail(R)) PROVE Tail(R)[i] <= x
  <2>1. i + 1 \in 1 .. Len(R) /\ (i + 1) + m <= Len(R)
    BY <1>1, <1>2
  <2> QED BY <1>1, <2>1 DEF Old
<1> QED BY <1>2 DEF Old

LEMMA OldAppend ==
    ASSUME NEW R \in Seq(Nat), NEW t \in Nat, NEW m \in Nat, NEW x \in Int, Old(R, m, x)
    PROVE  Old(Append(R, t), m + 1, x)
<1> DEFINE A == Append(R, t)
<1>1. /\ Len(R) \in Nat /\ Len(A) = Len(R) + 1
      /\ \A i \in 1 .. Len(R) : A[i] = R[i]
  OBVIOUS
<1> HIDE DEF A
<1>2. ASSUME NEW i \in 1 .. Len(A), i + (m + 1) <= Len(A) PROVE A[i] <= x
  <2>1. i \in 1 .. Len(R) /\ i + m <= Len(R)
    BY <1>1, <1>2
  <2> QED BY <1>1, <2>1 DEF Old
<1>3. Old(A, m + 1, x)
  BY <1>2 DEF Old
<1> QED BY <1>3 DEF A

(* What remembering one more hit does. *)
LEMMA OldRemember ==
    ASSUME NEW R \in Seq(Nat), NEW t \in Nat
    PROVE  /\ Remember(R, t) \in Seq(Nat)
           /\ \A m \in Nat, x \in Int : Old(R, m, x) => Old(Remember(R, t), m + 1, x)
           /\ Len(Remember(R, t)) > 0 => Remember(R, t)[Len(Remember(R, t))] = t
           /\ Old(R, 0, t) => Old(Remember(R, t), 0, t)
<1> DEFINE A == Append(R, t)
<1>1. /\ A \in Seq(Nat) /\ A # << >> /\ Len(A) \in Nat /\ Len(A) > 0 /\ A[Len(A)] = t
      /\ Tail(A) \in Seq(Nat) /\ Len(Tail(A)) = Len(A) - 1
      /\ Len(R) \in Nat /\ Len(A) = Len(R) + 1 /\ \A i \in 1 .. Len(R) : A[i] = R[i]
  OBVIOUS
<1>2. Remember(R, t) = A \/ Remember(R, t) = Tail(A)
  BY DEF Remember
<1>3. \A m \in Nat, x \in Int : Old(R, m, x) => Old(A, m + 1, x)
  BY OldAppend
<1>4. Old(R, 0, t) => Old(A, 0, t)
  <2> SUFFICES ASSUME Old(R, 0, t), NEW i \in 1 .. Len(A) PROVE A[i] <= t
    BY DEF Old
  <2>1. CASE i = Len(A)
    BY <1>1, <2>1
  <2>2. CASE i # Len(A)
    <3>1. i \in 1 .. Len(R) /\ i + 0 <= Len(R)
      BY <1>1, <2>2
    <3> QED BY <1>1, <3>1 DEF Old
  <2> QED BY <2>1, <2>2
<1>5. Len(Tail(A)) > 0 => Tail(A)[Len(Tail(A))] = t
  <2> SUFFICES ASSUME Len(Tail(A)) > 0 PROVE Tail(A)[Len(Tail(A))] = t
    OBVIOUS
  <2>1. \A i \in 1 .. Len(Tail(A)) : Tail(A)[i] = A[i + 1]
    BY <1>1
  <2>2. Len(Tail(A)) \in 1 .. Len(Tail(A)) /\ Len(Tail(A)) + 1 = Len(A)
    BY <1>1
  <2> QED BY <1>1, <2>1, <2>2
<1> HIDE DEF A
<1>6. \A m \in Nat, x \in Int : Old(A, m, x) => Old(Tail(A), m, x)
  BY <1>1, OldTail
<1>7. \A m \in Nat : m + 1 \in Nat
  OBVIOUS
<1>8. CASE Remember(R, t) = A
  BY <1>1, <1>3, <1>4, <1>8
<1>9. CASE Remember(R, t) = Tail(A)
  BY <1>1, <1>3, <1>4, <1>5, <1>6, <1>7, <1>9
<1> QED BY <1>2, <1>8, <1>9

(* What the node n says of the remembered hits R: fewer than count of them *)
(* are in its window; the older ones are no younger than the window; and   *)
(* of those, all but count - 1 are a whole window older.  A node that is   *)
(* armed has none.                                                         *)
Counts(n, R, p, now) ==
    /\ n.hits < p.count /\ n.window_start <= now
    /\ n.banned_until # 0 => R = << >>
    /\ Old(R, n.hits, n.window_start)
    /\ Old(R, n.hits + (p.count - 1), n.window_start - p.window)

(* Of the hits of an address without a node, all but count - 1 are a       *)
(* window old.                                                             *)
Gone(R, p, now) == Old(R, p.count - 1, now - p.window)

LEMMA PolicyIs ==
    ASSUME NEW p \in Policies
    PROVE  p.count \in Nat /\ p.count >= 1 /\ p.window \in Nat /\ p.window >= 1
           /\ p.count - 1 \in Nat
  BY PolicyAssumption

LEMMA NothingOld == \A m, x : Old(<< >>, m, x)
  BY DEF Old

(* The hit that is remembered last keeps the promise if the window of its  *)
(* node does.                                                              *)
LEMMA SpreadFrom ==
    ASSUME NEW p \in Policies, NEW R \in Seq(Nat), NEW h \in Nat, h < p.count,
           NEW x \in Int, NEW now \in Nat, x <= now, Old(R, h + (p.count - 1), x - p.window),
           Len(R) > 0 => R[Len(R)] = now
    PROVE  Spread(R, p)
<1> DEFINE c == p.count
           k == Len(R)
           i == k - (2 * c - 1) + 1
<1>1. c \in Nat /\ c >= 1 /\ p.window \in Nat /\ k \in Nat /\ h < c
  BY PolicyIs
<1> SUFFICES ASSUME k >= 2 * c - 1 PROVE R[k] - R[i] >= p.window
  BY DEF Spread
<1> HIDE DEF c, k
<1>2. i \in 1 .. k /\ i + (h + (c - 1)) <= k /\ k > 0
  BY <1>1
<1>3. R[i] <= x - p.window
  <2> HIDE DEF i
  <2> QED BY <1>2 DEF Old, c, k
<1>4. R[k] = now /\ R[i] \in Nat
  BY <1>2 DEF k
<1> QED BY <1>1, <1>3, <1>4

LEMMA CountedCounts ==
    ASSUME NEW p \in Policies, NEW n \in Node, NEW R \in Seq(Nat), NEW now \in Nat,
           Counts(n, R, p, now), Old(R, 0, now), Spread(R, p), ~ Arms(n, now, p),
           NEW S, S = IF n.banned_until > now THEN R ELSE Remember(R, now)
    PROVE  Counts(Counted(n, now, p), S, p, now) /\ Old(S, 0, now) /\ Spread(S, p)
<1> DEFINE c == p.count
           W == p.window
           h == n.hits
           b == n.window_start
           m == Counted(n, now, p)
<1>1. /\ c \in Nat /\ c >= 1 /\ W \in Nat /\ W >= 1 /\ c - 1 \in Nat
      /\ h \in Nat /\ b \in Nat /\ n.banned_until \in Nat
  BY PolicyIs, BanAssumption DEF Node, Time
<1>2. h < c /\ b <= now /\ Old(R, h, b) /\ Old(R, h + (c - 1), b - W)
  BY DEF Counts
<1>3. /\ m.window_start = IF Rolls(n, now, p) THEN now ELSE b
      /\ m.hits = HitsAfter(n, now, p) /\ m.banned_until = Retire(n, now)
  BY DEF Counted
<1>4. ~ (m.hits >= c) /\ HitsAfter(n, now, p) = (IF Rolls(n, now, p) THEN 0 ELSE h) + 1
  BY <1>3 DEF Arms, HitsAfter
<1> HIDE DEF c, W, h, b, m
<1>5. m.hits \in Nat /\ m.hits < c /\ m.window_start \in Nat /\ m.window_start <= now
  BY <1>1, <1>2, <1>3, <1>4
(* Under a ban nothing is remembered. *)
<1>6. CASE n.banned_until > now
  <2>1. S = R /\ R = << >>
    <3>1. n.banned_until # 0
      BY <1>1, <1>6
    <3> QED BY <1>6, <3>1 DEF Counts
  <2> QED BY <1>5, <2>1, NothingOld DEF Counts, c, m
<1>7. CASE ~ (n.banned_until > now)
  <2>1. S = Remember(R, now) /\ m.banned_until = 0
    BY <1>1, <1>3, <1>7 DEF Retire
  <2>2. /\ S \in Seq(Nat) /\ Old(S, 0, now) /\ (Len(S) > 0 => S[Len(S)] = now)
        /\ \A k \in Nat, x \in Int : Old(R, k, x) => Old(S, k + 1, x)
    BY <2>1, OldRemember
  <2>3. CASE ~ Rolls(n, now, p)
    <3>1. m.hits = h + 1 /\ m.window_start = b
      BY <1>3, <1>4, <2>3
    <3>2. Old(S, h + 1, b)
      BY <1>1, <1>2, <2>2
    <3>3. Old(S, (h + (c - 1)) + 1, b - W)
      <4>1. h + (c - 1) \in Nat /\ b - W \in Int
        BY <1>1
      <4> QED BY <1>2, <2>2, <4>1
    <3>4. (h + (c - 1)) + 1 = m.hits + (c - 1)
      BY <1>1, <3>1
    <3>5. Old(S, m.hits + (c - 1), m.window_start - W) /\ Old(S, m.hits, m.window_start)
      BY <3>1, <3>2, <3>3, <3>4
    <3> QED BY <1>5, <2>1, <2>2, <3>5, SpreadFrom DEF Counts, c, W, m
  <2>4. CASE Rolls(n, now, p)
    <3>1. m.hits = 1 /\ m.window_start = now /\ now - b >= W
      BY <1>1, <1>2, <1>3, <1>4, <2>4 DEF Rolls, b, W
    <3>2. Old(R, c - 1, now - W)
      <4>1. h <= c - 1 /\ b <= now - W /\ now - W \in Int
        BY <1>1, <1>2, <3>1
      <4> QED BY <1>1, <1>2, <4>1, OldWeakens
    <3>3. Old(S, (c - 1) + 1, now - W) /\ Old(S, 0 + 1, now)
      <4>1. now - W \in Int
        BY <1>1
      <4> QED BY <1>1, <2>2, <3>2, <4>1
    <3>4. (c - 1) + 1 = m.hits + (c - 1) /\ 0 + 1 = m.hits
      BY <1>1, <3>1
    <3>5. Old(S, m.hits + (c - 1), m.window_start - W) /\ Old(S, m.hits, m.window_start)
      BY <3>1, <3>3, <3>4
    <3> QED BY <1>5, <2>1, <2>2, <3>5, SpreadFrom DEF Counts, c, W, m
  <2> QED BY <2>3, <2>4
<1> QED BY <1>6, <1>7

(* The workers agree on the time, and all hits are judged by one policy. *)
OneTime == Lag = 0 /\ Steps = 0
OnePolicy == \A p, q \in Policies : p = q

Remembered(a, p) ==
    /\ Old(recent[a], 0, clock) /\ Spread(recent[a], p)
    /\ a \in Tracked => Counts(node[a], recent[a], p, clock)
    /\ a \notin Tracked => Gone(recent[a], p, clock)

EInv ==
    /\ \A w \in Workers : cached[w] = clock
    /\ \A p \in Policies, a \in Addrs : Remembered(a, p)

LEMMA NothingSpread == ASSUME NEW p \in Policies PROVE Spread(<< >>, p)
<1>1. ~ (Len(<< >>) >= 2 * p.count - 1)
  BY PolicyIs
<1> QED BY <1>1 DEF Spread

(* A step that touches neither the node nor the hits of an address. *)
LEMMA RememberedFrame ==
    ASSUME NEW a, NEW p, Remembered(a, p), clock' = clock, recent'[a] = recent[a],
           a \in Tracked' <=> a \in Tracked, a \in Tracked => node'[a] = node[a]
    PROVE  Remembered(a, p)'
  BY DEF Remembered

LEMMA RecordEInv ==
    ASSUME BInv, EInv, NEW a \in Addrs, NEW p \in Policies, NEW n \in Node,
           OnePolicy, Counts(n, recent[a], p, clock), Record(a, n, clock, p),
           UNCHANGED <<clock, cached>>
    PROVE  EInv'
<1> DEFINE R == recent[a]
           S == IF n.banned_until > clock THEN R ELSE Remember(R, clock)
           m == Counted(n, clock, p)
<1>1. R \in Seq(Nat) /\ clock \in Nat /\ DOMAIN recent = Addrs /\ MaxClock \in Nat
      /\ clock <= MaxClock
  BY BanAssumption DEF BInv, TypeOK
<1>2. Tracked' = Tracked \cup {a} /\ node'[a] = m
      /\ \A b \in Tracked : b # a => node'[b] = node[b]
  BY DEF Record, Tracked
<1>3. Old(R, 0, clock) /\ Spread(R, p)
  BY DEF EInv, Remembered
<1>4. recent'[a] \in Seq(Nat) /\ Counts(m, recent'[a], p, clock)
      /\ Old(recent'[a], 0, clock) /\ Spread(recent'[a], p)
  <2>1. CASE Arms(n, clock, p)
    <3>1. recent'[a] = << >>
      BY <1>1, <2>1 DEF Record
    <3>2. m.hits = 0 /\ m.window_start = clock
      BY <2>1 DEF Counted
    <3>3. 0 < p.count /\ clock <= clock
      BY <1>1, PolicyIs
    <3> HIDE DEF m
    <3> QED BY <3>1, <3>2, <3>3, NothingOld, NothingSpread DEF Counts
  <2>2. CASE ~ Arms(n, clock, p)
    <3>1. recent'[a] = S
      BY <1>1, <2>2 DEF Record
    <3>2. S \in Seq(Nat)
      BY <1>1, OldRemember
    <3> HIDE DEF S
    <3>3. Counts(m, S, p, clock) /\ Old(S, 0, clock) /\ Spread(S, p)
      BY <1>1, <1>3, <2>2, CountedCounts DEF S
    <3> QED BY <3>1, <3>2, <3>3
  <2> QED BY <2>1, <2>2
<1>5. \A b \in Addrs : b # a => recent'[b] = recent[b]
  BY <1>1 DEF Record
<1> HIDE DEF m
<1>6. ASSUME NEW q \in Policies, NEW b \in Addrs PROVE Remembered(b, q)'
  <2>1. q = p
    BY DEF OnePolicy
  <2>2. CASE b = a
    <3>1. a \in Tracked'
      BY <1>2
    <3>2. Remembered(a, p)'
      BY <1>2, <1>4, <3>1 DEF Remembered
    <3> QED BY <2>1, <2>2, <3>2
  <2>3. CASE b # a
    <3>1. Remembered(b, q)
      BY DEF EInv
    <3> QED BY <1>2, <1>5, <2>3, <3>1, RememberedFrame
  <2> QED BY <2>2, <2>3
<1> QED BY <1>6 DEF EInv

(* A node that counts is evicted only a window after its start. *)
LEMMA EvictEInv ==
    ASSUME BInv, EInv, OnePolicy, NEW w \in Workers, ExpireEvict(w)
    PROVE  EInv'
<1> DEFINE a == loop.q
           p == req[w].pol
           n == node[a]
           R == recent[a]
<1>1. /\ req[w].pc = "expire" /\ a # Sentinel /\ ~ Live(n, cached[w], p.window)
      /\ node' = [b \in Tracked \ {a} |-> node[b]]
      /\ UNCHANGED <<clock, cached, recent>>
  BY DEF ExpireEvict, Budget, time, hist
<1>2. /\ a \in Tracked /\ a \in Addrs /\ n \in Node /\ R \in Seq(Nat)
      /\ clock \in Nat /\ clock < TimeMax /\ TimeMax \in Nat /\ cached[w] = clock
  BY <1>1, BanAssumption DEF BInv, CursorLive, TypeOK, EInv
<1>3. p \in Policies
  <2>1. req[w].pc # "idle"
    BY <1>1
  <2> QED BY <2>1, ReqTyped DEF BInv
<1>4. Tracked' = Tracked \ {a} /\ \A b \in Tracked' : node'[b] = node[b]
  BY <1>1 DEF Tracked
<1>5. Counts(n, R, p, clock)
  BY <1>2, <1>3 DEF EInv, Remembered
<1>6. Gone(R, p, clock)
  <2>1. ~ Live(n, clock, p.window)
    BY <1>1, <1>2
  <2> HIDE DEF n, R, p
  <2>2. n.banned_until \in Nat /\ n.window_start \in Nat /\ n.hits \in Nat
    BY <1>2, BanAssumption DEF Node, Time
  <2>3. CASE n.banned_until # 0
    BY <1>5, <2>3, NothingOld DEF Counts, Gone
  <2>4. CASE n.banned_until = 0
    <3>1. n.window_start <= clock /\ n.hits < p.count /\ Old(R, n.hits, n.window_start)
      BY <1>5 DEF Counts
    <3>2. ~ (time_add_clamp(n.window_start, p.window) > clock)
      BY <1>2, <2>1, <2>2, <2>4, <3>1 DEF Live
    <3>3. p.window \in Nat /\ p.count \in Nat /\ p.count - 1 \in Nat
      BY <1>3, PolicyIs
    <3>4. n.window_start <= clock - p.window /\ clock - p.window \in Int
      BY <1>2, <2>2, <3>1, <3>2, <3>3 DEF time_add_clamp
    <3>5. n.hits <= p.count - 1
      BY <2>2, <3>1, <3>3
    <3>6. Old(R, p.count - 1, clock - p.window)
      BY <1>2, <2>2, <3>1, <3>3, <3>4, <3>5, OldWeakens
    <3> QED BY <3>6 DEF Gone
  <2> QED BY <2>3, <2>4
<1>7. ASSUME NEW q \in Policies, NEW b \in Addrs PROVE Remembered(b, q)'
  <2>1. Remembered(b, q) /\ q = p
    BY <1>3 DEF EInv, OnePolicy
  <2>2. CASE b = a
    <3>1. b \notin Tracked'
      BY <1>4, <2>2
    <3>2. Gone(recent[b], q, clock)
      BY <1>6, <2>1, <2>2
    <3> QED BY <1>1, <2>1, <3>1, <3>2 DEF Remembered
  <2>3. CASE b # a
    BY <1>1, <1>4, <2>1, <2>3, RememberedFrame
  <2> QED BY <2>2, <2>3
<1> QED BY <1>1, <1>7 DEF EInv

LEMMA QuietEInv ==
    ASSUME EInv, UNCHANGED <<node, recent, clock, cached>>
    PROVE  EInv'
<1>1. Tracked' = Tracked
  BY DEF Tracked
<1> QED BY <1>1 DEF EInv, Remembered

LEMMA RecordTrackedEInv ==
    ASSUME BInv, EInv, OnePolicy, NEW w \in Workers, RecordTracked(w)
    PROVE  EInv'
<1> DEFINE a == req[w].addr
           p == req[w].pol
<1>1. /\ req[w].pc = "inspect" /\ a \in Tracked /\ Record(a, node[a], cached[w], p)
      /\ UNCHANGED <<clock, cached>>
  BY DEF RecordTracked, time
<1>2. a \in Addrs /\ p \in Policies
  <2>1. req[w].pc # "idle"
    BY <1>1
  <2> QED BY <2>1, ReqTyped DEF BInv
<1>3. node[a] \in Node /\ cached[w] = clock
  BY <1>1 DEF BInv, TypeOK, EInv
<1>4. Counts(node[a], recent[a], p, clock)
  BY <1>1, <1>2 DEF EInv, Remembered
<1> HIDE DEF a, p
<1> QED BY <1>1, <1>2, <1>3, <1>4, RecordEInv

LEMMA AllocateEInv ==
    ASSUME BInv, EInv, OnePolicy, NEW w \in Workers, Allocate(w)
    PROVE  EInv'
<1> DEFINE a == req[w].addr
           p == req[w].pol
<1>1. /\ req[w].pc = "expire" /\ Record(a, Fresh(cached[w]), cached[w], p)
      /\ UNCHANGED <<clock, cached>>
  BY DEF Allocate, ExpireOver, time
<1>2. a \in Addrs /\ p \in Policies /\ a \notin Tracked
  <2>1. req[w].pc # "idle"
    BY <1>1
  <2> QED BY <1>1, <2>1, ReqTyped DEF BInv, Locking
<1>3. cached[w] = clock /\ clock \in Nat /\ clock <= TimeMax /\ recent[a] \in Seq(Nat)
  BY <1>2, BanAssumption DEF BInv, TypeOK, EInv
<1>4. Fresh(clock) \in Node
  BY <1>3, BanAssumption DEF Fresh, Node, Time
<1>5. /\ p.count \in Nat /\ p.count >= 1 /\ p.window \in Nat
      /\ 0 + (p.count - 1) = p.count - 1
  BY <1>2, PolicyIs
<1>6. Old(recent[a], 0, clock) /\ Gone(recent[a], p, clock)
  BY <1>2 DEF EInv, Remembered
<1> HIDE DEF a, p
<1>7. Counts(Fresh(clock), recent[a], p, clock)
  <2>1. /\ Fresh(clock).hits = 0 /\ Fresh(clock).window_start = clock
        /\ Fresh(clock).banned_until = 0
    BY DEF Fresh
  <2>2. 0 < p.count /\ clock <= clock
    BY <1>3, <1>5
  <2>3. Old(recent[a], 0 + (p.count - 1), clock - p.window)
    BY <1>5, <1>6 DEF Gone
  <2> QED BY <1>6, <2>1, <2>2, <2>3 DEF Counts
<1> QED BY <1>1, <1>2, <1>3, <1>4, <1>7, RecordEInv

(* Time passes for all workers at once, and only makes the hits older. *)
LEMMA TickEInv ==
    ASSUME BInv, EInv, OneTime, Tick
    PROVE  EInv'
<1>1. /\ clock' = clock + 1 /\ UNCHANGED <<node, recent>>
      /\ cached' = [w \in Workers |-> IF cached[w] + Lag < clock' THEN clock' ELSE cached[w]]
  BY DEF Tick, zone
<1>2. clock \in Nat /\ \A w \in Workers : cached[w] = clock
  BY DEF BInv, TypeOK, EInv
<1>3. \A w \in Workers : cached'[w] = clock'
  BY <1>1, <1>2 DEF OneTime
<1>4. Tracked' = Tracked
  BY <1>1 DEF Tracked
<1>5. ASSUME NEW p \in Policies, NEW a \in Addrs PROVE Remembered(a, p)'
  <2>1. Remembered(a, p) /\ recent[a] \in Seq(Nat)
    BY DEF EInv, BInv, TypeOK
  <2>2. /\ p.count - 1 \in Nat /\ p.window \in Nat
        /\ clock - p.window \in Int /\ (clock + 1) - p.window \in Int
        /\ clock <= clock + 1 /\ clock - p.window <= (clock + 1) - p.window
    BY <1>2, PolicyIs
  <2>3. Old(recent[a], 0, clock + 1)
    <3>1. Old(recent[a], 0, clock)
      BY <2>1 DEF Remembered
    <3> QED BY <1>2, <2>1, <2>2, <3>1, OldWeakens
  <2>4. a \notin Tracked => Gone(recent[a], p, clock + 1)
    <3> SUFFICES ASSUME a \notin Tracked PROVE Old(recent[a], p.count - 1, (clock + 1) - p.window)
      BY DEF Gone
    <3>1. Old(recent[a], p.count - 1, clock - p.window)
      BY <2>1 DEF Remembered, Gone
    <3>2. p.count - 1 <= p.count - 1
      BY <2>2
    <3> QED BY <2>1, <2>2, <3>1, <3>2, OldWeakens
  <2>5. a \in Tracked => Counts(node[a], recent[a], p, clock + 1)
    <3> SUFFICES ASSUME a \in Tracked PROVE Counts(node[a], recent[a], p, clock + 1)
      OBVIOUS
    <3>1. Counts(node[a], recent[a], p, clock)
      BY <2>1 DEF Remembered
    <3>2. node[a].window_start \in Nat
      BY BanAssumption DEF BInv, TypeOK, Node, Time
    <3>3. node[a].window_start <= clock + 1
      BY <1>2, <3>1, <3>2 DEF Counts
    <3> QED BY <3>1, <3>3 DEF Counts
  <2> QED BY <1>1, <1>4, <2>1, <2>3, <2>4, <2>5 DEF Remembered
<1> QED BY <1>3, <1>5 DEF EInv

LEMMA InitEInv == Init => EInv
<1> SUFFICES ASSUME Init PROVE EInv
  OBVIOUS
<1>1. Tracked = {}
  BY DEF Init, Tracked
<1>2. /\ \A a \in Addrs : recent[a] = << >>
      /\ \A w \in Workers : cached[w] = clock
  BY DEF Init
<1>3. ASSUME NEW p \in Policies, NEW a \in Addrs PROVE Remembered(a, p)
  BY <1>1, <1>2, NothingOld, NothingSpread DEF Remembered, Gone
<1> QED BY <1>2, <1>3 DEF EInv

LEMMA NextEInv ==
    ASSUME OneTime, OnePolicy
    PROVE  BInv /\ EInv /\ [Next]_vars => EInv'
<1> SUFFICES ASSUME BInv, EInv, [Next]_vars PROVE EInv'
  OBVIOUS
<1>1. CASE UNCHANGED vars
  BY <1>1, QuietEInv DEF vars, zone, time, hist
<1>2. ASSUME NEW w \in Workers, Worker(w) PROVE EInv'
  <2>1. ASSUME NEW a \in Addrs, Arrive(w, a) PROVE EInv'
    BY <2>1, QuietEInv DEF Arrive, time, hist
  <2>2. CASE NoHit(w) \/ RecordNew(w) \/ ExpireWrap(w) \/ ExpireSkip(w) \/ DropHit(w)
    BY <2>2, QuietEInv DEF NoHit, RecordNew, ExpireWrap, ExpireSkip, DropHit, zone, time, hist
  <2>3. CASE RecordTracked(w)
    BY <2>3, RecordTrackedEInv
  <2>4. CASE ExpireEvict(w)
    BY <2>4, EvictEInv
  <2>5. CASE Allocate(w)
    BY <2>5, AllocateEInv
  <2>6. CASE TimeUpdate(w)
    BY <2>6 DEF TimeUpdate, EInv
  <2> QED BY <1>2, <2>1, <2>2, <2>3, <2>4, <2>5, <2>6 DEF Worker
<1>3. CASE Tick
  BY <1>3, TickEInv
<1>4. CASE StepBack
  BY <1>4 DEF StepBack, OneTime, BInv, TypeOK
<1> QED BY <1>1, <1>2, <1>3, <1>4 DEF Next

(* Where the workers agree on the time and one policy judges all hits, no  *)
(* client paces its hits below the ban by having its node evicted, however *)
(* small the slab, however many clients crowd it and wherever the walk     *)
(* stands (ngx_http_shield_ban_expire, record_locked).                     *)
THEOREM NeverEvaded == OneTime /\ OnePolicy => (Spec => []NoEvasion)
<1> SUFFICES ASSUME OneTime, OnePolicy PROVE Spec => []NoEvasion
  OBVIOUS
<1>1. EInv => NoEvasion
  BY DEF EInv, Remembered, Spread, NoEvasion
<1>2. Spec => []EInv
  <2>1. BInv /\ EInv /\ [Next]_vars => EInv'
    BY NextEInv
  <2> QED BY <2>1, InitEInv, BanInvariant, PTL DEF Spec
<1> QED BY <1>1, <1>2, PTL

(* The furthest deadline of a ban is exactly when it ends, for everyone. *)
BanServedInFull ==
    \A a \in Addrs : until[a] > clock =>
       banned(a, clock) /\ \A w \in Workers : banned(a, cached[w])

(* Where the workers agree on the time and one policy judges all hits, a   *)
(* hit that a request in flight records under a live ban can only extend   *)
(* it, as the comment in record_locked says: no arming is ever cut short.  *)
THEOREM BansServedInFull == OneTime /\ OnePolicy => (Spec => []BanServedInFull)
<1> SUFFICES ASSUME OneTime, OnePolicy PROVE Spec => []BanServedInFull
  OBVIOUS
<1>1. BInv /\ BanHolds => BanServedInFull
  <2> SUFFICES ASSUME BInv, BanHolds, NEW a \in Addrs, until[a] > clock
               PROVE  banned(a, clock) /\ \A w \in Workers : banned(a, cached[w])
    BY DEF BanServedInFull
  <2>1. until[a] \in Nat /\ clock \in Nat /\ steps = 0 /\ Lag = 0 /\ until[a] # 0
    BY DEF BInv, TypeOK, OneTime
  <2>2. ASSUME NEW p \in Policies, NEW q \in Policies
        PROVE  clock + Lag + 2 * steps + p.bantime < until[a] + q.bantime
    <3>1. p = q /\ p.bantime \in Nat
      BY PolicyAssumption DEF OnePolicy
    <3> QED
      BY <2>1, <3>1
  <2>3. Owed(a)
    BY <2>1, <2>2 DEF Owed
  <2> QED
    BY <2>3 DEF BanHolds
<1> QED
  BY <1>1, BanInvariant, BansServed, PTL
=============================================================================
