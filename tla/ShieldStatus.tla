---------------------------- MODULE ShieldStatus ----------------------------
(***************************************************************************)
(* The zone as its observers see it: the counters of a zone, the status    *)
(* document that is rendered in two locked passes with an allocation in    *)
(* between, the probe with its injected allocation failure, and the zone's *)
(* init callback at start and at reload.  Each locked section is a step.   *)
(*                                                                         *)
(* The ban list is its number of nodes and of banned ones (ShieldBan has   *)
(* its inside).  Lengths of the document are those of the code; HEAD_ROOM  *)
(* is what the head leaves of the bytes reserved for it.                   *)
(***************************************************************************)
EXTENDS Naturals, FiniteSets, Functions, Sequences

CONSTANTS
    Workers,     \* worker processes, of the old and of the new configuration
    Readers,     \* those that the status requests reach
    Resizes,     \* whether a reload changes the size of the zone
    Categories,  \* the categories that are hit
    ENTRY,       \* bytes reserved for a node (96)
    HEAD_ROOM,   \* bytes that the head leaves of its reservation
    Widths,      \* lengths of an entry of the ban list
    Arms,        \* values of fault_slab that the prober sends
    DISARMED,    \* a negative one
    MaxNodes,    \* bound: nodes that a zone holds
    MaxBans,     \* bound: bans that are counted
    MaxHits,     \* bound: hits that are counted
    MaxAllocs    \* bound: allocations since an arming

CLOSE == 2   \* the length of "]}"

(* No entry is longer than its reservation less the closing brackets. *)
ASSUME StatusAssumption ==
    /\ ENTRY \in Nat /\ Widths \subseteq 1 .. ENTRY - CLOSE /\ Widths # {}
    /\ HEAD_ROOM \in Nat /\ HEAD_ROOM >= CLOSE /\ IsFiniteSet(Categories)
    /\ Readers \subseteq Workers /\ Resizes \subseteq BOOLEAN
    /\ Arms \subseteq Nat /\ DISARMED \notin Nat
    /\ MaxNodes \in Nat /\ MaxBans \in Nat /\ MaxHits \in Nat /\ MaxAllocs \in Nat

VARIABLES
    segs,  \* the shared segments: the first, and that of a resized zone
    at,    \* at[w]: the segment of w's ctx->sh, 0 before its init callback
    pc,    \* pc[w]: "serving", or "rendering" between the passes
    snap,  \* snap[w]: what the first pass copied out
    doc    \* the document that the last step rendered

vars == <<segs, at, pc, snap, doc>>

(* shctx_init; the last two fields are history. *)
shctx_init ==
    [nodes |-> 0, banned |-> 0, cat_hits |-> [c \in Categories |-> 0],
     blocked |-> 0, bans |-> 0, fault_slab_nth |-> DISARMED, fault_slab_seen |-> 0,
     allocs |-> 0, injected |-> {}]

NoDoc == [state |-> "none"]

----------------------------------------------------------------------------
Total(hits) == FoldFunction(LAMBDA a, b : a + b, 0, hits)

Init ==
    /\ segs = <<shctx_init>> /\ at = [w \in Workers |-> 0]
    /\ pc = [w \in Workers |-> "serving"]
    /\ snap = [w \in Workers |-> NoDoc] /\ doc = NoDoc

(* A reload lays the zone out anew. *)
MutInitZone(w, resized) ==
    /\ at[w] = 0
    /\ IF resized /\ Len(segs) = 1 THEN segs' = Append(segs, shctx_init)
       ELSE segs' = [segs EXCEPT ![Len(segs)] = shctx_init]
    /\ at' = [at EXCEPT ![w] = Len(segs')]
    /\ doc' = NoDoc /\ UNCHANGED <<pc, snap>>

(* ban_init_zone for the configuration of w: the segment of the old one is *)
(* inherited; nginx passes none when the zone's size has changed.          *)
init_zone(w, resized) ==
    /\ at[w] = 0
    /\ IF resized /\ Len(segs) = 1 THEN segs' = Append(segs, shctx_init)
       ELSE UNCHANGED segs
    /\ at' = [at EXCEPT ![w] = Len(segs')]
    /\ doc' = NoDoc /\ UNCHANGED <<pc, snap>>

(* A locked section of w that changes its segment. *)
Locked(w, sh) ==
    /\ at[w] # 0 /\ pc[w] = "serving"
    /\ segs' = [segs EXCEPT ![at[w]] = sh]
    /\ doc' = NoDoc /\ UNCHANGED <<at, pc, snap>>

sh(w) == segs[at[w]]

(* The number of an allocation since the arming (history). *)
Later(z) == IF z.fault_slab_nth = DISARMED THEN z.allocs ELSE z.allocs + 1

(* The zone after the allocation of a node: counted while a fault is       *)
(* armed, failed by it or for want of room, else one node more.            *)
slab_alloc(z) ==
    LET seen == IF z.fault_slab_nth = DISARMED THEN z.fault_slab_seen
                ELSE z.fault_slab_seen + 1
        fails == z.fault_slab_nth # DISARMED /\ seen = z.fault_slab_nth
    IN  [z EXCEPT !.fault_slab_seen = seen, !.allocs = Later(z),
                  !.injected = IF fails THEN @ \cup {Later(z)} ELSE @,
                  !.nodes = IF fails \/ @ = MaxNodes THEN @ ELSE @ + 1]

(* ban_record of an address that has no node. *)
Insert(w) == at[w] # 0 /\ sh(w).allocs < MaxAllocs /\ Locked(w, slab_alloc(sh(w)))

(* ban_record that arms a ban. *)
ArmBan(w) ==
    /\ at[w] # 0 /\ sh(w).banned < sh(w).nodes /\ sh(w).bans < MaxBans
    /\ Locked(w, [sh(w) EXCEPT !.banned = @ + 1, !.bans = @ + 1])

(* A ban ends, and a node is evicted. *)
EndBan(w) == at[w] # 0 /\ sh(w).banned > 0 /\ Locked(w, [sh(w) EXCEPT !.banned = @ - 1])
Evict(w) == /\ at[w] # 0 /\ sh(w).banned < sh(w).nodes
            /\ Locked(w, [sh(w) EXCEPT !.nodes = @ - 1])

count_hit(w, c, blocked) ==
    /\ at[w] # 0 /\ Total(sh(w).cat_hits) < MaxHits
    /\ Locked(w, [sh(w) EXCEPT !.cat_hits[c] = @ + 1, !.blocked = @ + blocked])

----------------------------------------------------------------------------
(* The status document.                                                    *)

Unavailable(w) ==
    /\ at[w] = 0 /\ doc' = [state |-> "unavailable"]
    /\ UNCHANGED <<segs, at, pc, snap>>

(* Pass one: the counters and the number of nodes.  The buffer is          *)
(* allocated behind it, and may not be had.                                *)
FirstPass(w) ==
    /\ at[w] # 0 /\ pc[w] = "serving"
    /\ \/ /\ snap' = [snap EXCEPT ![w] = [nodes |-> sh(w).nodes, blocked |-> sh(w).blocked,
                                          bans |-> sh(w).bans, cat_hits |-> sh(w).cat_hits]]
          /\ pc' = [pc EXCEPT ![w] = "rendering"] /\ doc' = NoDoc
       \/ doc' = [state |-> "error"] /\ UNCHANGED <<snap, pc>>
    /\ UNCHANGED <<segs, at>>

(* Only an address is reserved for. *)
MutRoom(nodes) == HEAD_ROOM + nodes * 40

Room(nodes) == HEAD_ROOM + nodes * ENTRY

(* The state of a walk over the entries in room bytes behind each of them, *)
(* if it goes on while at least so many bytes are left.                    *)
Walked(room, entries, least) ==
    LET r[k \in 0 .. Len(entries)] ==
          IF k = 0 THEN [left |-> room, listed |-> 0]
          ELSE IF r[k - 1].left >= least
            THEN [left |-> r[k - 1].left - entries[k], listed |-> r[k - 1].listed + 1]
            ELSE r[k - 1]
    IN  r

(* It goes on while any byte is left. *)
MutWalk(room, entries) == Walked(room, entries, 1)[Len(entries)]

(* The walk over the banned nodes, in room bytes: it ends with the list or *)
(* where less than ENTRY bytes are left.                                   *)
Walk(room, entries) == Walked(room, entries, ENTRY)[Len(entries)]

(* blocked is read again, under the second lock. *)
MutDocument(w, r) ==
    [state |-> IF r.left >= CLOSE THEN "closed" ELSE "open",
     listed |-> r.listed, banned |-> sh(w).banned, sized |-> snap[w].nodes,
     blocked |-> sh(w).blocked, cat_hits |-> snap[w].cat_hits]

(* What the handler renders; banned is history. *)
Document(w, r) ==
    [state |-> IF r.left >= CLOSE THEN "closed" ELSE "open",
     listed |-> r.listed, banned |-> sh(w).banned, sized |-> snap[w].nodes,
     blocked |-> snap[w].blocked, cat_hits |-> snap[w].cat_hits]

(* Pass two: the ban list as it now is, in the buffer sized by pass one. *)
SecondPass(w) ==
    /\ pc[w] = "rendering"
    /\ \E entries \in [1 .. sh(w).banned -> Widths] :
         doc' = Document(w, Walk(Room(snap[w].nodes), entries))
    /\ pc' = [pc EXCEPT ![w] = "serving"] /\ snap' = [snap EXCEPT ![w] = NoDoc]
    /\ UNCHANGED <<segs, at>>

----------------------------------------------------------------------------
(* The probe.                                                              *)

(* seen is left as it is. *)
MutFaultSet(w, nth) ==
    at[w] # 0 /\ Locked(w, [sh(w) EXCEPT !.fault_slab_nth = nth, !.allocs = 0, !.injected = {}])

(* Arming counts from this request on; a worker without its zone declines. *)
fault_set(w, nth) ==
    at[w] # 0 /\ Locked(w, [sh(w) EXCEPT !.fault_slab_nth = nth, !.fault_slab_seen = 0,
                                         !.allocs = 0, !.injected = {}])

(* zone_render: one locked section; allocs is history. *)
zone_render(w) ==
    /\ pc[w] = "serving"
    /\ LET z == IF at[w] = 0 THEN shctx_init ELSE sh(w)   \* zeroes without a zone
       IN  doc' = [state |-> "probe", nodes |-> z.nodes, banned |-> z.banned,
                   nth |-> z.fault_slab_nth, seen |-> z.fault_slab_seen,
                   allocs |-> z.allocs]
    /\ UNCHANGED <<segs, at, pc, snap>>

Next ==
    \/ \E w \in Workers :
         \/ \E resized \in Resizes : init_zone(w, resized)
         \/ Insert(w) \/ ArmBan(w) \/ EndBan(w) \/ Evict(w)
         \/ \E c \in Categories, blocked \in 0 .. 1 : count_hit(w, c, blocked)
         \/ \E nth \in Arms \cup {DISARMED} : fault_set(w, nth)
    \/ \E w \in Readers : Unavailable(w) \/ FirstPass(w) \/ SecondPass(w) \/ zone_render(w)

Spec == Init /\ [][Next]_vars

----------------------------------------------------------------------------
(* Properties                                                              *)

Rendered == doc.state \in {"closed", "open"}

(* However the zone grew between the two locks, the document is closed:    *)
(* the walk leaves the two bytes of "]}".                                  *)
DocumentCloses == doc.state # "open"

(* A banned address is missing from the document only if the zone has more *)
(* bans at the second lock than it had nodes at the first.                 *)
ListIsComplete ==
    Rendered => doc.listed = doc.banned \/ doc.banned > doc.sized

(* The counters of one document are of one moment: no more requests were   *)
(* blocked than hit.                                                       *)
CountersAgree == Rendered => doc.blocked <= Total(doc.cat_hits)

(* The counters of a segment never go back, through a reload neither.      *)
CountersGrow ==
    [][\A s \in DOMAIN segs :
         /\ segs'[s].blocked >= segs[s].blocked /\ segs'[s].bans >= segs[s].bans
         /\ \A c \in Categories : segs'[s].cat_hits[c] >= segs[s].cat_hits[c]]_vars

(* A fault armed for the nth allocation fails that one and no other,       *)
(* counted from the arming and over all workers of the zone; and a probe   *)
(* of a zone that is armed reports how many there have been.               *)
NthFails ==
    /\ \A s \in DOMAIN segs :
         segs[s].injected = IF segs[s].fault_slab_nth \in 1 .. segs[s].allocs
                              THEN {segs[s].fault_slab_nth} ELSE {}
    /\ doc.state = "probe" /\ doc.nth # DISARMED => doc.seen = doc.allocs
=============================================================================
