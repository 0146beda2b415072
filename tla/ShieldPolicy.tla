---------------------------- MODULE ShieldPolicy ----------------------------
(***************************************************************************)
(* What the shield promises a site, whatever the order of its checks, the  *)
(* number of scan passes and the steps in between: in block mode a request *)
(* passes only if it is no attack, a request is denied only for an attack  *)
(* or a ban, and only a client with an attack under way is ever banned.    *)
(* An internal redirect submits a request to the policy of another         *)
(* location.                                                               *)
(***************************************************************************)

CONSTANTS
    Reqs,         \* request slots
    Arrivals,     \* a request q that clients send, with the configuration
                  \* conf of its location
    Pages,        \* the URI and the configuration of a redirect's location
    NoArrival,
    Attack(_, _)  \* whether a request is an attack in a location

VARIABLES
    open,     \* open[r]: the request in slot r and its configuration
    state,    \* state[r]: "idle", "open", "passed", "denied" or "failed"
    banned    \* keys under a ban

vars == <<open, state, banned>>

Init ==
    /\ open = [r \in Reqs |-> NoArrival]
    /\ state = [r \in Reqs |-> "idle"]
    /\ banned = {}

Open(r) ==
    /\ state[r] = "idle"
    /\ open'[r] \in Arrivals
    /\ open' = [open EXCEPT ![r] = open'[r]]
    /\ state' = [state EXCEPT ![r] = "open"]
    /\ UNCHANGED banned

Close(r, how) ==
    /\ state[r] = "open"
    /\ state' = [state EXCEPT ![r] = how]
    /\ UNCHANGED <<open, banned>>

Pass(r) ==
    /\ Close(r, "passed")
    /\ open[r].q.main /\ open[r].conf.mode = "block"
         => ~ Attack(open[r].q, open[r].conf)

Deny(r) ==
    /\ Close(r, "denied")
    /\ open[r].q.main
    /\ \/ /\ open[r].conf.zone
          /\ open[r].q.client \in banned
       \/ /\ open[r].conf.mode = "block"
          /\ Attack(open[r].q, open[r].conf)

(* The request could not be inspected, or the connection was lost. *)
Fail(r) == Close(r, "failed")

(* nginx redirects a request that is not answered yet. *)
Move(r) ==
    /\ state[r] \in {"open", "denied", "failed"}
    /\ \/ UNCHANGED open
       \/ \E p \in Pages :
            open' = [open EXCEPT ![r] = [q |-> [@.q EXCEPT !.uri = p.uri], conf |-> p.conf]]
    /\ state' = [state EXCEPT ![r] = "open"]
    /\ UNCHANGED banned

Ban(r) ==
    /\ state[r] = "open"
    /\ open[r].q.main
    /\ open[r].conf.zone
    /\ open[r].conf.mode # "off"
    /\ banned' = banned \cup {open[r].q.client}
    /\ UNCHANGED <<open, state>>
    /\ Attack(open[r].q, open[r].conf)

Lift(c) == banned' = banned \ {c} /\ UNCHANGED <<open, state>>

Next ==
    \/ \E r \in Reqs : Open(r) \/ Pass(r) \/ Deny(r) \/ Fail(r) \/ Move(r) \/ Ban(r)
    \/ \E c \in banned : Lift(c)

Spec == Init /\ [][Next]_vars
=============================================================================
