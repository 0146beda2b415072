----------------------------- MODULE ShieldText -----------------------------
(***************************************************************************)
(* The texts of a request that a client chooses and that the shield walks  *)
(* itself: the path and the media type (ShieldParse), and the lines of     *)
(* X-Forwarded-For, from which ngx_http_shield_ban_addr takes the ban key  *)
(* when it is key=forwarded and the peer is a trusted proxy.  A text grows *)
(* by one lexeme per step; each proxy on the way adds the address it saw,  *)
(* in one of the two ways proxies do.                                      *)
(***************************************************************************)
EXTENDS ShieldParse

CONSTANTS
    Clients,     \* addresses of clients
    Proxies,     \* addresses of proxies
    Trusted,     \* the addresses that trusted= names
    Local,       \* the end of a unix socket: a peer without an address
    Junk,        \* other text of a header
    None,        \* no value, and the key of a client that is not tracked
    BanKeys,     \* the values of key= that are tried
    MaxPath,     \* bound: lexemes in a path
    MaxType,     \* bound: lexemes in a media type
    MaxLines,    \* bound: X-Forwarded-For lines that a client sends
    MaxTokens,   \* bound: lexemes in them
    MaxHops      \* bound: proxies on the way

(* The operator names proxies, never a network that clients are on. *)
ASSUME TextAssumption ==
    /\ Trusted \subseteq Proxies /\ Clients \cap Proxies = {}
    /\ (Clients \cup Proxies \cup {Local}) \cap (Blank \cup {","}) = {}
    /\ Local \notin Clients \cup Proxies /\ None \notin Clients \cup Proxies \cup {Local}
    /\ BanKeys \subseteq {"peer", "forwarded"}
    /\ {MaxPath, MaxType, MaxLines, MaxTokens, MaxHops} \subseteq Nat

VARIABLES
    uri,      \* r->uri, decoded and normalised
    ct,       \* the value of a Content-Type field
    xff,      \* the chain of X-Forwarded-For lines
    ban_key,  \* ban_key of the location
    peer,     \* the near end of the last connection
    seen,     \* history: whom that peer accepted the request from, or None
    stage,    \* "client", "sent" or "keyed"
    hops,     \* proxies passed so far
    addr      \* the key

vars == <<uri, ct, xff, ban_key, peer, seen, stage, hops, addr>>

Addrs == Clients \cup Proxies
Text == Addrs \cup {Local, Junk, ","} \cup Blank

----------------------------------------------------------------------------
MutFirstToken(value) ==
    LET ends == {i \in 0 .. Len(value) : i = Len(value) \/ value[i + 1] = ","}
        token == SubSeq(value, 1, CHOOSE i \in ends : \A j \in ends : i <= j)
    IN  SelectSeq(token, LAMBDA x : x \notin Blank)

(* start behind the last comma, then one trim from either end. *)
xff_last_token(value) ==
    LET end == Len(value)
        start == CHOOSE p \in 0 .. end : /\ p = 0 \/ value[p] = ","
                                         /\ \A q \in p + 1 .. end : value[q] # ","
        left == CHOOSE p \in start .. end : /\ p = end \/ value[p + 1] \notin Blank
                                            /\ \A q \in start + 1 .. p : value[q] \in Blank
        right == CHOOSE p \in left .. end : /\ p = left \/ value[p] \notin Blank
                                            /\ \A q \in p + 1 .. end : value[q] \in Blank
    IN  SubSeq(value, left + 1, right)

(* ngx_parse_addr_port: an address and nothing else (external). *)
Parses(token) == Len(token) = 1 /\ token[1] \in Addrs

sockaddr_bytes(sockaddr) == IF sockaddr \in Addrs THEN sockaddr ELSE None

peer_trusted(p) == p \in Trusted

MutHeadOnly ==
    IF ban_key # "forwarded" \/ ~ peer_trusted(peer) \/ xff = <<>>
      THEN sockaddr_bytes(peer)
    ELSE LET token == xff_last_token(Head(xff))
         IN  sockaddr_bytes(IF Parses(token) THEN token[1] ELSE peer)

ban_addr ==
    IF ban_key # "forwarded" \/ ~ peer_trusted(peer) \/ xff = <<>>
      THEN sockaddr_bytes(peer)
    ELSE LET token == xff_last_token(Last(xff))
         IN  sockaddr_bytes(IF Parses(token) THEN token[1] ELSE peer)

----------------------------------------------------------------------------
Init ==
    /\ uri = <<>> /\ ct = <<>>
    /\ xff = <<>> /\ ban_key \in BanKeys
    /\ peer \in Clients \cup {Local} /\ seen = None
    /\ stage = "client" /\ hops = 0 /\ addr = None

(* The walks do not depend on each other: a request has a path or a type   *)
(* of interest, or it is followed to its key.                              *)
Plain == uri = <<>> /\ ct = <<>>

(* The client goes on with its path or its media type. *)
GrowUri ==
    /\ stage = "client" /\ xff = <<>> /\ ct = <<>> /\ Len(uri) < MaxPath
    /\ \E b \in PathBytes : uri' = Append(uri, b)
    /\ UNCHANGED <<ct, xff, ban_key, peer, seen, stage, hops, addr>>
GrowType ==
    /\ stage = "client" /\ xff = <<>> /\ uri = <<>> /\ Len(ct) < MaxType
    /\ \E w \in TypeWords : ct' = Append(ct, w)
    /\ UNCHANGED <<uri, xff, ban_key, peer, seen, stage, hops, addr>>

(* The client writes another line, or goes on with its last one. *)
Write ==
    /\ stage = "client" /\ Plain
    /\ \/ Len(xff) < MaxLines /\ xff' = Append(xff, <<>>)
       \/ /\ xff # <<>> /\ Len(FlattenSeq(xff)) < MaxTokens
          /\ \E x \in Text : xff' = [xff EXCEPT ![Len(xff)] = Append(@, x)]
    /\ UNCHANGED <<uri, ct, ban_key, peer, seen, stage, hops, addr>>

Joined(lines) ==
    LET upto[i \in 0 .. Len(lines)] ==
          IF i = 0 THEN <<>>
          ELSE IF upto[i - 1] = <<>> THEN lines[i]
          ELSE upto[i - 1] \o <<",", " ">> \o lines[i]
    IN  upto[Len(lines)]

(* A proxy relays the request and notes whom it has it from: at the end of *)
(* one joined line, or on a line of its own (external).                    *)
Relay(p) ==
    /\ stage # "keyed" /\ Plain /\ hops < MaxHops
    /\ peer' = p /\ seen' = peer
    /\ \/ xff' = <<IF Joined(xff) = <<>> THEN <<peer>> ELSE Joined(xff) \o <<",", " ", peer>>>>
       \/ xff' = Append(xff, <<peer>>)
    /\ stage' = "sent" /\ hops' = hops + 1
    /\ UNCHANGED <<uri, ct, ban_key, addr>>

(* The module takes the key of the request that reached nginx. *)
Key ==
    /\ stage # "keyed" /\ Plain
    /\ addr' = ban_addr /\ stage' = "keyed"
    /\ UNCHANGED <<uri, ct, xff, ban_key, peer, seen, hops>>

Next == GrowUri \/ GrowType \/ Write \/ (\E p \in Proxies : Relay(p)) \/ Key

Spec == Init /\ [][Next]_vars

----------------------------------------------------------------------------
(* Properties                                                              *)

(* The dotfile walk reports a path exactly when one of its segments starts *)
(* with "." and is not ".", ".." or ".well-known": the exemption covers    *)
(* the whole segment only, and the walk goes on behind it.                 *)
DotfileExact == check_dotfile(uri) <=> HasDotfile(uri)

(* A body whose Content-Type is well-formed is scanned exactly when its    *)
(* media type is a textual one, whatever blanks and parameters follow it   *)
(* (ngx_http_shield_content_type_value_scannable).  A malformed value, one *)
(* with junk between the type and the parameters, is judged by its ends:   *)
(* text/ is still scanned; an application type is when the junk ends in    *)
(* +json or +xml ("application/zip +json"), and then only, so that         *)
(* "application/json garbage" is not; nothing else is.                     *)
ScannableExact ==
    content_type_value_scannable(ct) <=>
       IF Stray(ct) = {} THEN IsTextual(MediaType(ct))
       ELSE ct[1] = "text/" \/ (ct[1] = "application/" /\ EndsTextual(ct))

(* The key is the peer; with key=forwarded and a trusted peer it is whom   *)
(* that peer accepted the request from, unless that has no address.  So no *)
(* header a client sends moves the key: it can neither pick who is banned  *)
(* nor make itself a new key for every request.                            *)
KeyIsNearestPeer ==
    stage = "keyed" =>
       addr = IF ban_key = "forwarded" /\ peer \in Trusted /\ seen \in Addrs THEN seen
              ELSE IF peer \in Addrs THEN peer ELSE None

Elements(value) ==
    LET cuts == {0, Len(value) + 1} \cup {i \in DOMAIN value : value[i] = ","}
    IN  [c \in cuts \ {Len(value) + 1} |->
           SubSeq(value, c + 1, (CHOOSE d \in cuts : /\ d > c
                                                     /\ \A e \in cuts : e > c => d <= e) - 1)]

(* The backwards walk finds what a split at the commas has in its last     *)
(* place, trimmed, blank and empty elements included.                      *)
LastTokenExact ==
    \A value \in ToSet(xff) :
       LET all == Elements(value)
           last == all[CHOOSE c \in DOMAIN all : \A d \in DOMAIN all : d <= c]
           words == {i \in DOMAIN last : last[i] \notin Blank}
           token == xff_last_token(value)
       IN  IF words = {} THEN token = <<>>
           ELSE \E i, j \in words : /\ \A k \in words : i <= k /\ k <= j
                                    /\ token = SubSeq(last, i, j)
=============================================================================
