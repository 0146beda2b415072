----------------------------- MODULE ShieldParse -----------------------------
(***************************************************************************)
(* The walks over text that a client chooses in ngx_http_shield_module.c:  *)
(* the dotfile check of the decoded path and the media-type tests that     *)
(* decide whether a body is scanned.  ShieldText lets the texts grow and   *)
(* compares each walk with the definition without an index given here.     *)
(* nginx resolves "." and ".." segments before the check; the walk is      *)
(* written for a path that still has them, and is checked on those too.    *)
(*                                                                         *)
(* A lexeme of a path is "/", "." or another byte, WELL_KNOWN standing for *)
(* ".well-known"; one of a media type is a word that no comparison splits. *)
(***************************************************************************)
EXTENDS Naturals, SequencesExt

CONSTANTS
    PathBytes,   \* lexemes of a path
    TypeWords,   \* lexemes of a Content-Type value
    WELL_KNOWN   \* the exempt segment, its "." first

ASSUME ParseAssumption ==
    /\ WELL_KNOWN \in Seq(PathBytes) \ {<<>>} /\ Head(WELL_KNOWN) = "."
    /\ "/" \notin ToSet(WELL_KNOWN)

----------------------------------------------------------------------------
(* The bytes at position i are the segment w: w, then "/" or the end. *)
IsSegment(u, i, w) ==
    LET rest == Len(u) - i + 1
    IN  /\ rest >= Len(w) /\ SubSeq(u, i, i + Len(w) - 1) = w
        /\ rest = Len(w) \/ u[i + Len(w)] = "/"

(* The walk stops at the exempt segment. *)
MutDotfileStops(u) ==
    LET walk[i \in 1 .. Len(u) + 1] ==
          [start \in BOOLEAN |->
             /\ i <= Len(u)
             /\ CASE u[i] = "/" -> walk[i + 1][TRUE]
                  [] start /\ u[i] = "." ->
                       ~ (IsSegment(u, i, <<".">>) \/ IsSegment(u, i, <<".", ".">>)
                            \/ IsSegment(u, i, WELL_KNOWN))
                  [] OTHER -> walk[i + 1][FALSE]]
    IN  walk[1][TRUE]

(* The loop from position i; start is at_segment_start. *)
check_dotfile(u) ==
    LET walk[i \in 1 .. Len(u) + 1] ==
          [start \in BOOLEAN |->
             IF i > Len(u) THEN FALSE
             ELSE IF u[i] = "/" THEN walk[i + 1][TRUE]
             ELSE IF ~ start \/ u[i] # "." THEN walk[i + 1][FALSE]
             ELSE IF IsSegment(u, i, <<".">>) \/ IsSegment(u, i, <<".", ".">>)
               THEN walk[i + 1][FALSE]
             ELSE IF IsSegment(u, i, WELL_KNOWN) THEN walk[i + Len(WELL_KNOWN)][FALSE]
             ELSE TRUE]
    IN  walk[1][TRUE]

----------------------------------------------------------------------------
Blank == {" ", "tab"}

StartsWith(v, w) == Len(v) >= Len(w) /\ SubSeq(v, 1, Len(w)) = w

(* The first position from i on that is not blank, Len(v) + 1 at the end. *)
SkipBlank(v, i) ==
    CHOOSE k \in i .. Len(v) + 1 : /\ k = Len(v) + 1 \/ v[k] \notin Blank
                                   /\ \A j \in i .. k - 1 : v[j] \in Blank

(* Any byte that is not part of a longer token ends the type. *)
MutContentTypeIs(v, type) ==
    /\ StartsWith(v, type)
    /\ Len(v) = Len(type) \/ v[Len(type) + 1] \in Blank \cup {";"}

content_type_is(v, type) ==
    /\ StartsWith(v, type)
    /\ LET i == SkipBlank(v, Len(type) + 1)
       IN  i = Len(v) + 1 \/ v[i] = ";"

(* The end of what precedes the first ";", without trailing blanks. *)
TypeEnd(v) ==
    LET semi == {i \in DOMAIN v : v[i] = ";"}
        end == IF semi = {} THEN Len(v)
               ELSE (CHOOSE i \in semi : \A j \in semi : i <= j) - 1
    IN  CHOOSE k \in 0 .. end : /\ k = 0 \/ v[k] \notin Blank
                                /\ \A j \in k + 1 .. end : v[j] \in Blank

content_type_suffix(v, suffix) ==
    /\ Len(v) >= 1 + Len(suffix) /\ StartsWith(v, <<"application/">>)
    /\ LET end == TypeEnd(v)
       IN  end >= Len(suffix) /\ SubSeq(v, end - Len(suffix) + 1, end) = suffix

ExactTypes == {<<"application/", t>> : t \in {"x-www-form-urlencoded", "json", "xml",
                 "graphql", "x-ndjson", "json-seq", "yaml", "x-yaml"}}
                \cup {<<"multipart/form-data">>}

content_type_value_scannable(v) ==
    \/ \E type \in ExactTypes : content_type_is(v, type)
    \/ StartsWith(v, <<"text/">>)
    \/ content_type_suffix(v, <<"+json">>) \/ content_type_suffix(v, <<"+xml">>)

----------------------------------------------------------------------------
(* What the walks are to find.                                             *)

Segments(u) ==
    LET cuts == {0, Len(u) + 1} \cup {i \in DOMAIN u : u[i] = "/"}
        Adjacent == {p \in cuts \X cuts : /\ p[1] < p[2]
                                         /\ \A z \in cuts : z <= p[1] \/ p[2] <= z}
    IN  {SubSeq(u, p[1] + 1, p[2] - 1) : p \in Adjacent}

(* Some segment starts with "." and is not ".", ".." or the exempt one. *)
HasDotfile(u) ==
    \E g \in Segments(u) : /\ g # <<>> /\ g[1] = "."
                           /\ g \notin {<<".">>, <<".", ".">>, WELL_KNOWN}

(* How many lexemes precede the first one in S. *)
Before(v, S) ==
    CHOOSE k \in 0 .. Len(v) : /\ k = Len(v) \/ v[k + 1] \in S
                               /\ \A i \in 1 .. k : v[i] \notin S

(* The media type as RFC 9110 reads it: one token, which no blank is part  *)
(* of.  Stray(v) is what else a malformed value has before its parameters. *)
MediaType(v) == SubSeq(v, 1, Before(v, Blank \cup {";"}))

Stray(v) == {i \in Len(MediaType(v)) + 1 .. Before(v, {";"}) : v[i] \notin Blank}

IsTextual(type) ==
    \/ type \in ExactTypes
    \/ type # <<>> /\ type[1] = "text/"
    \/ Len(type) >= 2 /\ type[1] = "application/" /\ Last(type) \in {"+json", "+xml"}

(* Whether the last word before the parameters is a textual suffix. *)
EndsTextual(v) ==
    \E i \in 1 .. Before(v, {";"}) : /\ v[i] \in {"+json", "+xml"}
                                     /\ \A j \in i + 1 .. Before(v, {";"}) : v[j] \in Blank
=============================================================================
