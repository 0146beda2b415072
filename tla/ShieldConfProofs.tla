-------------------------- MODULE ShieldConfProofs --------------------------
(***************************************************************************)
(* Proofs about ShieldConf: whatever directives a file has and in whatever *)
(* order, the merged configuration of a level is that of the nearest level *)
(* with the directive, and a server that runs has sound ban policies.      *)
(***************************************************************************)
EXTENDS ShieldConf, TLAPS

----------------------------------------------------------------------------
(* The merge                                                               *)

LEMMA FieldSets ==
    /\ BanFields \subseteq Fields /\ ScalarFields \subseteq Fields /\ LogFields \subseteq Fields
    /\ ZoneFields \subseteq Fields /\ "skip" \in Fields
    /\ ScalarFields \cap (LogFields \cup BanFields \cup ZoneFields) = {}
    /\ LogFields \cap (BanFields \cup ZoneFields) = {} /\ BanFields \cap ZoneFields = {}
    /\ "skip" \notin ScalarFields \cup LogFields \cup BanFields \cup ZoneFields
  BY DEF Fields, BanFields, ScalarFields, LogFields, ZoneFields

(* What the merge makes of each field. *)
LEMMA MergeFields ==
    ASSUME NEW prev, NEW own
    PROVE  LET m == merge_loc_conf(prev, own)
           IN  /\ \A f \in ScalarFields : m[f] = Inherit(own[f], prev[f], Default[f])
               /\ m["skip"] = IF own["skip"] = {} THEN prev["skip"] ELSE own["skip"]
               /\ \A f \in LogFields : m[f] = MergeLog(prev, own, f)
               /\ \A f \in BanFields : m[f] = MergeBan(prev, own, f)
               /\ \A f \in ZoneFields : m[f] = own[f]
<1> DEFINE m == merge_loc_conf(prev, own)
<1> USE FieldSets DEF merge_loc_conf
<1>1. \A f \in ScalarFields : m[f] = Inherit(own[f], prev[f], Default[f])
  OBVIOUS
<1>2. m["skip"] = IF own["skip"] = {} THEN prev["skip"] ELSE own["skip"]
  OBVIOUS
<1>3. \A f \in LogFields : m[f] = MergeLog(prev, own, f)
  OBVIOUS
<1>4. \A f \in BanFields : m[f] = MergeBan(prev, own, f)
  OBVIOUS
<1>5. \A f \in ZoneFields : m[f] = own[f]
  OBVIOUS
<1> QED BY <1>1, <1>2, <1>3, <1>4, <1>5

(* The levels merge from the top down. *)
LEMMA MergedIs ==
    /\ Merged[1] = raw[1]
    /\ \A l \in 2 .. 4 : Merged[l] = merge_loc_conf(Merged[l - 1], raw[l])
<1> DEFINE Rec(m) == m = [l \in Levels |-> IF l = HTTP THEN raw[HTTP]
                                            ELSE merge_loc_conf(m[l - 1], raw[l])]
           two == merge_loc_conf(raw[1], raw[2])
           three == merge_loc_conf(two, raw[3])
           four == merge_loc_conf(three, raw[4])
           g == [l \in Levels |-> IF l = 1 THEN raw[1] ELSE IF l = 2 THEN two
                                  ELSE IF l = 3 THEN three ELSE four]
<1>1. Levels = {1, 2, 3, 4} /\ HTTP = 1
  BY DEF Levels, HTTP, IF_BLOCK
<1>2. Rec(g)
  <2>1. \A l \in Levels : l # 1 => l - 1 \in Levels
    BY <1>1
  <2> HIDE DEF two, three, four
  <2>2. ASSUME NEW l \in Levels
        PROVE  g[l] = IF l = HTTP THEN raw[HTTP] ELSE merge_loc_conf(g[l - 1], raw[l])
    <3>1. CASE l = 1 BY <1>1, <3>1
    <3>2. CASE l = 2
      <4>1. l - 1 = 1 /\ g[1] = raw[1] /\ g[2] = two
        BY <1>1, <3>2
      <4> QED BY <1>1, <3>2, <4>1 DEF two
    <3>3. CASE l = 3
      <4>1. l - 1 = 2 /\ g[2] = two /\ g[3] = three
        BY <1>1, <3>3
      <4> QED BY <1>1, <3>3, <4>1 DEF three
    <3>4. CASE l = 4
      <4>1. l - 1 = 3 /\ g[3] = three /\ g[4] = four
        BY <1>1, <3>4
      <4> QED BY <1>1, <3>4, <4>1 DEF four
    <3> QED BY <1>1, <3>1, <3>2, <3>3, <3>4
  <2> QED BY <2>2
<1> HIDE DEF g
<1>3. Merged = CHOOSE m : Rec(m)
  BY DEF Merged
<1>4. Rec(Merged)
  BY <1>2, <1>3
<1> QED BY <1>1, <1>4

----------------------------------------------------------------------------
(* The nearest level                                                       *)

(* The value of g at the last of the levels of S up to l. *)
Last(set) == CHOOSE k \in set : \A j \in set : j <= k

Value(S, l, g, d) ==
    LET set == {k \in 1 .. l : k \in S}
    IN  IF set = {} THEN d ELSE g[Last(set)]

LEMMA ValueSteps ==
    ASSUME NEW S, NEW g, NEW d
    PROVE  /\ Value(S, 1, g, d) = IF 1 \in S THEN g[1] ELSE d
           /\ \A l \in 2 .. 4 : Value(S, l, g, d) = IF l \in S THEN g[l] ELSE Value(S, l - 1, g, d)
<1>1. ASSUME NEW l \in 1 .. 4, l \in S PROVE Value(S, l, g, d) = g[l]
  <2> DEFINE set == {k \in 1 .. l : k \in S}
  <2>1. l \in set /\ \A j \in set : j <= l
    BY <1>1
  <2>2. Last(set) = l
    <3>1. \A k \in set : (\A j \in set : j <= k) => k = l
      BY <2>1
    <3> HIDE DEF set
    <3> QED BY <2>1, <3>1 DEF Last
  <2> QED BY <2>1, <2>2 DEF Value
<1>2. ASSUME NEW l \in 2 .. 4, l \notin S PROVE Value(S, l, g, d) = Value(S, l - 1, g, d)
  <2>1. {k \in 1 .. l : k \in S} = {k \in 1 .. l - 1 : k \in S}
    BY <1>2
  <2> QED BY <2>1 DEF Value
<1>3. 1 \notin S => Value(S, 1, g, d) = d
  <2>1. 1 \notin S => {k \in 1 .. 1 : k \in S} = {}
    OBVIOUS
  <2> QED BY <2>1 DEF Value
<1>4. \A l \in 2 .. 4 : l \in 1 .. 4
  OBVIOUS
<1> QED BY <1>1, <1>2, <1>3, <1>4

(* NearestValue, with the levels that mention the directive as a set. *)
LEMMA NearestScalar ==
    ASSUME NEW f \in ScalarFields
    PROVE  \A l \in 2 .. 4 :
              Merged[l][f] = Value({k \in 1 .. 4 : raw[k][f] # UNSET}, l,
                                   [k \in 1 .. 4 |-> raw[k][f]], Default[f])
<1> DEFINE S == {k \in 1 .. 4 : raw[k][f] # UNSET}
           g == [k \in 1 .. 4 |-> raw[k][f]]
           d == Default[f]
           V(l) == Value(S, l, g, d)
<1>1. \A l \in 2 .. 4 : Merged[l][f] = Inherit(raw[l][f], Merged[l - 1][f], d)
  BY MergedIs, MergeFields
<1>2. V(1) = (IF 1 \in S THEN g[1] ELSE d) /\ \A l \in 2 .. 4 : V(l) = IF l \in S THEN g[l] ELSE V(l - 1)
  <2> HIDE DEF S, g, d
  <2> QED BY ValueSteps
<1>3. \A l \in 1 .. 4 : g[l] = raw[l][f] /\ (l \in S <=> raw[l][f] # UNSET)
  OBVIOUS
<1>4. Merged[1][f] = raw[1][f]
  BY MergedIs
<1> HIDE DEF S, g, d, V
<1>5. Merged[2][f] = V(2)
  BY <1>1, <1>2, <1>3, <1>4 DEF Inherit
<1>6. Merged[3][f] = V(3)
  BY <1>1, <1>2, <1>3, <1>5 DEF Inherit
<1>7. Merged[4][f] = V(4)
  BY <1>1, <1>2, <1>3, <1>6 DEF Inherit
<1> QED BY <1>5, <1>6, <1>7 DEF V, S, g, d

LEMMA NearestSkip ==
    \A l \in 2 .. 4 :
       Merged[l]["skip"] = Value({k \in 1 .. 4 : raw[k]["skip"] # {}}, l,
                                 [k \in 1 .. 4 |-> raw[k]["skip"]], {})
<1> DEFINE S == {k \in 1 .. 4 : raw[k]["skip"] # {}}
           g == [k \in 1 .. 4 |-> raw[k]["skip"]]
           V(l) == Value(S, l, g, {})
<1>1. \A l \in 2 .. 4 : Merged[l]["skip"] = IF raw[l]["skip"] = {} THEN Merged[l - 1]["skip"]
                                            ELSE raw[l]["skip"]
  BY MergedIs, MergeFields
<1>2. V(1) = (IF 1 \in S THEN g[1] ELSE {}) /\ \A l \in 2 .. 4 : V(l) = IF l \in S THEN g[l] ELSE V(l - 1)
  <2> HIDE DEF S, g
  <2> QED BY ValueSteps
<1>3. \A l \in 1 .. 4 : g[l] = raw[l]["skip"] /\ (l \in S <=> raw[l]["skip"] # {})
  OBVIOUS
<1>4. Merged[1]["skip"] = raw[1]["skip"]
  BY MergedIs
<1> HIDE DEF S, g, V
<1>5. Merged[2]["skip"] = V(2)
  BY <1>1, <1>2, <1>3, <1>4
<1>6. Merged[3]["skip"] = V(3)
  BY <1>1, <1>2, <1>3, <1>5
<1>7. Merged[4]["skip"] = V(4)
  BY <1>1, <1>2, <1>3, <1>6
<1> QED BY <1>5, <1>6, <1>7 DEF V, S, g

LEMMA NearestBan ==
    ASSUME NEW f \in BanFields
    PROVE  \A l \in 2 .. 4 :
              Merged[l][f] = Value({k \in 1 .. 4 : raw[k]["ban_zone"] # UNSET}, l,
                                   [k \in 1 .. 4 |-> raw[k][f]], NoBan[f])
<1> DEFINE S == {k \in 1 .. 4 : raw[k]["ban_zone"] # UNSET}
           g == [k \in 1 .. 4 |-> raw[k][f]]
           d == NoBan[f]
           V(l) == Value(S, l, g, d)
           z(l) == Merged[l]["ban_zone"]
<1>0. "ban_zone" \in BanFields /\ NoBan["ban_zone"] # UNSET
  BY ConfAssumption DEF BanFields, NoBan
<1>1. \A l \in 2 .. 4 : /\ Merged[l][f] = MergeBan(Merged[l - 1], raw[l], f)
                        /\ z(l) = MergeBan(Merged[l - 1], raw[l], "ban_zone")
  BY <1>0, MergedIs, MergeFields
<1>2. V(1) = (IF 1 \in S THEN g[1] ELSE d) /\ \A l \in 2 .. 4 : V(l) = IF l \in S THEN g[l] ELSE V(l - 1)
  <2> HIDE DEF S, g, d
  <2> QED BY ValueSteps
<1>3. \A l \in 1 .. 4 : g[l] = raw[l][f] /\ (l \in S <=> raw[l]["ban_zone"] # UNSET)
  OBVIOUS
<1>4. Merged[1] = raw[1]
  BY MergedIs
<1>5. \A l \in 2 .. 4 : z(l) # UNSET
  BY <1>0, <1>1 DEF MergeBan
<1>6. \A l \in 2 .. 4 : Merged[l][f] = IF l \in S THEN g[l] ELSE IF z(l - 1) = UNSET THEN d ELSE Merged[l - 1][f]
  BY <1>1, <1>3 DEF MergeBan
<1>7. z(1) = UNSET <=> 1 \notin S
  BY <1>3, <1>4
<1>8. Merged[1][f] = g[1]
  BY <1>3, <1>4
<1> HIDE DEF S, g, d, V, z
<1>9. Merged[2][f] = V(2)
  BY <1>2, <1>6, <1>7, <1>8
<1>10. Merged[3][f] = V(3)
  BY <1>2, <1>5, <1>6, <1>9
<1>11. Merged[4][f] = V(4)
  BY <1>2, <1>5, <1>6, <1>10
<1> QED BY <1>9, <1>10, <1>11 DEF V, S, g, d

(* Both sinks of a level are given by one directive, or by none. *)
SinksTogether ==
    \A l \in 1 .. 4 : /\ raw[l]["log"] = UNSET <=> raw[l]["syslog_peer"] = UNSET

LEMMA NearestLog ==
    ASSUME NEW f \in LogFields, SinksTogether
    PROVE  \A l \in 2 .. 4 :
              Merged[l][f] = Value({k \in 1 .. 4 : raw[k]["log"] # UNSET}, l,
                                   [k \in 1 .. 4 |-> raw[k][f]], NULL)
<1> DEFINE S == {k \in 1 .. 4 : raw[k]["log"] # UNSET}
           g == [k \in 1 .. 4 |-> raw[k][f]]
           V(l) == Value(S, l, g, NULL)
<1>1. \A l \in 2 .. 4 : Merged[l][f] = MergeLog(Merged[l - 1], raw[l], f)
  BY MergedIs, MergeFields
<1>2. V(1) = (IF 1 \in S THEN g[1] ELSE NULL) /\ \A l \in 2 .. 4 : V(l) = IF l \in S THEN g[l] ELSE V(l - 1)
  <2> HIDE DEF S, g
  <2> QED BY ValueSteps
<1>3. \A l \in 1 .. 4 : /\ g[l] = raw[l][f] /\ (l \in S <=> raw[l]["log"] # UNSET)
                        /\ l \in S <=> g[l] # UNSET
  BY DEF SinksTogether, LogFields
<1>4. Merged[1][f] = g[1]
  BY <1>3, MergedIs
<1>5. \A l \in 2 .. 4 : Merged[l][f] = IF l \in S THEN g[l]
                                       ELSE IF Merged[l - 1][f] # UNSET THEN Merged[l - 1][f] ELSE NULL
  BY <1>1, <1>3 DEF MergeLog, Inherit
<1>6. UNSET # NULL
  BY ConfAssumption
<1> HIDE DEF S, g, V
<1>7. Merged[2][f] = V(2) /\ V(2) # UNSET
  BY <1>2, <1>3, <1>4, <1>5, <1>6
<1>8. Merged[3][f] = V(3) /\ V(3) # UNSET
  BY <1>2, <1>3, <1>5, <1>6, <1>7
<1>9. Merged[4][f] = V(4)
  BY <1>2, <1>3, <1>5, <1>6, <1>8
<1> QED BY <1>7, <1>8, <1>9 DEF V, S, g

----------------------------------------------------------------------------
(* The inductive invariant                                                 *)

Positive == Nat \ {0}

BanLine == [level : 1 .. 3, zone : Names \cup {UNSET}, count : Positive \cup {UNSET},
            window : Positive \cup {UNSET}, bantime : Positive \cup {UNSET},
            key : {"peer", "forwarded"}, trusted : {NULL} \cup SUBSET Cidrs]

(* A level has no ban policy of its own, or a whole and sound one. *)
PolicyOf(l) ==
    raw[l]["ban_zone"] # UNSET =>
       /\ raw[l]["ban_zone"] \in DOMAIN zones
       /\ \A f \in {"ban_count", "ban_window", "ban_time"} : raw[l][f] \in Positive
       /\ raw[l]["ban_key"] = "forwarded" <=> raw[l]["ban_trusted"] # NULL

SkipOf(l) == raw[l]["skip"] \subseteq Cats

(* A zone is either large enough or not defined. *)
ZonesOK ==
    \A n \in DOMAIN zones :
       /\ zones[n].size \in Int
       /\ zones[n].defined => zones[n].size >= MinSize
       /\ ~ zones[n].defined => zones[n].size = 0

(* A zone that an endpoint names is known. *)
EndpointsOK ==
    \A k \in 1 .. 4, z \in ZoneFields : raw[k][z] # NULL => raw[k][z] \in DOMAIN zones

LineOK ==
    line # NULL => /\ state = "parse" /\ line \in BanLine
                   /\ raw[line.level]["ban_zone"] = UNSET

RunningOK ==
    state = "running" => conf = Merged /\ \A n \in DOMAIN zones : zones[n].size > 0

CInv ==
    /\ DOMAIN raw = Levels
    /\ \A l \in 1 .. 4 : PolicyOf(l) /\ SkipOf(l)
    /\ SinksTogether /\ ZonesOK /\ EndpointsOK /\ LineOK /\ RunningOK

LEMMA LevelsAre == Levels = 1 .. 4 /\ HTTP = 1 /\ LOCATION = 3
  BY DEF Levels, HTTP, IF_BLOCK, LOCATION

LEMMA CInit == Init => CInv
<1> SUFFICES ASSUME Init PROVE CInv
  OBVIOUS
<1>1. /\ create_loc_conf["ban_zone"] = UNSET /\ create_loc_conf["skip"] = {}
      /\ create_loc_conf["log"] = UNSET /\ create_loc_conf["syslog_peer"] = UNSET
      /\ \A z \in ZoneFields : create_loc_conf[z] = NULL
  BY DEF create_loc_conf, Fields, ScalarFields, LogFields, BanFields, ZoneFields
<1>2. \A l \in 1 .. 4 : raw[l] = create_loc_conf
  BY LevelsAre DEF Init
<1>3. DOMAIN raw = Levels /\ DOMAIN zones = {} /\ handler = NULL /\ line = NULL /\ state = "parse"
  BY DEF Init
<1> QED BY <1>1, <1>2, <1>3
       DEF CInv, PolicyOf, SkipOf, SinksTogether, ZonesOK, EndpointsOK, LineOK, RunningOK

(* A directive changes the named fields of its level and nothing else. *)
LEMMA SetIs ==
    ASSUME DOMAIN raw = Levels, NEW l \in Levels, NEW changes, Set(l, changes)
    PROVE  /\ DOMAIN raw' = Levels /\ state' = state
           /\ \A k \in Levels \ {l} : raw'[k] = raw[k]
           /\ \A f \in Fields : raw'[l][f] = IF f \in DOMAIN changes THEN changes[f] ELSE raw[l][f]
  BY DEF Set

(* The configuration is refused. *)
LEMMA RefuseKeeps ==
    ASSUME CInv, Refuse PROVE CInv'
<1>1. raw' = raw /\ zones' = zones /\ handler' = handler /\ line' = NULL /\ state' = "refused"
  BY DEF Refuse
<1>2. \A l \in 1 .. 4 : PolicyOf(l)' /\ SkipOf(l)'
  BY <1>1 DEF CInv, PolicyOf, SkipOf
<1>3. SinksTogether' /\ ZonesOK' /\ EndpointsOK'
  BY <1>1 DEF CInv, SinksTogether, ZonesOK, EndpointsOK
<1>4. LineOK' /\ RunningOK'
  BY <1>1 DEF LineOK, RunningOK
<1> QED BY <1>1, <1>2, <1>3, <1>4 DEF CInv

(* A zone is named, if it was not. *)
LEMMA AttachedIs ==
    ASSUME NEW n
    PROVE  /\ DOMAIN Attached(n) = DOMAIN zones \cup {n}
           /\ \A x \in DOMAIN zones : Attached(n)[x] = zones[x]
           /\ n \notin DOMAIN zones => Attached(n)[n] = [size |-> 0, defined |-> FALSE]
  BY DEF Attached

LEMMA AttachKeeps ==
    ASSUME ZonesOK, NEW n, zones' = Attached(n)
    PROVE  ZonesOK' /\ DOMAIN zones' = DOMAIN zones \cup {n}
<1>1. ASSUME NEW x \in DOMAIN zones'
      PROVE  /\ zones'[x].size \in Int
             /\ zones'[x].defined => zones'[x].size >= MinSize
             /\ ~ zones'[x].defined => zones'[x].size = 0
  <2>1. CASE x \in DOMAIN zones
    BY <2>1, AttachedIs DEF ZonesOK
  <2>2. CASE x \notin DOMAIN zones
    <3>1. x = n
      BY <1>1, <2>2, AttachedIs
    <3>2. Attached(n)[n] = [size |-> 0, defined |-> FALSE]
      BY <2>2, <3>1, AttachedIs
    <3> QED BY <3>1, <3>2
  <2> QED BY <2>1, <2>2
<1> QED BY <1>1, AttachedIs DEF ZonesOK

(* A directive that sets fields of a level other than its ban policy. *)
LEMMA SetKeeps ==
    ASSUME CInv, state = "parse", line = NULL, UNCHANGED line, NEW l \in Levels, NEW changes,
           Set(l, changes), DOMAIN changes \cap BanFields = {},
           "skip" \in DOMAIN changes => changes["skip"] \subseteq Cats,
           \/ DOMAIN changes \cap LogFields = {}
           \/ /\ LogFields \subseteq DOMAIN changes
              /\ UNSET \notin {changes["log"], changes["syslog_peer"]},
           ZonesOK', DOMAIN zones \subseteq DOMAIN zones', EndpointsOK'
    PROVE  CInv'
<1>1. /\ DOMAIN raw' = Levels /\ state' = state
      /\ \A k \in Levels \ {l} : raw'[k] = raw[k]
      /\ \A f \in Fields : raw'[l][f] = IF f \in DOMAIN changes THEN changes[f] ELSE raw[l][f]
  BY SetIs DEF CInv
<1>2. \A f \in BanFields : raw'[l][f] = raw[l][f]
  BY <1>1, FieldSets
<1>3. \A k \in 1 .. 4 : PolicyOf(k)'
  <2> SUFFICES ASSUME NEW k \in 1 .. 4 PROVE PolicyOf(k)'
    OBVIOUS
  <2>1. \A f \in BanFields : raw'[k][f] = raw[k][f]
    BY <1>1, <1>2, LevelsAre
  <2>2. {"ban_zone", "ban_count", "ban_window", "ban_time", "ban_key", "ban_trusted"} \subseteq BanFields
    BY DEF BanFields
  <2> QED BY <2>1, <2>2 DEF CInv, PolicyOf
<1>4. \A k \in 1 .. 4 : SkipOf(k)'
  BY <1>1, LevelsAre, FieldSets DEF CInv, SkipOf
<1>5. SinksTogether'
  <2>1. {"log", "syslog_peer"} = LogFields /\ {"log", "syslog_peer"} \subseteq Fields
    BY DEF LogFields, Fields
  <2> QED BY <1>1, <2>1, LevelsAre DEF CInv, SinksTogether
<1>6. LineOK' /\ RunningOK'
  BY <1>1 DEF LineOK, RunningOK
<1> QED BY <1>1, <1>3, <1>4, <1>5, <1>6 DEF CInv

LEMMA ScalarKeeps ==
    ASSUME CInv, NEW l \in 1 .. 3, NEW f \in ScalarFields, NEW v, Scalar(l, f, v)
    PROVE  CInv'
<1> DEFINE changes == [x \in {f} |-> v]
<1>1. CASE Set(l, changes) /\ UNCHANGED <<zones, handler, line>>
  <2>1. state = "parse" /\ line = NULL
    BY DEF Scalar, Reads
  <2>2. DOMAIN changes = {f} /\ l \in Levels /\ l \in 1 .. 4
    BY LevelsAre
  <2>3. ZonesOK' /\ zones' = zones /\ line' = line
    BY <1>1 DEF CInv, ZonesOK
  <2> HIDE DEF changes
  <2>4. EndpointsOK'
    <3>1. \A k \in 1 .. 4, z \in ZoneFields : raw'[k][z] = raw[k][z]
      BY <1>1, <2>2, SetIs, FieldSets, LevelsAre DEF CInv
    <3> QED BY <1>1, <3>1 DEF CInv, EndpointsOK
  <2> QED BY <1>1, <2>1, <2>2, <2>3, <2>4, SetKeeps, FieldSets
<1>2. CASE Refuse
  BY <1>2, RefuseKeeps
<1> QED BY <1>1, <1>2 DEF Scalar

LEMMA SkipKeeps ==
    ASSUME CInv, NEW l \in 1 .. 3, NEW tokens, skip(l, tokens)
    PROVE  CInv'
<1> DEFINE changes == [x \in {"skip"} |-> raw[l]["skip"] \cup tokens]
<1>1. CASE Set(l, changes) /\ UNCHANGED <<zones, handler, line>> /\ \A t \in tokens : Named(t)
  <2>1. state = "parse" /\ line = NULL
    BY DEF skip, Reads
  <2>2. DOMAIN changes = {"skip"} /\ l \in Levels /\ l \in 1 .. 4
    BY LevelsAre
  <2>3. ZonesOK' /\ zones' = zones /\ line' = line
    BY <1>1 DEF CInv, ZonesOK
  <2>4. changes["skip"] \subseteq Cats
    BY <1>1, <2>2 DEF CInv, SkipOf, Named
  <2> HIDE DEF changes
  <2>5. EndpointsOK'
    <3>1. \A k \in 1 .. 4, z \in ZoneFields : raw'[k][z] = raw[k][z]
      BY <1>1, <2>2, SetIs, FieldSets, LevelsAre DEF CInv
    <3> QED BY <1>1, <3>1 DEF CInv, EndpointsOK
  <2> QED BY <1>1, <2>1, <2>2, <2>3, <2>4, <2>5, SetKeeps, FieldSets
<1>2. CASE Refuse
  BY <1>2, RefuseKeeps
<1> QED BY <1>1, <1>2 DEF skip

LEMMA SinksAre ==
    /\ DOMAIN Sinks = {"off", "file", "syslog"}
    /\ \A s \in DOMAIN Sinks : /\ DOMAIN Sinks[s] = LogFields
                               /\ UNSET \notin {Sinks[s]["log"], Sinks[s]["syslog_peer"]}
<1>1. DOMAIN Sinks = {"off", "file", "syslog"}
  BY DEF Sinks
<1>2. /\ Sinks["off"] = [log |-> NULL, syslog_peer |-> NULL]
      /\ Sinks["file"] = [log |-> "file", syslog_peer |-> NULL]
      /\ Sinks["syslog"] = [log |-> NULL, syslog_peer |-> "syslog"]
  BY DEF Sinks
<1> QED BY <1>1, <1>2, ConfAssumption DEF LogFields

LEMMA LogKeeps ==
    ASSUME CInv, NEW l \in 1 .. 3, NEW sink, log(l, sink)
    PROVE  CInv'
<1> DEFINE changes == Sinks[sink]
<1>1. CASE Set(l, changes) /\ UNCHANGED <<zones, handler, line>> /\ sink \in DOMAIN Sinks
  <2>1. state = "parse" /\ line = NULL
    BY DEF log, Reads
  <2>2. DOMAIN changes = LogFields /\ l \in Levels /\ l \in 1 .. 4
        /\ UNSET \notin {changes["log"], changes["syslog_peer"]}
    BY <1>1, LevelsAre, SinksAre
  <2>3. ZonesOK' /\ zones' = zones /\ line' = line
    BY <1>1 DEF CInv, ZonesOK
  <2> HIDE DEF changes
  <2>4. EndpointsOK'
    <3>1. \A k \in 1 .. 4, z \in ZoneFields : raw'[k][z] = raw[k][z]
      BY <1>1, <2>2, SetIs, FieldSets, LevelsAre DEF CInv
    <3> QED BY <1>1, <3>1 DEF CInv, EndpointsOK
  <2> QED BY <1>1, <2>1, <2>2, <2>3, <2>4, SetKeeps, FieldSets
<1>2. CASE Refuse
  BY <1>2, RefuseKeeps
<1> QED BY <1>1, <1>2 DEF log

LEMMA EndpointKeeps ==
    ASSUME CInv, NEW f \in ZoneFields, NEW n \in Names, Endpoint(f, n)
    PROVE  CInv'
<1> DEFINE changes == [x \in {f} |-> n]
<1>1. CASE Set(LOCATION, changes) /\ zones' = Attached(n) /\ handler' = f /\ UNCHANGED line
  <2>1. state = "parse" /\ line = NULL
    BY DEF Endpoint, Reads
  <2>2. DOMAIN changes = {f} /\ changes[f] = n /\ LOCATION \in Levels
    BY LevelsAre
  <2>3. ZonesOK' /\ DOMAIN zones' = DOMAIN zones \cup {n}
    BY <1>1, AttachKeeps DEF CInv
  <2> HIDE DEF changes
  <2>4. EndpointsOK'
    <3>1. raw'[LOCATION][f] = n
      BY <1>1, <2>2, SetIs, FieldSets DEF CInv
    <3>2. \A k \in 1 .. 4, z \in ZoneFields :
             raw'[k][z] = raw[k][z] \/ (k = LOCATION /\ z = f)
      BY <1>1, <2>2, SetIs, FieldSets, LevelsAre DEF CInv
    <3> QED BY <2>3, <3>1, <3>2 DEF CInv, EndpointsOK
  <2> QED BY <1>1, <2>1, <2>2, <2>3, <2>4, SetKeeps, FieldSets
<1>2. CASE Refuse
  BY <1>2, RefuseKeeps
<1> QED BY <1>1, <1>2 DEF Endpoint

(* A step that changes the zones, and no configuration. *)
LEMMA ban_zoneKeeps ==
    ASSUME CInv, NEW n \in Names, NEW size \in Int, ban_zone(n, size)
    PROVE  CInv'
<1>1. CASE /\ size >= MinSize /\ zones' = [Attached(n) EXCEPT ![n] = [size |-> size, defined |-> TRUE]]
           /\ UNCHANGED <<raw, handler, line, state>>
  <2>1. DOMAIN zones' = DOMAIN zones \cup {n}
    BY <1>1, AttachedIs
  <2>2. zones'[n] = [size |-> size, defined |-> TRUE]
    BY <1>1, AttachedIs
  <2>3. \A x \in DOMAIN zones \ {n} : zones'[x] = zones[x]
    BY <1>1, AttachedIs
  <2>4. ZonesOK'
    BY <1>1, <2>1, <2>2, <2>3 DEF CInv, ZonesOK
  <2>5. \A l \in 1 .. 4 : PolicyOf(l)' /\ SkipOf(l)'
    BY <1>1, <2>1 DEF CInv, PolicyOf, SkipOf
  <2>6. SinksTogether' /\ EndpointsOK' /\ LineOK'
    BY <1>1, <2>1 DEF CInv, SinksTogether, EndpointsOK, LineOK
  <2>7. RunningOK'
    BY <1>1 DEF ban_zone, Reads, RunningOK
  <2> QED BY <1>1, <2>4, <2>5, <2>6, <2>7 DEF CInv
<1>2. CASE Refuse
  BY <1>2, RefuseKeeps
<1> QED BY <1>1, <1>2 DEF ban_zone

(* Reading a shield_ban line touches nothing but the line. *)
LEMMA LineKeeps ==
    ASSUME CInv, UNCHANGED <<raw, zones, handler, state>>, state = "parse",
           line' \in BanLine, raw[line'.level]["ban_zone"] = UNSET
    PROVE  CInv'
<1>1. \A l \in 1 .. 4 : PolicyOf(l)' /\ SkipOf(l)'
  BY DEF CInv, PolicyOf, SkipOf
<1>2. SinksTogether' /\ ZonesOK' /\ EndpointsOK' /\ LineOK' /\ RunningOK'
  BY DEF CInv, SinksTogether, ZonesOK, EndpointsOK, LineOK, RunningOK
<1> QED BY <1>1, <1>2 DEF CInv

LEMMA BanKeeps ==
    ASSUME CInv, NEW l \in 1 .. 3, Ban(l)
    PROVE  CInv'
<1>1. CASE /\ raw[l]["ban_zone"] = UNSET
           /\ line' = [level |-> l, zone |-> UNSET, count |-> UNSET, window |-> UNSET,
                       bantime |-> UNSET, key |-> "peer", trusted |-> NULL]
           /\ UNCHANGED <<raw, zones, handler, state>>
  <2>1. line' \in BanLine /\ line'.level = l
    BY <1>1 DEF BanLine
  <2>2. state = "parse"
    BY DEF Ban, Reads
  <2> QED BY <1>1, <2>1, <2>2, LineKeeps
<1>2. CASE Refuse
  BY <1>2, RefuseKeeps
<1> QED BY <1>1, <1>2 DEF Ban

LEMMA BanArgKeeps ==
    ASSUME CInv, BanArg
    PROVE  CInv'
<1>1. /\ state = "parse" /\ line \in BanLine /\ raw[line.level]["ban_zone"] = UNSET
  BY DEF BanArg, CInv, LineOK
<1>2. ASSUME NEW p \in {"zone", "count", "window", "bantime", "key", "trusted"}, NEW v, Takes(p, v),
             [line EXCEPT ![p] = v] \in BanLine, [line EXCEPT ![p] = v].level = line.level
      PROVE  CInv'
  BY <1>1, <1>2, LineKeeps DEF Takes
<1>3. ASSUME NEW n \in Names, Takes("zone", n) PROVE CInv'
  <2>1. /\ [line EXCEPT !["zone"] = n] \in BanLine
        /\ [line EXCEPT !["zone"] = n].level = line.level
    BY <1>1 DEF BanLine
  <2> QED BY <1>2, <1>3, <2>1
<1>4. ASSUME NEW p \in {"count", "window", "bantime"}, NEW v \in BanNumbers, v > 0, Takes(p, v)
      PROVE  CInv'
  <2>1. v \in Positive
    BY <1>4, ConfAssumption DEF Positive
  <2>2. /\ [line EXCEPT !["count"] = v] \in BanLine
        /\ [line EXCEPT !["count"] = v].level = line.level
    BY <1>1, <2>1 DEF BanLine
  <2>3. /\ [line EXCEPT !["window"] = v] \in BanLine
        /\ [line EXCEPT !["window"] = v].level = line.level
    BY <1>1, <2>1 DEF BanLine
  <2>4. /\ [line EXCEPT !["bantime"] = v] \in BanLine
        /\ [line EXCEPT !["bantime"] = v].level = line.level
    BY <1>1, <2>1 DEF BanLine
  <2> QED BY <1>2, <1>4, <2>2, <2>3, <2>4
<1>5. ASSUME NEW k \in {"peer", "forwarded"}, Takes("key", k) PROVE CInv'
  <2>1. /\ [line EXCEPT !["key"] = k] \in BanLine
        /\ [line EXCEPT !["key"] = k].level = line.level
    BY <1>1 DEF BanLine
  <2> QED BY <1>2, <1>5, <2>1
<1>6. ASSUME NEW c \in Cidrs,
             Takes("trusted", {c} \cup IF line.trusted = NULL THEN {} ELSE line.trusted)
      PROVE  CInv'
  <2> DEFINE t == {c} \cup IF line.trusted = NULL THEN {} ELSE line.trusted
  <2>1. t \in SUBSET Cidrs
    BY <1>1 DEF BanLine
  <2> HIDE DEF t
  <2>2. /\ [line EXCEPT !["trusted"] = t] \in BanLine
        /\ [line EXCEPT !["trusted"] = t].level = line.level
    BY <1>1, <2>1 DEF BanLine
  <2> QED BY <1>2, <1>6, <2>2 DEF t
<1>7. CASE Refuse
  BY <1>7, RefuseKeeps
<1> QED BY <1>3, <1>4, <1>5, <1>6, <1>7 DEF BanArg

(* The whole policy of the line becomes its level's. *)
LEMMA BanEndKeeps ==
    ASSUME CInv, BanEnd
    PROVE  CInv'
<1> DEFINE changes == [ban_zone |-> line.zone, ban_count |-> line.count,
                       ban_window |-> line.window, ban_time |-> line.bantime,
                       ban_key |-> line.key, ban_trusted |-> line.trusted]
           l == line.level
<1>1. /\ state = "parse" /\ line \in BanLine /\ raw[l]["ban_zone"] = UNSET
  BY DEF BanEnd, CInv, LineOK
<1>2. CASE BanComplete(line)
  <2>1. Set(l, changes) /\ zones' = Attached(line.zone) /\ line' = NULL /\ UNCHANGED handler
    BY <1>2 DEF BanEnd
  <2>2. DOMAIN changes = BanFields /\ l \in Levels /\ l \in 1 .. 4
    BY <1>1, LevelsAre DEF BanLine, BanFields
  <2>3. /\ changes["ban_zone"] = line.zone
        /\ \A f \in {"ban_count", "ban_window", "ban_time"} : changes[f] \in Positive
        /\ changes["ban_key"] = "forwarded" <=> changes["ban_trusted"] # NULL
    BY <1>1, <1>2 DEF BanComplete, BanLine
  <2>4. ZonesOK' /\ DOMAIN zones' = DOMAIN zones \cup {line.zone}
    <3> DEFINE n == line.zone
    <3>1. \A x \in DOMAIN zones : Attached(n)[x] = zones[x]
      BY AttachedIs DEF Attached
    <3>2. DOMAIN Attached(n) = DOMAIN zones \cup {n}
      BY DEF Attached
    <3>3. n \notin DOMAIN zones => Attached(n)[n] = [size |-> 0, defined |-> FALSE]
      BY DEF Attached
    <3> HIDE DEF n
    <3>4. n \notin DOMAIN zones => Attached(n)[n].size = 0 /\ ~ Attached(n)[n].defined
      BY <3>3
    <3> QED BY <2>1, <3>1, <3>2, <3>4 DEF n, CInv, ZonesOK
  <2> HIDE DEF changes
  <2>5. /\ DOMAIN raw' = Levels /\ state' = state
        /\ \A k \in Levels \ {l} : raw'[k] = raw[k]
        /\ \A f \in Fields : raw'[l][f] = IF f \in BanFields THEN changes[f] ELSE raw[l][f]
    <3> HIDE DEF l
    <3> QED BY <2>1, <2>2 DEF CInv, Set
  <2>6. \A k \in 1 .. 4 : PolicyOf(k)'
    <3> SUFFICES ASSUME NEW k \in 1 .. 4 PROVE PolicyOf(k)'
      OBVIOUS
    <3>1. CASE k = l
      <4>1. \A f \in BanFields : raw'[k][f] = changes[f]
        BY <2>5, <3>1, FieldSets
      <4>2. {"ban_zone", "ban_count", "ban_window", "ban_time", "ban_key", "ban_trusted"} \subseteq BanFields
        BY DEF BanFields
      <4> QED BY <2>3, <2>4, <4>1, <4>2 DEF PolicyOf
    <3>2. CASE k # l
      <4>1. raw'[k] = raw[k]
        BY <2>5, <3>2, LevelsAre
      <4> QED BY <2>4, <4>1 DEF CInv, PolicyOf
    <3> QED BY <3>1, <3>2
  <2>7. \A k \in 1 .. 4 : SkipOf(k)'
    BY <2>5, LevelsAre, FieldSets DEF CInv, SkipOf
  <2>8. SinksTogether'
    <3>1. \A k \in 1 .. 4 : \A f \in LogFields : raw'[k][f] = raw[k][f]
      BY <2>5, LevelsAre, FieldSets
    <3>2. "log" \in LogFields /\ "syslog_peer" \in LogFields
      BY DEF LogFields
    <3> QED BY <3>1, <3>2 DEF CInv, SinksTogether
  <2>9. EndpointsOK'
    <3>1. \A k \in 1 .. 4, z \in ZoneFields : raw'[k][z] = raw[k][z]
      BY <2>5, LevelsAre, FieldSets
    <3> QED BY <2>1, <2>4, <3>1 DEF CInv, EndpointsOK
  <2>10. LineOK' /\ RunningOK'
    BY <1>1, <2>1, <2>5 DEF LineOK, RunningOK
  <2> QED BY <2>4, <2>5, <2>6, <2>7, <2>8, <2>9, <2>10 DEF CInv
<1>3. CASE ~ BanComplete(line)
  <2>1. Refuse
    BY <1>3 DEF BanEnd
  <2> QED BY <2>1, RefuseKeeps
<1> QED BY <1>2, <1>3

LEMMA StartKeeps ==
    ASSUME CInv, Start
    PROVE  CInv'
<1>1. /\ raw' = raw /\ zones' = zones /\ handler' = handler /\ line' = line /\ line = NULL
      /\ conf' = Merged
      /\ state' = "running" => \A n \in DOMAIN zones : zones[n].size > 0
  BY DEF Start
<1>2. \A l \in 1 .. 4 : PolicyOf(l)' /\ SkipOf(l)'
  BY <1>1 DEF CInv, PolicyOf, SkipOf
<1>3. SinksTogether' /\ ZonesOK' /\ EndpointsOK' /\ LineOK'
  BY <1>1 DEF CInv, SinksTogether, ZonesOK, EndpointsOK, LineOK
<1>4. Merged' = Merged
  BY <1>1 DEF Merged
<1>5. RunningOK'
  BY <1>1, <1>4 DEF RunningOK
<1> QED BY <1>1, <1>2, <1>3, <1>5 DEF CInv

LEMMA CNext == CInv /\ [Next]_vars => CInv'
<1> SUFFICES ASSUME CInv, [Next]_vars PROVE CInv'
  OBVIOUS
<1>1. ASSUME NEW l \in 1 .. 3,
             \/ \E f \in ScalarFields : \E v \in Scalars[f] : Scalar(l, f, v)
             \/ \E t \in SkipArgs : skip(l, t)
             \/ \E s \in {"off", "file", "syslog", "pipe"} : log(l, s)
             \/ Ban(l)
      PROVE  CInv'
  BY <1>1, ScalarKeeps, SkipKeeps, LogKeeps, BanKeeps
<1>2. ASSUME NEW n \in Names, NEW s \in Sizes, ban_zone(n, s) PROVE CInv'
  BY <1>2, ban_zoneKeeps, ConfAssumption
<1>3. ASSUME NEW f \in ZoneFields, NEW n \in Names, Endpoint(f, n) PROVE CInv'
  BY <1>3, EndpointKeeps
<1>4. CASE UNCHANGED vars
  <2>1. \A l \in 1 .. 4 : PolicyOf(l)' /\ SkipOf(l)'
    BY <1>4 DEF vars, CInv, PolicyOf, SkipOf
  <2>2. SinksTogether' /\ ZonesOK' /\ EndpointsOK' /\ LineOK'
    BY <1>4 DEF vars, CInv, SinksTogether, ZonesOK, EndpointsOK, LineOK
  <2>3. RunningOK'
    BY <1>4 DEF vars, CInv, RunningOK, Merged
  <2> QED BY <1>4, <2>1, <2>2, <2>3 DEF vars, CInv
<1> QED BY <1>1, <1>2, <1>3, <1>4, BanArgKeeps, BanEndKeeps, StartKeeps, LevelsAre DEF Next

LEMMA CAlways == Spec => []CInv
  BY CInit, CNext, PTL DEF Spec

----------------------------------------------------------------------------
(* The properties                                                          *)

LEMMA ServingIs ==
    ASSUME CInv, NEW l \in Serving PROVE l \in 2 .. 4 /\ conf = Merged
  BY LevelsAre DEF CInv, RunningOK, Serving

(* The value at a level, by the levels up to it that mention the directive. *)
LEMMA Upto ==
    ASSUME NEW l \in 2 .. 4, NEW S, NEW set, set = {k \in 1 .. l : k \in S}
    PROVE  /\ set # {} => Last(set) \in 1 .. 4
           /\ \A g, d : Value(S, l, g, d) = IF set = {} THEN d ELSE g[Last(set)]
<1>1. set # {} => Last(set) \in set
  <2>1. ASSUME set # {} PROVE \E k \in set : \A j \in set : j <= k
    <3>1. set \subseteq {1, 2, 3, 4}
      OBVIOUS
    <3>2. CASE 4 \in set BY <3>1, <3>2
    <3>3. CASE 4 \notin set /\ 3 \in set BY <3>1, <3>3
    <3>4. CASE 4 \notin set /\ 3 \notin set /\ 2 \in set BY <3>1, <3>4
    <3>5. CASE 4 \notin set /\ 3 \notin set /\ 2 \notin set /\ 1 \in set BY <3>1, <3>5
    <3> QED BY <2>1, <3>1, <3>2, <3>3, <3>4, <3>5
  <2> QED BY <2>1 DEF Last
<1>2. set # {} => Last(set) \in 1 .. 4
  BY <1>1
<1> QED BY <1>2 DEF Value

(* A location's ban policy is that of one shield_ban, all of it: the one   *)
(* of the nearest level that has one (ngx_http_shield_merge_loc_conf).     *)
THEOREM OnePolicy == Spec => []PolicyIsOneDirective
<1>1. CInv => PolicyIsOneDirective
  <2> SUFFICES ASSUME CInv, NEW l \in Serving, NEW f \in BanFields
               PROVE  NearestValue(l, f, LAMBDA c : c["ban_zone"] # UNSET, NoBan[f])
    BY DEF PolicyIsOneDirective
  <2> DEFINE S == {k \in 1 .. 4 : raw[k]["ban_zone"] # UNSET}
  <2>1. l \in 2 .. 4 /\ conf = Merged
    BY ServingIs
  <2>2. Merged[l][f] = Value(S, l, [k \in 1 .. 4 |-> raw[k][f]], NoBan[f])
    BY <2>1, NearestBan
  <2>3. {k \in 1 .. l : k \in S} = {k \in 1 .. l : raw[k]["ban_zone"] # UNSET}
    BY <2>1
  <2>4. S \in SUBSET (1 .. 4)
    OBVIOUS
  <2> DEFINE set == {k \in 1 .. l : raw[k]["ban_zone"] # UNSET}
  <2> HIDE DEF S
  <2>5. set = {k \in 1 .. l : k \in S}
    BY <2>3
  <2> HIDE DEF set
  <2> DEFINE g == [k \in 1 .. 4 |-> raw[k][f]]
  <2> HIDE DEF g
  <2>7. Value(S, l, g, NoBan[f]) = IF set = {} THEN NoBan[f] ELSE raw[Last(set)][f]
    <3>1. set # {} => Last(set) \in 1 .. 4
      BY <2>1, <2>5, Upto
    <3>2. Value(S, l, g, NoBan[f]) = IF set = {} THEN NoBan[f] ELSE g[Last(set)]
      BY <2>1, <2>5, Upto
    <3>3. set # {} => g[Last(set)] = raw[Last(set)][f]
      BY <3>1 DEF g
    <3> QED BY <3>2, <3>3
  <2>6. conf[l][f] = IF set = {} THEN NoBan[f] ELSE raw[Last(set)][f]
    BY <2>1, <2>2, <2>7 DEF g
  <2> QED BY ONLY <2>6 DEF NearestValue, Last, set
<1> QED BY <1>1, CAlways, PTL

(* The nearest level that mentions a directive decides it alone, and       *)
(* shield_log off is such a mention (ngx_http_shield_merge_loc_conf).      *)
THEOREM NearestLevel == Spec => []NearestWins
<1>1. CInv => NearestWins
  <2> SUFFICES ASSUME CInv, NEW l \in Serving
               PROVE  /\ \A f \in ScalarFields : NearestValue(l, f, LAMBDA c : c[f] # UNSET, Default[f])
                      /\ \A f \in LogFields : NearestValue(l, f, LAMBDA c : c["log"] # UNSET, NULL)
                      /\ NearestValue(l, "skip", LAMBDA c : c["skip"] # {}, {})
    BY DEF NearestWins
  <2>1. l \in 2 .. 4 /\ conf = Merged /\ SinksTogether
    BY ServingIs DEF CInv
  <2>2. ASSUME NEW f \in ScalarFields PROVE NearestValue(l, f, LAMBDA c : c[f] # UNSET, Default[f])
    <3> DEFINE S == {k \in 1 .. 4 : raw[k][f] # UNSET}
    <3>1. Merged[l][f] = Value(S, l, [k \in 1 .. 4 |-> raw[k][f]], Default[f])
      BY <2>1, NearestScalar
    <3>2. {k \in 1 .. l : k \in S} = {k \in 1 .. l : raw[k][f] # UNSET} /\ S \in SUBSET (1 .. 4)
      BY <2>1
    <3> DEFINE set == {k \in 1 .. l : raw[k][f] # UNSET}
    <3> HIDE DEF S
    <3>3. set = {k \in 1 .. l : k \in S}
      BY <3>2
    <3> HIDE DEF set
    <3> DEFINE g == [k \in 1 .. 4 |-> raw[k][f]]
    <3> HIDE DEF g
    <3>5. Value(S, l, g, Default[f]) = IF set = {} THEN Default[f] ELSE raw[Last(set)][f]
      <4>0. l \in 2 .. 4
        BY <2>1
      <4>1. set # {} => Last(set) \in 1 .. 4
        BY <2>1, <3>3, Upto
      <4>2. \A h, d : Value(S, l, h, d) = IF set = {} THEN d ELSE h[Last(set)]
        BY ONLY <4>0, <3>3, Upto
      <4>3. set # {} => g[Last(set)] = raw[Last(set)][f]
        BY <4>1 DEF g
      <4> QED BY <4>2, <4>3
    <3>4. conf[l][f] = IF set = {} THEN Default[f] ELSE raw[Last(set)][f]
      BY <2>1, <3>1, <3>5 DEF g
    <3> QED BY ONLY <3>4 DEF NearestValue, Last, set
  <2>3. ASSUME NEW f \in LogFields PROVE NearestValue(l, f, LAMBDA c : c["log"] # UNSET, NULL)
    <3> DEFINE S == {k \in 1 .. 4 : raw[k]["log"] # UNSET}
    <3>1. Merged[l][f] = Value(S, l, [k \in 1 .. 4 |-> raw[k][f]], NULL)
      BY <2>1, NearestLog
    <3>2. {k \in 1 .. l : k \in S} = {k \in 1 .. l : raw[k]["log"] # UNSET} /\ S \in SUBSET (1 .. 4)
      BY <2>1
    <3> DEFINE set == {k \in 1 .. l : raw[k]["log"] # UNSET}
    <3> HIDE DEF S
    <3>3. set = {k \in 1 .. l : k \in S}
      BY <3>2
    <3> HIDE DEF set
    <3> DEFINE g == [k \in 1 .. 4 |-> raw[k][f]]
    <3> HIDE DEF g
    <3>5. Value(S, l, g, NULL) = IF set = {} THEN NULL ELSE raw[Last(set)][f]
      <4>0. l \in 2 .. 4
        BY <2>1
      <4>1. set # {} => Last(set) \in 1 .. 4
        BY <2>1, <3>3, Upto
      <4>2. \A h, d : Value(S, l, h, d) = IF set = {} THEN d ELSE h[Last(set)]
        BY ONLY <4>0, <3>3, Upto
      <4>3. set # {} => g[Last(set)] = raw[Last(set)][f]
        BY <4>1 DEF g
      <4> QED BY <4>2, <4>3
    <3>4. conf[l][f] = IF set = {} THEN NULL ELSE raw[Last(set)][f]
      BY <2>1, <3>1, <3>5 DEF g
    <3> QED BY ONLY <3>4 DEF NearestValue, Last, set
  <2>4. NearestValue(l, "skip", LAMBDA c : c["skip"] # {}, {})
    <3> DEFINE S == {k \in 1 .. 4 : raw[k]["skip"] # {}}
    <3>1. Merged[l]["skip"] = Value(S, l, [k \in 1 .. 4 |-> raw[k]["skip"]], {})
      BY <2>1, NearestSkip
    <3>2. {k \in 1 .. l : k \in S} = {k \in 1 .. l : raw[k]["skip"] # {}} /\ S \in SUBSET (1 .. 4)
      BY <2>1
    <3> DEFINE set == {k \in 1 .. l : raw[k]["skip"] # {}}
    <3> HIDE DEF S
    <3>3. set = {k \in 1 .. l : k \in S}
      BY <3>2
    <3> HIDE DEF set
    <3> DEFINE g == [k \in 1 .. 4 |-> raw[k]["skip"]]
    <3> HIDE DEF g
    <3>5. Value(S, l, g, {}) = IF set = {} THEN {} ELSE raw[Last(set)]["skip"]
      <4>0. l \in 2 .. 4
        BY <2>1
      <4>1. set # {} => Last(set) \in 1 .. 4
        BY <2>1, <3>3, Upto
      <4>2. \A h, d : Value(S, l, h, d) = IF set = {} THEN d ELSE h[Last(set)]
        BY ONLY <4>0, <3>3, Upto
      <4>3. set # {} => g[Last(set)] = raw[Last(set)]["skip"]
        BY <4>1 DEF g
      <4> QED BY <4>2, <4>3
    <3>4. conf[l]["skip"] = IF set = {} THEN {} ELSE raw[Last(set)]["skip"]
      BY <2>1, <3>1, <3>5 DEF g
    <3> QED BY ONLY <3>4 DEF NearestValue, Last, set
  <2> QED BY <2>2, <2>3, <2>4
<1> QED BY <1>1, CAlways, PTL

(* A running level's ban fields are all the defaults, or all those of one  *)
(* level that has a policy.                                                *)
LEMMA Origin ==
    ASSUME NEW l \in 2 .. 4
    PROVE  \/ \A f \in BanFields : Merged[l][f] = NoBan[f]
           \/ \E k \in 1 .. 4 : /\ raw[k]["ban_zone"] # UNSET
                                /\ \A f \in BanFields : Merged[l][f] = raw[k][f]
<1> DEFINE From(m) == \/ \A f \in BanFields : Merged[m][f] = NoBan[f]
                      \/ \E k \in 1 .. 4 : /\ raw[k]["ban_zone"] # UNSET
                                           /\ \A f \in BanFields : Merged[m][f] = raw[k][f]
<1>1. \A m \in 2 .. 4 : \A f \in BanFields : Merged[m][f] = MergeBan(Merged[m - 1], raw[m], f)
  BY MergedIs, MergeFields
<1>2. ASSUME NEW m \in 2 .. 4, From(m - 1) \/ m = 2 PROVE From(m)
  <2>1. CASE raw[m]["ban_zone"] # UNSET
    <3>1. \A f \in BanFields : Merged[m][f] = raw[m][f]
      BY <1>1, <2>1 DEF MergeBan
    <3>2. m \in 1 .. 4
      OBVIOUS
    <3> QED BY <2>1, <3>1, <3>2
  <2>2. CASE raw[m]["ban_zone"] = UNSET /\ Merged[m - 1]["ban_zone"] = UNSET
    BY <1>1, <2>2 DEF MergeBan
  <2>3. CASE raw[m]["ban_zone"] = UNSET /\ Merged[m - 1]["ban_zone"] # UNSET
    <3>1. \A f \in BanFields : Merged[m][f] = Merged[m - 1][f]
      BY <1>1, <2>3 DEF MergeBan
    <3>2. CASE m = 2
      <4>1. m - 1 = 1 /\ Merged[1] = raw[1] /\ 1 \in 1 .. 4
        BY <3>2, MergedIs
      <4> QED BY <2>3, <3>1, <4>1
    <3>3. CASE From(m - 1)
      BY <3>1, <3>3
    <3> QED BY <1>2, <3>2, <3>3
  <2> QED BY <2>1, <2>2, <2>3
<1> HIDE DEF From
<1>3. From(2)
  BY <1>2
<1>4. From(3)
  <2>1. 3 - 1 = 2 /\ 3 \in 2 .. 4
    OBVIOUS
  <2> QED BY <1>2, <1>3, <2>1
<1>5. From(4)
  <2>1. 4 - 1 = 3 /\ 4 \in 2 .. 4
    OBVIOUS
  <2> QED BY <1>2, <1>4, <2>1
<1>6. l = 2 \/ l = 3 \/ l = 4
  OBVIOUS
<1> QED BY <1>3, <1>4, <1>5, <1>6 DEF From

LEMMA SkipsKnown ==
    ASSUME CInv PROVE \A l \in 1 .. 4 : Merged[l]["skip"] \subseteq Cats
<1>1. \A l \in 2 .. 4 : Merged[l]["skip"] = IF raw[l]["skip"] = {} THEN Merged[l - 1]["skip"]
                                            ELSE raw[l]["skip"]
  BY MergedIs, MergeFields
<1>2. \A l \in 1 .. 4 : raw[l]["skip"] \subseteq Cats
  BY DEF CInv, SkipOf
<1>3. Merged[1]["skip"] \subseteq Cats
  BY <1>2, MergedIs
<1>4. Merged[2]["skip"] \subseteq Cats
  BY <1>1, <1>2, <1>3
<1>5. Merged[3]["skip"] \subseteq Cats
  BY <1>1, <1>2, <1>4
<1>6. Merged[4]["skip"] \subseteq Cats
  BY <1>1, <1>2, <1>5
<1> QED BY <1>3, <1>4, <1>5, <1>6

(* A server that runs bans only into zones that exist and are large        *)
(* enough, with counts and times above zero, keys on a forwarded header    *)
(* only with trusted proxies, skips only categories that exist, and has    *)
(* such zones behind its endpoints (ngx_http_shield_ban,                   *)
(* ngx_http_shield_skip, ngx_http_shield_ban_status, merge_loc_conf).      *)
THEOREM SoundPolicy == Spec => []PolicyIsSound
<1>1. CInv => PolicyIsSound
  <2>8. ASSUME CInv, NEW l \in Serving, NEW f \in ZoneFields, conf[l][f] # NULL
        PROVE  conf[l][f] \in DOMAIN zones /\ zones[conf[l][f]].size >= MinSize
    <3>1. l \in 2 .. 4 /\ conf = Merged /\ \A n \in DOMAIN zones : zones[n].size > 0
      BY <2>8, ServingIs DEF Serving, CInv, RunningOK
    <3>2. Merged[l] = merge_loc_conf(Merged[l - 1], raw[l])
      BY <3>1, MergedIs
    <3>3. Merged[l][f] = raw[l][f]
      BY <3>2, MergeFields
    <3>4. conf[l][f] \in DOMAIN zones
      BY <2>8, <3>1, <3>3 DEF CInv, EndpointsOK
    <3>5. \A n \in DOMAIN zones : zones[n].size >= MinSize
      BY <2>8, <3>1, ConfAssumption DEF CInv, ZonesOK
    <3> QED BY <3>4, <3>5
  <2> SUFFICES ASSUME CInv, NEW l \in Serving
               PROVE  /\ conf[l]["skip"] \subseteq Cats
                      /\ conf[l]["ban_key"] = "forwarded" <=> conf[l]["ban_trusted"] # NULL
                      /\ conf[l]["ban_zone"] # NULL =>
                           /\ conf[l]["ban_zone"] \in DOMAIN zones
                           /\ zones[conf[l]["ban_zone"]].size >= MinSize
                           /\ \A f \in {"ban_count", "ban_window", "ban_time"} : conf[l][f] > 0
    BY <2>8 DEF PolicyIsSound
  <2>1. l \in 2 .. 4 /\ conf = Merged /\ \A n \in DOMAIN zones : zones[n].size > 0
    BY ServingIs DEF Serving, CInv, RunningOK
  <2>2. conf[l]["skip"] \subseteq Cats
    BY <2>1, SkipsKnown
  <2>3. {"ban_zone", "ban_count", "ban_window", "ban_time", "ban_key", "ban_trusted"} \subseteq BanFields
    BY DEF BanFields
  <2>4. CASE \A f \in BanFields : Merged[l][f] = NoBan[f]
    <3>1. NoBan["ban_zone"] = NULL /\ NoBan["ban_key"] = "peer" /\ NoBan["ban_trusted"] = NULL
      BY DEF NoBan
    <3> QED BY <2>1, <2>2, <2>3, <2>4, <3>1
  <2>5. CASE \E k \in 1 .. 4 : /\ raw[k]["ban_zone"] # UNSET
                               /\ \A f \in BanFields : Merged[l][f] = raw[k][f]
    <3>1. PICK k \in 1 .. 4 : /\ raw[k]["ban_zone"] # UNSET
                              /\ \A f \in BanFields : Merged[l][f] = raw[k][f]
      BY <2>5
    <3>2. PolicyOf(k)
      BY DEF CInv
    <3>3. /\ conf[l]["ban_zone"] \in DOMAIN zones
          /\ \A f \in {"ban_count", "ban_window", "ban_time"} : conf[l][f] \in Positive
          /\ conf[l]["ban_key"] = "forwarded" <=> conf[l]["ban_trusted"] # NULL
      BY <2>1, <2>3, <3>1, <3>2 DEF PolicyOf
    <3>4. \A n \in DOMAIN zones : zones[n].size >= MinSize
      BY <2>1, ConfAssumption DEF CInv, ZonesOK
    <3> QED BY <2>2, <3>3, <3>4 DEF Positive
  <2> QED BY <2>1, <2>4, <2>5, Origin
<1> QED BY <1>1, CAlways, PTL

----------------------------------------------------------------------------
(* What was said once                                                      *)

RawSticks ==
    \A l \in Levels :
       /\ \A f \in ScalarFields : raw[l][f] # UNSET => raw'[l][f] = raw[l][f]
       /\ raw[l]["log"] # UNSET => \A f \in LogFields : raw'[l][f] = raw[l][f]
       /\ raw[l]["ban_zone"] # UNSET => \A f \in BanFields : raw'[l][f] = raw[l][f]
       /\ raw[l]["skip"] \subseteq raw'[l]["skip"]

ZonesStick ==
    \A n \in DOMAIN zones : n \in DOMAIN zones' /\ (zones[n].defined => zones'[n] = zones[n])

LEMMA SetSticks ==
    ASSUME DOMAIN raw = Levels, NEW l \in Levels, NEW changes, Set(l, changes),
           \A f \in ScalarFields : f \in DOMAIN changes => raw[l][f] = UNSET,
           (\E f \in LogFields : f \in DOMAIN changes) => raw[l]["log"] = UNSET,
           (\E f \in BanFields : f \in DOMAIN changes) => raw[l]["ban_zone"] = UNSET,
           "skip" \in DOMAIN changes => raw[l]["skip"] \subseteq changes["skip"]
    PROVE  RawSticks
<1>1. /\ \A k \in Levels \ {l} : raw'[k] = raw[k]
      /\ \A f \in Fields : raw'[l][f] = IF f \in DOMAIN changes THEN changes[f] ELSE raw[l][f]
  BY SetIs
<1>2. \A f \in ScalarFields : raw[l][f] # UNSET => raw'[l][f] = raw[l][f]
  BY <1>1, FieldSets
<1>3. raw[l]["log"] # UNSET => \A f \in LogFields : raw'[l][f] = raw[l][f]
  BY <1>1, FieldSets
<1>4. raw[l]["ban_zone"] # UNSET => \A f \in BanFields : raw'[l][f] = raw[l][f]
  BY <1>1, FieldSets
<1>5. raw[l]["skip"] \subseteq raw'[l]["skip"]
  BY <1>1, FieldSets
<1> QED BY <1>1, <1>2, <1>3, <1>4, <1>5 DEF RawSticks

LEMMA AttachSticks ==
    ASSUME NEW n, zones' = Attached(n) PROVE ZonesStick
  BY AttachedIs DEF ZonesStick

LEMMA SameSticks ==
    /\ UNCHANGED raw => RawSticks
    /\ UNCHANGED zones => ZonesStick
    /\ Refuse => RawSticks /\ ZonesStick
  BY DEF RawSticks, ZonesStick, Refuse

LEMMA NextSticks ==
    ASSUME CInv, [Next]_vars PROVE RawSticks /\ ZonesStick
<1>0. DOMAIN raw = Levels
  BY DEF CInv
<1>1. ASSUME NEW l \in 1 .. 3, NEW f \in ScalarFields, NEW v, Scalar(l, f, v)
      PROVE  RawSticks /\ ZonesStick
  <2> DEFINE changes == [x \in {f} |-> v]
  <2>1. CASE Set(l, changes) /\ zones' = zones /\ raw[l][f] = UNSET
    <3>1. DOMAIN changes = {f} /\ l \in Levels
      BY LevelsAre
    <3> HIDE DEF changes
    <3>2. RawSticks
      BY <1>0, <2>1, <3>1, SetSticks, FieldSets
    <3> QED BY <2>1, <3>2, SameSticks
  <2> QED BY <1>1, <2>1, SameSticks DEF Scalar
<1>2. ASSUME NEW l \in 1 .. 3, NEW t, skip(l, t)
      PROVE  RawSticks /\ ZonesStick
  <2> DEFINE changes == [x \in {"skip"} |-> raw[l]["skip"] \cup t]
  <2>1. CASE Set(l, changes) /\ zones' = zones
    <3>1. DOMAIN changes = {"skip"} /\ l \in Levels /\ raw[l]["skip"] \subseteq changes["skip"]
      BY LevelsAre
    <3> HIDE DEF changes
    <3>2. RawSticks
      BY <1>0, <2>1, <3>1, SetSticks, FieldSets
    <3> QED BY <2>1, <3>2, SameSticks
  <2> QED BY <1>2, <2>1, SameSticks DEF skip
<1>3. ASSUME NEW l \in 1 .. 3, NEW sink, log(l, sink)
      PROVE  RawSticks /\ ZonesStick
  <2> DEFINE changes == Sinks[sink]
  <2>1. CASE Set(l, changes) /\ zones' = zones /\ raw[l]["log"] = UNSET /\ sink \in DOMAIN Sinks
    <3>1. DOMAIN changes = LogFields /\ l \in Levels
      BY <2>1, LevelsAre, SinksAre
    <3> HIDE DEF changes
    <3>2. RawSticks
      BY <1>0, <2>1, <3>1, SetSticks, FieldSets
    <3> QED BY <2>1, <3>2, SameSticks
  <2> QED BY <1>3, <2>1, SameSticks DEF log
<1>4. ASSUME NEW n, NEW size, ban_zone(n, size) PROVE RawSticks /\ ZonesStick
  <2>1. CASE /\ ~ Attached(n)[n].defined
             /\ zones' = [Attached(n) EXCEPT ![n] = [size |-> size, defined |-> TRUE]]
             /\ UNCHANGED raw
    <3>1. DOMAIN zones' = DOMAIN zones \cup {n}
      BY <2>1, AttachedIs
    <3>2. \A x \in DOMAIN zones \ {n} : zones'[x] = zones[x]
      BY <2>1, AttachedIs
    <3>3. n \in DOMAIN zones => ~ zones[n].defined
      BY <2>1, AttachedIs
    <3>4. ZonesStick
      BY <3>1, <3>2, <3>3 DEF ZonesStick
    <3> QED BY <2>1, <3>4, SameSticks
  <2> QED BY <1>4, <2>1, SameSticks DEF ban_zone
<1>5. ASSUME NEW f \in ZoneFields, NEW n, Endpoint(f, n) PROVE RawSticks /\ ZonesStick
  <2> DEFINE changes == [x \in {f} |-> n]
  <2>1. CASE Set(LOCATION, changes) /\ zones' = Attached(n)
    <3>1. DOMAIN changes = {f} /\ LOCATION \in Levels
      BY LevelsAre
    <3> HIDE DEF changes
    <3>2. RawSticks
      BY <1>0, <2>1, <3>1, SetSticks, FieldSets
    <3> QED BY <2>1, <3>2, AttachSticks
  <2> QED BY <1>5, <2>1, SameSticks DEF Endpoint
<1>6. ASSUME NEW l \in 1 .. 3, Ban(l) PROVE RawSticks /\ ZonesStick
  BY <1>6, SameSticks DEF Ban
<1>7. CASE BanArg
  BY <1>7, SameSticks DEF BanArg, Takes
<1>8. CASE BanEnd
  <2> DEFINE changes == [ban_zone |-> line.zone, ban_count |-> line.count,
                         ban_window |-> line.window, ban_time |-> line.bantime,
                         ban_key |-> line.key, ban_trusted |-> line.trusted]
             l == line.level
             n == line.zone
  <2>1. l \in 1 .. 3 /\ raw[l]["ban_zone"] = UNSET
    BY <1>8 DEF BanEnd, CInv, LineOK, BanLine
  <2>2. CASE Set(l, changes) /\ zones' = Attached(n)
    <3>1. DOMAIN changes = BanFields /\ l \in Levels
      BY <2>1, LevelsAre DEF BanFields
    <3> HIDE DEF changes, l, n
    <3>2. RawSticks
      BY <1>0, <2>1, <2>2, <3>1, SetSticks, FieldSets
    <3> QED BY <2>2, <3>2, AttachSticks
  <2> QED BY <1>8, <2>2, SameSticks DEF BanEnd
<1>9. CASE Start
  BY <1>9, SameSticks DEF Start
<1>10. CASE UNCHANGED vars
  BY <1>10, SameSticks DEF vars
<1> QED BY <1>1, <1>2, <1>3, <1>4, <1>5, <1>6, <1>7, <1>8, <1>9, <1>10, LevelsAre DEF Next

(* No directive takes back what an earlier one of its level said: a second *)
(* shield_ban, shield_log or scalar is refused, shield_skip only adds, and *)
(* a zone is defined once.                                                 *)
THEOREM Sticks == Spec => DirectivesStick
<1>1. CInv /\ [Next]_vars =>
        [/\ \A l \in Levels :
              /\ \A f \in ScalarFields : raw[l][f] # UNSET => raw'[l][f] = raw[l][f]
              /\ raw[l]["log"] # UNSET => \A f \in LogFields : raw'[l][f] = raw[l][f]
              /\ raw[l]["ban_zone"] # UNSET => \A f \in BanFields : raw'[l][f] = raw[l][f]
              /\ raw[l]["skip"] \subseteq raw'[l]["skip"]
         /\ \A n \in DOMAIN zones : /\ n \in DOMAIN zones'
                                    /\ zones[n].defined => zones'[n] = zones[n]]_vars
  BY NextSticks DEF RawSticks, ZonesStick
<1> QED BY <1>1, CAlways, PTL DEF Spec, DirectivesStick
=============================================================================
