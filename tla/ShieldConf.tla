----------------------------- MODULE ShieldConf -----------------------------
(***************************************************************************)
(* The configuration of ngx_http_shield_module.c: the directives of a file *)
(* with one http, one server and one location block and an "if" in it, the *)
(* merge, the check of the shared zones at start, and the content handler  *)
(* that a location installs.  Blocks may be written in any order, so       *)
(* directives of different levels interleave; shield_ban is read argument  *)
(* by argument.  A configuration is a function from field names.           *)
(***************************************************************************)
EXTENDS ShieldTables, Integers

CONSTANTS
    UNSET, NULL,     \* the sentinels of nginx
    Names,           \* zone names
    Sizes,           \* sizes that shield_ban_zone is given
    MinSize,         \* 8 pages
    Scalars,         \* Scalars[f]: the values that the directive of f is given
    SkipArgs,        \* sets of shield_skip tokens
    BanNumbers,      \* numbers that count=, window= and bantime= are given
    Cidrs,           \* networks that trusted= is given
    MaxDirectives    \* bound: directives in the file

ASSUME ConfAssumption ==
    /\ MinSize \in Nat \ {0} /\ MaxDirectives \in Nat
    /\ Sizes \subseteq Int /\ BanNumbers \subseteq Int
    /\ UNSET # NULL /\ {UNSET, NULL} \cap Names = {}
    /\ UNSET \notin BanNumbers /\ UNSET \notin {"file", "syslog"}

HTTP == 1
SERVER == 2
LOCATION == 3
IF_BLOCK == 4
Levels == HTTP .. IF_BLOCK

VARIABLES
    raw,       \* raw[l]: the configuration as the directives of level l set it
    conf,      \* conf[l]: the merged one, raw[l] before the merge
    zones,     \* zones[n]: [size, defined] of the zones named so far
    handler,   \* the location's clcf->handler, by the field it reads, or NULL
    line,      \* the shield_ban line being read, or NULL
    state,     \* "parse", "running" or "refused"
    directives

vars == <<raw, conf, zones, handler, line, state, directives>>

ScalarFields == {"mode", "body", "max_body", "status"}
LogFields == {"log", "syslog_peer"}
BanFields == {"ban_zone", "ban_count", "ban_window", "ban_time", "ban_key",
              "ban_trusted"}
ZoneFields == {"status_zone", "probe_zone"}
Fields == ScalarFields \cup {"skip"} \cup LogFields \cup BanFields \cup ZoneFields

create_loc_conf ==
    [f \in Fields |->
       CASE f \in ScalarFields \cup LogFields -> UNSET
         [] f = "skip" -> {}
         [] f = "ban_key" -> "peer"
         [] f \in {"ban_trusted"} \cup ZoneFields -> NULL
         [] OTHER -> UNSET]

----------------------------------------------------------------------------
Default == [mode |-> "off", body |-> TRUE, max_body |-> 8192, status |-> 403]

NoBan == [ban_zone |-> NULL, ban_count |-> 0, ban_window |-> 0, ban_time |-> 0,
          ban_key |-> "peer", ban_trusted |-> NULL]

Inherit(child, prev, otherwise) ==
    IF child # UNSET THEN child ELSE IF prev # UNSET THEN prev ELSE otherwise

(* shield_log off is taken for a level without a shield_log. *)
MutMergeLog(prev, own, f) ==
    IF own["log"] \notin {UNSET, NULL} \/ own["syslog_peer"] \notin {UNSET, NULL}
      THEN own[f] ELSE Inherit(UNSET, prev[f], NULL)

(* Both sinks move together. *)
MergeLog(prev, own, f) ==
    IF own["log"] # UNSET THEN own[f] ELSE Inherit(UNSET, prev[f], NULL)

(* The policy is taken over without its key. *)
MutMergeBanKey(prev, own, f) ==
    IF own["ban_zone"] # UNSET \/ f \in {"ban_key", "ban_trusted"} THEN own[f]
    ELSE IF prev["ban_zone"] = UNSET THEN NoBan[f] ELSE prev[f]

(* The whole policy is inherited, or the whole of it is off. *)
MergeBan(prev, own, f) ==
    IF own["ban_zone"] # UNSET THEN own[f]
    ELSE IF prev["ban_zone"] = UNSET THEN NoBan[f] ELSE prev[f]

merge_loc_conf(prev, own) ==
    [f \in Fields |->
       CASE f \in ScalarFields -> Inherit(own[f], prev[f], Default[f])
         [] f = "skip" -> IF own[f] = {} THEN prev[f] ELSE own[f]
         [] f \in LogFields -> MergeLog(prev, own, f)
         [] f \in BanFields -> MergeBan(prev, own, f)
         [] OTHER -> own[f]]

(* nginx merges from the top down; the http level itself is not merged. *)
Merged == LET m[l \in Levels] == IF l = HTTP THEN raw[HTTP]
                                 ELSE merge_loc_conf(m[l - 1], raw[l])
          IN  m

----------------------------------------------------------------------------
Init ==
    /\ raw = [l \in Levels |-> create_loc_conf] /\ conf = raw
    /\ zones = [n \in {} |-> NULL] /\ handler = NULL /\ line = NULL
    /\ state = "parse" /\ directives = 0

Refuse ==
    /\ state' = "refused" /\ line' = NULL
    /\ UNCHANGED <<raw, zones, handler>>

(* Before each directive: another one may be read. *)
Reads == /\ state = "parse" /\ line = NULL /\ directives < MaxDirectives
         /\ directives' = directives + 1
         /\ UNCHANGED conf

Set(l, changes) ==
    /\ raw' = [raw EXCEPT ![l] = [f \in Fields |-> IF f \in DOMAIN changes
                                                     THEN changes[f] ELSE @[f]]]
    /\ UNCHANGED state

mode(v) == v \in {"off", "detect", "block"}
status(v) == v \in {403, 404, 419, 429, 444}
Accepts(f, v) == (f = "mode" => mode(v)) /\ (f = "status" => status(v))

(* shield, shield_body, shield_max_body and shield_status. *)
Scalar(l, f, v) ==
    /\ Reads
    /\ \/ /\ raw[l][f] = UNSET /\ Accepts(f, v)
          /\ Set(l, [x \in {f} |-> v])
          /\ UNCHANGED <<zones, handler, line>>
       \/ (raw[l][f] # UNSET \/ ~ Accepts(f, v)) /\ Refuse

skip(l, tokens) ==
    /\ Reads
    /\ \/ /\ \A t \in tokens : Named(t)
          /\ Set(l, [x \in {"skip"} |-> raw[l]["skip"] \cup tokens])
          /\ UNCHANGED <<zones, handler, line>>
       \/ (\E t \in tokens : ~ Named(t)) /\ Refuse

Sinks == [off |-> [log |-> NULL, syslog_peer |-> NULL],
          file |-> [log |-> "file", syslog_peer |-> NULL],
          syslog |-> [log |-> NULL, syslog_peer |-> "syslog"]]

(* A second shield_log is refused only behind one that opened a file. *)
MutLog(l, sink) ==
    /\ Reads
    /\ \/ /\ raw[l]["log"] \in {UNSET, NULL} /\ sink \in DOMAIN Sinks
          /\ Set(l, Sinks[sink])
          /\ UNCHANGED <<zones, handler, line>>
       \/ (raw[l]["log"] \notin {UNSET, NULL} \/ sink \notin DOMAIN Sinks) /\ Refuse

(* A "|command" is no sink. *)
log(l, sink) ==
    /\ Reads
    /\ \/ /\ raw[l]["log"] = UNSET /\ sink \in DOMAIN Sinks
          /\ Set(l, Sinks[sink])
          /\ UNCHANGED <<zones, handler, line>>
       \/ (raw[l]["log"] # UNSET \/ sink \notin DOMAIN Sinks) /\ Refuse

(* ngx_shared_memory_add with size 0: name the zone (external). *)
Attached(n) ==
    IF n \in DOMAIN zones THEN zones
    ELSE [x \in DOMAIN zones \cup {n} |->
            IF x = n THEN [size |-> 0, defined |-> FALSE] ELSE zones[x]]

(* A size that does not parse is -1. *)
ban_zone(n, size) ==
    /\ Reads
    /\ \/ /\ size >= MinSize /\ ~ Attached(n)[n].defined
          /\ zones' = [Attached(n) EXCEPT ![n] = [size |-> size, defined |-> TRUE]]
          /\ UNCHANGED <<raw, handler, line, state>>
       \/ (size < MinSize \/ Attached(n)[n].defined) /\ Refuse

(* shield_ban_status and shield_probe.  Their fields are not merged: a      *)
(* request that an "if" block takes keeps the handler, but has the block's  *)
(* configuration, which names no zone.                                      *)
Endpoint(f, n) ==
    /\ Reads
    /\ \/ /\ raw[LOCATION][f] = NULL
          /\ Set(LOCATION, [x \in {f} |-> n])
          /\ zones' = Attached(n) /\ handler' = f
          /\ UNCHANGED line
       \/ raw[LOCATION][f] # NULL /\ Refuse

----------------------------------------------------------------------------
(* shield_ban: a step per argument, then the checks of the whole line.     *)

Ban(l) ==
    /\ Reads
    /\ \/ /\ raw[l]["ban_zone"] = UNSET
          /\ line' = [level |-> l, zone |-> UNSET, count |-> UNSET, window |-> UNSET,
                      bantime |-> UNSET, key |-> "peer", trusted |-> NULL]
          /\ UNCHANGED <<raw, zones, handler, state>>
       \/ raw[l]["ban_zone"] # UNSET /\ Refuse

(* An argument that is taken replaces an earlier one of its name. *)
Takes(p, v) == /\ line' = [line EXCEPT ![p] = v]
               /\ UNCHANGED <<raw, zones, handler, state>>

BanArg ==
    /\ line # NULL
    /\ \/ \E n \in Names : Takes("zone", n)
       \/ \E p \in {"count", "window", "bantime"}, v \in BanNumbers :
            IF v > 0 THEN Takes(p, v) ELSE Refuse
       \/ \E k \in {"peer", "forwarded"} : Takes("key", k)
       \/ \E c \in Cidrs : Takes("trusted", {c} \cup IF line.trusted = NULL THEN {}
                                                     ELSE line.trusted)
       \/ Refuse  \* an argument with another name, or a value that is none
    /\ UNCHANGED <<conf, directives>>

MutBanComplete(b) ==
    UNSET \notin {b.zone, b.count, b.window, b.bantime}

BanComplete(b) ==
    /\ UNSET \notin {b.zone, b.count, b.window, b.bantime}
    /\ b.key = "forwarded" <=> b.trusted # NULL

BanEnd ==
    /\ line # NULL
    /\ IF BanComplete(line)
         THEN /\ Set(line.level, [ban_zone |-> line.zone, ban_count |-> line.count,
                                  ban_window |-> line.window, ban_time |-> line.bantime,
                                  ban_key |-> line.key, ban_trusted |-> line.trusted])
              /\ zones' = Attached(line.zone) /\ line' = NULL
              /\ UNCHANGED handler
         ELSE Refuse
    /\ UNCHANGED <<conf, directives>>

----------------------------------------------------------------------------
(* The end of the file: merge, then the zones; one that nothing defined    *)
(* has size 0, and nginx does not start with it (external).                *)
Start ==
    /\ state = "parse" /\ line = NULL
    /\ conf' = Merged
    /\ state' = IF \A n \in DOMAIN zones : zones[n].size > 0 THEN "running" ELSE "refused"
    /\ UNCHANGED <<raw, zones, handler, line, directives>>

Next ==
    \/ \E l \in HTTP .. LOCATION : \/ \E f \in ScalarFields : \E v \in Scalars[f] : Scalar(l, f, v)
                                   \/ \E t \in SkipArgs : skip(l, t)
                                   \/ \E s \in {"off", "file", "syslog", "pipe"} : log(l, s)
                                   \/ Ban(l)
    \/ \E n \in Names, s \in Sizes : ban_zone(n, s)
    \/ \E f \in ZoneFields, n \in Names : Endpoint(f, n)
    \/ BanArg \/ BanEnd \/ Start

Spec == Init /\ [][Next]_vars

----------------------------------------------------------------------------
(* Properties                                                              *)

Serving == {l \in Levels : state = "running" /\ l # HTTP}

(* Level l's value of f is that of the nearest level that P holds of, and  *)
(* the default where there is none.                                        *)
NearestValue(l, f, P(_), default) ==
    LET set == {k \in 1 .. l : P(raw[k])}
    IN  conf[l][f] = IF set = {} THEN default
                     ELSE raw[CHOOSE k \in set : \A j \in set : j <= k][f]

(* A ban policy is the one of one directive, all of it: a location counts  *)
(* into a zone with the key, the trusted proxies, the count and the times  *)
(* that were written together with that zone.                              *)
PolicyIsOneDirective ==
    \A l \in Serving, f \in BanFields :
       NearestValue(l, f, LAMBDA c : c["ban_zone"] # UNSET, NoBan[f])

(* The nearest level that mentions shield_log, shield_skip, or a scalar    *)
(* directive decides it alone; shield_log off is such a mention.           *)
NearestWins ==
    \A l \in Serving :
       /\ \A f \in ScalarFields : NearestValue(l, f, LAMBDA c : c[f] # UNSET, Default[f])
       /\ \A f \in LogFields : NearestValue(l, f, LAMBDA c : c["log"] # UNSET, NULL)
       /\ NearestValue(l, "skip", LAMBDA c : c["skip"] # {}, {})

(* A server that runs keys on a forwarded header only where it knows whom  *)
(* to believe, and bans only into zones that exist and are large enough,   *)
(* with counts and times that are not zero; it skips only categories that  *)
(* exist, and its status and probe endpoints name such zones too.          *)
PolicyIsSound ==
    \A l \in Serving :
       /\ conf[l]["skip"] \subseteq Cats
       /\ conf[l]["ban_key"] = "forwarded" <=> conf[l]["ban_trusted"] # NULL
       /\ conf[l]["ban_zone"] # NULL =>
            /\ conf[l]["ban_zone"] \in DOMAIN zones
            /\ zones[conf[l]["ban_zone"]].size >= MinSize
            /\ \A f \in {"ban_count", "ban_window", "ban_time"} : conf[l][f] > 0
       /\ \A f \in ZoneFields : conf[l][f] # NULL =>
            conf[l][f] \in DOMAIN zones /\ zones[conf[l][f]].size >= MinSize

(* A directive never takes back what an earlier one of its level said: a   *)
(* second one is refused, shield_skip only adds, a zone is defined once.   *)
DirectivesStick ==
    [][/\ \A l \in Levels :
            /\ \A f \in ScalarFields : raw[l][f] # UNSET => raw'[l][f] = raw[l][f]
            /\ raw[l]["log"] # UNSET => \A f \in LogFields : raw'[l][f] = raw[l][f]
            /\ raw[l]["ban_zone"] # UNSET => \A f \in BanFields : raw'[l][f] = raw[l][f]
            /\ raw[l]["skip"] \subseteq raw'[l]["skip"]
       /\ \A n \in DOMAIN zones : /\ n \in DOMAIN zones'
                                  /\ zones[n].defined => zones'[n] = zones[n]]_vars
=============================================================================
