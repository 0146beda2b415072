------------------------------ MODULE ShieldLog ------------------------------
(***************************************************************************)
(* write_log of ngx_http_shield_module.c: the size and the escaping of a   *)
(* hit record, the file sink with its back-off on a full disk and its      *)
(* rate-limited alert, and the syslog sink with its 4096-byte frame.  The  *)
(* two remembered seconds are fields of a location's configuration, which  *)
(* each worker has for itself: this is one location in one worker.         *)
(*                                                                         *)
(* The code compares its clock with two remembered seconds only through    *)
(* the differences, so a time is kept as its age in seconds, cut off where *)
(* no test tells it from an older one.  A request line is a sequence of    *)
(* runs of bytes that escape to the same width.                            *)
(***************************************************************************)
EXTENDS Integers, Sequences

CONSTANTS
    LINE_MAX,   \* request bytes that are logged (600)
    SLACK,      \* reserved for the fixed text (160)
    FRAME,      \* a syslog datagram (4096)
    FIXED,      \* longest fixed text before the request: literals, mode, status
    VALUES,     \* longest time, address, category and source together
    HEADERS,    \* lengths of a syslog header
    ALERT_GAP,  \* seconds without a second alert (59)
    RunLengths, \* lengths of runs in a request line
    MaxRuns,    \* bound: runs in a request line
    MaxBack     \* bound: seconds that the clock is set back

ASSUME LogAssumption ==
    /\ {LINE_MAX, SLACK, FRAME, FIXED, VALUES, ALERT_GAP, MaxRuns, MaxBack} \subseteq Nat
    /\ HEADERS \subseteq Nat /\ RunLengths \subseteq Nat

(* The sizes that the code's comments reckon with: the slack holds the     *)
(* fixed text, the closing quote and brace and the newline, and the        *)
(* longest record of all fits a datagram behind the longest header.        *)
ASSUME SizesAssumption ==
    /\ FIXED + 3 <= SLACK
    /\ \A h \in HEADERS : FIXED + VALUES + 6 * LINE_MAX + 2 + h <= FRAME

VARIABLES
    sink,        \* "file" or "syslog"
    disk,        \* "ok", "full" or "broken"
    memory,      \* "ok" or "short": an allocation may fail
    error_age,   \* clock - log_error_time
    full_age,    \* clock - log_disk_full_time
    since_alert, \* history: seconds that really passed since the last alert
    back,        \* seconds that the clock has been set back so far
    record,      \* the last record: [wanted, escaped, len, cap, header]
    fate         \* its fate, if it is of this second: "sent", "lost" to the
                 \* disk, "skipped" as too long, or "dropped" without a word
                 \* of the module

log_vars == <<sink, disk, memory, error_age, full_age, since_alert, back, record, fate>>
ages == <<error_age, full_age, since_alert>>

(* Ages past these stay past every test, however the clock is set back. *)
Never == ALERT_GAP + 1 + MaxBack
LongAgo == 1 + MaxBack
LineWidths == {1, 2, 6}   \* a byte as it is, \" and its like, \uXXXX

Runs == UNION {[1 .. n -> [width : LineWidths, n : RunLengths]] : n \in 0 .. MaxRuns}

----------------------------------------------------------------------------
(* The record.                                                             *)

AtMost(a, b) == IF a < b THEN a ELSE b

(* The bytes of the first k runs. *)
BytesUpto(runs) ==
    LET sum[k \in 0 .. Len(runs)] == IF k = 0 THEN 0 ELSE sum[k - 1] + runs[k].n
    IN  sum

Bytes(runs) == BytesUpto(runs)[Len(runs)]

(* The first LINE_MAX bytes of the request line. *)
Bounded(runs) ==
    [k \in 1 .. Len(runs) |->
       [runs[k] EXCEPT !.n = AtMost(runs[k].n, LINE_MAX - AtMost(BytesUpto(runs)[k - 1], LINE_MAX))]]

(* The loop over one run: it goes on while p < last - 6. *)
Escape(s, run, last) ==
    LET room == last - 6 - s.p
        turns == IF room <= 0 THEN 0
                 ELSE AtMost(run.n, (room + run.width - 1) \div run.width)
    IN  [p |-> s.p + turns * run.width, escaped |-> s.escaped + turns]

(* Two bytes are reserved for a byte that is escaped. *)
MutCap(req) == VALUES + 2 * Bytes(req) + SLACK

Cap(req) == VALUES + 6 * Bytes(req) + SLACK

(* The buffer and the count behind each run. *)
Escaped(req, last) ==
    LET s[k \in 0 .. Len(req)] ==
          IF k = 0 THEN [p |-> FIXED + VALUES, escaped |-> 0] ELSE Escape(s[k - 1], req[k], last)
    IN  s

(* The record with its closing quote and brace; header is the syslog one's.*)
Record(runs, header) ==
    LET req == Bounded(runs)
        cap == Cap(req)
        end == Escaped(req, cap)[Len(req)]
    IN  [wanted |-> AtMost(Bytes(runs), LINE_MAX), escaped |-> end.escaped,
         len |-> end.p + 2, cap |-> cap, header |-> header]

----------------------------------------------------------------------------
LogInit ==
    /\ sink \in {"file", "syslog"} /\ disk = "ok" /\ memory = "ok"
    /\ error_age = Never /\ full_age = LongAgo /\ since_alert = Never /\ back = 0
    /\ record = [wanted |-> 0, escaped |-> 0, len |-> 0, cap |-> 0, header |-> 0]
    /\ fate = "none"

(* A write failed or was short. *)
Alert == IF error_age > ALERT_GAP THEN error_age' = 0 /\ since_alert' = 0
         ELSE UNCHANGED <<error_age, since_alert>>

(* A full disk is only remembered. *)
MutNoSpace == full_age' = 0 /\ UNCHANGED <<error_age, since_alert>>

NoSpace == full_age' = 0 /\ Alert

(* Every second from an ENOSPC on. *)
MutShut == full_age >= 0

(* No write for the rest of the second of an ENOSPC. *)
Shut == full_age = 0

WriteFile ==
    /\ sink = "file"
    /\ \/ Shut /\ fate' = "lost" /\ UNCHANGED ages
       \/ ~ Shut /\ disk = "ok" /\ fate' = "sent" /\ UNCHANGED ages
       \/ ~ Shut /\ disk = "full" /\ fate' = "lost" /\ NoSpace
       \/ ~ Shut /\ disk # "ok" /\ fate' = "lost" /\ Alert /\ UNCHANGED full_age

Fits(rec) == rec.len <= FRAME - rec.header

(* The frame may get no memory, and what comes of the send is not looked at. *)
WriteSyslog(rec) ==
    /\ sink = "syslog"
    /\ \/ memory = "short" /\ fate' = "dropped"
       \/ ~ Fits(rec) /\ fate' = "skipped"
       \/ Fits(rec) /\ fate' \in {"sent", "dropped"}
    /\ UNCHANGED ages

Records == {Record(runs, header) : runs \in Runs, header \in HEADERS}

(* A hit is logged, unless there is no memory for the record. *)
write_log ==
    /\ \/ memory = "short" /\ fate' = "dropped" /\ UNCHANGED <<ages, record>>
       \/ \E rec \in Records : record' = rec /\ (WriteFile \/ WriteSyslog(rec))
    /\ UNCHANGED <<sink, disk, memory, back>>

(* The clock is n seconds further. *)
Older(n) ==
    error_age' = AtMost(error_age + n, Never) /\ full_age' = AtMost(full_age + n, LongAgo)

(* A second passes (external). *)
Tick ==
    /\ Older(1)
    /\ since_alert' = AtMost(since_alert + 1, Never) /\ fate' = "none"
    /\ UNCHANGED <<sink, disk, memory, back, record>>

(* The clock is set forward, by any number of seconds (external). *)
SetForward ==
    /\ \E n \in 1 .. Never + MaxBack : Older(n)
    /\ UNCHANGED <<sink, disk, memory, since_alert, back, record, fate>>

(* The clock is set back (external). *)
SetBack ==
    /\ back < MaxBack
    /\ back' = back + 1 /\ error_age' = error_age - 1 /\ full_age' = full_age - 1
    /\ UNCHANGED <<sink, disk, memory, since_alert, record, fate>>

(* The disk fills up, breaks or recovers; memory runs short or not (external). *)
Outside ==
    /\ \/ disk' \in {"ok", "full", "broken"} \ {disk} /\ UNCHANGED memory
       \/ memory' \in {"ok", "short"} \ {memory} /\ UNCHANGED disk
    /\ UNCHANGED <<sink, ages, back, record, fate>>

LogNext == write_log \/ Tick \/ SetForward \/ SetBack \/ Outside

(* Time passes, and hits keep coming. *)
LogSpec == LogInit /\ [][LogNext]_log_vars /\ WF_log_vars(Tick) /\ WF_log_vars(write_log)

----------------------------------------------------------------------------
(* Properties                                                              *)

(* The escape loop ends with the request line, never at its guard; the     *)
(* record, its newline included, fits the buffer; and behind the longest   *)
(* header it fits a datagram, so that no hit is skipped for its length.    *)
RecordIsWhole ==
    /\ record.escaped = record.wanted
    /\ record.len + 1 <= record.cap \/ record.cap = 0
    /\ fate # "skipped"

(* A full disk or a broken file "surfaces a rate-limited ALERT instead of   *)
(* records vanishing unnoticed" (ngx_http_shield_write_log, file sink): no  *)
(* record is lost to the disk but an alert went out in the ALERT_GAP        *)
(* seconds before, or in that time and as long again as the clock has been  *)
(* set back.  Neither the rate limit, nor the back-off of a full second,    *)
(* nor a clock that is set forward or back in between makes it longer.      *)
(* It is a promise about failed writes only: a record for which there is no *)
(* memory, and one that the syslog server does not get, is dropped with no  *)
(* alert of the module.                                                     *)
LossIsAnnounced == fate = "lost" => since_alert <= ALERT_GAP + back

(* A file whose disk has recovered for good is written to again once there  *)
(* is memory for the records: the back-off ends (ngx_http_shield_write_log, *)
(* log_disk_full_time), however the clock was set.                          *)
LoggingResumes ==
    sink = "file" /\ <>[](disk = "ok" /\ memory = "ok") => []<>(fate = "sent")
=============================================================================
