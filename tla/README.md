# Formal models of ast-grep-essentials

This directory holds TLA+ models of the programs in this repository, the TLC
configurations that check them on small instances, and TLAPS proofs of the
properties that matter most for every instance.

## 1. The system

The repository is a pack of ast-grep rules (`rules/`, `tests/`, `utils/`: data, not
programs) together with the programs that guard it and the pinned corpus that the
promotion gate scans.

| Part | State it keeps | Operations | What is hard about it |
| --- | --- | --- | --- |
| Promotion, `ci/promote.py tag` | remote refs, tags and HEAD of each clone, the locals of each run | preconditions, gates, naming, signing, verifying | minutes pass between reading main and tagging; several reviewers and clones; incremental checking from an earlier tag; a failed or interrupted signature |
| Corpus gate, `ci/promote.py check` and `baseline` | `ci/baselines/promotion.json` | timed scans, comparison with the baseline, acknowledgements | thresholds and ratios at their boundary |
| Pull-request gate, `ci/validate_changed_rules.py` | the base and head trees, the worktree | which changed rule needs what, staging, tests | renames, deletions, fixtures without rules |
| Alias sync, `ci/sync_deprecated_aliases.py` | rule files | rewrite an alias from its target, `--check` | chains of aliases; the order of the pass |
| Host loadability, `ci/check_host_loadability.py` | a staged copy of rules and utils | collect, stage, load with the host's engine | paths that leave the tree; utility collisions |
| Shield request handler, `ngx_http_shield_module.c` | a context per request | ban check, structural checks, scans, body read, verdict | a body read suspends the handler and enters it again; an internal redirect clears the context; allocations fail |
| Shield tables, `ngx_http_shield_patterns.h` | constants | rows, masks, AND-rules | two passes with complementary masks; per-field masks |
| Shield scanner, `ngx_http_shield_scan.c` | two automata | build, normalise, scan | fail links flattened in place; words inside words; encodings |
| Shield text walks and ban key, `ngx_http_shield_module.c`, `ngx_http_shield_ban.c` | none | dotfile, media type, X-Forwarded-For | text that a client chooses; proxies that join lines or add one |
| Shield ban list, `ngx_http_shield_ban.c` | shared memory: a tree, an LRU queue, a resumable cursor | look up, record a hit, expire, is banned | a cursor into a queue that traffic reorders; a full slab; the clock stepping back |
| Shield configuration, `ngx_http_shield_module.c` | a configuration per block, the zones | directives, merge, start | a policy of six fields inherited over levels; blocks in any order |
| Shield hit log, `ngx_http_shield_module.c` | times of the last error and of the last full disk | escape, write, alert | a record that must fit its buffer; back-off and rate limit on a clock that is set back |
| Shield status endpoint and probe, `ngx_http_shield_module.c`, `ngx_shield_probe_hooks.c` | counters, an armed fault, in the zone | snapshot under one lock, list under another; arm, count, fail | the zone changes between the two locks; reload and resize |
| CAPE job store, `ci/corpus/mailstrix/internal/cape/store*.go`, `transitions.go`, `lifecycle.go` | durable jobs, payloads, tombstones, staging files | submit, reserve, record, terminate, clean up, recover | crashes between two file operations; late answers; duplicate submissions |
| CAPE scheduler, `scheduler*.go`, `callback.go` | in-memory attempts, a token bucket, a maintenance cursor | dispatch, request, persist, drain | a cancelled request whose effect is unknown; hints racing polls |
| Atomic file writes, `internal/atomicio/atomicio.go` | a file, its backup, a temporary file | write with backup | crash between rename and sync |

The shield files are in `ci/corpus/nginx-http-shield-module/src/`. The parts interact in
few places. The pull-request gate and the tag command read the same rules, fixtures and
controls; the corpus gate scans `ci/corpus/`, whose two programs are complete systems of
their own. In the shield, a request runs through configuration (once), ban key, ban
list, structural checks, scanner and tables, and on a hit through ban list, counters and
log; workers share nothing but the zone, which they lock for one call at a time.

What makes each modelled part correct:

- Promotion: a signed `reviewed-*` tag names a commit of main whose rules all have valid
  and invalid controls and unique ids, although each run checks only what changed since
  the last verified tag; a tag whose signature does not verify does not stay behind.
- Request handler: in block mode only requests without an attack in an enabled category
  pass, and none of which a buffer could not be scanned; a request is denied only for
  an attack or a ban; it is answered, and counted and logged once for each pass.
- Scanner: it finds exactly the signatures and rules that occur in the normalised text.
- Ban key: nothing a client writes decides who is counted.
- Ban list: a ban is served; a client that hits often enough is banned whatever
  the slab evicts; the queue, the tree and the cursor never disagree.
- Configuration: a location runs one directive's whole policy, the nearest one.
- Hit log: a record is whole, and a disk that fails is not silent for long.
- Status: the document is well formed and its counters are of one moment, whatever
  happens between the locks.

## 2. Modules

| Module | Models | Composes |
| --- | --- | --- |
| `Promotion` | `ci/promote.py tag`, lines 118-243, 458-490 and 561-690 | the command with git and its users |
| `ShieldTables` | the rows, masks and AND-rules of `ngx_http_shield_patterns.h` | |
| `ShieldAttack` | none: which requests are attacks, without scans or masks | extends `ShieldTables` |
| `ShieldPolicy` | none: the abstract specification of the shield | |
| `ShieldRequest` | `handler`, `body_handler`, `act`, `fail`, `inspect_*`, `collect_body` | extends `ShieldAttack`; requests, ban list and nginx; implements `ShieldPolicy` |
| `ShieldScan` | `ngx_http_shield_scan.c` | |
| `ShieldParse` | `check_dotfile` and the media-type tests | |
| `ShieldText` | `ban_addr` and `xff_last_token` | extends `ShieldParse`; client, proxies, module |
| `ShieldBan` | `ngx_http_shield_ban.c` and the calls to it | workers, zone and clocks |
| `ShieldConf` | the directives, `merge_loc_conf`, zones at start | extends `ShieldTables` |
| `ShieldLog` | `write_log` | module, disk and clock |
| `ShieldStatus` | `ban_status_handler`, `ban_init_zone`, `count_hit`, the probe hooks | workers of two configurations and the zone |
| `PromotionProofs`, `ShieldBanProofs`, `ShieldRequestProofs`, `ShieldConfProofs`, `ShieldScanProofs`, `ShieldTextProofs` | | each extends its component: proofs |
| `ShieldReportProofs` | | extends `ShieldLog` and `ShieldStatus`: proofs of both |
| `InductionLemmas` | | induction and recursion over naturals, sequences and finite sets, for the proofs |
| `MC...` | | instances for TLC |

Definitions that start with `Mut` (and a few in `Promotion` and `ShieldBan` named for the
mistake) are the code with a plausible mistake in it. They are in no specification; each
is there to show that a property notices the mistake.

### Promotion

The state is the repository (every commit with its tree and its ancestors, the remote's
main and tags, each clone's tags and HEAD) and, for each invocation of the command, its
program counter and locals. One action per read of the outside world: `Begin` (clean
tree, HEAD and main read), `ReadTagsFirst`, `RunChecks`, `RecheckMain`,
`ReadTagsAgain`, `NameTag`, `CreateTag`, `VerifyTag`, and `Kill`, the death of the
process anywhere. Everything else happens between these: `MakeCommit`, `PushMain`,
`Checkout`, `FetchTags`, `HandTag` and `PushTag` are git and its users, external to the
repository's code and modelled from how the command depends on them. Three assumptions
about them matter and are stated where they are made: main only moves forward, the
remote refuses to move a tag, and people push tags that verify or tags they made by
hand without a signature.

A tree maps each rule path to a rule file and its mirrored fixture, of which only the
id, the presence of valid and invalid cases, and identity for `git diff` are kept. The
engine's tests, the unit tests and the corpus gates may pass or fail. `Snapshots` are the
paths under a `__snapshots__` directory: `rule_files` counts a rule file there as a rule,
with its id, but `_as_rule` drops it from the rules that changed since a base, so its
controls are looked at only in a run without a base.

### ShieldBan

The zone is `node` (the tree, as a function from addresses to nodes), `ring` (the
`next` and `prev` links of the queue, kept as links so that removal and insertion can
go wrong), `cursor` and `bans`. A worker holds `lock` while it is in `expire`, whose
loop takes one action per iteration (`ExpireWrap`, `ExpireSkip`, `ExpireEvict`), and
whose end and what follows in `record_locked` is `Allocate` or `DropHit`. The other
calls under the lock are one action each: `Arrive` is the handler up to and including
`is_banned`, `RecordTracked` is `record` for an address that has a node, `RecordNew` the
beginning of `record` for one that has none. `NoHit` ends a request that matched no
signature. Between `Arrive` and the hit the request may wait for its body, so other
requests come in between. Each request is a "worker"; two requests in one process are
two workers whose clocks agree.

Time has two parts. `clock` is the wall clock, which ticks and, with `Steps`, steps
back. `cached[w]` is what `ngx_time()` returns in worker `w`: the time its event loop
stored last, read by the code before it waits for the lock. `TimeUpdate` brings it up to
date; `Lag` bounds how far it may fall behind. Times reach `TimeMax`, where
`time_add_clamp` saturates, and the counter of bans wraps.

Three history variables serve the properties and influence nothing: `until`, the furthest
deadline that any arming of the client gave, until the wall clock has passed it;
`recent`, the times of the hits recorded since the last ban, those under a live ban left
out; and `steps`, how far the wall clock was stepped back so far (at most `Steps`).

### ShieldRequest, ShieldAttack, ShieldPolicy

A request is a record of what the code distinguishes: the tokens in its path, its query
and across the `?`, its headers in order, the buffers of its body in memory or file. A
token is a category, of which some signature occurs, or a term of an AND-rule. `pc[r]`
is where the worker is between two calls that others can see: `Handler` (up to and
including `is_banned`), `Inspect` (all that precedes the body), `ReadBody` (nginx reads;
the request is suspended), `BodyHandler`, then `Record`, `Count` and `Respond` of `act`.
`ctx[r]` is the module context, which tells the handler entered again from the first
time. `Fail` is `ngx_http_shield_fail`; `MaxFaults` allocations or file reads fail.
`Redirect` is an internal redirect of nginx: `index` or `try_files` from the content,
`error_page` from a status that the module returned or a body that nginx refused. It
clears the contexts and runs the phases again, in the same location or in one of
`Pages`, with the path of that page; `unparsed_uri`, the headers and what there is of the
body stay, so a second inspecting location finds the same attack. `sent` is what the
clients will send, chosen at the beginning; `denials` is a history of the passes that a
hit denied in a location with a zone. The ban list is reduced to a count and a set of banned keys, which lapse
(`Lapse`), and a hit may be dropped for want of room; `ShieldBan` has the inside.

`ShieldAttack` defines which occurrence is an attack where, from the tables and the
list of fields alone. `ShieldPolicy` is the promise: requests open and close, in block
mode an attack does not pass, nothing is denied but attacks and banned clients, only an
open attack bans. `ImplementsPolicy` is the refinement: `open` is the pair of request and
configuration of a slot that is not idle, `state` is what `pc` says of the outcome, and
`banned` is `banned`.

### ShieldScan

`Size`, `Insert` (one word), `Seed`, `Dequeue` (one state) and `Built` construct first the
decoded, then the raw automaton; `Scan` normalises a text and runs both. Bytes are
numbers, output masks are sets. `nginx`'s `ngx_unescape_uri` is modelled by what it
does, broken escapes included. The code's loop over the 256 bytes of a row reads only
rows of shallower states, so `Dequeue` takes the row at once and keeps the order of the
queue. The instances have tables of their own; the shield's signature strings are data,
and the module is about any tables that satisfy three assumptions on them, which the
compiled-in ones do: a word is in lower case ("Store it LOWERCASE") and not empty,
`ngx_http_shield_categories[]` has one row for a category, and a rule has a term and
reports a category that has a row.

### ShieldParse and ShieldText

The walks are written with positions as in the code, and next to them what they must
find, without positions. A path, a media type or a list of header lines grows lexeme by
lexeme; the comparisons of the code never split a lexeme. `Write` is a client that
writes any X-Forwarded-For lines, `Relay` a proxy that joins them into one line and
appends the address it saw, or adds a line; `Key` is `ban_addr`.

### ShieldConf

`raw[l]` is what the directives of a block set, `conf[l]` the merged result; blocks are
http, server, location and an `if` inside it. One action per directive, with its checks
and its refusal; `shield_ban` is read argument by argument (`Ban`, `BanArg`, `BanEnd`).
`Start` merges and lets nginx check the zones.

### ShieldLog

The request line is a sequence of runs of bytes that escape to one, two or six; `Record`
is its bound, its escaping within the buffer and the length of the record, with the
constants of the code. Times are ages (`error_age`, `full_age`), which a clock that is
set back makes smaller, also negative, and one that is set forward larger
(`SetBack`, `SetForward`); `since_alert` is the time that really passed. The two remembered
seconds are fields of a location's configuration in each worker's memory: the module is
one location in one worker, and each such pair alerts for itself. `memory` and `disk` are
the world's (`Outside`). A record may be `lost` to a failed write, `skipped` because it does
not fit a datagram, or `dropped`: no memory for the record or for the frame, or a send
whose result the code does not look at.
The specification is `LogSpec`, so that one module can hold the proofs about the log and
about the status endpoint.

### ShieldStatus

`segs` are the shared segments, one per size of the zone; `at[w]` is the segment of a
worker's configuration. `FirstPass` and `SecondPass` are the two locked sections of the
status handler, with the allocation between them. `Insert`, `ArmBan`, `EndBan`, `Evict`
and `count_hit` are what requests do to the zone meanwhile; `fault_set`, `slab_alloc` and
`zone_render` are the probe. Lengths of entries and buffers are those of the code, and
each entry of a ban list has a width of its own.

## 3. Runs

| Run | Instance | Shows |
| --- | --- | --- |
| `promotion_clones` | two clones, two runs, two paths, two commits; one clone lacks its own key | `TypeOK`, `ReviewedHaveControls`, `ReviewedOnMain`, `UnverifiedIsTransient` |
| `promotion_race` | two runs in one clone | `OneReviewedTagPerCommit` is violated |
| `ban_evasion` | three clients, two requests in flight, room for two nodes, count 2, window 3, bantime 1 | `TypeOK`, `CursorLive`, `RingIntact`, `BanHolds`, `NoEvasion` |
| `ban_reload` | two clients, room for one node, three policies, lagging clocks, a step back, deadlines at the largest time | `BanHolds` |
| `ban_skew` | one client, two requests, a lag of one second | `WindowsMoveOn` is violated |
| `ban_reclaim` | four clients, one worker, room for three nodes | `EveryNodeExamined` is violated under fairness |
| `request_policy` | one request of some 350 shapes under five configurations, or two together under two: an attack in the target or a quiet one, and an attack in the body; one fault, one redirect each (into the same or another location), one lapse | `TypeOK`, `BlockFailsClosed`, `BlockedAddsUp`, `OneRecordPerPass`, `ImplementsPolicy`, `Answered`, `HandledOnItsMerits` |
| `scan_exact` | 512 tables over two letters with every text of four, one table with 3700 encoded texts | `InBounds`, `FailIsFlat`, `ScanIsExact`, `EncodingHidesNothing`, `BuildEnds` |
| `text_walks` | paths of seven lexemes, media types of five (malformed ones too), two header lines, two proxies | `DotfileExact`, `ScannableExact`, `KeyIsNearestPeer`, `LastTokenExact` |
| `conf_levels` | every file of three directives | `PolicyIsOneDirective`, `NearestWins`, `PolicyIsSound`, `DirectivesStick` |
| `log_sink` | two runs of bytes of every width around the limit; a disk that fills, breaks, recovers; memory that runs short; two steps back, any forward | `RecordIsWhole`, `LossIsAnnounced`, `LoggingResumes` |
| `status_observers` | two workers, three nodes, two bans of two widths, a resize, a fault at the second allocation | `DocumentCloses`, `ListIsComplete`, `CountersAgree`, `NthFails`, `CountersGrow` |

What the properties say:

- `ReviewedHaveControls`: every rule of a commit with a verified tag has an id of its own
  and, unless it lies under `__snapshots__`, controls. It is the soundness of the incremental check, which looks only at
  what differs from the newest verified ancestor tag. `ReviewedOnMain`: that commit is
  in the history of main, although main moves while the gates run.
  `UnverifiedIsTransient`: a signed tag that does not verify in its clone is there only
  while its run is about to verify it, or because that run was killed.
- `CursorLive`: neither the cursor between calls nor the walk's position points to a
  freed node. `RingIntact`: `next` and `prev` are inverse, and the walk along `prev`
  reaches the sentinel from every node of the tree. `BanHolds`: until the furthest
  deadline a client was given, less what re-arming can take off, every worker finds the
  client banned. An arming sets `banned_until` whatever it was, so a worker whose time
  lags, a clock stepped back or a policy with a shorter bantime moves the deadline of a
  live ban forward; what is taken off is at most the lag, twice the seconds stepped back
  and the difference of the bantimes. Under one policy and with clocks that agree it is
  nothing. `NoEvasion`: under one policy, `2 * count - 1`
  hits in less than a window lead to a ban. A fixed window cannot promise `count`; the
  bound is what is left when the window rolls in the middle of the series. Hits recorded
  while a ban is live are not among them. The code's comment calls that path defensive;
  requests that were in flight when the ban was armed take it. Their hits start a count
  in a node that becomes evictable when the ban lapses, so they can be lost: with them
  counted, the promise fails for three workers and a ban longer than the window.
- `BlockFailsClosed`: no location in block mode serves a request that is an attack there or
  of which it left a buffer unscanned. `ImplementsPolicy`: the refinement of `ShieldPolicy`.
  `BlockedAddsUp`: the zone's counter is the number of passes denied for a hit, once
  each; a denied request that `error_page` sends to another inspecting location is denied,
  counted and logged there again. `OneRecordPerPass`: a request leaves at most one record for each time nginx
  sends it through the phases. `Answered`: every request that reaches the phase ends.
  `HandledOnItsMerits`: a request with a hit ends denied in block mode and served in
  detect mode, whatever bans are armed meanwhile; only an internal redirect may change
  that for a detected request.
- `InBounds`: no state number leaves the arrays and no state is queued twice.
  `FailIsFlat`: the fail state of a dequeued state was dequeued before. `ScanIsExact`:
  the automata report what a search without an automaton reports.
  `EncodingHidesNothing`: what is found in a plain text is found in its encoded,
  upper-case and plus forms, and the decoded copy fits its buffer. `BuildEnds`: the
  construction ends.
- `DotfileExact`, `LastTokenExact`: the walks agree with definitions by segments and by
  split. `ScannableExact`: a well-formed Content-Type is scanned exactly when its media type,
  the one token before blanks and parameters, is textual. With junk behind the token the
  two ends decide: `application/json garbage` is not scanned, as the comment at
  `content_type_is` wants it, `application/zip +json` is, and `text/` always is. `KeyIsNearestPeer`: the ban key is the peer, or whom
  a trusted peer accepted the request from.
- `PolicyIsOneDirective`: all six fields of a ban policy come from one directive, the
  nearest. `NearestWins`: the same for the other directives, `shield_log off` included.
  `PolicyIsSound`: a running server keys on a forwarded header only with trusted proxies
  and bans only into zones of sufficient size, and every zone that an endpoint's directive
  named exists. `DirectivesStick`: no directive takes back an earlier one of its block.
- `RecordIsWhole`: the escape loop never stops at its guard, the record fits its buffer
  and a datagram. `LossIsAnnounced`: a write of a record fails only within the gap
  of the rate limit after an alert, longer by as much as the clock was set back. It says
  nothing of dropped records, of which the module leaves no trace. `LoggingResumes`: a
  file whose disk has recovered is written to again.
- `DocumentCloses`: the two closing brackets always fit. `ListIsComplete`: a banned
  address is left out only if there are more bans at the second lock than nodes at the
  first. `CountersAgree`: no document reports more blocked than hit. `CountersGrow`: no
  counter of a segment goes back, through a reload neither. `NthFails`: an armed fault
  fails the nth allocation counted over all workers, and no other.

Disagreements between comments and code, each shown by a run that must fail:

- `promotion_race`. "Require HEAD == remote branch with no reviewed tag": the tags are
  read before the tag is named and created, so two runs in one clone both find none and
  put two tags on one commit.
- `ban_skew`. "`now < window_start` can only happen if the wall clock was stepped
  backward": it also happens when a worker whose cached second is older records after
  one whose second is newer. The hits counted so far are forgotten. For the same reason
  `NoEvasion` is checked where the workers agree on the time (`Lag = 0`); with a lag of
  one it does not hold.
- `ban_reclaim`. "the walk is cyclic and every node is eventually examined": requests of
  banned clients move their nodes in front of the cursor. When `SCAN` or more are moved
  between two calls, the walk never wraps; the stale node at the tail stays, and the
  hits of a new client are dropped because the slab is full. The counterexample's clock
  stands still only because it is bounded: the clients in front of the cursor may as
  well be banned again whenever their bans lapse.

Some properties are weaker than a comment or docstring of the code would have them,
because the code is:

- `ReviewedHaveControls`: `promote.py` says at its head that every rule added or changed
  since the previous tag has controls; those under `__snapshots__` need not.
- `BanHolds`: record's comment has a hit under a live ban "extend rather than reset the
  window"; with several policies or clocks that differ it can shorten the ban. Hits that
  requests in flight record under a live ban may also be lost (`NoEvasion`).
- `HandledOnItsMerits`, `OneRecordPerPass`, `BlockedAddsUp`: after an internal redirect a
  detected request may be cut off by the ban it armed itself, and each pass leaves a record
  and a count of its own.
- `LossIsAnnounced`: the gap without an alert grows by what the clock was set back, and
  records for which there is no memory, or which the syslog send loses, go unannounced.
- `ScannableExact`: junk that ends in `+json` or `+xml` makes any application type textual.

### Bounds

Two paths and two commits let a rule lose its controls on a side branch, get merged,
and be hidden behind a tag. Two tags per clone let a hand-made tag be newer than a
verified one. For the ban list, three clients for two nodes make every insertion at the
limit evict or be dropped; `SCAN = 2`, `EVICT = 1` let either budget end the walk, on a
live node, behind a freed one or on the sentinel. `MaxClock`, `HistoryLen`, `MaxCommits`,
`MaxTags`, `HandNs`, `Steps` and `Lag` are the only bounds of these two that the code does not
have. In `ban_reload` two of the three policies arm at the first hit, with different
bantimes, so a request in flight re-arms a live ban with an earlier deadline; one of the
two paths of `Promotion` lies under `__snapshots__`. Addresses and workers are symmetric.

In `ShieldRequest`, one failure is enough to follow every error path, and two requests to
have one suspended in its body read while the other arms a ban. `MaxRedirects = 1`
enters the handler again, also after a denial and in a location of another mode (`Pages`); `MaxLapses = 1` lets a ban end between. Bodies have two buffers of up
to two blocks around limits of one to three blocks. In `ShieldScan`, words of up to three
letters contain, overlap and repeat each other, and a limit of 16 states makes some
tables too large. In `ShieldText`, seven lexemes hold the exempt segment, a second
dotfile and their slashes (`.wk` stands for `.well-known`); two lines and two proxies
give every order of forged and true addresses. Three directives in `ShieldConf` set one
field at each level, or a zone, a policy and an endpoint. `ShieldLog` has the code's sizes
and `ALERT_GAP = 2` in place of 59; `MaxBack = 2` sets the clock back by as much as the gap; a step
forward may make every remembered second as old as can be told apart.
In `ShieldStatus` two bans on a document sized for none overflow the list; `MaxAllocs = 3`
goes one allocation beyond the fault.

`CHECK_DEADLOCK FALSE` is set where a behaviour ends because a bound is used up:
commits and tags in `Promotion`, lexemes and proxies in `ShieldText`, directives in
`ShieldConf`.

### Fairness

`ban_reclaim`: a worker in `expire` finishes it (the loop is bounded and the lock is its
own); a request that arrived is inspected to its end; and clients that have no node keep
sending requests, some of which hit: this is the comment's own premise, that expire is
called again and again. Nothing is assumed of the clock.

`ShieldRequest`: each request's worker goes on (`Work(r)`). The module never blocks, and
nginx ends a body read that the client does not complete (`client_body_timeout`).
Arrivals, redirects and lapses are not fair. `ShieldScan`: the build goes on; it is one
function call at start. `ShieldLog`: time passes, and hits keep coming, which is what
`LoggingResumes` is about; nothing is assumed of the disk.

## 4. Proofs

`tlapm` checks the proof modules for every value of the constants that satisfies the
named assumptions: any number of clones, workers, requests, nodes and categories, any
request, any configuration file, any request line, any signature table and text. Each
inductive invariant was first checked with TLC on the instance of its run (that of
`ShieldScanProofs` with the labels of the states computed from the words, because it says
only that labels exist).

| Module | Theorems | Invariant |
| --- | --- | --- |
| `PromotionProofs` | `TypeCorrect`, `ReviewedControlled`, `ReviewedMerged`, `UnverifiedRemoved` | `IInv`, `UInv` |
| `ShieldBanProofs` | `BanTypeCorrect`, `QueueIntact`, `CursorNeverDangles`, `BansServed`, `BansServedInFull`, `NeverEvaded` | `BInv`, `EInv` |
| `ShieldRequestProofs` | `RequestTypeCorrect`, `FailsClosed`, `BlockedCounts`, `RecordedOnce`, `PolicyImplemented` | `RInv` |
| `ShieldConfProofs` | `OnePolicy`, `NearestLevel`, `SoundPolicy`, `Sticks` | `CInv` |
| `ShieldReportProofs` | `RecordWhole`, `LossAnnounced`; `DocumentClosed`, `ListComplete`, `CountersOfOneMoment`, `NthFailsOnly`, `CountersOnlyGrow` | `AInv`; `SInv` |
| `ShieldScanProofs` | `BuildIsSound`, `ArraysAreLargeEnough`, `FailStatesAreFlat`, `ScansAreExact`, `EncodingIsSeenThrough` | `BuildInv`, `ScanInv` |
| `ShieldTextProofs` | `NearestPeerKeyed`, `LastTokenFound`, `DotfilesFound`, `TextualScanned` | `KInv` |

**Promotion.** `IInv` adds to the properties that ancestry is reflexive and transitive
(`AncestryOk`), that from its checks on a run's head is a reviewable commit of main
(`RunOk`), and that each signed tag, local or published, is on a reviewable commit of
main (`TagOk`). The heart is that the base of the incremental check was itself
reviewable, so a rule equal to the base's rule needs no check of its own; a rule under
`__snapshots__` is not among those that reviewable commits vouch for. For
`UnverifiedRemoved`, `UInv` adds what makes the property survive fetches: a tag that is
published, or that another clone holds, verifies in the clone of its signer.

**Ban list.** `RemoveRing` and `InsertRing` show that the two queue operations turn a ring
through a set of nodes into a ring through the set without or with the node; a ring is
stated without induction, as links that are inverse and no set of nodes closed under
`prev`. `BInv` adds `Locking` (only the lock holder is in expire, for an address that has
no node), `Clocks` (a cached time is behind the clock by at most `Lag`, ahead of it by at
most what was stepped back) and `Deadlines`: the furthest deadline of a client is within
one bantime of the clock and the steps, and either the node holds a deadline that is short
of it by no more than `Owed` grants (or is saturated), or no more than that is left of it.
An arming keeps this because its deadline is the arming worker's time plus a bantime; an
eviction because the node's own deadline had passed for the worker that evicts. With
one policy and one time the allowance is nothing, which is `BansServedInFull`.

`NeverEvaded` assumes what its run fixes: the workers agree on the time (`OneTime`) and one
policy judges every hit (`OnePolicy`). `EInv` relates the history of a client's hits to its
node: only the hits the node counts are later than the start of its window, and of the
others all but `count - 1` precede that start by a window (`Counts`); of the hits of a client
without a node all but `count - 1` are a window old (`Gone`). A node is evicted when its
window has passed, or with a ban that has lapsed and no hit remembered, and either way
the one carries over to the other. Trying the proof showed the promise false as it stood before, with the hits under
a live ban counted.

**Request handler.** The first half of the module says what the scans find, for every
request: `UriScansReport`, `HeaderScansReport` and `StructuralReports` that the order of the
scans, the two masks over the target and the masks of each field report exactly what
`ShieldAttack` calls an attack there; `CollectedTokens` and `BodyReports` the same of a
body that is cut into buffers, in memory or file, up to the limit. The last two are by
induction over the buffers. `RInv` relates the program counter, the context and the hit
in hand of each request to what it is (`Progress`), says that in block mode a request
goes on only while nothing was found and nothing was lost (`Blocking`), and that a pass
under way has no record yet (`Recording`) and is among the denials only once it has ended
so (`Passes`). Each is needed: without what the context holds,
the handler that is entered again after the body could let anything pass. Every action
changes one slot, so `Alone` reduces a step to that slot and to what it adds to the
counter. `PolicyImplemented` maps each action to a step of `ShieldPolicy` or to a stutter,
under `RInv`.

`RequestAssumption` types the requests and the locations that arrive; an empty slot is
not a request. `LengthAssumption` says that nginx reads no more of a body than its
Content-Length announces; the module relies on it where it tests the length before it
decides to read a body.

**Configuration.** `CInv` says that a level has no ban policy or a whole and sound one
(`PolicyOf`), that the two log sinks are set together, that a zone is large enough or not
defined, that the line being read is of a level without a policy, and that a running
server has the merged configuration and no zone of size zero. `NearestLevel` is about
three merges in a row, for each kind of field: a scalar, a group that is inherited
whole, and a set. `ConfAssumption` keeps the two markers of the code, unset and null,
apart from values.

**Hit log.** `AInv` relates the two ages, the time that really passed and the seconds the
clock was set back; `since_alert <= ALERT_GAP + back + full_age` is why a back-off that
began within the gap ends within it. `RecordWhole` is by induction over the request
line: of what is bounded to `LINE_MAX` bytes each byte takes at most six, so the loop's
guard is never met. `SizesAssumption` has the two inequalities of the code's comments,
which TLC evaluates with the code's numbers: the slack holds the fixed text, and the
longest record behind the longest header fits a datagram.

**Status.** `SInv` says of each segment that the armed counter is the number of
allocations since the arming, that the fault has struck if its turn has come, and that
`blocked` is at most the sum of the hits; and of a worker between the two locks that
its copy satisfies the last. `WalkCloses` and `WalkComplete` are by induction over the
entries: the walk takes an entry only into a reservation for a whole one, so what is
left never falls below the brackets, and as many entries as were reserved for all fit.
`TotalBumps` is by induction over the categories: the sum, which the model takes by a
fold over any choice of order, grows by one with a hit. `StatusAssumption` has the widths
of an entry within its reservation less the brackets, as the code's comment reckons.

**Text walks.** Each walk is first given the positions where it stops, which exist by the two
lemmas `LastStop` and `FirstStop`; that positions with these properties are unique then
makes the walk and the definition by split, segment or media type agree, for texts of
any length. The dotfile loop is a recursive function: `Ahead` says in closed form what it
reports from a position on, `TurnIs` that a turn is right if those behind it are, the jump
over the exempt segment included, and `WalkFinds` concludes from the end of the path
backwards. `DotfileExact` needs that the exempt segment has no slash (`ParseAssumption`),
`ScannableExact` that no type of the list holds a semicolon or a blank: `CutIs` places the
token, the trimmed end and the parameters of any value, and `StrayIs` shows that the token
is all the walks look at unless a blank stands inside. `KInv`
says that the last line of a relayed request ends with the address its last proxy noted,
whichever way it noted it, and that a request no proxy relayed comes from no proxy;
`NotedToken` that the walk takes just that address. `TextAssumption` has what makes the
theorem true at all: trusted addresses are those of proxies, and no address reads as a
comma or a blank.

**Scanner.** A state stands for the word that leads to it, its label (`Labels`); labels are
not in the code, so the invariant says that some labelling exists. Where the automaton
must go on a byte is then a statement about labels: to the longest one that ends there
(`Longest`, `Goes`), and a fail link to the longest one that ends the label and is not the
label (`Link`). The algebra of the first part carries the construction: the longest label
after a byte is a child of the state before it, or where its fail state goes (`GoesLink`);
a child's fail link is where its parent's fail state goes (`LinkChild`); and the words that
end a label are the label itself and those that end its fail state's (`LinkAll`).

`BuildInv` has a part for each phase of `ac_build`. While words are inserted (`TrieAt`) the
rows lead to the children and to nothing else, a state accepts the words that are its
label, and the number of states is at most one more than the bytes inserted so far: this
is why the allocation counted beforehand suffices. During the breadth-first pass (`BfsAt`)
the rows of the states that left the queue go where they must and the others are still
those of the trie (`Rows`); what was queued has its link and all outputs (`Linked`,
`Output`); and the queue is in the order of depth, spans two levels, and holds exactly
the children of what left it (`Order`). The order is what makes the pass right at all: a
fail state is less deep than its state, so it has left the queue (`Shallow`, `HeadLink`),
its row is flat when a child's link or a missing transition is taken from it, and its
outputs are complete when a child takes them over. At the end nothing is left out,
because a state that never left would have an ancestor in the queue (`AllLeft`). The
finished automata (`Automaton`) are part of the invariant from then on.

`StatesLongest` follows a scan byte by byte, `ScanFinds` draws the conclusion for `ac_scan`:
the first accepting state, the best row and the complete rules are those of a search
that knows no automaton. `ScanInv` says so of the buffer scanned last.
`EncodingIsSeenThrough` needs three facts about `ngx_unescape_uri`: it leaves a text without
`%` alone, takes back every escape of an encoded one (by induction over the escapes,
for every byte value), and never writes more than it reads. `WantedLower` is where the
assumption that words are in lower case is used. The theorems rest on `BytesAssumption`,
`TablesAssumption` and `TextsAssumption`, which TLC evaluates on the run's 513 tables: a text
is a sequence of bytes, and the tables are as the section on the module says. Nothing is
assumed of `MAX_STATES` and `MAX_TERMS` but that they are numbers: the code refuses tables
that exceed them.

The library's induction theorems take a predicate as a parameter, which the provers
cannot instantiate. `InductionLemmas` states induction over *sets* of naturals instead,
from the well-foundedness of `<`, and from it recursion over naturals (`Recursion`),
over sequences (`FlattenSteps`) and over finite sets (`SetRecursion`), each with the step
as a function. A recursive function or a fold of a model is shown to be the one that these
lemmas give, and the rest is arithmetic.

In proving, a `CASE` with guards that overlap turned out to mean less than TLC makes of
it: the value is that of some arm whose guard holds, where TLC takes the first. The
handler's and the unescaper's alternatives are therefore written with guards that
exclude each other, in the order of the code.

### Only model-checked

- What is eventually done: `Answered`, `HandledOnItsMerits`, `LoggingResumes`, `BuildEnds`.
  Liveness under fairness is out of the prover's reach.
- The three properties that the code does not have, which are refuted by their runs.

## 5. Not modelled

- `promote.py check` and `baseline`, the pull-request gate, the alias sync and host
  loadability: sequential scripts over files. `Promotion` lets the gates pass or fail
  freely, so what it shows does not depend on them.
- The CAPE service and the atomic files of `ci/corpus/mailstrix`: a Go program of its own,
  whose durable store deserves the same treatment as the shield's zone.
- The signature strings (data), which of several categories in one buffer wins inside
  `ShieldRequest` (`ShieldScan` has it), and paths of a redirect other than those of `Pages`.
- `check_ctrl_char`, which tests each byte alone, is its outcome.
- A v4-mapped IPv6 address, which is another ban key than its IPv4 address; addresses
  are abstract.
- Which configuration nginx gives a request. Under a taken `if` block nginx keeps the
  location's content handler, and the block's configuration has no `status_zone` (it is not
  merged): the status handler would dereference NULL there (`ngx_http_shield_module.c:2434`).
  So no property says that a handler finds its zone; `PolicyIsSound` is about the zones
  that directives named.
- A short write to the log, which leaves part of a record in the file.
- The rebalancing of the red-black tree (nginx core), and a worker that is killed while
  it holds the lock (nginx's master process releases it; it is not in this repository).
- Rendering of HTTP answers and of the status document's head. Rules, tests and
  utilities: data. Workflows: straight-line scripts.

## 6. Plan

1. `Promotion`, `ShieldBan` and their proofs: done.
2. The shield module around its ban list, with the abstract policy it implements: done.
3. Proofs of the request handler and its refinement, the configuration, the hit log and
   the status endpoint: done.
4. Proofs of the text walks, of `NoEvasion` and of the scanner: done. Every safety property
   of a passing run is a theorem.
5. The CAPE job store: versions, payload files, a crash at each point of an operation,
   recovery, against the abstract life of one job.
