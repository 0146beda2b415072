----------------------------- MODULE Promotion -----------------------------
(***************************************************************************)
(* `ci/promote.py tag`: how a commit of the rule pack becomes "reviewed".  *)
(*                                                                         *)
(* Reviewers work in clones of one repository.  Each invocation of the     *)
(* command (a "run") reads the remote and its clone several times, spends  *)
(* minutes in the gates, and ends by creating a signed annotated tag in    *)
(* its clone.  Nothing locks the remote or the clone meanwhile: pushes,    *)
(* fetches, checkouts, hand-made tags and other runs interleave freely.    *)
(* git itself and the operators who use it are external.                   *)
(***************************************************************************)
EXTENDS Naturals, Sequences, FiniteSets

CONSTANTS
    Rules,      \* rule paths (a rule and its mirrored fixture share one path)
    Snapshots,  \* those of them with a directory __snapshots__ in the path
    Entries,    \* what a commit may hold at a path, see EntryShape
    Clones, Runs, CloneOf,
    Keyring,    \* Keyring[c]: the signers whose tags `git tag -v` accepts in c
    Dates,      \* values of --date, numbers that order as YYYYMMDD does
    MaxN,       \* largest N that TAG_RE accepts (999999 in the code)
    HandNs,     \* numbers that hand-made tags may use
    MaxCommits, \* bound: commits in the repository
    MaxTags,    \* bound: tags per clone
    NoFile, NoId, NoSigner

(* A path holds a rule file and a fixture, either of which may be missing. *)
EntryShape ==
    { e \in Entries :
        /\ DOMAIN e = {"rule", "fixture"}
        /\ e.rule # NoFile => DOMAIN e.rule = {"id", "body"}
        /\ e.fixture # NoFile => DOMAIN e.fixture = {"id", "valid", "invalid"} }

ASSUME EntriesAssumption == Entries = EntryShape
ASSUME SnapshotsAssumption == Snapshots \subseteq Rules
ASSUME ClonesAssumption ==
    /\ CloneOf \in [Runs -> Clones]
    /\ Keyring \in [Clones -> SUBSET Clones]
    /\ NoSigner \notin Clones
ASSUME NumbersAssumption ==
    /\ Dates \subseteq Nat \ {0}
    /\ MaxN \in Nat \ {0}
    /\ HandNs \subseteq Nat \ {0}
    /\ MaxCommits \in Nat \ {0}
    /\ MaxTags \in Nat

VARIABLES
    commits,    \* every commit: its tree and its ancestors, itself included
    main,       \* the commit refs/heads/main of the remote points to
    remoteTags, \* refs/tags/reviewed-* of the remote
    tags,       \* tags[c]: refs/tags/reviewed-* of clone c
    HEAD,       \* HEAD[c]: the commit checked out in clone c
    run         \* run[r]: where run r of the tag command is, and its locals

vars == <<commits, main, remoteTags, tags, HEAD, run>>

Tree == [Rules -> Entries]
CommitIds == 1 .. MaxCommits
Commit == [tree : Tree, anc : SUBSET CommitIds]
Tag == [date : Dates, n : Nat \ {0}, commit : CommitIds,
        signer : Clones \cup {NoSigner}]
RunState ==
    [pc : {"idle", "tags1", "check", "main2", "tags2", "name", "create",
           "verify", "killed"},
     head : CommitIds \cup {0}, today : Dates \cup {0}, n : Nat,
     published : SUBSET Tag]

Idle == [pc |-> "idle", head |-> 0, today |-> 0, n |-> 0, published |-> {}]

TypeOK ==
    /\ commits \in Seq(Commit)
    /\ Len(commits) \in CommitIds
    /\ main \in DOMAIN commits
    /\ remoteTags \subseteq Tag
    /\ tags \in [Clones -> SUBSET Tag]
    /\ HEAD \in [Clones -> DOMAIN commits]
    /\ run \in [Runs -> RunState]

----------------------------------------------------------------------------
(* Rules and controls                                                      *)

(* rule_files: the paths of a tree that hold a rule. *)
rule_files(tree) == { p \in Rules : tree[p].rule # NoFile }

(* rule_ids raises on a rule without a string id and on a duplicate id. *)
RuleIdsOk(tree) ==
    /\ \A p \in rule_files(tree) : tree[p].rule.id # NoId
    /\ \A p, q \in rule_files(tree) :
          tree[p].rule.id = tree[q].rule.id => p = q

(* control_problem: a rule lacks its valid and invalid controls. *)
control_problem(e) ==
    \/ e.fixture = NoFile
    \/ e.rule.id = NoId
    \/ e.fixture.id # e.rule.id
    \/ ~ e.fixture.valid
    \/ ~ e.fixture.invalid

----------------------------------------------------------------------------
(* Tags                                                                    *)

SameName(t, u) == t.date = u.date /\ t.n = u.n

(* TAG_RE accepts N in 1..MaxN; reviewed_tags drops every other name. *)
reviewed_tags(names) == { t \in names : t.n \in 1 .. MaxN }

(* reviewed_tags sorts by (date, N): t comes after u. *)
Newer(t, u) == t.date > u.date \/ (t.date = u.date /\ t.n > u.n)

(* An annotated tag whose signature `git tag -v` accepts in clone c. *)
verified_tag(c, t) == t.signer \in Keyring[c]

(* Mutant of previous_tag: any reachable tag bounds the review. *)
PreviousTagUnverified(c, rev) ==
    LET merged == { t \in reviewed_tags(tags[c]) : t.commit \in commits[rev].anc }
    IN  { t \in merged : \A u \in merged : ~ Newer(u, t) }

(* previous_tag: the newest verified tag of the clone that is reachable    *)
(* from rev, as a singleton; empty when there is none.                     *)
previous_tag(c, rev) ==
    LET merged == { t \in reviewed_tags(tags[c]) :
                      /\ t.commit \in commits[rev].anc
                      /\ verified_tag(c, t) }
    IN  { t \in merged : \A u \in merged : ~ Newer(u, t) }

(* changed_rules: the rules of rev whose rule file or fixture differs from *)
(* base; every rule when base is empty.  With a base, _as_rule drops the   *)
(* paths with a __snapshots__ directory, which rule_files does not.        *)
changed_rules(rev, base) ==
    { p \in rule_files(commits[rev].tree) :
        \A t \in base :
           /\ p \notin Snapshots
           /\ commits[t.commit].tree[p] # commits[rev].tree[p] }

(* Mutant of next_tag_name: the largest N used today, 0 when there is none. *)
NextTagNameNoIncrement(names, today) ==
    LET used == { t.n : t \in { u \in reviewed_tags(names) : u.date = today } }
    IN  { n \in used \cup {0} : \A m \in used : m <= n }

(* next_tag_name: the N after the largest one used today. *)
next_tag_name(names, today) ==
    LET used == { t.n : t \in { u \in reviewed_tags(names) : u.date = today } }
    IN  { n \in 1 .. MaxN + 1 :
            /\ \A m \in used : m < n
            /\ n = 1 \/ n - 1 \in used }

----------------------------------------------------------------------------
(* The repository and its operators (external)                             *)

Init ==
    /\ commits \in { <<[tree |-> t, anc |-> {1}]>> : t \in Tree }
    /\ main = 1
    /\ remoteTags = {}
    /\ tags = [c \in Clones |-> {}]
    /\ HEAD = [c \in Clones |-> 1]
    /\ run = [r \in Runs |-> Idle]

(* A commit on top of HEAD that changes one path; it may also merge main. *)
MakeCommit(c, merge) ==
    /\ Len(commits) < MaxCommits
    /\ \E p \in Rules, e \in Entries :
          LET new == Len(commits) + 1
              old == commits[HEAD[c]]
          IN  /\ e # old.tree[p]
              /\ commits' = Append(commits,
                    [tree |-> [old.tree EXCEPT ![p] = e],
                     anc |-> {new} \cup old.anc
                             \cup (IF merge THEN commits[main].anc ELSE {})])
              /\ HEAD' = [HEAD EXCEPT ![c] = new]
    /\ UNCHANGED <<main, remoteTags, tags, run>>

(* main only moves forward: the remote refuses other pushes to it. *)
PushMain(c) ==
    /\ main \in commits[HEAD[c]].anc
    /\ main # HEAD[c]
    /\ main' = HEAD[c]
    /\ UNCHANGED <<commits, remoteTags, tags, HEAD, run>>

Checkout(c) ==
    /\ \E k \in DOMAIN commits : k # HEAD[c] /\ HEAD' = [HEAD EXCEPT ![c] = k]
    /\ UNCHANGED <<commits, main, remoteTags, tags, run>>

(* A tag of the same name that the clone already has is kept. *)
FetchTags(c) ==
    LET new == { t \in remoteTags : \A u \in tags[c] : ~ SameName(t, u) }
    IN  /\ new # {}
        /\ tags' = [tags EXCEPT ![c] = @ \cup new]
        /\ UNCHANGED <<commits, main, remoteTags, HEAD, run>>

(* A lightweight or unsigned tag that nobody checked. *)
HandTag(c) ==
    /\ Cardinality(tags[c]) < MaxTags
    /\ \E d \in Dates, n \in HandNs :
          LET t == [date |-> d, n |-> n, commit |-> HEAD[c], signer |-> NoSigner]
          IN  /\ \A u \in tags[c] : ~ SameName(t, u)
              /\ tags' = [tags EXCEPT ![c] = @ \cup {t}]
    /\ UNCHANGED <<commits, main, remoteTags, HEAD, run>>

(* Operators push what the command told them to push, a verified tag, and  *)
(* hand-made tags; the remote refuses to move a tag it has.                *)
PushTag(c) ==
    /\ \E t \in tags[c] :
          /\ t.signer = NoSigner \/ verified_tag(c, t)
          /\ \A u \in remoteTags : ~ SameName(t, u)
          /\ remoteTags' = remoteTags \cup {t}
    /\ UNCHANGED <<commits, main, tags, HEAD, run>>

----------------------------------------------------------------------------
(* The tag command                                                         *)

Goto(r, pc) == run' = [run EXCEPT ![r].pc = pc]
Stop(r) == run' = [run EXCEPT ![r] = Idle]

(* tag: the tree is clean, HEAD is read and equals the remote branch. *)
Begin(r) ==
    /\ run[r].pc = "idle"
    /\ HEAD[CloneOf[r]] = main
    /\ \E d \in Dates :
          run' = [run EXCEPT ![r] = [pc |-> "tags1", head |-> main, today |-> d,
                                     n |-> 0, published |-> {}]]
    /\ UNCHANGED <<commits, main, remoteTags, tags, HEAD>>

(* tag_preconditions: well-formed tags, local or published, on head. *)
already(r) ==
    { t \in reviewed_tags(tags[CloneOf[r]] \cup remoteTags) :
        t.commit = run[r].head }

ReadTagsFirst(r) ==
    /\ run[r].pc = "tags1"
    /\ IF already(r) = {} THEN Goto(r, "check") ELSE Stop(r)
    /\ UNCHANGED <<commits, main, remoteTags, tags, HEAD>>

(* run_checks on the exported head.  The engine's tests, the unit tests    *)
(* and the corpus gates may pass or fail; the rule ids and the controls    *)
(* are computed.                                                           *)
ChecksPass(r) ==
    LET head == run[r].head
        tree == commits[head].tree
        base == previous_tag(CloneOf[r], head)
    IN  /\ RuleIdsOk(tree)
        /\ \A p \in changed_rules(head, base) : ~ control_problem(tree[p])

RunChecks(r) ==
    /\ run[r].pc = "check"
    /\ \/ ChecksPass(r) /\ Goto(r, "main2")
       \/ Stop(r)
    /\ UNCHANGED <<commits, main, remoteTags, tags, HEAD>>

(* The second tag_preconditions: the remote may have moved meanwhile. *)
RecheckMain(r) ==
    /\ run[r].pc = "main2"
    /\ IF main = run[r].head THEN Goto(r, "tags2") ELSE Stop(r)
    /\ UNCHANGED <<commits, main, remoteTags, tags, HEAD>>

ReadTagsAgain(r) ==
    /\ run[r].pc = "tags2"
    /\ IF already(r) = {}
         THEN run' = [run EXCEPT ![r].pc = "name", ![r].published = remoteTags]
         ELSE Stop(r)
    /\ UNCHANGED <<commits, main, remoteTags, tags, HEAD>>

NameTag(r) ==
    /\ run[r].pc = "name"
    /\ \E n \in next_tag_name(tags[CloneOf[r]] \cup run[r].published,
                              run[r].today) :
          run' = [run EXCEPT ![r].pc = "create", ![r].n = n,
                             ![r].published = {}]
    /\ UNCHANGED <<commits, main, remoteTags, tags, HEAD>>

(* Mutant of NewTag: git tag without a commit argument tags HEAD. *)
NewTagAtHEAD(r) ==
    [date |-> run[r].today, n |-> run[r].n, commit |-> HEAD[CloneOf[r]],
     signer |-> CloneOf[r]]

(* The tag that `git tag -s` creates. *)
NewTag(r) ==
    [date |-> run[r].today, n |-> run[r].n, commit |-> run[r].head,
     signer |-> CloneOf[r]]

(* git tag -s: fails when the name exists or the key cannot sign. *)
CreateTag(r) ==
    LET c == CloneOf[r]
    IN  /\ run[r].pc = "create"
        /\ \/ /\ \A u \in tags[c] : ~ SameName(NewTag(r), u)
              /\ tags' = [tags EXCEPT ![c] = @ \cup {NewTag(r)}]
              /\ Goto(r, "verify")
           \/ /\ Stop(r)
              /\ UNCHANGED tags
        /\ UNCHANGED <<commits, main, remoteTags, HEAD>>

(* Mutant of VerifyTag: the error is raised but the tag stays. *)
VerifyTagKeeps(r) ==
    /\ run[r].pc = "verify"
    /\ Stop(r)
    /\ UNCHANGED <<commits, main, remoteTags, tags, HEAD>>

(* The tag of that name is removed unless its signature verifies. *)
VerifyTag(r) ==
    LET c == CloneOf[r]
        named == { t \in tags[c] : SameName(t, NewTag(r)) }
    IN  /\ run[r].pc = "verify"
        /\ tags' = [tags EXCEPT ![c] =
                      @ \ { t \in named : ~ verified_tag(c, t) }]
        /\ Stop(r)
        /\ UNCHANGED <<commits, main, remoteTags, HEAD>>

(* The process dies.  Only a death between creating the tag and verifying  *)
(* it leaves something behind.                                             *)
Kill(r) ==
    /\ run[r].pc \notin {"idle", "killed"}
    /\ IF run[r].pc = "verify" THEN Goto(r, "killed") ELSE Stop(r)
    /\ UNCHANGED <<commits, main, remoteTags, tags, HEAD>>

----------------------------------------------------------------------------
Operator(c) ==
    \/ \E merge \in BOOLEAN : MakeCommit(c, merge)
    \/ PushMain(c)
    \/ Checkout(c)
    \/ FetchTags(c)
    \/ HandTag(c)
    \/ PushTag(c)

TagCommand(r) ==
    \/ Begin(r)
    \/ ReadTagsFirst(r)
    \/ RunChecks(r)
    \/ RecheckMain(r)
    \/ ReadTagsAgain(r)
    \/ NameTag(r)
    \/ CreateTag(r)
    \/ VerifyTag(r)
    \/ Kill(r)

Next == (\E c \in Clones : Operator(c)) \/ (\E r \in Runs : TagCommand(r))

Spec == Init /\ [][Next]_vars

----------------------------------------------------------------------------
(* Properties                                                              *)

Controlled(tree) ==
    \A p \in rule_files(tree) \ Snapshots : ~ control_problem(tree[p])

Signed(t) == t.signer # NoSigner

(* Every commit that carries a signed reviewed tag, anywhere, has unique   *)
(* rule ids, and complete controls for every rule whose path has no        *)
(* __snapshots__ directory, although a run checks only the rules that      *)
(* changed since the newest verified tag its clone happens to hold         *)
(* (gate_controls), whatever the dates of the tags, whoever signed the     *)
(* base, and however HEAD and main move meanwhile.  Of a rule file under   *)
(* __snapshots__ nothing is promised: it counts as a rule, but once there  *)
(* is a base no run looks at its controls.                                 *)
ReviewedHaveControls ==
    \A t \in remoteTags \cup UNION { tags[c] : c \in Clones } :
       Signed(t) => /\ RuleIdsOk(commits[t.commit].tree)
                    /\ Controlled(commits[t.commit].tree)

(* Every signed reviewed tag points into the history of the remote main,   *)
(* even when main, HEAD or the checkout moved during the gates: what `tag` *)
(* pins is the commit whose equality with main it checked.                 *)
ReviewedOnMain ==
    \A t \in remoteTags \cup UNION { tags[c] : c \in Clones } :
       Signed(t) => t.commit \in commits[main].anc

(* A signed tag that does not verify in the clone that made it is either   *)
(* about to be removed or was left by a run that died before it verified:  *)
(* "signature does not verify; tag removed" leaves nothing behind.         *)
UnverifiedIsTransient ==
    \A c \in Clones : \A t \in tags[c] :
       (t.signer = c /\ ~ verified_tag(c, t)) =>
          \E r \in Runs : /\ CloneOf[r] = c
                          /\ run[r].pc \in {"verify", "killed"}
                          /\ SameName(t, NewTag(r))

(* tag_preconditions: "Require HEAD == remote branch with no reviewed tag". *)
OneReviewedTagPerCommit ==
    \A c \in Clones : \A t, u \in tags[c] :
       (Signed(t) /\ Signed(u) /\ t.commit = u.commit) => t = u
=============================================================================
