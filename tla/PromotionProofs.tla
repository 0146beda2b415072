-------------------------- MODULE PromotionProofs --------------------------
(***************************************************************************)
(* Proofs about the tag command, for any number of rules, clones, runs and *)
(* commits.                                                                *)
(***************************************************************************)
EXTENDS Promotion, TLAPS

(* Ancestor sets are reflexive and transitively closed, inside commits. *)
AncestryOk ==
    \A k \in DOMAIN commits :
       /\ k \in commits[k].anc
       /\ commits[k].anc \subseteq DOMAIN commits
       /\ \A j \in commits[k].anc : commits[j].anc \subseteq commits[k].anc

Reviewable(k) == RuleIdsOk(commits[k].tree) /\ Controlled(commits[k].tree)

(* What a run has established by the time it is at pc. *)
RunOk(r) ==
    /\ run[r].pc # "idle" =>
          /\ run[r].head \in DOMAIN commits
          /\ run[r].head \in commits[main].anc
          /\ run[r].today \in Dates
    /\ run[r].pc \in {"main2", "tags2", "name", "create", "verify", "killed"}
          => Reviewable(run[r].head)
    /\ run[r].pc \in {"create", "verify", "killed"} => run[r].n # 0

TagOk(t) ==
    /\ t.commit \in DOMAIN commits
    /\ Signed(t) => Reviewable(t.commit) /\ t.commit \in commits[main].anc

(* The inductive invariant behind ReviewedHaveControls and ReviewedOnMain. *)
IInv ==
    /\ TypeOK
    /\ AncestryOk
    /\ \A r \in Runs : RunOk(r)
    /\ \A t \in remoteTags : TagOk(t)
    /\ \A c \in Clones : \A t \in tags[c] : TagOk(t)

(* Init establishes the invariant. *)
LEMMA InitIInv == Init => IInv
<1> SUFFICES ASSUME Init PROVE IInv
  OBVIOUS
<1> USE NumbersAssumption
<1>1. PICK t0 \in Tree : commits = <<[tree |-> t0, anc |-> {1}]>>
  BY DEF Init
<1>2. /\ Len(commits) = 1 /\ DOMAIN commits = {1}
      /\ commits[1] = [tree |-> t0, anc |-> {1}]
      /\ commits \in Seq(Commit)
  BY <1>1 DEF Commit, CommitIds
<1>3. Idle \in RunState
  BY DEF Idle, RunState, CommitIds
<1>4. TypeOK
  BY <1>2, <1>3 DEF Init, TypeOK, CommitIds
<1>5. AncestryOk
  BY <1>2 DEF AncestryOk
<1>6. \A r \in Runs : RunOk(r)
  BY DEF Init, RunOk, Idle
<1> QED
  BY <1>4, <1>5, <1>6 DEF IInv, Init

(* Operators: commits and pushes keep ancestry closed and move main only   *)
(* forward, so what was on main stays on main.                             *)
LEMMA MakeCommitIInv ==
    ASSUME IInv, NEW c \in Clones, NEW merge \in BOOLEAN, MakeCommit(c, merge)
    PROVE  IInv'
<1> USE NumbersAssumption
<1> DEFINE new == Len(commits) + 1
           old == commits[HEAD[c]]
<1>1. PICK p \in Rules, e \in Entries :
        /\ commits' = Append(commits,
              [tree |-> [old.tree EXCEPT ![p] = e],
               anc |-> {new} \cup old.anc
                       \cup (IF merge THEN commits[main].anc ELSE {})])
        /\ HEAD' = [HEAD EXCEPT ![c] = new]
  BY DEF MakeCommit
<1> DEFINE fresh == [tree |-> [old.tree EXCEPT ![p] = e],
                     anc |-> {new} \cup old.anc
                             \cup (IF merge THEN commits[main].anc ELSE {})]
<1>2. /\ commits \in Seq(Commit) /\ Len(commits) \in Nat /\ new \in CommitIds
      /\ main \in DOMAIN commits /\ HEAD[c] \in DOMAIN commits
      /\ DOMAIN commits = 1 .. Len(commits)
      /\ DOMAIN commits \subseteq CommitIds
  BY DEF IInv, TypeOK, MakeCommit, CommitIds
<1>3. /\ old \in Commit /\ commits[main] \in Commit
      /\ old.tree \in Tree /\ old.anc \subseteq DOMAIN commits
      /\ commits[main].anc \subseteq DOMAIN commits
  <2>1. old \in Commit /\ commits[main] \in Commit
    BY <1>2
  <2>2. old.tree \in Tree
    BY <2>1 DEF Commit
  <2> QED
    BY <2>1, <2>2, <1>2 DEF IInv, AncestryOk
<1>4. [old.tree EXCEPT ![p] = e] \in Tree
  BY <1>3 DEF Tree
<1>5. fresh.anc \subseteq 1 .. new /\ fresh.anc \subseteq CommitIds
  BY <1>2, <1>3
<1>6. fresh \in Commit
  BY <1>4, <1>5 DEF Commit
<1>7. /\ commits' \in Seq(Commit) /\ Len(commits') = new
      /\ DOMAIN commits' = 1 .. new
      /\ commits'[new] = fresh
      /\ \A k \in DOMAIN commits : commits'[k] = commits[k]
  <2> HIDE DEF fresh
  <2>1. commits' = Append(commits, fresh)
    BY <1>1 DEF fresh
  <2> QED
    BY <2>1, <1>2, <1>6
<1>8. DOMAIN commits \subseteq DOMAIN commits'
  BY <1>2, <1>7
<1>9. main' = main /\ remoteTags' = remoteTags /\ tags' = tags /\ run' = run
  BY DEF MakeCommit
<1>10. TypeOK'
  <2>1. HEAD' \in [Clones -> DOMAIN commits']
    BY <1>1, <1>2, <1>7, <1>8 DEF IInv, TypeOK
  <2> QED
    BY <2>1, <1>2, <1>7, <1>8, <1>9 DEF IInv, TypeOK
<1>11. AncestryOk'
  <2> SUFFICES ASSUME NEW k \in DOMAIN commits'
               PROVE  /\ k \in commits'[k].anc
                      /\ commits'[k].anc \subseteq DOMAIN commits'
                      /\ \A j \in commits'[k].anc :
                            commits'[j].anc \subseteq commits'[k].anc
    BY DEF AncestryOk
  <2>1. CASE k \in DOMAIN commits
    BY <2>1, <1>7, <1>8 DEF IInv, AncestryOk
  <2>2. CASE k = new
    <3> HIDE DEF old
    <3>1. commits'[k].anc = {new} \cup old.anc
                             \cup (IF merge THEN commits[main].anc ELSE {})
      BY <2>2, <1>7
    <3>2. /\ \A j \in old.anc : commits[j].anc \subseteq old.anc
          /\ \A j \in commits[main].anc : commits[j].anc \subseteq commits[main].anc
      BY <1>2 DEF IInv, AncestryOk, old
    <3>3. ASSUME NEW j \in commits'[k].anc
          PROVE  commits'[j].anc \subseteq commits'[k].anc
      <4>1. CASE j = new
        BY <4>1, <2>2
      <4>2. CASE j \in old.anc
        <5>1. commits'[j] = commits[j]
          BY <4>2, <1>3, <1>7
        <5> QED
          BY <5>1, <4>2, <3>1, <3>2
      <4>3. CASE merge /\ j \in commits[main].anc
        <5>1. commits'[j] = commits[j]
          BY <4>3, <1>3, <1>7
        <5> QED
          BY <5>1, <4>3, <3>1, <3>2
      <4> QED
        BY <4>1, <4>2, <4>3, <3>1
    <3> QED
      BY <3>1, <3>3, <2>2, <1>2, <1>3, <1>7, <1>8
  <2> QED
    BY <2>1, <2>2, <1>2, <1>7
<1>12. \A k \in DOMAIN commits : Reviewable(k) => Reviewable(k)'
  BY <1>7 DEF Reviewable
<1>13. commits'[main'].anc = commits[main].anc
  BY <1>2, <1>7, <1>9
<1>14. \A r \in Runs : RunOk(r)'
  BY <1>8, <1>9, <1>12, <1>13 DEF IInv, RunOk
<1>15. \A t : TagOk(t) => TagOk(t)'
  BY <1>8, <1>12, <1>13 DEF TagOk
<1> QED
  BY <1>9, <1>10, <1>11, <1>14, <1>15 DEF IInv

(* Every existing commit has an id. *)
LEMMA CommitIdsInRange ==
    ASSUME IInv PROVE DOMAIN commits \subseteq CommitIds
<1>1. /\ commits \in Seq(Commit) /\ Len(commits) \in 1 .. MaxCommits
      /\ MaxCommits \in Nat
  BY NumbersAssumption DEF IInv, TypeOK, CommitIds
<1> QED
  BY <1>1 DEF CommitIds

(* Pushing main forward keeps what was on main on main. *)
LEMMA PushMainIInv ==
    ASSUME IInv, NEW c \in Clones, PushMain(c)
    PROVE  IInv'
<1>1. /\ main' = HEAD[c] /\ commits' = commits /\ remoteTags' = remoteTags
      /\ tags' = tags /\ HEAD' = HEAD /\ run' = run
      /\ main \in commits[HEAD[c]].anc
  BY DEF PushMain
<1>2. HEAD[c] \in DOMAIN commits
  BY DEF IInv, TypeOK
<1>3. commits[main].anc \subseteq commits'[main'].anc
  BY <1>1, <1>2 DEF IInv, AncestryOk
<1>4. TypeOK' /\ AncestryOk'
  BY <1>1, <1>2 DEF IInv, TypeOK, AncestryOk
<1>5. \A k : Reviewable(k)' <=> Reviewable(k)
  BY <1>1 DEF Reviewable
<1>6. \A r \in Runs : RunOk(r)'
  BY <1>1, <1>3, <1>5 DEF IInv, RunOk
<1>7. \A t : TagOk(t) => TagOk(t)'
  BY <1>1, <1>3, <1>5 DEF TagOk
<1> QED
  BY <1>1, <1>4, <1>6, <1>7 DEF IInv

(* A checkout moves only HEAD. *)
LEMMA CheckoutIInv ==
    ASSUME IInv, NEW c \in Clones, Checkout(c)
    PROVE  IInv'
<1>1. /\ commits' = commits /\ main' = main /\ remoteTags' = remoteTags
      /\ tags' = tags /\ run' = run
  BY DEF Checkout
<1>2. HEAD' \in [Clones -> DOMAIN commits]
  BY DEF Checkout, IInv, TypeOK
<1>3. TypeOK' /\ AncestryOk'
  BY <1>1, <1>2 DEF IInv, TypeOK, AncestryOk
<1>4. /\ \A r : RunOk(r) <=> RunOk(r)'
      /\ \A t : TagOk(t) <=> TagOk(t)'
  BY <1>1 DEF RunOk, TagOk, Reviewable
<1> QED
  BY <1>1, <1>3, <1>4 DEF IInv

(* Steps that leave the commits and main alone keep every tag's TagOk; what *)
(* remains is the type of the new state and the tags and run that changed.  *)
LEMMA TagStep ==
    ASSUME IInv, UNCHANGED <<commits, main, HEAD>>,
           remoteTags' \subseteq Tag,
           tags' \in [Clones -> SUBSET Tag],
           run' \in [Runs -> RunState],
           \A r \in Runs : run'[r] = run[r] \/ RunOk(r)',
           \A t \in remoteTags' : TagOk(t),
           \A c \in Clones : \A t \in tags'[c] : TagOk(t)
    PROVE  IInv'
<1>1. TypeOK' /\ AncestryOk'
  BY DEF IInv, TypeOK, AncestryOk
<1>2. \A t : TagOk(t) => TagOk(t)'
  BY DEF TagOk, Reviewable
<1>3. ASSUME NEW r \in Runs PROVE RunOk(r)'
  <2>1. CASE run'[r] = run[r]
    BY <2>1 DEF IInv, RunOk, Reviewable
  <2> QED
    BY <2>1
<1> QED
  BY <1>1, <1>2, <1>3 DEF IInv

(* Fetching copies published tags, which are sound already. *)
LEMMA FetchTagsIInv ==
    ASSUME IInv, NEW c \in Clones, FetchTags(c)
    PROVE  IInv'
<1>1. /\ UNCHANGED <<commits, main, HEAD, remoteTags, run>>
      /\ tags' = [tags EXCEPT ![c] = @ \cup
                    { t \in remoteTags : \A u \in tags[c] : ~ SameName(t, u) }]
  BY DEF FetchTags
<1>2. tags' \in [Clones -> SUBSET Tag]
  BY <1>1 DEF IInv, TypeOK
<1>3. \A d \in Clones : \A t \in tags'[d] : TagOk(t)
  BY <1>1 DEF IInv, TypeOK
<1> QED
  BY <1>1, <1>2, <1>3, TagStep DEF IInv, TypeOK

(* A hand-made tag is unsigned and claims nothing. *)
LEMMA HandTagIInv ==
    ASSUME IInv, NEW c \in Clones, HandTag(c)
    PROVE  IInv'
<1>1. UNCHANGED <<commits, main, HEAD, remoteTags, run>>
  BY DEF HandTag
<1>2. PICK d \in Dates, n \in HandNs :
        tags' = [tags EXCEPT ![c] = @ \cup
                   {[date |-> d, n |-> n, commit |-> HEAD[c],
                     signer |-> NoSigner]}]
  BY DEF HandTag
<1> DEFINE t0 == [date |-> d, n |-> n, commit |-> HEAD[c], signer |-> NoSigner]
<1>3. HEAD[c] \in DOMAIN commits /\ HEAD[c] \in CommitIds
  BY CommitIdsInRange DEF IInv, TypeOK
<1>4. t0 \in Tag
  BY <1>3, NumbersAssumption DEF Tag
<1>5. TagOk(t0)
  BY <1>3 DEF TagOk, Signed
<1> HIDE DEF t0
<1>6. tags' = [tags EXCEPT ![c] = @ \cup {t0}]
  BY <1>2 DEF t0
<1>7. tags' \in [Clones -> SUBSET Tag]
  BY <1>4, <1>6 DEF IInv, TypeOK
<1>8. \A b \in Clones : \A t \in tags'[b] : TagOk(t)
  BY <1>5, <1>6 DEF IInv, TypeOK
<1> QED
  BY <1>1, <1>7, <1>8, TagStep DEF IInv, TypeOK

(* Publishing a tag adds one that its clone already holds. *)
LEMMA PushTagIInv ==
    ASSUME IInv, NEW c \in Clones, PushTag(c)
    PROVE  IInv'
<1>1. UNCHANGED <<commits, main, HEAD, tags, run>>
  BY DEF PushTag
<1>2. PICK t0 \in tags[c] : remoteTags' = remoteTags \cup {t0}
  BY DEF PushTag
<1>3. t0 \in Tag /\ TagOk(t0)
  BY DEF IInv, TypeOK
<1> QED
  BY <1>1, <1>2, <1>3, TagStep DEF IInv, TypeOK

----------------------------------------------------------------------------
(* The tag command                                                         *)

(* Moving a run to another pc, or ending it, keeps its record well typed. *)
LEMMA RunStep ==
    ASSUME IInv, NEW r \in Runs,
           UNCHANGED <<commits, main, HEAD, remoteTags, tags>>,
           NEW s \in RunState, run' = [run EXCEPT ![r] = s], RunOk(r)'
    PROVE  IInv'
<1>1. run' \in [Runs -> RunState]
  BY DEF IInv, TypeOK
<1>2. \A q \in Runs : run'[q] = run[q] \/ RunOk(q)'
  BY DEF IInv, TypeOK
<1> QED
  BY <1>1, <1>2, TagStep DEF IInv, TypeOK

(* A run that ends claims nothing. *)
LEMMA StopIInv ==
    ASSUME IInv, NEW r \in Runs, Stop(r),
           UNCHANGED <<commits, main, HEAD, remoteTags, tags>>
    PROVE  IInv'
<1>1. Idle \in RunState
  BY DEF Idle, RunState
<1>2. run' = [run EXCEPT ![r] = Idle]
  BY DEF Stop
<1>3. run'[r] = Idle
  BY <1>2 DEF IInv, TypeOK
<1>4. RunOk(r)'
  BY <1>3 DEF RunOk, Idle
<1> QED
  BY <1>1, <1>2, <1>4, RunStep

(* A run that moves on keeps what it has established; only the gates add   *)
(* to it.                                                                  *)
LEMMA GotoIInv ==
    ASSUME IInv, NEW r \in Runs, NEW pc,
           pc \in {"check", "main2", "tags2", "killed"}, Goto(r, pc),
           run[r].pc # "idle",
           pc \in {"main2", "tags2", "killed"} => Reviewable(run[r].head),
           pc = "killed" => run[r].pc = "verify",
           UNCHANGED <<commits, main, HEAD, remoteTags, tags>>
    PROVE  IInv'
<1> DEFINE s == [run[r] EXCEPT !.pc = pc]
<1>1. run[r] \in RunState /\ RunOk(r)
  BY DEF IInv, TypeOK
<1>2. s \in RunState
  BY <1>1 DEF RunState
<1>3. run' = [run EXCEPT ![r] = s]
  BY DEF Goto
<1>4. run'[r] = s
  BY <1>3 DEF IInv, TypeOK
<1>5. s.pc = pc /\ s.head = run[r].head /\ s.today = run[r].today /\ s.n = run[r].n
  BY <1>1 DEF RunState
<1>6. RunOk(r)'
  BY <1>1, <1>4, <1>5 DEF RunOk, Reviewable
<1> QED
  BY <1>2, <1>3, <1>6, RunStep

(* A run starts on the commit that is main. *)
LEMMA BeginIInv ==
    ASSUME IInv, NEW r \in Runs, Begin(r)
    PROVE  IInv'
<1>1. UNCHANGED <<commits, main, HEAD, remoteTags, tags>>
  BY DEF Begin
<1>2. PICK d \in Dates :
        run' = [run EXCEPT ![r] = [pc |-> "tags1", head |-> main, today |-> d,
                                   n |-> 0, published |-> {}]]
  BY DEF Begin
<1> DEFINE s == [pc |-> "tags1", head |-> main, today |-> d, n |-> 0,
                 published |-> {}]
<1>3. main \in DOMAIN commits /\ main \in CommitIds /\ main \in commits[main].anc
  BY CommitIdsInRange DEF IInv, TypeOK, AncestryOk
<1>4. s \in RunState
  BY <1>3 DEF RunState
<1>5. run'[r] = s
  BY <1>2 DEF IInv, TypeOK
<1>6. RunOk(r)'
  BY <1>1, <1>3, <1>5 DEF RunOk
<1> QED
  BY <1>1, <1>2, <1>4, <1>6, RunStep

(* The first look at the tags changes only pc. *)
LEMMA ReadTagsFirstIInv ==
    ASSUME IInv, NEW r \in Runs, ReadTagsFirst(r)
    PROVE  IInv'
<1>1. UNCHANGED <<commits, main, HEAD, remoteTags, tags>> /\ run[r].pc = "tags1"
  BY DEF ReadTagsFirst
<1>2. CASE Goto(r, "check")
  BY <1>1, <1>2, GotoIInv
<1>3. CASE Stop(r)
  BY <1>1, <1>3, StopIInv
<1> QED
  BY <1>2, <1>3 DEF ReadTagsFirst

(* The heart of the matter: rules that did not change since the base have  *)
(* controls because the base, a verified and hence signed tag, had them;   *)
(* the others are checked, but for those under __snapshots__.              *)
LEMMA ChecksPassReviewable ==
    ASSUME IInv, NEW r \in Runs, run[r].pc # "idle", ChecksPass(r)
    PROVE  Reviewable(run[r].head)
<1> DEFINE head == run[r].head
           c == CloneOf[r]
           base == previous_tag(c, head)
<1>1. c \in Clones /\ head \in DOMAIN commits
  BY ClonesAssumption DEF IInv, RunOk
<1>2. RuleIdsOk(commits[head].tree)
  BY DEF ChecksPass
<1>3. ASSUME NEW t \in base
      PROVE  Controlled(commits[t.commit].tree)
  <2>1. t \in tags[c] /\ t.signer \in Keyring[c]
    BY <1>3 DEF previous_tag, reviewed_tags, verified_tag
  <2>2. Signed(t)
    BY <2>1, <1>1, ClonesAssumption DEF Signed
  <2> QED
    BY <2>1, <2>2, <1>1 DEF IInv, TagOk, Reviewable
<1>4. ASSUME NEW p \in rule_files(commits[head].tree) \ Snapshots
      PROVE  ~ control_problem(commits[head].tree[p])
  <2>1. CASE p \in changed_rules(head, base)
    BY <2>1 DEF ChecksPass
  <2>2. CASE p \notin changed_rules(head, base)
    <3>1. PICK t \in base :
             commits[t.commit].tree[p] = commits[head].tree[p]
      BY <2>2, <1>4 DEF changed_rules
    <3>2. p \in rule_files(commits[t.commit].tree)
      BY <3>1, <1>4 DEF rule_files
    <3>3. ~ control_problem(commits[t.commit].tree[p])
      BY <3>2, <1>3 DEF Controlled
    <3> QED
      BY <3>1, <3>3
  <2> QED
    BY <2>1, <2>2
<1> QED
  BY <1>2, <1>4 DEF Reviewable, Controlled

(* Past the gates, head is reviewable. *)
LEMMA RunChecksIInv ==
    ASSUME IInv, NEW r \in Runs, RunChecks(r)
    PROVE  IInv'
<1>1. UNCHANGED <<commits, main, HEAD, remoteTags, tags>> /\ run[r].pc = "check"
  BY DEF RunChecks
<1>2. CASE ChecksPass(r) /\ Goto(r, "main2")
  BY <1>1, <1>2, ChecksPassReviewable, GotoIInv
<1>3. CASE Stop(r)
  BY <1>1, <1>3, StopIInv
<1> QED
  BY <1>2, <1>3 DEF RunChecks

(* The second look at main changes only pc. *)
LEMMA RecheckMainIInv ==
    ASSUME IInv, NEW r \in Runs, RecheckMain(r)
    PROVE  IInv'
<1>1. UNCHANGED <<commits, main, HEAD, remoteTags, tags>> /\ run[r].pc = "main2"
  BY DEF RecheckMain
<1>2. CASE Goto(r, "tags2")
  <2>1. Reviewable(run[r].head)
    BY <1>1 DEF IInv, RunOk
  <2> QED
    BY <2>1, <1>1, <1>2, GotoIInv
<1>3. CASE Stop(r)
  BY <1>1, <1>3, StopIInv
<1> QED
  BY <1>2, <1>3 DEF RecheckMain

(* The second look at the tags stores the published ones. *)
LEMMA ReadTagsAgainIInv ==
    ASSUME IInv, NEW r \in Runs, ReadTagsAgain(r)
    PROVE  IInv'
<1>1. UNCHANGED <<commits, main, HEAD, remoteTags, tags>> /\ run[r].pc = "tags2"
  BY DEF ReadTagsAgain
<1>2. CASE run' = [run EXCEPT ![r].pc = "name", ![r].published = remoteTags]
  <2> DEFINE s == [run[r] EXCEPT !.pc = "name", !.published = remoteTags]
  <2>1. run[r] \in RunState /\ RunOk(r) /\ remoteTags \subseteq Tag
    BY DEF IInv, TypeOK
  <2>2. s \in RunState
    BY <2>1 DEF RunState
  <2>3. run' = [run EXCEPT ![r] = s]
    BY <1>2, <2>1 DEF IInv, TypeOK, RunState
  <2>4. run'[r] = s
    BY <2>3 DEF IInv, TypeOK
  <2>5. s.pc = "name" /\ s.head = run[r].head /\ s.today = run[r].today
    BY <2>1 DEF RunState
  <2>6. RunOk(r)'
    BY <1>1, <2>1, <2>4, <2>5 DEF RunOk, Reviewable
  <2> QED
    BY <1>1, <2>2, <2>3, <2>6, RunStep
<1>3. CASE Stop(r)
  BY <1>1, <1>3, StopIInv
<1> QED
  BY <1>2, <1>3 DEF ReadTagsAgain

(* The number chosen for the tag is positive. *)
LEMMA NameTagIInv ==
    ASSUME IInv, NEW r \in Runs, NameTag(r)
    PROVE  IInv'
<1>1. UNCHANGED <<commits, main, HEAD, remoteTags, tags>> /\ run[r].pc = "name"
  BY DEF NameTag
<1>2. PICK n \in next_tag_name(tags[CloneOf[r]] \cup run[r].published,
                              run[r].today) :
         run' = [run EXCEPT ![r].pc = "create", ![r].n = n, ![r].published = {}]
  BY DEF NameTag
<1>3. n \in Nat /\ n # 0
  BY NumbersAssumption DEF next_tag_name
<1> DEFINE s == [run[r] EXCEPT !.pc = "create", !.n = n, !.published = {}]
<1>4. run[r] \in RunState /\ RunOk(r)
  BY DEF IInv, TypeOK
<1>5. s \in RunState
  BY <1>3, <1>4 DEF RunState
<1>6. run' = [run EXCEPT ![r] = s]
  BY <1>2, <1>4 DEF IInv, TypeOK, RunState
<1>7. run'[r] = s
  BY <1>6 DEF IInv, TypeOK
<1>8. s.pc = "create" /\ s.head = run[r].head /\ s.today = run[r].today /\ s.n = n
  BY <1>4 DEF RunState
<1>9. RunOk(r)'
  BY <1>1, <1>3, <1>4, <1>7, <1>8 DEF RunOk, Reviewable
<1> QED
  BY <1>1, <1>5, <1>6, <1>9, RunStep

(* The tag is created on the head that passed the gates. *)
LEMMA CreateTagIInv ==
    ASSUME IInv, NEW r \in Runs, CreateTag(r)
    PROVE  IInv'
<1> DEFINE c == CloneOf[r]
           t0 == NewTag(r)
<1>1. UNCHANGED <<commits, main, HEAD, remoteTags>> /\ run[r].pc = "create"
  BY DEF CreateTag
<1>2. c \in Clones /\ run[r] \in RunState /\ RunOk(r)
  BY ClonesAssumption DEF IInv, TypeOK
<1>3. t0 \in Tag
  <2>1. /\ run[r].today \in Dates /\ run[r].n \in Nat \ {0}
        /\ run[r].head \in CommitIds
    BY <1>1, <1>2, CommitIdsInRange DEF RunState, RunOk
  <2> QED
    BY <2>1, <1>2 DEF NewTag, Tag
<1>4. TagOk(t0)
  BY <1>1, <1>2 DEF TagOk, NewTag, RunOk
<1>5. CASE tags' = [tags EXCEPT ![c] = @ \cup {t0}] /\ Goto(r, "verify")
  <2> DEFINE s == [run[r] EXCEPT !.pc = "verify"]
  <2> HIDE DEF c, t0
  <2>1. tags' \in [Clones -> SUBSET Tag]
    BY <1>2, <1>3, <1>5 DEF IInv, TypeOK
  <2>2. \A d \in Clones : \A t \in tags'[d] : TagOk(t)
    BY <1>2, <1>4, <1>5 DEF IInv, TypeOK
  <2>3. s \in RunState
    BY <1>2 DEF RunState
  <2>4. run' = [run EXCEPT ![r] = s]
    BY <1>5 DEF Goto
  <2>5. run' \in [Runs -> RunState] /\ run'[r] = s
        /\ \A q \in Runs : q # r => run'[q] = run[q]
    BY <2>3, <2>4 DEF IInv, TypeOK
  <2>6. /\ s.pc = "verify" /\ s.head = run[r].head /\ s.today = run[r].today
        /\ s.n = run[r].n
    BY <1>2 DEF RunState
  <2>7. RunOk(r)'
    BY <1>1, <1>2, <2>5, <2>6 DEF RunOk, Reviewable
  <2> QED
    BY <1>1, <2>1, <2>2, <2>5, <2>7, TagStep DEF IInv, TypeOK
<1>6. CASE Stop(r) /\ UNCHANGED tags
  BY <1>1, <1>6, StopIInv
<1> QED
  BY <1>5, <1>6 DEF CreateTag

(* Verification only removes tags. *)
LEMMA VerifyTagIInv ==
    ASSUME IInv, NEW r \in Runs, VerifyTag(r)
    PROVE  IInv'
<1> DEFINE c == CloneOf[r]
<1>1. UNCHANGED <<commits, main, HEAD, remoteTags>> /\ Stop(r)
  BY DEF VerifyTag
<1>2. PICK gone : tags' = [tags EXCEPT ![c] = @ \ gone]
  BY DEF VerifyTag
<1>3. c \in Clones
  BY ClonesAssumption
<1>4. /\ tags' \in [Clones -> SUBSET Tag]
      /\ \A d \in Clones : \A t \in tags'[d] : TagOk(t)
  BY <1>2, <1>3 DEF IInv, TypeOK
<1>5. Idle \in RunState
  BY DEF Idle, RunState
<1>6. run' \in [Runs -> RunState] /\ run'[r] = Idle
      /\ \A q \in Runs : q # r => run'[q] = run[q]
  BY <1>1, <1>5 DEF Stop, IInv, TypeOK
<1>7. RunOk(r)'
  BY <1>6 DEF RunOk, Idle
<1> QED
  BY <1>1, <1>4, <1>6, <1>7, TagStep DEF IInv, TypeOK

(* A run that dies claims no more than it had established. *)
LEMMA KillIInv ==
    ASSUME IInv, NEW r \in Runs, Kill(r)
    PROVE  IInv'
<1>1. UNCHANGED <<commits, main, HEAD, remoteTags, tags>>
  BY DEF Kill
<1>2. CASE run[r].pc = "verify" /\ Goto(r, "killed")
  <2>1. Reviewable(run[r].head)
    BY <1>2 DEF IInv, RunOk
  <2> QED
    BY <2>1, <1>1, <1>2, GotoIInv
<1>3. CASE Stop(r)
  BY <1>1, <1>3, StopIInv
<1> QED
  BY <1>2, <1>3 DEF Kill

----------------------------------------------------------------------------
(* Stuttering keeps the invariant. *)
LEMMA StutterIInv == IInv /\ UNCHANGED vars => IInv'
BY DEF IInv, vars, TypeOK, AncestryOk, RunOk, TagOk, Reviewable

(* Every step of the specification keeps the invariant. *)
LEMMA NextIInv == IInv /\ [Next]_vars => IInv'
<1> SUFFICES ASSUME IInv, [Next]_vars PROVE IInv'
  OBVIOUS
<1>1. ASSUME NEW c \in Clones, Operator(c) PROVE IInv'
  BY <1>1, MakeCommitIInv, PushMainIInv, CheckoutIInv, FetchTagsIInv,
     HandTagIInv, PushTagIInv DEF Operator
<1>2. ASSUME NEW r \in Runs, TagCommand(r) PROVE IInv'
  BY <1>2, BeginIInv, ReadTagsFirstIInv, RunChecksIInv, RecheckMainIInv,
     ReadTagsAgainIInv, NameTagIInv, CreateTagIInv, VerifyTagIInv, KillIInv
  DEF TagCommand
<1>3. CASE UNCHANGED vars
  BY <1>3, StutterIInv
<1> QED
  BY <1>1, <1>2, <1>3 DEF Next

(* The state of the repository, the clones and the runs keeps its type:    *)
(* in particular next_tag_name never yields N = 0 and every tag and run    *)
(* points to an existing commit.                                           *)
THEOREM TypeCorrect == Spec => []TypeOK
<1>1. IInv => TypeOK
  BY DEF IInv
<1> QED
  BY <1>1, InitIInv, NextIInv, PTL DEF Spec

(* Every signed reviewed tag, local or published, is on a commit whose     *)
(* rules have unique ids and, outside __snapshots__, complete controls.    *)
THEOREM ReviewedControlled == Spec => []ReviewedHaveControls
<1>1. IInv => ReviewedHaveControls
  BY DEF IInv, TagOk, Reviewable, ReviewedHaveControls
<1> QED
  BY <1>1, InitIInv, NextIInv, PTL DEF Spec

(* Every signed reviewed tag is on a commit that the remote main contains. *)
THEOREM ReviewedMerged == Spec => []ReviewedOnMain
<1>1. IInv => ReviewedOnMain
  BY DEF IInv, TagOk, ReviewedOnMain
<1> QED
  BY <1>1, InitIInv, NextIInv, PTL DEF Spec

----------------------------------------------------------------------------
(* Tags that do not verify                                                 *)

(* A signed tag leaves its signer's clone only when it verifies there, so  *)
(* one that is published, or that another clone holds, does.               *)
SelfVerified(t) == Signed(t) => t.signer \in Keyring[t.signer]

(* Run r excuses tags of the name it is verifying. *)
Excuses(r, c, t) == /\ CloneOf[r] = c
                    /\ run[r].pc \in {"verify", "killed"}
                    /\ SameName(t, NewTag(r))

UInv ==
    /\ \A t \in remoteTags : SelfVerified(t)
    /\ \A c \in Clones : \A t \in tags[c] :
          SelfVerified(t) \/ (t.signer = c /\ \E r \in Runs : Excuses(r, c, t))

(* A run that verifies, or died doing so, stays where it is. *)
Kept(r) == run[r].pc \in {"verify", "killed"} =>
              /\ run'[r].pc \in {"verify", "killed"}
              /\ run'[r].today = run[r].today /\ run'[r].n = run[r].n

LEMMA KeptExcuses ==
    ASSUME NEW r, Kept(r), NEW c, NEW t, Excuses(r, c, t) PROVE Excuses(r, c, t)'
  BY DEF Kept, Excuses, SameName, NewTag

(* Where runs keep their place, only the new tags matter. *)
LEMMA KeptStep ==
    ASSUME UInv, \A r \in Runs : Kept(r),
           \A t \in remoteTags' : t \in remoteTags \/ SelfVerified(t),
           \A c \in Clones : \A t \in tags'[c] :
              t \in tags[c] \/ SelfVerified(t)
    PROVE  UInv'
<1>1. \A t \in remoteTags' : SelfVerified(t)
  BY DEF UInv
<1>2. ASSUME NEW c \in Clones, NEW t \in tags'[c]
      PROVE  SelfVerified(t) \/ (t.signer = c /\ \E r \in Runs : Excuses(r, c, t)')
  <2>1. CASE SelfVerified(t)
    BY <2>1
  <2>2. CASE t \in tags[c] /\ ~ SelfVerified(t)
    <3>1. t.signer = c /\ \E r \in Runs : Excuses(r, c, t)
      BY <2>2 DEF UInv
    <3>2. PICK r \in Runs : Excuses(r, c, t)
      BY <3>1
    <3>3. Excuses(r, c, t)'
      BY <3>2, KeptExcuses
    <3> QED BY <3>1, <3>3
  <2> QED BY <1>2, <2>1, <2>2
<1>3. \A t : SelfVerified(t)' <=> SelfVerified(t)
  BY DEF SelfVerified, Signed
<1> QED BY <1>1, <1>2, <1>3 DEF UInv

(* Operators: what is fetched or published has been verified by its signer. *)
LEMMA OperatorUInv ==
    ASSUME UInv, IInv, NEW c \in Clones, Operator(c) PROVE UInv'
<1>1. run' = run
  BY DEF Operator, MakeCommit, PushMain, Checkout, FetchTags, HandTag, PushTag
<1>2. \A r \in Runs : Kept(r)
  BY <1>1 DEF Kept
<1>3. CASE UNCHANGED <<remoteTags, tags>>
  BY <1>2, <1>3, KeptStep
<1>4. CASE FetchTags(c)
  <2>1. \A d \in Clones : \A t \in tags'[d] : t \in tags[d] \/ t \in remoteTags
    BY <1>4 DEF FetchTags, IInv, TypeOK
  <2>2. remoteTags' = remoteTags
    BY <1>4 DEF FetchTags
  <2> QED BY <1>2, <2>1, <2>2, KeptStep DEF UInv
<1>5. CASE HandTag(c)
  <2>1. PICK d \in Dates, n \in HandNs :
          tags' = [tags EXCEPT ![c] = @ \cup
                     {[date |-> d, n |-> n, commit |-> HEAD[c], signer |-> NoSigner]}]
    BY <1>5 DEF HandTag
  <2> DEFINE t0 == [date |-> d, n |-> n, commit |-> HEAD[c], signer |-> NoSigner]
  <2>2. SelfVerified(t0)
    BY DEF SelfVerified, Signed
  <2> HIDE DEF t0
  <2>3. tags' = [tags EXCEPT ![c] = @ \cup {t0}] /\ remoteTags' = remoteTags
    BY <1>5, <2>1 DEF t0, HandTag
  <2>4. \A b \in Clones : \A t \in tags'[b] : t \in tags[b] \/ t = t0
    BY <2>3 DEF IInv, TypeOK
  <2> QED BY <1>2, <2>2, <2>3, <2>4, KeptStep
<1>6. CASE PushTag(c)
  <2>1. PICK t0 \in tags[c] : /\ t0.signer = NoSigner \/ verified_tag(c, t0)
                              /\ remoteTags' = remoteTags \cup {t0}
    BY <1>6 DEF PushTag
  <2>2. SelfVerified(t0)
    BY <2>1 DEF UInv, SelfVerified, Signed, verified_tag
  <2>3. tags' = tags
    BY <1>6 DEF PushTag
  <2> QED BY <1>2, <2>1, <2>2, <2>3, KeptStep
<1> QED
  BY <1>3, <1>4, <1>5, <1>6 DEF Operator, MakeCommit, PushMain, Checkout

(* The tag command: a new tag is excused by its run until the run removes  *)
(* it or finds it verified.                                                *)
LEMMA TagCommandUInv ==
    ASSUME UInv, IInv, NEW r \in Runs, TagCommand(r) PROVE UInv'
<1>0. run \in [Runs -> RunState] /\ tags \in [Clones -> SUBSET Tag] /\ CloneOf[r] \in Clones
  BY ClonesAssumption DEF IInv, TypeOK
<1>1. ASSUME NEW s, run' = [run EXCEPT ![r] = s], run[r].pc \notin {"verify", "killed"}
      PROVE  \A q \in Runs : Kept(q)
  BY <1>0, <1>1 DEF Kept
<1>2. CASE Begin(r) \/ ReadTagsFirst(r) \/ RunChecks(r) \/ RecheckMain(r) \/ ReadTagsAgain(r)
           \/ NameTag(r)
  <2>1. UNCHANGED <<remoteTags, tags>> /\ run[r].pc \notin {"verify", "killed"}
    BY <1>2 DEF Begin, ReadTagsFirst, RunChecks, RecheckMain, ReadTagsAgain, NameTag
  <2>2. \E s : run' = [run EXCEPT ![r] = s]
    BY <1>2 DEF Begin, ReadTagsFirst, RunChecks, RecheckMain, ReadTagsAgain, NameTag, Goto, Stop
  <2> QED BY <1>1, <2>1, <2>2, KeptStep
<1>3. CASE CreateTag(r)
  <2>1. run[r].pc = "create" /\ remoteTags' = remoteTags
    BY <1>3 DEF CreateTag
  <2>2. CASE Stop(r) /\ UNCHANGED tags
    BY <1>1, <2>1, <2>2, KeptStep DEF Stop
  <2>3. CASE tags' = [tags EXCEPT ![CloneOf[r]] = @ \cup {NewTag(r)}] /\ Goto(r, "verify")
    <3> DEFINE c == CloneOf[r]
    <3>0. PICK t0 : t0 = NewTag(r)
      OBVIOUS
    <3>1. \A q \in Runs : Kept(q)
      BY <1>1, <2>1, <2>3 DEF Goto
    <3>2. run'[r].pc = "verify" /\ run'[r].today = run[r].today /\ run'[r].n = run[r].n
      BY <1>0, <2>3 DEF Goto, RunState
    <3>3. Excuses(r, c, t0)' /\ t0.signer = c
      <4>1. t0.date = run[r].today /\ t0.n = run[r].n /\ t0.signer = c
        BY <3>0 DEF NewTag
      <4> QED BY <3>2, <4>1 DEF Excuses, NewTag, SameName
    <3>4. \A d \in Clones : \A t \in tags'[d] : t \in tags[d] \/ (d = c /\ t = t0)
      BY <1>0, <2>3, <3>0
    <3>5. ASSUME NEW d \in Clones, NEW t \in tags'[d]
          PROVE  SelfVerified(t) \/ (t.signer = d /\ \E q \in Runs : Excuses(q, d, t)')
      <4>1. CASE t \in tags[d] /\ ~ SelfVerified(t)
        <5>1. t.signer = d /\ \E q \in Runs : Excuses(q, d, t)
          BY <4>1 DEF UInv
        <5> QED BY <3>1, <5>1, KeptExcuses
      <4>2. CASE d = c /\ t = t0
        <5>1. Excuses(r, d, t)' /\ t.signer = d
          BY <3>3, <4>2 DEF Excuses, SameName
        <5> QED BY <5>1
      <4> QED BY <3>4, <3>5, <4>1, <4>2
    <3>6. \A t : SelfVerified(t)' <=> SelfVerified(t)
      BY DEF SelfVerified, Signed
    <3> QED BY <2>1, <3>5, <3>6 DEF UInv
  <2> QED BY <1>3, <2>2, <2>3 DEF CreateTag
<1>4. CASE VerifyTag(r)
  <2> DEFINE c == CloneOf[r]
  <2>1. /\ remoteTags' = remoteTags /\ run' = [run EXCEPT ![r] = Idle]
        /\ tags' = [tags EXCEPT ![c] = @ \ {t \in {t \in tags[c] : SameName(t, NewTag(r))} :
                                              ~ verified_tag(c, t)}]
    BY <1>4 DEF VerifyTag, Stop
  <2>2. \A q \in Runs : q # r => Kept(q)
    BY <1>0, <2>1 DEF Kept
  <2>3. \A d \in Clones : tags'[d] \subseteq tags[d]
    BY <1>0, <2>1
  <2>4. \A t \in tags'[c] : SameName(t, NewTag(r)) => verified_tag(c, t)
    BY <1>0, <2>1
  <2>5. ASSUME NEW d \in Clones, NEW t \in tags'[d]
        PROVE  SelfVerified(t) \/ (t.signer = d /\ \E q \in Runs : Excuses(q, d, t)')
    <3>1. CASE ~ SelfVerified(t)
      <4>1. t.signer = d /\ \E q \in Runs : Excuses(q, d, t)
        BY <2>3, <3>1 DEF UInv
      <4>2. PICK q \in Runs : Excuses(q, d, t)
        BY <4>1
      <4>3. CASE q = r
        <5>1. d = c /\ SameName(t, NewTag(r))
          BY <4>2, <4>3 DEF Excuses
        <5>2. verified_tag(c, t)
          BY <2>4, <5>1
        <5> QED BY <3>1, <4>1, <5>1, <5>2 DEF SelfVerified, verified_tag
      <4>4. CASE q # r
        BY <2>2, <4>1, <4>2, <4>4, KeptExcuses
      <4> QED BY <4>3, <4>4
    <3> QED BY <3>1
  <2>6. \A t : SelfVerified(t)' <=> SelfVerified(t)
    BY DEF SelfVerified, Signed
  <2> QED BY <2>1, <2>5, <2>6 DEF UInv
<1>5. CASE Kill(r)
  <2>1. UNCHANGED <<remoteTags, tags>>
    BY <1>5 DEF Kill
  <2>2. CASE run[r].pc = "verify" /\ Goto(r, "killed")
    <3>1. \A q \in Runs : Kept(q)
      BY <1>0, <2>2 DEF Kept, Goto, RunState
    <3> QED BY <2>1, <3>1, KeptStep
  <2>3. CASE run[r].pc \notin {"verify", "killed"} /\ Stop(r)
    BY <1>1, <2>1, <2>3, KeptStep DEF Stop
  <2> QED BY <1>5, <2>2, <2>3 DEF Kill
<1> QED BY <1>2, <1>3, <1>4, <1>5 DEF TagCommand

LEMMA NextUInv == IInv /\ UInv /\ [Next]_vars => UInv'
<1> SUFFICES ASSUME IInv, UInv, [Next]_vars PROVE UInv'
  OBVIOUS
<1>1. CASE UNCHANGED vars
  <2>1. UNCHANGED <<remoteTags, tags, run>>
    BY <1>1 DEF vars
  <2> QED BY <2>1, KeptStep DEF Kept
<1> QED BY <1>1, OperatorUInv, TagCommandUInv DEF Next

(* A signed tag that does not verify where it was made is being verified   *)
(* by a run, or was left by one that died before it verified; it is never  *)
(* published and never reaches another clone ("signature does not verify;  *)
(* tag removed").                                                          *)
THEOREM UnverifiedRemoved == Spec => []UnverifiedIsTransient
<1>1. UInv => UnverifiedIsTransient
  <2> SUFFICES ASSUME UInv, NEW c \in Clones, NEW t \in tags[c],
                      t.signer = c, ~ verified_tag(c, t)
               PROVE  \E r \in Runs : Excuses(r, c, t)
    BY DEF UnverifiedIsTransient, Excuses
  <2>1. ~ SelfVerified(t)
    BY ClonesAssumption DEF SelfVerified, Signed, verified_tag
  <2> QED BY <2>1 DEF UInv
<1>2. Init => UInv
  BY DEF Init, UInv
<1> QED
  BY <1>1, <1>2, InitIInv, NextIInv, NextUInv, PTL DEF Spec
=============================================================================
