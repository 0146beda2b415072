SPECIFICATION Spec
CONSTANTS
    r1 = r1
    r2 = r2
    c1 = c1
    c2 = c2
    p1 = p1
    p2 = p2
    NoFile = NoFile
    NoId = NoId
    NoSigner = NoSigner
    Rules = {p1, p2}
    Snapshots = {p2}
    Entries <- MCEntries
    Clones = {c1, c2}
    Runs = {r1, r2}
    CloneOf <- MCTwoClones
    Keyring <- MCKeyring
    Dates = {1}
    MaxN = 2
    HandNs = {2}
    MaxCommits = 2
    MaxTags = 2
INVARIANTS
    TypeOK
    ReviewedHaveControls
    ReviewedOnMain
    UnverifiedIsTransient
CHECK_DEADLOCK FALSE
