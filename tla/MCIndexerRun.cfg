CONSTANTS
    p1 = p1
    p2 = p2
    plain = plain
    concept = concept
    glossary = glossary
    Scribble = Scribble
    Broken = Broken
    Absent = Absent
    Page = {p1, p2}
    IndexPage = {glossary}
    Version = {plain, concept}
    Flagged <- ListedOn
    HandEdits = {plain, concept, Broken, Absent}
    DropMayFail = TRUE
    CancelWired = TRUE
    MaxEdits = 2
    MaxInterrupts = 1
SPECIFICATION FairSpec
INVARIANTS
    TypeOK
    WalkProjectsFiles
    IndexPagesListConcepts
    TablesAgree
PROPERTIES
    PassOverUpToDateWritesNothing
    PassEnds
