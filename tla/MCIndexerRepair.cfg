CONSTANTS
    p1 = p1
    p2 = p2
    plain = plain
    concept = concept
    glossary = glossary
    Scribble = Scribble
    Broken = Broken
    Absent = Absent
    Page = {p1}
    IndexPage = {glossary}
    Version = {plain, concept}
    Flagged <- ListedOn
    HandEdits = {plain, concept}
    DropMayFail = FALSE
    CancelWired = FALSE
    MaxEdits = 1
    MaxInterrupts = 1
SPECIFICATION Spec
INVARIANT WalkRepairsPages
