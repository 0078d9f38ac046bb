CONSTANTS
    Name <- MCName
    Plain = {"x", "y", "z"}
    Dotted = {"x", "y", "z"}
    Reserved = {}
    Md <- MCMd
    PageType = {"source", "concept"}
    SubDir <- MCSubDir
    Id <- MCId
    Label = {"l", "m"}
    Version = {"a", "b", "o"}
    LinksOf <- MCLinksOf
    Absent = Absent
    Corpus <- MCCorpus
    Input <- MCInput
    Move = {}
    MaxCalls = 3
    None = None
    Concept = "concept"
    Handle <- MCHandle
    Meta <- MCMeta
    Trigrams <- MCTrigrams
    Threshold = 60
    FetchCap = 2
    ListSpread = 1
    ListFloor = 1
    RankOffset = 60
    Scale = 238266
    Query = {"q"}
    Mentions <- MCMentions
    Needles <- MCNeedles
    Fetch <- MCFetch
    MaxHops = 2
    HopLimit = 4
    Request = {}
    MaxReads = 0
SPECIFICATION ReadsSpec
CHECK_DEADLOCK FALSE
INVARIANT RemovedIsGone
