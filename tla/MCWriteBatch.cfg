CONSTANTS
    slug = slug
    section = section
    label = label
    k1 = k1
    old = old
    new = new
    SlugId = {slug}
    SectionId = {section}
    Text = {"body"}
    Label = {label}
    ClaimId = {k1}
    ClaimText = {old, new}
    NoClaim = NoClaim
    NoPage = NoPage
    Client = {c1, c2}
    None = None
    Unreadable = Unreadable
    Batches <- AllBatches
    MaxBatches = 3
    MaxHandEdits = 1
    MaxCrashes = 1
SPECIFICATION Spec
CHECK_DEADLOCK FALSE
INVARIANTS
    TypeOK
    CommittedIsSerial
    MissingPageWritesNothing
    ClaimVanishesByOwnRewrite
    LookupFindsWhatWasChecked
    RowsMatchFiles
