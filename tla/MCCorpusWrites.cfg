CONSTANTS
    slug = slug
    section = section
    label = label
    k1 = k1
    old = old
    new = new
    SlugId = {slug}
    SectionId = {section}
    Text = {"body", "revised"}
    Label = {label}
    ClaimId = {k1}
    ClaimText = {old, new}
    NoClaim = NoClaim
    NoPage = NoPage
    Client = {c1, c2}
    Calls <- AllCalls
    NoCall = NoCall
    None = None
    Torn = Torn
    MaxCalls = 4
    MaxCrashes = 1
SPECIFICATION Spec
CHECK_DEADLOCK FALSE
INVARIANTS
    TypeOK
    NeverHalfWritten
    RowsMatchFiles
    LinkRowsAreReal
    LinksAreIndexed
PROPERTIES
    AtomicCalls
    NotFoundIsHonest
