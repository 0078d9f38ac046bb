CONSTANTS
    slug = slug
    section = section
    label = label
    k1 = k1
    old = old
    new = new
    SlugId = {slug}
    SectionId = {section}
    Text = {"body"}
    Label = {label}
    ClaimId = {k1}
    ClaimText = {old, new}
    NoClaim = NoClaim
    NoPage = NoPage
    Client = {c1, c2}
    None = None
    Unreadable = Unreadable
    Batches <- RewriteBatches
    MaxBatches = 3
    MaxHandEdits = 0
    MaxCrashes = 0
SPECIFICATION Spec
CHECK_DEADLOCK FALSE
INVARIANT AllOrNothing
