SPECIFICATION FairSpec
CONSTANTS
    Tags <- SomeTags
    MaxInt = 99
    Specs <- SomeSpecs
    AnyPrefix = AnyPrefix
    Releases <- SomeReleases
    MaxListed = 4
    PageSize = 3
    Digests = {d1, d2}
    None = None
    Error = Error
INVARIANTS
    TypeOK
    HighestSoFar
    ResultIsLastAnswer
PROPERTIES
    NewestOnPage
    ResolutionEnds
