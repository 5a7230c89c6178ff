SPECIFICATION FairSpec
CONSTANTS
    Tags <- SomeTags
    MaxInt = 99
    Specs <- PreReleaseSpecs
    AnyPrefix = AnyPrefix
    Releases <- PreReleases
    MaxListed = 2
    PageSize = 2
    Digests = {d1}
    None = None
    Error = Error
PROPERTIES
    FinalBeatsItsPreReleases
