SPECIFICATION FairSpec
CONSTANTS
    None = None
    leaf = leaf
    Word <- Words
    Canonical <- Canonicals
    DefaultSecret <- Defaultsecrets
    SecretPart <- Secretparts
    Option <- Options
    MaxOptions = 2
    Node = {1, 2, 3, 4}
    Root = 1
    Leaf = leaf
    Key <- Keys
    KeyBytes <- Bytes
    Prefix <- Prefixes
    Digest <- Digests
    Suffixed <- Suffixes
    MarkerWord <- Markers
    OmittedWord <- omitted
    Payload <- Payloads
INVARIANTS
    TypeOK
    LimitsNested
    OnlyAncestorsAreCircular
    EntriesAccounted
    MarkersGenuine
    PayloadBounded
    OmittedForAReason
    NoSecretVisited
PROPERTIES
    SanitizeReturns
CHECK_DEADLOCK FALSE
