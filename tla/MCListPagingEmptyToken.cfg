CONSTANTS
    Keys <- MCKeys
    GLOBAL_VERSION_KEY <- MCGlobalVersionKey
    LIST_KEY_VERSIONS_MAX_PAGE_SIZE = 2
    I32_MAX = 2147483647
    KeyPrefixes <- MCPrefixes
    PageSizes <- MCPageSizes
    FirstTokens <- MCFirstTokens
    MaxWrites = 2
    None = None

SPECIFICATION Spec

INVARIANT FirstPageCarriesGlobalVersion
