CONSTANTS
    u = u  v = v  m = m  l = l  alone = alone  o = o  p = p  shared = shared  own = own
    Urls <- MCUrls
    Http <- MCHttp
    NotRdf <- MCNotRdf
    Presets <- MCPresets
    Vocabulary <- MCVocabulary
    Loaders = {l, alone}
    Options = {o, p}
    Caches = {shared, own}
    CacheOf <- MCCacheOf
    Requested <- MCRequested
    SchemasOf <- MCSchemasOf
    UrlOf <- MCUrlOf
    MaxOutages = 2
    MaxCalls = 3
SPECIFICATION Spec
INVARIANT GraphIsOfItsSchemas
CHECK_DEADLOCK FALSE
