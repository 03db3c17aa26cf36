CONSTANTS
    t1 = t1  t2 = t2  a = a  b = b
    wab = wab  wba = wba  wa = wa  wb = wb  waa = waa  wc = wc  dall = dall  da = da
    Tenant = {t1, t2}
    Tuple = {a, b}
    Op = {wab, wba, waa, wc, wa, dall, da}
    OpDef <- MCOpDef
    Plans <- WritesAndDeletes
    MaxTuplesPerWrite = 2
    MaxRetries = 1
SPECIFICATION FairSpec
CHECK_DEADLOCK FALSE
INVARIANT TypeOK LiveOnce TokenFresh
PROPERTY TokensKept CallsReturn
