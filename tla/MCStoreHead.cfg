CONSTANTS
    t1 = t1  t2 = t2  a = a  b = b
    wab = wab  wba = wba  wa = wa  wb = wb  waa = waa  wc = wc  dall = dall  da = da
    Tenant = {t1}
    Tuple = {a, b}
    Op = {wa, wb}
    OpDef <- MCOpDef
    Plans <- TwoWrites
    MaxTuplesPerWrite = 2
    MaxRetries = 0
SPECIFICATION Spec
CHECK_DEADLOCK FALSE
INVARIANT HeadFresh
