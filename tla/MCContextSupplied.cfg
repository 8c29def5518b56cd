CONSTANTS
    Empty = Empty
    ShortStr = ShortStr
    LongStr = LongStr
    Str = {Empty, ShortStr, LongStr}
    StrLen <- MCStrLen
    Names = {"nobody", "root", "staff", "usr"}
    Unresolved = Unresolved
    None = None
SPECIFICATION SuppliedSpec
\* the preamble returns: "stores" and "failed" are final
CHECK_DEADLOCK FALSE
INVARIANTS ContextNonEmptyAtStores
