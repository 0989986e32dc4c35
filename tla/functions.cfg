\* The decoder, the decimal context and the names of a view's columns, on all small inputs.
CONSTANTS
    Characters = {"x"}
    Messages <- MCMessages
    Amounts <- MCAmounts
    MaxAmount = 987
    Digits = 2
    Dropped = 2
    MaxEvents = 4
    Stems <- MCStems
    StemBytes <- MCStemBytes
    RowsColumn = "rows"
    GlobalKey = "all"
    MaxGroupBy = 2
    MaxAggregates = 2
SPECIFICATION Spec
INVARIANTS
    DecodesWhatWasSent
    RefusesOnlyTheBroken
    SumErrorBounded
    NamesFit
    ColumnsDistinct
CHECK_DEADLOCK FALSE
