SPECIFICATION AllSpec
CONSTANTS
    small = small
    middle = middle
    large = large
    Requests <- MCRequests
    Fee <- MCFee
    Limit = 5
    Calls = {1, 2, 3}
    KindOf <- MCKindOf
    PayloadOf <- MCPayloadOf
    Changes = {1, 2}
    FieldOf <- MCFieldOf
    ValueOf <- MCValueOf
    MaxFailures = 1
    LastDay = 1
    MaxFaults = 0
INVARIANT RecordedIsSpent
CHECK_DEADLOCK FALSE
