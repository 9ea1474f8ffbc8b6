SPECIFICATION Spec
CONSTANTS
    NaN = NaN
    None = None
    Rows <- MCRows
    Created <- MCCreated
    Joined <- MCJoined
    LimitParams <- MCLimitParams
    PageParams <- MCPageParams
INVARIANTS NoneSkipped TwiceOnlyIfPushed PagesAreTheList
