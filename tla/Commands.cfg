SPECIFICATION Spec
CONSTANTS
    Path = {"in", "out"}
    Invocations <- SmallInvocations
    Dashboards <- SmallDashboards
    QueryLists <- SmallQueryLists
INVARIANTS
    TypeOK
    NoQueryLostQuietly
    DoneMeansWritten
    AbandonedChangesNothing
    PanelsKeepTheirs
    ReportsInPageOrder
PROPERTIES
    CommandEnds
