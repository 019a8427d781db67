SPECIFICATION FairSpec
CONSTANTS
    Callables <- Tree
    Root = "root"
    Lambdas <- Functions
    Parent <- ParentOf
    NameOf <- NamesInTree
    Members = {"get", "group_get", "fail"}
    NoCallable = "no callable"
    NoClient = "no client"
    Failing = {"fail"}
    NoConnection = "no connection"
    Clients = {"one", "two"}
    Futures = {"f", "g"}
    Uses <- AllUses
    Foreign = "foreign"
    Bodies <- AllBodies
INVARIANTS
    AnswersAsSpecified
    OutcomeIsOwn
PROPERTY
    GetEnds
CHECK_DEADLOCK FALSE
