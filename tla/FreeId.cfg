CONSTANTS
    MaxId = 4
    MaxAccounts = 5
SPECIFICATION SearchSpec
INVARIANTS SearchTypeOK GoodAnswer FollowsHighest
PROPERTY Returns
