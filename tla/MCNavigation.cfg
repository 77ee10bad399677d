\* Depth six: account, sign-up, home, category, shop and its events on one stack;
\* one unanswered call of each kind.
CONSTANTS
    MaxDepth = 6
    MaxAnswers = 1
SPECIFICATION Spec
INVARIANTS
    NavInv
    TabBarFollowsScreen
    AlwaysWayOut
PROPERTIES
    SignUpStranded
    HomeOnAccountStays
    SignedOutForever
