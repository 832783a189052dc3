SPECIFICATION FairSpec
CONSTANTS
    Users = {u1}
    Houses = {h1, h2}
    Stocked = {h1}
    Requests = {r1, r2}
    Kinds = {"recipe", "shopping", "legacyRecipe", "embedding", "addItem"}
    Threads = 1
    None = None
INVARIANTS TypeOK HouseholdIsOwn AnswersAreUsable
PROPERTIES RequestsEnd RequestsAdvance
