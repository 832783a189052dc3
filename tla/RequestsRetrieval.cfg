SPECIFICATION Spec
CONSTANTS
    Users = {u1}
    Houses = {h1, h2}
    Stocked = {h1}
    Requests = {r1}
    Kinds = {"recipe", "shopping", "legacyRecipe", "addItem"}
    Threads = 1
    None = None
INVARIANT PantryIsRetrieved
