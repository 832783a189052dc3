SPECIFICATION RecipeSpec
CONSTANTS
    Requests = {r1, r2}
    Routes = {"ai", "random"}
    Ips = {home}
    Users = {ann}
    Window = 3
    Limit <- RecipeLimit
    MaxTime = 6
    Ttl = 2
SYMMETRY Symmetry
INVARIANTS RecipeTypeOK FetchesAreSpared
