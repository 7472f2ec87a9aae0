SPECIFICATION WorldSpec
CONSTANTS
    Parts = {"crafting"}
    Clients = {c1, c2}
    VehicleIds = {v1, v2}
    LastSeat = 1
    Full = 3
    Critical = 2
    MaxVisits = 2
    Managers = {m1, m2}
    MaxCount = 2
    LastItem = 5
    Recipes <- WorldRecipes
    Stock <- WorldStock
    MaxLoops = 5
    MaxAmount = 2
    NoManager = NoManager
    Players = {p1, p2}
    Ids = {1, 2, 3}
    Sides = {1, 2}
    Walls = {1}
    MaxChanges = 2
    None = None
    Nothing = Nothing
INVARIANT PlanHolds
CHECK_DEADLOCK FALSE
