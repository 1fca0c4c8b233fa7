CONSTANTS
    p1 = p1
    p2 = p2
    p3 = p3
    v1 = v1
    v2 = v2
    Absent = Absent
    Torn = Torn
    Authors <- MCAuthors
    Drafts = {v1, v2}
    Files <- MCFiles
    Imported = {"definition.py"}
    SecretsOf <- MCSecrets
    EgressOf <- MCEgress
    Units = {"r", "a", "b"}
    Root = "r"
    Offers <- MCOffers
    RefLists <- MCRefLists
    Roles = {"lead", "aide"}
    Slots = {"repo", "body"}
    ModelNames = {"opus", "haiku"}
    ToolNames = {"read"}
    Ancestors <- MCAncestors
    DiffEdits = 2
    Blueprints <- MCBlueprints
    RoleGroups = {"prompt", "model"}
SPECIFICATION DefinitionsSpec
SYMMETRY AuthorSymmetry
INVARIANTS TreeIsSound ResolutionIsRight MergeIsFaithful TransferMovesKnobs
PROPERTY CleanIsCovered
CHECK_DEADLOCK FALSE
