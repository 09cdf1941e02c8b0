SPECIFICATION Spec
CONSTANTS
    Migrators = {m1, m2}
    Inherited = {1, 2, 3, 4, 5, 6}
    Idle = Idle
SYMMETRY Symmetry
INVARIANTS
    SchemaFitsRevision
    HeadIsEntities
    DowngradesApply
    UpgradeKeepsRows
