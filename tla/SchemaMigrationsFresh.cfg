SPECIFICATION Spec
CONSTANTS
    Migrators = {m1, m2}
    Inherited = {}
    Idle = Idle
SYMMETRY Symmetry
INVARIANTS
    MigrationsApply
