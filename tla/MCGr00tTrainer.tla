--------------------------- MODULE MCGr00tTrainer ---------------------------
EXTENDS Gr00tTrainer, TLC

\* Directories 1 (a backup of some other dataset), 2, and 3 (where 2 is moved to).
Tree(base, one, two, three) == (Base :> base) @@ (1 :> one) @@ (2 :> two) @@ (3 :> three)

MCLayouts == {Tree("none", "none", "none", "none"),
              Tree("v2",   "none", "none", "none"),
              Tree("v3",   "none", "none", "none"),
              Tree("none", "v3",   "none", "none"),
              Tree("none", "v3",   "v3",   "none"),
              Tree("none", "none", "v2",   "v3")}

\* 1 and 3 are not converted.
MCBackupOf == (1 :> 1) @@ (2 :> 3) @@ (3 :> 3)
=============================================================================
