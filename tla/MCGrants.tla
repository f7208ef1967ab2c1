------------------------------ MODULE MCGrants -------------------------------
EXTENDS Grants, TLC
CONSTANTS g1, g2, g3
\* Two grants for uploads, the second one preferred, and one for storage.
MCTypeOf == g1 :> "upload" @@ g2 :> "upload" @@ g3 :> "storage"
MCSource == g1 :> "SUBSCRIPTION" @@ g2 :> "PAYG_ADDON" @@ g3 :> "SUBSCRIPTION"
MCOffers == {g1 :> 2 @@ g2 :> 0 @@ g3 :> 1, g1 :> 0 @@ g2 :> 1 @@ g3 :> 0}
Ask(t, n) == [type |-> t, bytes |-> n]
MCAsks == {Ask("upload", 2), Ask("storage", 1)}
Symmetry == Permutations(Procs) \cup Permutations(Admins)
=============================================================================
