------------------------------- MODULE MCUsage -------------------------------
EXTENDS Usage, TLC
MCTypes == {"UPLOAD", "DOWNLOAD", "STORAGE_ADD"}
MCUsers == {1, 2}
Daily == Window("DAY", 0, 0, 0, 0)
Rolling == Window("ROLLING", 4, 0, 0, 0)
Of(upload, download, storage, w) ==
    [t \in MCTypes |-> Limit(CASE t = "UPLOAD" -> upload
                               [] t = "DOWNLOAD" -> download
                               [] OTHER -> storage, w, NoThreshold)]
Account(policy, limits) ==
    [policy |-> policy, limits |-> limits, left |-> [t \in MCTypes |-> 2],
     known |-> TRUE, hidden |-> FALSE, planHidden |-> FALSE]
Limited == Of(0, 3, 3, Daily)
\* The second user has less to spare.
Little == Of(2, 1, 1, Rolling)
\* Limits of a user's own, in a row without a window.
Windowless == Of(2, 1, 1, NoWindow)
MCDeployments ==
    {<<"mysql", 1 :> Account("HARD_LIMITS", Limited) @@ 2 :> Account("HARD_LIMITS", Little)>>,
     <<"sqlite", 1 :> Account("THRESHOLD", Limited) @@ 2 :> Account("ALLOWANCE", Little)>>,
     <<"mysql", 1 :> [Account("HARD_LIMITS", Limited) EXCEPT !.planHidden = TRUE]
             @@ 2 :> Account("UNLIMITED", Little)>>,
     <<"mysql", 1 :> Account("HARD_LIMITS", [Limited EXCEPT !["DOWNLOAD"].window = NoWindow])
             @@ 2 :> Account("THRESHOLD", Windowless)>>}
MCObjects == {<<1, NoSlab>>, <<5, NoSlab>>, <<3, <<2, 3>>>>, <<3, <<1, 2>>>>}
MCRequests == {<<"STORAGE_ADD", 1>>, <<"STORAGE_ADD", 3>>, <<"DOWNLOAD", 3>>}
Symmetry == Permutations(Procs)
==============================================================================
