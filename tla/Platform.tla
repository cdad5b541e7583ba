------------------------------- MODULE Platform -------------------------------
(***************************************************************************)
(* The components below the metering pipeline that share no state: a       *)
(* behaviour is one of the component that is chosen at first, and the      *)
(* others stay as they are, so that one run checks them all.               *)
(***************************************************************************)
EXTENDS MeterQueue, CallGuard, DBClient, Housekeeper, WindowsInvariant, PlanCatalog,
        WebCalls

VARIABLE part   \* the component that runs

Parts == {"meter", "calls", "databases", "housekeeper", "windows", "plans", "web"}

platformVars == <<part, vars, guardVars, dbVars, housekeeperVars, windowVars,
                  catalogVars, webVars>>

PlatformInit ==
    /\ part \in Parts
    /\ Init /\ GuardInit /\ DBInit /\ HousekeeperInit /\ WindowsInit /\ CatalogInit /\ WebInit
    /\ part # "calls" => limit = MaxRunning
    /\ part # "web" => \A n \in Limits : n <= maxInflight
    /\ part # "plans" => watched = CHOOSE item \in LookedUp : TRUE

PlatformNext ==
    /\ UNCHANGED part
    /\ \/ part = "meter" /\ Next
       \/ part # "meter" /\ UNCHANGED vars
    /\ \/ part = "calls" /\ GuardNext
       \/ part # "calls" /\ UNCHANGED guardVars
    /\ \/ part = "databases" /\ DBNext
       \/ part # "databases" /\ UNCHANGED dbVars
    /\ \/ part = "housekeeper" /\ HousekeeperNext
       \/ part # "housekeeper" /\ UNCHANGED housekeeperVars
    /\ \/ part = "windows" /\ WindowsNext
       \/ part # "windows" /\ UNCHANGED windowVars
    /\ \/ part = "plans" /\ CatalogNext
       \/ part # "plans" /\ UNCHANGED catalogVars
    /\ \/ part = "web" /\ WebNext
       \/ part # "web" /\ UNCHANGED webVars

\* The inductive invariant of the component that runs.
PlatformInv ==
    /\ part = "meter" => Inv
    /\ part = "calls" => GuardInv
    /\ part = "databases" => DBInv
    /\ part = "housekeeper" => HousekeeperInv
    /\ part = "windows" => WindowsInv
    /\ part = "plans" => CatalogInv
    /\ part = "web" => WebInv

\* Nothing of what is fair to a component is enabled until it has begun.
PlatformSpec ==
    /\ PlatformInit /\ [][PlatformNext]_platformVars
    /\ Fairness /\ GuardFairness /\ HousekeeperFairness
=============================================================================
