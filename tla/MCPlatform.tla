----------------------------- MODULE MCPlatform -----------------------------
(***************************************************************************)
(* Instance of the modules that share no state, one after the other: part  *)
(* is the one that is run, the others stay as they were initialised.       *)
(***************************************************************************)
EXTENDS BillingPeriod, Listing, Reports, Seed, Settings, Accounts, TLC

VARIABLE part

Parts == {"billing", "listing", "reports", "seed", "settings", "accounts"}

platformVars ==
    <<part, vars, listingVars, reportsVars, seedVars, settingsVars, accountsVars>>

RequestSymmetry == Permutations(Requests)

-----------------------------------------------------------------------------
(* Values of the constants. *)

(* The first days and the last of every month of a leap year and of the    *)
(* year before it, of a century year that is not leap and of the year      *)
(* before it.                                                              *)
SomeDays == {t \in [y : {2023, 2024, 2099, 2100}, m : 1 .. 12, d : {1, 2} \cup 27 .. 31] :
               t.d <= DaysIn(t.y, t.m)}

(* Messages; conversations (searches, which do not move, and usage logs,   *)
(* which do not leave either, do less); and users, filtered and sorted.    *)
SomeLists ==
    {[asc |-> TRUE, moves |-> FALSE, leaves |-> FALSE, returns |-> FALSE],
     [asc |-> FALSE, moves |-> TRUE, leaves |-> TRUE, returns |-> FALSE],
     [asc |-> TRUE, moves |-> TRUE, leaves |-> TRUE, returns |-> TRUE]}

Asked(kind, table, from, to) == [kind |-> kind, table |-> table, from |-> from, to |-> to]

SomeTasks ==
    {Asked("dashboard", table, 0, 0) : table \in {"users", "subscriptions", "providers", "logs"}}
    \cup {Asked("health", "providers", 0, 0), Asked("check", "providers", 0, 0)}
    \cup {Asked("analytics", "logs", from, to) : from \in {0, 2}, to \in {0, 4}}
    \cup {Asked("summary", "logs", 2, to) : to \in {4, 7}}

-----------------------------------------------------------------------------
(* The parts. *)

BillingRuns == part = "billing"
ListingRuns == part = "listing"
ReportsRuns == part = "reports"
SeedRuns == part = "seed"
SettingsRuns == part = "settings"
AccountsRun == part = "accounts"

PlatformInit ==
    /\ part \in Parts
    /\ IF BillingRuns THEN Init ELSE cycle = "monthly" /\ first = On(2023, 1, 1) /\ Init
    /\ IF ListingRuns THEN ListingInit
       ELSE /\ list = (CHOOSE l \in SomeLists : TRUE) /\ stamps = [r \in Rows |-> 0] /\ now = 1
            /\ writes = 0 /\ walk = PageStart(1) /\ shown = [r \in Rows |-> 0]
            /\ excuse = [missed |-> {}, twice |-> {}, torn |-> {}]
    /\ IF ReportsRuns THEN ReportsInit
       ELSE /\ task = Asked("check", "providers", 0, 0) /\ data = <<>> /\ figures = <<>>
            /\ outcome = "running" /\ overlaps = 0 /\ dbUp = TRUE /\ blips = 0
    /\ IF SeedRuns THEN SeedInit ELSE capitals = FALSE /\ SeedInit
    /\ IF SettingsRuns THEN SettingsInit
       ELSE /\ boot = "off" /\ mail = "none" /\ inFile = FALSE /\ database = TRUE
            /\ text = [n \in Names |-> Usual(n, {})] /\ env = text
    /\ AccountsInit
    /\ AccountsRun \/ Admins = {Root}

PlatformNext ==
    \/ /\ BillingRuns /\ Roll
       /\ UNCHANGED <<part, listingVars, reportsVars, seedVars, settingsVars, accountsVars>>
    \/ /\ ListingRuns /\ ListingNext
       /\ UNCHANGED <<part, vars, reportsVars, seedVars, settingsVars, accountsVars>>
    \/ /\ ReportsRuns /\ ReportsNext
       /\ UNCHANGED <<part, vars, listingVars, seedVars, settingsVars, accountsVars>>
    \/ /\ SeedRuns /\ SeedNext
       /\ UNCHANGED <<part, vars, listingVars, reportsVars, settingsVars, accountsVars>>
    \/ /\ SettingsRuns /\ SettingsNext
       /\ UNCHANGED <<part, vars, listingVars, reportsVars, seedVars, accountsVars>>
    \/ /\ AccountsRun /\ AccountsNext
       /\ UNCHANGED <<part, vars, listingVars, reportsVars, seedVars, settingsVars>>

PlatformSpec == PlatformInit /\ [][PlatformNext]_platformVars

=============================================================================
