-------------------------------- MODULE Seed --------------------------------
(***************************************************************************)
(* prisma/seed.ts: the roles, plans, administrator and providers every     *)
(* deployment starts from.  It is run by hand, also on a system in use:    *)
(* each statement commits by itself, administrators write in between, it   *)
(* may die anywhere, and it is simply run again.  ADMIN_EMAIL and          *)
(* ADMIN_PASSWORD are set.                                                 *)
(***************************************************************************)
EXTENDS Naturals

CONSTANTS
    MaxRuns,     \* bound: times the seed is run
    MaxTouches   \* bound: writes of others

ASSUME SeedAssumption == MaxRuns \in Nat /\ MaxTouches \in Nat

VARIABLES
    step,        \* the statement the seed is at
    runs,        \* times it was started
    capitals,    \* ADMIN_EMAIL has capital letters
    roles,       \* the two roles are there
    plans,       \* each plan: not there, as seeded, edited, or renamed
    admin,       \* the account with ADMIN_EMAIL
    hasSub,      \* it has an ACTIVE subscription
    subFound,    \* what findFirst told the seed of it
    active,      \* the providers that are there, and whether active
    default,     \* the one that is the default, or "none"
    touches,     \* writes of others
    calm         \* history: none since the seed was started

seedVars == <<step, runs, capitals, roles, plans, admin, hasSub, subFound,
              active, default, touches, calm>>

-----------------------------------------------------------------------------
SeededPlans == {"FREE", "PREMIUM"}
SeededProviders == {"OPENAI", "CLAUDE", "GEMINI"}
SeedSteps == <<"roles", "FREE", "PREMIUM", "admin", "findSub", "createSub",
               "OPENAI", "CLAUDE", "GEMINI", "done">>

After(s) == SeedSteps[1 + CHOOSE i \in 1 .. 9 : SeedSteps[i] = s]

(* password is that of the environment, or another. *)
NoAccount == [there |-> FALSE, live |-> FALSE, admin |-> FALSE, password |-> "other"]
SeededAccount == [there |-> TRUE, live |-> TRUE, admin |-> TRUE, password |-> "env"]

SeedTypeOK ==
    /\ step \in {SeedSteps[i] : i \in 1 .. 10} \cup {"idle", "aborted"}
    /\ runs \in 0 .. MaxRuns /\ touches \in 0 .. MaxTouches
    /\ {capitals, roles, hasSub, subFound, calm} \subseteq BOOLEAN
    /\ plans \in [SeededPlans -> {"absent", "seeded", "edited", "renamed"}]
    /\ admin \in [there : BOOLEAN, live : BOOLEAN, admin : BOOLEAN, password : {"env", "other"}]
    /\ active \in [SeededProviders -> {"absent", "active", "inactive"}]
    /\ default \in SeededProviders \cup {"none"}

(* An empty database, after the migrations. *)
SeedInit ==
    /\ step = "idle" /\ runs = 0 /\ touches = 0 /\ calm = TRUE
    /\ capitals \in BOOLEAN
    /\ roles = FALSE
    /\ plans = [p \in SeededPlans |-> "absent"]
    /\ admin = NoAccount /\ hasSub = FALSE /\ subFound = FALSE
    /\ active = [p \in SeededProviders |-> "absent"] /\ default = "none"

-----------------------------------------------------------------------------
SeedStart ==
    /\ step \in {"idle", "done", "aborted"} /\ runs < MaxRuns
    /\ step' = "roles" /\ runs' = runs + 1 /\ calm' = TRUE
    /\ UNCHANGED <<capitals, roles, plans, admin, hasSub, subFound, active, default, touches>>

SeedRoles ==
    /\ step = "roles"
    /\ roles' = TRUE /\ step' = After(step)
    /\ UNCHANGED <<runs, capitals, plans, admin, hasSub, subFound, active, default, touches, calm>>

(* upsert by name: a renamed plan is not found, and still has the slug. *)
SeedPlan ==
    /\ step \in SeededPlans
    /\ IF plans[step] = "renamed"
         THEN step' = "aborted" /\ UNCHANGED plans
         ELSE plans' = [plans EXCEPT ![step] = "seeded"] /\ step' = After(step)
    /\ UNCHANGED <<runs, capitals, roles, admin, hasSub, subFound, active, default, touches, calm>>

(* Mutant: the update does not revive the account. *)
UpsertedAsItIs == [SeededAccount EXCEPT !.live = admin.live \/ ~admin.there]

(* upsert by email: whatever became of the account. *)
Upserted == SeededAccount

SeedAdmin ==
    /\ step = "admin"
    /\ admin' = Upserted /\ step' = After(step)
    /\ UNCHANGED <<runs, capitals, roles, plans, hasSub, subFound, active, default, touches, calm>>

(* The FREE plan was renamed since it was seeded: there is no subscription. *)
FindSub ==
    /\ step = "findSub"
    /\ subFound' = (hasSub \/ plans["FREE"] = "renamed") /\ step' = After(step)
    /\ UNCHANGED <<runs, capitals, roles, plans, admin, hasSub, active, default, touches, calm>>

(* A second ACTIVE subscription is refused by the unique index. *)
CreateSub ==
    /\ step = "createSub"
    /\ \/ subFound /\ step' = After(step) /\ UNCHANGED hasSub
       \/ ~subFound /\ hasSub /\ step' = "aborted" /\ UNCHANGED hasSub
       \/ ~subFound /\ ~hasSub /\ hasSub' = TRUE /\ step' = After(step)
    /\ UNCHANGED <<runs, capitals, roles, plans, admin, subFound, active, default, touches, calm>>

(* Mutant: the first statement takes the flag from all of them. *)
DefaultClearedFirst ==
    IF step = "OPENAI" THEN "none" ELSE default

(* OpenAI is to be the default, the others are not. *)
DefaultAfter ==
    IF step = "OPENAI" THEN "OPENAI" ELSE IF step = default THEN "none" ELSE default

(* The partial unique index refuses a second default. *)
SeedProvider ==
    /\ step \in SeededProviders
    /\ IF step = "OPENAI" /\ default \notin {"OPENAI", "none"}
         THEN step' = "aborted" /\ UNCHANGED <<active, default>>
         ELSE /\ active' = [active EXCEPT ![step] = "active"]
              /\ default' = DefaultAfter
              /\ step' = After(step)
    /\ UNCHANGED <<runs, capitals, roles, plans, admin, hasSub, subFound, touches, calm>>

(* It dies, or loses the database. *)
SeedDies ==
    /\ step \notin {"idle", "done", "aborted"} /\ step' = "idle"
    /\ UNCHANGED <<runs, capitals, roles, plans, admin, hasSub, subFound, active,
                   default, touches, calm>>

-----------------------------------------------------------------------------
(* What the API does meanwhile to the rows that are seeded. *)
Others ==
    /\ touches < MaxTouches /\ touches' = touches + 1 /\ calm' = FALSE
    /\ UNCHANGED <<step, runs, capitals, roles, subFound>>

(* adminUpdatePlan: any field, or the name. *)
PlanWritten ==
    /\ \E p \in SeededPlans, s \in {"edited", "renamed"} :
         plans[p] # "absent" /\ plans' = [plans EXCEPT ![p] = s]
    /\ UNCHANGED <<admin, hasSub, active, default>>

(* The account is registered, deactivated or deleted, demoted, given       *)
(* another password.                                                       *)
AccountWritten ==
    /\ \/ ~admin.there /\ ~capitals /\ roles
          /\ admin' = [NoAccount EXCEPT !.there = TRUE, !.live = TRUE]
          /\ plans["FREE"] # "absent" /\ hasSub' = TRUE
       \/ admin.there /\ UNCHANGED hasSub
          /\ admin' \in {[admin EXCEPT !.live = FALSE], [admin EXCEPT !.admin = FALSE],
                         [admin EXCEPT !.password = "other"]}
    /\ UNCHANGED <<plans, active, default>>

(* An administrator cancels the subscription; a request of the account     *)
(* provides one again.                                                     *)
SubWritten ==
    /\ admin.there /\ admin.live
    /\ \/ hasSub /\ hasSub' = FALSE
       \/ ~hasSub /\ plans["FREE"] # "absent" /\ hasSub' = TRUE
    /\ UNCHANGED <<plans, admin, active, default>>

(* A provider is made the default, deactivated or deleted. *)
ProviderWritten ==
    /\ \E p \in SeededProviders :
         \/ active[p] = "active" /\ default' = p /\ UNCHANGED active
         \/ /\ active[p] # "absent" /\ p # default
            /\ active' \in {[active EXCEPT ![p] = s] : s \in {"absent", "inactive"}}
            /\ UNCHANGED default
    /\ UNCHANGED <<plans, admin, hasSub>>

Touched == Others /\ (PlanWritten \/ AccountWritten \/ SubWritten \/ ProviderWritten)

SeedNext ==
    \/ SeedStart \/ SeedRoles \/ SeedPlan \/ SeedAdmin \/ FindSub \/ CreateSub
    \/ SeedProvider \/ SeedDies \/ Touched

SeedSpec == SeedInit /\ [][SeedNext]_seedVars

-----------------------------------------------------------------------------
(* Properties. *)

(* login looks for the address in small letters. *)
CanLogIn == admin = SeededAccount /\ ~capitals

(* README.md:239, "Log in as the seeded admin with the email and password  *)
(* from .env": whatever was done to the database, and however often the    *)
(* seed died before, one that ends without others writing meanwhile leaves *)
(* everything as on the first day; its administrator can log in unless his *)
(* address was given with capital letters.                                 *)
SeedRestores ==
    step = "done" /\ calm =>
      /\ CanLogIn \/ capitals
      /\ hasSub /\ \A p \in SeededPlans : plans[p] = "seeded"
      /\ default = "OPENAI" /\ \A p \in SeededProviders : active[p] = "active"

(* seed.ts:187: the seed yields to what others do, and to nothing else.    *)
(* The database refuses it only for another default provider, a plan that  *)
(* has another name, or a subscription given to the account meanwhile,     *)
(* never for what an earlier run left when it died; and it takes the       *)
(* default from the system only if another provider was made the default   *)
(* while it ran, after its own statement for OpenAI.                       *)
SeedYields ==
    [][/\ step # "aborted" /\ step' = "aborted" =>
            \/ default \in SeededProviders \ {"OPENAI"}
            \/ \E p \in SeededPlans : plans[p] = "renamed"
            \/ ~calm
       /\ default # "none" /\ default' = "none" => ~calm /\ step \in {"CLAUDE", "GEMINI"}]_seedVars

=============================================================================
