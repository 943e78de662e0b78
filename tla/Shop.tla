---------------------------------- MODULE Shop ----------------------------------
(***************************************************************************)
(* The shop around the trade: Cart beside Products, Onboarding, Desk, Team *)
(* and Files.  The six share no state, so each behaviour is one of them,   *)
(* and the others rest.  Workers are the owner's requests in Team and the  *)
(* users of Files too, and Ids its objects.                                *)
(***************************************************************************)
EXTENDS Cart, Sequences

CONSTANTS
    Ids, MaxSaves, MaxApplications, MaxToggles, MaxImports,
    Staff, Granted, MaxResets, Nobody, Operator

VARIABLES
    part, \* the component whose behaviour this is
    product, shop, told, passed, productRequest,
    application, merchant, granted, applicationRequest,
    review, favorite, toggles, imported, export, deskRequest,
    account, routes, signedIn, outdated, token, resets, call, login, late,
    disk, asset, upload, uploader, team, used, onSale, broken, unsure

Products == INSTANCE Products WITH request <- productRequest
Onboarding == INSTANCE Onboarding WITH request <- applicationRequest
Desk == INSTANCE Desk WITH request <- deskRequest
Team == INSTANCE Team WITH OwnerCalls <- Workers
Files == INSTANCE Files WITH Objects <- Ids, Users <- Workers

ASSUME PartsAssumption ==
    /\ Products!ProductsAssumption /\ Onboarding!OnboardingAssumption /\ Desk!DeskAssumption
    /\ Team!TeamAssumption /\ Files!FilesAssumption

productVars == <<product, shop, told, passed, productRequest>>
onboardingVars == <<application, merchant, granted, applicationRequest>>
deskVars == <<review, favorite, toggles, imported, export, deskRequest>>
teamVars == <<account, routes, signedIn, outdated, token, resets, call, login, late>>
filesVars == <<disk, asset, upload, uploader, team, used, onSale, broken, unsure>>
shopVars ==
    <<part, vars, productVars, onboardingVars, deskVars, teamVars, filesVars>>

ShopInit ==
    /\ part \in {"cart", "products", "onboarding", "desk", "team", "files"}
    /\ Init /\ Products!Init /\ Onboarding!Init /\ Desk!Init
    /\ Team!Init /\ Files!Init
    /\ part # "cart" => \A s \in Skus : sku[s].available = 0

CartStep ==
    /\ part = "cart" /\ Next
    /\ UNCHANGED <<part, productVars, onboardingVars, deskVars, teamVars, filesVars>>

ProductsStep ==
    /\ part = "products" /\ Products!Next
    /\ UNCHANGED <<part, vars, onboardingVars, deskVars, teamVars, filesVars>>

OnboardingStep ==
    /\ part = "onboarding" /\ Onboarding!Next
    /\ UNCHANGED <<part, vars, productVars, deskVars, teamVars, filesVars>>

DeskStep ==
    /\ part = "desk" /\ Desk!Next
    /\ UNCHANGED <<part, vars, productVars, onboardingVars, teamVars, filesVars>>

TeamStep ==
    /\ part = "team" /\ Team!Next
    /\ UNCHANGED <<part, vars, productVars, onboardingVars, deskVars, filesVars>>

FilesStep ==
    /\ part = "files" /\ Files!Next
    /\ UNCHANGED <<part, vars, productVars, onboardingVars, deskVars, teamVars>>

ShopNext ==
    CartStep \/ ProductsStep \/ OnboardingStep \/ DeskStep \/ TeamStep \/ FilesStep

ShopSpec == ShopInit /\ [][ShopNext]_shopVars
-----------------------------------------------------------------------------
(* The properties of the instantiated modules, for the state they have     *)
(* here; those of Cart are its own.                                        *)

\* Products: the review history ends with the status of the product.
HistoryTellsStatus == Products!HistoryTellsStatus

\* Products: every step of a product is one of product-workflow.ts, or back to draft.
StepsOfTheTable == Products!StepsOfTheTable

\* Products: visitors open no text but one that a reviewer approved.
OnSaleWasReviewed == Products!OnSaleWasReviewed

\* Onboarding: one merchant for a user, by one approval, as the timeline tells.
OneApproval == Onboarding!OneApproval

\* Desk: what is stored is what counting the answered toggles gives.
TogglesCount == Desk!TogglesCount

\* Team: whoever was suspended or removed, or had his password reset, is out.
OutIsOut == Team!OutIsOut

\* Files: who is let through to a file finds it, and none is left behind.
NothingAstray == Files!NothingAstray
=============================================================================
