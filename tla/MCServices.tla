------------------------------ MODULE MCServices ------------------------------
(* One instance of the smaller components and of the pages: a behaviour    *)
(* follows one of them, "part", and the others rest in a fixed state.      *)
EXTENDS Outbox, Accounts, Publishing, Engagement, RequestPages, OfficeLists,
        RequestForm, StaffOnboarding, VehicleEditor, Catalogue, BranchEditor, SignInPage,
        TLC

\* The rows the editor of a car keeps are those "filter" keeps.
ASSUME FilledIsFilter ==
  \A n \in 0..3 : \A rows \in [1..n -> Row] :
    Filled(rows) = SelectSeq(rows, LAMBDA row : row # "BLANK")

VARIABLE part

CONSTANTS h1, h2, p1, p2

\* An account is followed as an employee's, without codes, and three times as
\* a customer's, each time with the codes of one purpose.
AccountParts == {"STAFF", "VERIFY", "RESET", "CONTACT"}

Parts == AccountParts \cup
         {"OUTBOX", "POLICIES", "SECTION", "RULES", "REVIEWS", "CAMPAIGNS",
          "REQUESTS", "OFFICE", "FORM", "ONBOARDING", "CAR", "CATALOGUE", "BRANCH",
          "SIGNIN"}

allVars == <<part, outboxVars, accountVars, publishingVars, engagementVars,
             requestPageVars, officeVars, requestFormVars, onboardingVars,
             vehicleEditorVars, catalogueVars, branchEditorVars, signInVars>>

\* Each part beside the state it rests in while another one runs.
Init ==
  /\ part \in Parts
  /\ OutboxInit
  /\ AccountsInit /\ role = IF part = "STAFF" THEN "SALES" ELSE "CUSTOMER"
  /\ PublishingInit /\ (part # "RULES" => \A r \in Rules : rule[r] = "ON")
  /\ EngagementInit /\ (part # "CAMPAIGNS" => \A c \in Customers : optedIn[c])
  /\ RequestPagesInit
  /\ part # "REQUESTS" => side = "SALES" /\ \A r \in Shown : actual[r] = "PENDING_REVIEW"
  /\ OfficeListsInit /\ (part # "OFFICE" => page = StaffPage)
  /\ RequestFormInit /\ requested # p2
  /\ part # "FORM" => requested = None /\ chosen = Later
  /\ StaffOnboardingInit /\ (part # "ONBOARDING" => employee.role = "SALES")
  /\ VehicleEditorInit
  /\ CatalogueInit /\ BranchEditorInit
  /\ part \notin {"CATALOGUE", "BRANCH"} => \A b \in Branches : branch[b] = "NONE" /\ kept[b] = 0
  \* Two customers need not be told apart.
  /\ SignInPageInit /\ standing[p1] = "PENDING_VERIFICATION"
  /\ part # "SIGNIN" => standing[p2] = "NONE" /\ cookie = None

\* The variables of each part but the requests in flight.
accountOwn == <<role, account, codes, factorVars, sessions>>
publishingOwn == <<clock, bundles, section, saves, rule>>
engagementOwn == <<reviewVars, campaignVars, listVars>>
requestPageOwn == <<side, serverVars, pageVars>>
officeOwn == <<page, stored, listed, own, error>>
formOwn == <<requested, chosen, form, awaited>>
onboardingOwn == <<employee, browser, lapsed, screen>>
carOwn == <<editor, images, uploading, busy>>
catalogueOwn == <<branch, car, asked>>
branchOwn == <<kept, deleted, shown, dialog, dirty, working>>
signInOwn == <<standing, mailed, cookie, desk>>
fleetOwn == <<carOwn, catalogueOwn, branchOwn>>

OutboxRuns ==
  /\ part = "OUTBOX" /\ OutboxNext
  /\ UNCHANGED <<accountOwn, publishingOwn, engagementOwn, requestPageOwn,
                 officeOwn, formOwn, onboardingOwn, fleetOwn, signInOwn, request>>

AccountsRuns ==
  /\ part \in AccountParts /\ AccountsNext
  /\ \A h \in Handlers : request'[h].op = "CODE" => request'[h].purpose = part
  /\ UNCHANGED <<outboxVars, publishingOwn, engagementOwn, requestPageOwn,
                 officeOwn, formOwn, onboardingOwn, fleetOwn, signInOwn>>

PublishingRuns ==
  /\ \/ part = "POLICIES" /\ PolicyNext
     \/ part = "SECTION" /\ SectionNext
     \/ part = "RULES" /\ RuleNext
  /\ UNCHANGED <<outboxVars, accountOwn, engagementOwn, requestPageOwn,
                 officeOwn, formOwn, onboardingOwn, fleetOwn, signInOwn>>

EngagementRuns ==
  /\ \/ part = "REVIEWS" /\ ReviewNext
     \/ part = "CAMPAIGNS" /\ CampaignNext
  /\ UNCHANGED <<outboxVars, accountOwn, publishingOwn, requestPageOwn,
                 officeOwn, formOwn, onboardingOwn, fleetOwn, signInOwn>>

PagesRun ==
  /\ \/ part = "REQUESTS" /\ RequestPagesNext /\ UNCHANGED <<officeOwn, formOwn, onboardingOwn>>
     \/ part = "OFFICE" /\ OfficeListsNext /\ UNCHANGED <<requestPageOwn, formOwn, onboardingOwn>>
     \/ part = "FORM" /\ RequestFormNext /\ UNCHANGED <<requestPageOwn, officeOwn, onboardingOwn>>
     \/ /\ part = "ONBOARDING" /\ StaffOnboardingNext
        /\ UNCHANGED <<requestPageOwn, officeOwn, formOwn>>
  /\ UNCHANGED <<outboxVars, accountOwn, publishingOwn, engagementOwn, fleetOwn, signInOwn>>

FleetRuns ==
  /\ \/ part = "CAR" /\ VehicleEditorNext /\ UNCHANGED <<catalogueOwn, branchOwn>>
     \/ part = "CATALOGUE" /\ CatalogueNext /\ UNCHANGED <<carOwn, branchOwn>>
     \/ part = "BRANCH" /\ BranchEditorNext /\ UNCHANGED <<carOwn, catalogueOwn>>
  /\ UNCHANGED <<outboxVars, accountOwn, publishingOwn, engagementOwn,
                 requestPageOwn, officeOwn, formOwn, onboardingOwn, signInOwn>>

SignInRuns ==
  /\ part = "SIGNIN" /\ SignInPageNext
  /\ UNCHANGED <<outboxVars, accountOwn, publishingOwn, engagementOwn, requestPageOwn,
                 officeOwn, formOwn, onboardingOwn, fleetOwn>>

Next ==
  /\ part' = part
  /\ OutboxRuns \/ AccountsRuns \/ PublishingRuns \/ EngagementRuns \/ PagesRun
     \/ FleetRuns \/ SignInRuns

Spec == Init /\ [][Next]_allVars

\* The variables of the part that runs have the types its module states.
TypesOK ==
  CASE part = "OUTBOX" -> OutboxTypeOK
    [] part \in AccountParts -> AccountsTypeOK
    [] part \in {"POLICIES", "SECTION", "RULES"} -> PublishingTypeOK
    [] part \in {"REVIEWS", "CAMPAIGNS"} -> EngagementTypeOK
    [] part = "REQUESTS" -> RequestPagesTypeOK
    [] part = "OFFICE" -> OfficeListsTypeOK
    [] part = "FORM" -> RequestFormTypeOK
    [] part = "ONBOARDING" -> StaffOnboardingTypeOK
    [] part = "CAR" -> VehicleEditorTypeOK
    [] part = "CATALOGUE" -> CatalogueTypeOK
    [] part = "BRANCH" -> BranchEditorTypeOK
    [] part = "SIGNIN" -> SignInPageTypeOK

\* What a recipient may have enabled: everything the event asks for.
AllChannels == {Channels}

Interchangeable == Permutations({h1, h2})
===============================================================================
