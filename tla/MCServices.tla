----------------------------- MODULE MCServices -----------------------------
(***************************************************************************)
(* The services and rules of the platform, for TLC: the AI assessment, the *)
(* access token, the register connectors, the operators' cockpit, the      *)
(* tenant of a request, weight profiles, string measures, the risk rules,  *)
(* the last day to oppose, the amounts of invoices, and the bills and      *)
(* research orders that are paid.  They share no state, so that a          *)
(* behaviour is one of theirs: part says whose, and the others stay as     *)
(* they start.                                                             *)
(***************************************************************************)
EXTENDS AiAssessment, AccessToken, RegisterConnectors, RegisterCockpit, Tenancy,
        WeightProfiles, TextDistance, RiskRules, OppositionWindow, Vat, Billing

CONSTANTS a1, a2, f1, f2, s1, p1,          \* calls and fetchers, a scope, a pair
          boip, other, o1, o2, q1, q2,     \* registers, organizations, requests
          u1, u2, x, y, h1                 \* users, tenants, a request resolved

VARIABLE part

servicesVars ==
    <<part, assessVars, tokenVars, connectorVars, cockpitVars, tenancyVars, weightVars,
      textVars, riskVars, windowVars, vatVars, billingVars>>

ScopesOrdered == {<<boip>>, <<other, boip>>, <<boip, boip>>}
CatalogEdits == {[price |-> 2, state |-> "coming_soon"]}

MCOrganizations == <<o1, o2>>
Patch(r, status, watch) == [register |-> r, status |-> status, watch |-> watch]
MCPatches ==
    {Patch(boip, "disabled", Unset), Patch(boip, "live", "on"), Patch(boip, Unset, "off"),
     Patch(other, "live", "on")}

MCDemoRows == [u \in {u1} |-> x]

Weighing(text, nice, ai) ==
    [c \in {"text", "nice", Ai} |-> CASE c = "text" -> text [] c = "nice" -> nice [] OTHER -> ai]
MCDefaultWeights == Weighing(80, 17, 3)
MCPublishable == {Weighing(60, 20, 20), Weighing(110, -20, 10), Weighing(1, 1, 1)}
MCOpinions == {-250, -40, 130}

MCOpenings ==
    {Date(2023, 11, 30), Date(2023, 12, 29), Date(2023, 12, 31), Date(2024, 1, 31),
     Date(2024, 2, 29), Date(2024, 12, 1), Date(2025, 12, 31), Date(2099, 12, 30)}

\* What is left open at the start is so only for the part that runs.
Init ==
    /\ part \in {"ai", "token", "connector", "cockpit", "tenancy", "weights", "text", "risk",
                "window", "vat", "billing"}
    /\ AssessInit /\ TokenInit /\ WeightsInit /\ RiskInit
    /\ ConnectorInit /\ (part # "connector" => way = "whole")
    /\ CockpitInit /\ (part # "cockpit" => watching = {})
    /\ TenancyInit
    /\ part # "tenancy" =>
           /\ env = [key |-> "jwt", allowDemo |-> TRUE, demoAuth |-> TRUE]
           /\ operators = {} /\ \A u \in Users : rows[u] = NoOne
    /\ TextInit /\ (part # "text" => right = <<>>)
    /\ WindowInit
    /\ part # "window" => candidate.published = Date(2023, 11, 30) /\ Rule = BoipOppositionRuleSet
    /\ VatInit /\ (part # "vat" => total = ComputeNlBtw(0) /\ basis = "lines")
    /\ BillingInit /\ (part # "billing" => provider)

InAi == part = "ai" /\ UNCHANGED
    <<part, tokenVars, connectorVars, cockpitVars, tenancyVars, weightVars,
      textVars, riskVars, windowVars, vatVars, billingVars>>
InToken == part = "token" /\ UNCHANGED
    <<part, assessVars, connectorVars, cockpitVars, tenancyVars, weightVars,
      textVars, riskVars, windowVars, vatVars, billingVars>>
InConnector == part = "connector" /\ UNCHANGED
    <<part, assessVars, tokenVars, cockpitVars, tenancyVars, weightVars,
      textVars, riskVars, windowVars, vatVars, billingVars>>
InCockpit == part = "cockpit" /\ UNCHANGED
    <<part, assessVars, tokenVars, connectorVars, tenancyVars, weightVars,
      textVars, riskVars, windowVars, vatVars, billingVars>>
InTenancy == part = "tenancy" /\ UNCHANGED
    <<part, assessVars, tokenVars, connectorVars, cockpitVars, weightVars,
      textVars, riskVars, windowVars, vatVars, billingVars>>
InWeights == part = "weights" /\ UNCHANGED
    <<part, assessVars, tokenVars, connectorVars, cockpitVars, tenancyVars,
      textVars, riskVars, windowVars, vatVars, billingVars>>
InText == part = "text" /\ UNCHANGED
    <<part, assessVars, tokenVars, connectorVars, cockpitVars, tenancyVars,
      weightVars, riskVars, windowVars, vatVars, billingVars>>
InRisk == part = "risk" /\ UNCHANGED
    <<part, assessVars, tokenVars, connectorVars, cockpitVars, tenancyVars,
      weightVars, textVars, windowVars, vatVars, billingVars>>
InWindow == part = "window" /\ UNCHANGED
    <<part, assessVars, tokenVars, connectorVars, cockpitVars, tenancyVars,
      weightVars, textVars, riskVars, vatVars, billingVars>>
InVat == part = "vat" /\ UNCHANGED
    <<part, assessVars, tokenVars, connectorVars, cockpitVars, tenancyVars,
      weightVars, textVars, riskVars, windowVars, billingVars>>
InBilling == part = "billing" /\ UNCHANGED
    <<part, assessVars, tokenVars, connectorVars, cockpitVars, tenancyVars,
      weightVars, textVars, riskVars, windowVars, vatVars>>

Next ==
    \/ InAi /\ AssessNext
    \/ InToken /\ TokenNext
    \/ InConnector /\ ConnectorNext
    \/ InCockpit /\ CockpitNext
    \/ InTenancy /\ TenancyNext
    \/ InWeights /\ WeightsNext
    \/ InText /\ TextNext
    \/ InRisk /\ RiskNext
    \/ InWindow /\ WindowNext
    \/ InVat /\ VatNext
    \/ InBilling /\ BillingNext

Spec ==
    /\ Init /\ [][Next]_servicesVars
    /\ \A c \in Assessors : WF_assessVars(InAi /\ AssessProgress(c))
    /\ \A q \in Requests : WF_cockpitVars(InCockpit /\ CockpitProgress(q))
    /\ \A n \in 1..MaxSessions : WF_billingVars(InBilling /\ ApplyWebhook(n))

\* Every part's state has its type.
ServicesTypeOK ==
    /\ AssessTypeOK /\ TokenTypeOK /\ ConnectorTypeOK /\ CockpitTypeOK
    /\ TenancyTypeOK /\ WeightsTypeOK /\ WindowTypeOK /\ BillingTypeOK

\* The measures, the advice and the deadlines are looked at where they vary: see
\* MeasuresAgree, AdviceSound and WindowSound.
MeasuresHold == part = "text" => MeasuresAgree
RulesHold == (part = "risk" => AdviceSound) /\ (part = "window" => WindowSound)

\* Every call that is made comes back, and a loop over organizations gets to all of them.
ServicesSettle == AssessmentsSettle /\ DisabledIsTold
=============================================================================
