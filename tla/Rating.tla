------------------------------- MODULE Rating -------------------------------
(***************************************************************************)
(* Metered pricing rules and budget alerts of one environment, and the     *)
(* cost of a quantity under a rule.  A tier is what its JSON object has:   *)
(* up_to and one amount (price_cents, or flat_fee_cents for stairsteps),   *)
(* each possibly Missing.                                                  *)
(***************************************************************************)
EXTENDS Integers, SequencesExt, FiniteSets, Trail

CONSTANTS RatedMetrics, AlertIds,
          Bounds, TierAmounts, MaxTiers,    \* the tiers a rule may have
          BasePrices, MinimumSpends, MaxQuantity,
          MaxRatingWrites                   \* bound: writes

\* tier_config is stored as it was sent: no sign or order of its numbers is checked.
ASSUME RatingAssumption ==
    /\ Bounds \cup TierAmounts \cup BasePrices \cup MinimumSpends \subseteq Int
    /\ MaxTiers \in Nat /\ MaxQuantity \in Nat

VARIABLES rules,        \* metered_pricing_rules, by metric
          alerts,       \* budget_alerts
          ratingWrites

ratingState == <<rules, alerts, ratingWrites>>

Missing == -1
Tiers == [upTo : Bounds \cup {Missing}, amount : TierAmounts \cup {Missing}]
NoRule == [model |-> "none"]

ValidPricingModel(m) == m \in {"per_unit", "tiered", "volume", "stairstep"}

-----------------------------------------------------------------------------
(* Cost of a quantity *)

AmountOr(tier, default) == IF tier.amount = Missing THEN default ELSE tier.amount

\* Up to and including the first tier that holds the quantity, the last
\* amount seen applies.
lastAmountUpTo(rule, quantity) ==
    LET step(acc, tier) ==
            IF acc.found THEN acc
            ELSE [found |-> tier.upTo # Missing /\ quantity <= tier.upTo,
                  amount |-> AmountOr(tier, acc.amount)]
    IN FoldLeft(step, [found |-> FALSE, amount |-> rule.base], rule.tiers).amount

calculateVolumeCost(rule, quantity) == lastAmountUpTo(rule, quantity) * quantity

\* Mutant: the remaining quantity is not reduced by a tier.
tieredKeepsRemaining(rule, quantity) ==
    LET step(acc, tier) ==
            LET qty == Min({tier.upTo - acc.prev, quantity}) IN
            IF tier.upTo = Missing \/ qty <= 0 THEN acc
            ELSE [total |-> acc.total + AmountOr(tier, rule.base) * qty, prev |-> tier.upTo]
    IN Max({FoldLeft(step, [total |-> 0, prev |-> 0], rule.tiers).total, rule.minimum})

\* A tier without up_to is skipped; a tier that adds no unit ends the loop.
calculateTieredCost(rule, quantity) ==
    LET step(acc, tier) ==
            LET qty == Min({tier.upTo - acc.prev, acc.remaining}) IN
            IF acc.stop \/ tier.upTo = Missing THEN acc
            ELSE IF qty <= 0 THEN [acc EXCEPT !.stop = TRUE]
            ELSE [total |-> acc.total + AmountOr(tier, rule.base) * qty,
                  remaining |-> acc.remaining - qty,
                  prev |-> tier.upTo,
                  stop |-> acc.remaining - qty <= 0]
        total == FoldLeft(step, [total |-> 0, remaining |-> quantity, prev |-> 0, stop |-> FALSE],
                          rule.tiers).total
    IN Max({total, rule.minimum})

calculateStairStepCost(rule, quantity) == lastAmountUpTo(rule, quantity)

CalculateMeteredCost(rule, quantity) ==
    IF rule = NoRule \/ ~rule.enabled THEN 0
    ELSE CASE rule.model = "volume" /\ rule.tiers # <<>> -> calculateVolumeCost(rule, quantity)
           [] rule.model = "tiered" /\ rule.tiers # <<>> -> calculateTieredCost(rule, quantity)
           [] rule.model = "stairstep" -> calculateStairStepCost(rule, quantity)
           [] OTHER -> rule.base * quantity

-----------------------------------------------------------------------------
(* Rules and alerts *)

Write == ratingWrites < MaxRatingWrites /\ ratingWrites' = ratingWrites + 1

UpsertMeteredPricingRule(m, rule) == rules' = [rules EXCEPT ![m] = rule]
GetMeteredPricingRule(m) == rules[m]

SetMeteredPricingRule(m, rule) ==
    /\ ValidPricingModel(rule.model) /\ rule.base >= 0 /\ rule.minimum >= 0
    /\ Write
    /\ UpsertMeteredPricingRule(m, rule)
    /\ AppendRows(emitOutboxTx("metered_pricing.rule_set", m)
              \cup insertAuditTx("metered_pricing.rule_set", m))
    /\ UNCHANGED alerts

DeleteMeteredPricingRule(m) ==
    /\ GetMeteredPricingRule(m) # NoRule
    /\ rules' = [rules EXCEPT ![m] = NoRule]
    /\ AppendRows(insertAuditTx("metered_pricing.rule_delete", m))
    /\ UNCHANGED <<alerts, ratingWrites>>

CreateBudgetAlert(a, budget, threshold) ==
    /\ budget > 0 /\ threshold \in 1..100
    /\ a \notin alerts /\ Write
    /\ alerts' = alerts \cup {a}
    /\ AppendRows(emitOutboxTx("budget.alert_created", a) \cup insertAuditTx("budget.alert_create", a))
    /\ UNCHANGED rules

DeleteBudgetAlert(a) ==
    /\ a \in alerts
    /\ alerts' = alerts \ {a}
    /\ AppendRows(insertAuditTx("budget.alert_delete", a))
    /\ UNCHANGED <<rules, ratingWrites>>

setMeteredPricingRule ==
    \E m \in RatedMetrics, model \in {"per_unit", "tiered", "volume", "stairstep"},
       tiers \in BoundedSeq(Tiers, MaxTiers), base \in BasePrices, minimum \in MinimumSpends,
       on \in BOOLEAN :
        SetMeteredPricingRule(m, [model |-> model, base |-> base, tiers |-> tiers,
                                  minimum |-> minimum, enabled |-> on])
deleteMeteredPricingRule == \E m \in RatedMetrics : DeleteMeteredPricingRule(m)
createBudgetAlert == \E a \in AlertIds : CreateBudgetAlert(a, 1, 80)
deleteBudgetAlert == \E a \in AlertIds : DeleteBudgetAlert(a)

RatingInit == rules = [m \in RatedMetrics |-> NoRule] /\ alerts = {} /\ ratingWrites = 0

RatingNext == setMeteredPricingRule \/ deleteMeteredPricingRule \/ createBudgetAlert \/ deleteBudgetAlert

RatingSpec == RatingInit /\ trail = {} /\ [][RatingNext]_<<ratingState, trail>>

-----------------------------------------------------------------------------
(* Properties *)

Ascending(tiers) ==
    \A i \in DOMAIN tiers : /\ tiers[i].upTo > (IF i = 1 THEN 0 ELSE tiers[i - 1].upTo)
                            /\ tiers[i].amount # Missing

\* The tier a unit falls into, by the definition of a tier and not by the loop.
TierOf(tiers, unit) == CHOOSE i \in DOMAIN tiers :
    tiers[i].upTo >= unit /\ \A j \in 1..(i - 1) : tiers[j].upTo < unit

\* The units of a quantity that the tiers hold.
Held(tiers, quantity) == Min({quantity, Last(tiers).upTo})

\* For bounded ascending tiers the three loops of the code compute what the
\* models promise: volume prices every unit at the tier of the whole quantity,
\* tiered each unit at its own tier (but at least the minimum spend), stairstep
\* the fee of the tier of the quantity.  A quantity beyond the last bound has
\* the last tier's price or fee; under "tiered" the units beyond it are free.
CostMatchesDefinition ==
    \A m \in RatedMetrics : rules[m] # NoRule => LET r == rules[m] IN
        r.enabled /\ r.tiers # <<>> /\ Ascending(r.tiers) =>
            \A q \in 1..MaxQuantity : LET held == Held(r.tiers, q) IN
                CalculateMeteredCost(r, q) =
                    CASE r.model = "volume" -> q * r.tiers[TierOf(r.tiers, held)].amount
                      [] r.model = "tiered" ->
                            Max({r.minimum,
                                 FoldFunctionOnSet(
                                     +, 0, [u \in 1..held |-> r.tiers[TierOf(r.tiers, u)].amount],
                                     1..held)})
                      [] r.model = "stairstep" -> r.tiers[TierOf(r.tiers, held)].amount
                      [] OTHER -> q * r.base
=============================================================================
