-------------------------- MODULE MCDiscountPolicy --------------------------
EXTENDS DiscountPolicy
Rule(threshold, type, rate, cap) ==
    [threshold |-> threshold, type |-> type, rate |-> rate, cap |-> cap]
Limit(type, minRate, maxRate, cap) ==
    [type |-> type, minRate |-> minRate, maxRate |-> maxRate, cap |-> cap]

SomeAmounts == {1, 9, 10, 20, 30, 45}

\* Percentages, a fixed amount larger than a small basket, and caps that bind.
SomeRules ==
    { Rule(5, "PERCENTAGE", 10, None), Rule(5, "FIXED_AMOUNT", 6, None),
      Rule(10, "PERCENTAGE", 20, 3), Rule(20, "PERCENTAGE", 10, None),
      Rule(20, "FIXED_AMOUNT", 2, None), Rule(20, "PERCENTAGE", 30, None) }

StartLimits == Limit("PERCENTAGE", 10, 30, 6)

\* A lower ceiling and narrower rates, and discounts switched off.
SomeLimits ==
    { StartLimits, Limit("PERCENTAGE", 10, 20, 2),
      Limit("NONE", 0, 30, 6) }
=============================================================================
