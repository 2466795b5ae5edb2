------------------------------- MODULE PayRules -------------------------------
(***************************************************************************)
(* What an employee earns and is deducted in one period: calculatePayroll, *)
(* the estimates of thai-tax.ts and the attendance effects, as they are    *)
(* called when a run is calculated.  Amounts are in satang, rates in whole *)
(* percents; a rate per day or minute stays a fraction until it is rounded.*)
(***************************************************************************)
EXTENDS Integers, FiniteSetsExt

\* roundMoney of n/d, half up; the amounts of a payslip are not negative.
Round(n, d) == (2 * n + d) \div (2 * d)
Least(a, b) == IF a < b THEN a ELSE b
Greatest(a, b) == IF a < b THEN b ELSE a

-----------------------------------------------------------------------------
(* Wages.  calculate passes neither worked days nor hours to               *)
(* calculatePayroll, so that only a monthly wage has a base.               *)

WageType == {"MONTHLY", "DAILY", "HOURLY"}

BasePay(wage) == IF wage.type = "MONTHLY" THEN wage.amount ELSE 0

\* dailyWage, as the fraction it is: a month has 30 days, a day 8 hours.
DayWage(wage) ==
    [num |-> IF wage.type = "HOURLY" THEN 8 * wage.amount ELSE wage.amount,
     den |-> IF wage.type = "MONTHLY" THEN 30 ELSE 1]

\* One approved request: hourly x hours x 1.5 (requests carry no rule of their own).
OvertimePay(wage, minutes) == Round(DayWage(wage).num * minutes, DayWage(wage).den * 320)

\* perMinute and perDay of the settings; 0 derives them from the wage.
LatePay(wage, pay, minutes) ==
    IF pay.perMinute > 0 THEN pay.perMinute * minutes
    ELSE Round(DayWage(wage).num * minutes, DayWage(wage).den * 480)
AbsencePay(wage, pay, days) ==
    IF pay.perDay > 0 THEN pay.perDay * days
    ELSE Round(DayWage(wage).num * days, DayWage(wage).den)

-----------------------------------------------------------------------------
(* Tax.                                                                    *)

Baht(n) == 100 * n
Unlimited == -1   \* upTo = null
Band(upTo, rate) == [upTo |-> upTo, rate |-> rate]
TaxBands ==
    << Band(Baht(150000), 0), Band(Baht(300000), 5), Band(Baht(500000), 10),
       Band(Baht(750000), 15), Band(Baht(1000000), 20), Band(Baht(2000000), 25),
       Band(Baht(5000000), 30), Band(Unlimited, 35) >>
Lower(i) == IF i = 1 THEN 0 ELSE TaxBands[i - 1].upTo

UpTo(income, i) == IF TaxBands[i].upTo = Unlimited THEN income ELSE Least(income, TaxBands[i].upTo)

SliceTax_Whole(income, i) ==   \* mutant
    IF income > Lower(i) /\ income = UpTo(income, i) THEN income * TaxBands[i].rate ELSE 0
SliceTax(income, i) == Greatest(0, UpTo(income, i) - Lower(i)) * TaxBands[i].rate

AnnualTax(income) == Round(MapThenSumSet(LAMBDA i : SliceTax(income, i), DOMAIN TaxBands), 100)

TaxableAnnual(taxable, tax) ==
    LET annual == 12 * taxable
        expenses == IF tax.expenses THEN Least(Round(annual, 2), Baht(100000)) ELSE 0
        allowance == IF tax.allowance > 0 THEN tax.allowance ELSE Baht(60000)
    IN Greatest(0, annual - expenses - allowance)

Tax(taxable, tax) ==
    IF ~ tax.on THEN 0
    ELSE IF tax.method = "PROGRESSIVE" THEN Round(AnnualTax(TaxableAnnual(taxable, tax)), 12)
    ELSE Round(taxable * tax.rate, 100)

-----------------------------------------------------------------------------
(* Social security.                                                        *)

InsurableWage(wage, sso) ==
    IF wage = 0 THEN 0
    ELSE Least(Greatest(wage, sso.min), Greatest(sso.min, sso.max))

SocialSecurity(wage, sso) ==
    IF sso.on THEN Round(Least(InsurableWage(wage, sso) * sso.rate, 100 * sso.cap), 100) ELSE 0

-----------------------------------------------------------------------------
(* The lines of a payslip, by their code.                                  *)

Earnings == {"BASE_PAY", "OVERTIME", "ADVANCE_PAYOUT"}
Deductions == {"LATE", "ABSENCE", "ADVANCE", "TAX", "SOCIAL_SECURITY"}

Taxable(items) == MapThenSumSet(LAMBDA c : items[c], Earnings \ {"ADVANCE_PAYOUT"})
Gross(items) == MapThenSumSet(LAMBDA c : items[c], Earnings)
Deducted(items) == MapThenSumSet(LAMBDA c : items[c], Deductions)
Net(items) == Gross(items) - Deducted(items)

\* Without saved settings the rates are placeholders of 0.
Withheld(items, settings) ==
    [items EXCEPT !["TAX"] = IF settings.saved THEN Tax(Taxable(items), settings.tax) ELSE 0,
                  !["SOCIAL_SECURITY"] = IF settings.saved
                                         THEN SocialSecurity(Taxable(items), settings.sso) ELSE 0]

\* effects: the minutes of each approved request as a function, late minutes, days absent.
Calculate(wage, settings, effects, payout, collected) ==
    Withheld([BASE_PAY |-> BasePay(wage),
              OVERTIME |-> MapThenSumSet(LAMBDA r : OvertimePay(wage, effects.overtime[r]),
                                         DOMAIN effects.overtime),
              ADVANCE_PAYOUT |-> payout,
              LATE |-> LatePay(wage, settings.pay, effects.late),
              ABSENCE |-> AbsencePay(wage, settings.pay, effects.absent),
              ADVANCE |-> collected, TAX |-> 0, SOCIAL_SECURITY |-> 0], settings)

-----------------------------------------------------------------------------
(* The same amounts, by definitions that share nothing with the above.     *)

\* What a year's income owes, in satang percents: every band adds the rise of
\* its rate on all that lies above it.
MarginalTax(income) ==
    MapThenSumSet(LAMBDA i : (TaxBands[i].rate - (IF i = 1 THEN 0 ELSE TaxBands[i - 1].rate))
                               * Greatest(0, income - Lower(i)), DOMAIN TaxBands)

\* amount is n/d satang, rounded once for each of k parts.
Near(amount, n, d, k) == \* |amount - n/d| <= k/2
    2 * (amount * d - n) <= k * d /\ 2 * (n - amount * d) <= k * d
=============================================================================
