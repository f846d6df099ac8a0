---------------------------- MODULE PolicyEvaluation ----------------------------
(***************************************************************************)
(* The platform's eligibility rules: what an administrator enters in       *)
(* PolicyRulesEditor, what PlatformPoliciesService stores of it, and what  *)
(* PolicyEvaluationService makes of the stored rules and a customer's      *)
(* data.  Values pass three conversions on the way: the form's parsing,    *)
(* the service's falsy test, and the casts of evaluateRuleCondition().     *)
(***************************************************************************)
EXTENDS Naturals, Integers, Sequences, FiniteSets

CONSTANTS
  Entered,       \* rules an administrator may enter: [code, op, value]
  Births,        \* dates of birth, <<year, month, day>>
  Today,         \* dates of evaluation
  Balances,      \* average bank balances
  MaxRules       \* bound: rules of a policy version

Null == [null |-> TRUE]
Value(n) == [number |-> n]
True == [boolean |-> TRUE]
False == [boolean |-> FALSE]
Date(d) == [date |-> d]

\* POLICY_RULE_CATALOG: the input a rule reads and the type of its expected value.
Catalogue ==
  [PAN_VERIFIED |-> [input |-> "isPanVerified", type |-> "BOOLEAN",
                     operators |-> {"IS_TRUE", "EQUALS"}],
   NO_ACTIVE_APPLICATION |-> [input |-> "hasActiveApplication", type |-> "BOOLEAN",
                              operators |-> {"IS_FALSE", "EQUALS"}],
   MINIMUM_AGE |-> [input |-> "dateOfBirth", type |-> "INTEGER",
                    operators |-> {"GREATER_THAN_OR_EQUAL", "GREATER_THAN"}],
   MAXIMUM_AGE |-> [input |-> "dateOfBirth", type |-> "INTEGER",
                    operators |-> {"LESS_THAN_OR_EQUAL", "LESS_THAN"}],
   MINIMUM_ABB |-> [input |-> "averageBankBalance", type |-> "DECIMAL",
                    operators |-> {"GREATER_THAN_OR_EQUAL", "GREATER_THAN"}]]

ASSUME PeAssumption ==
  /\ \A r \in Entered : r.op \in Catalogue[r.code].operators
  /\ MaxRules \in Nat

VARIABLES
  entered,       \* the rules as the administrator entered them, in order
  stored,        \* the rules of the active policy version
  facts,         \* the customer's data
  answer         \* runEligibility's last answer, with the data and the day it was given for

peVars == <<entered, stored, facts, answer>>

NoAnswer == [outcome |-> "none"]

\* PolicyRulesEditor.onSubmit(): a rule on a boolean loses its value whatever its operator.
editorValue(rule) ==
  IF Catalogue[rule.code].type = "BOOLEAN" THEN Null ELSE rule.value

\* updateVersionRules(): a falsy value, zero included, is stored as null.
updateVersionRules(rules) ==
  [i \in DOMAIN rules |->
     [rules[i] EXCEPT !.value = IF editorValue(rules[i]) = Value(0) THEN Null ELSE editorValue(rules[i])]]

\* Mutant: the month alone decides whether the birthday has passed.
yearsByMonth(dob, day) == IF day[2] < dob[2] THEN day[1] - dob[1] - 1 ELSE day[1] - dob[1]

\* calculateCompletedYears(): the difference of the years, less one before the birthday.
calculateCompletedYears(dob, day) ==
  LET m == day[2] - dob[2]
      age == day[1] - dob[1]
  IN IF m < 0 \/ (m = 0 /\ day[3] < dob[3]) THEN age - 1 ELSE age

\* The value evaluate() compares: the customer's, the age for the two age rules.
AgeRule(rule) == rule.code \in {"MINIMUM_AGE", "MAXIMUM_AGE"}
Input(rule, f) == f[Catalogue[rule.code].input]

\* A number compared with null: JavaScript's comparison takes it for zero, Decimal's throws.
compare(op, a, b) ==
  CASE op = "GREATER_THAN" -> a > b
    [] op = "GREATER_THAN_OR_EQUAL" -> a >= b
    [] op = "LESS_THAN" -> a < b
    [] op = "LESS_THAN_OR_EQUAL" -> a <= b

evaluateRuleCondition(rule, actual) ==
  CASE rule.op = "IS_TRUE" -> IF actual = True THEN "PASS" ELSE "FAIL"
    [] rule.op = "IS_FALSE" -> IF actual = False THEN "PASS" ELSE "FAIL"
    [] rule.op = "EQUALS" -> IF actual = rule.value THEN "PASS" ELSE "FAIL"
    [] Catalogue[rule.code].type = "DECIMAL" /\ rule.value = Null -> "error"
    [] OTHER ->
         LET expected == IF rule.value = Null THEN 0 ELSE rule.value.number
         IN IF compare(rule.op, actual.number, expected) THEN "PASS" ELSE "FAIL"

ruleOutcome(rule, f, day) ==
  IF Input(rule, f) = Null THEN "missing"
  ELSE evaluateRuleCondition(rule,
         IF AgeRule(rule) THEN Value(calculateCompletedYears(Input(rule, f).date, day)) ELSE Input(rule, f))

\* evaluate(): every active rule in order; the last one that is missing or fails decides, and
\* an error ends the evaluation.
evaluate(rules, f, day) ==
  LET outcome(i) == ruleOutcome(rules[i], f, day)
      failing == {i \in DOMAIN rules : outcome(i) # "PASS"}
  IN CASE failing = {} -> "PASS"
       [] \E i \in failing : outcome(i) = "error" -> "error"
       [] OTHER -> outcome(CHOOSE i \in failing : \A j \in failing : j <= i)

Facts ==
  [isPanVerified : {True, False}, hasActiveApplication : {True, False},
   dateOfBirth : {Null} \cup {Date(d) : d \in Births},
   averageBankBalance : {Null} \cup {Value(n) : n \in Balances}]

PeInit ==
  /\ entered = <<>> /\ stored = <<>>
  /\ facts \in Facts
  /\ answer = NoAnswer

\* An administrator adds a rule and saves, and the version goes live.
saveRules(rule) ==
  /\ Len(entered) < MaxRules
  /\ \A i \in DOMAIN entered : entered[i].code # rule.code
  /\ entered' = Append(entered, rule)
  /\ stored' = updateVersionRules(entered')
  /\ UNCHANGED <<facts, answer>>

\* The inputs runEligibility() collects from the customer's rows.
collectInputs(f) ==
  /\ answer # NoAnswer /\ f # facts
  /\ facts' = f
  /\ answer' = NoAnswer
  /\ UNCHANGED <<entered, stored>>

\* runEligibility(): a missing input and an error are refused, the rest is recorded.
runPolicy(day) ==
  /\ answer = NoAnswer
  /\ answer' = [outcome |-> evaluate(stored, facts, day), day |-> day, rules |-> entered, read |-> stored]
  /\ UNCHANGED <<entered, stored, facts>>

PeNext ==
  \/ \E rule \in Entered : saveRules(rule)
  \/ \E f \in Facts : collectInputs(f)
  \/ \E day \in Today : runPolicy(day)

PeSpec == PeInit /\ [][PeNext]_peVars

PeTypeOK ==
  /\ Len(stored) <= MaxRules /\ facts \in Facts
  /\ answer.outcome \in {"none", "PASS", "FAIL", "missing", "error"}

\* What a rule says: the age is the number of birthdays up to the day.
Before(a, b) ==
  \/ a[1] < b[1]
  \/ a[1] = b[1] /\ a[2] < b[2]
  \/ a[1] = b[1] /\ a[2] = b[2] /\ a[3] <= b[3]
Age(dob, day) == Cardinality({y \in 1 .. 200 : Before(<<dob[1] + y, dob[2], dob[3]>>, day)})

Holds(rule, f, day) ==
  /\ Input(rule, f) # Null
  /\ CASE rule.op \in {"IS_TRUE", "IS_FALSE"} -> Input(rule, f) = IF rule.op = "IS_TRUE" THEN True ELSE False
       [] rule.op = "EQUALS" -> Input(rule, f) = rule.value
       [] OTHER -> compare(rule.op, IF AgeRule(rule) THEN Age(Input(rule, f).date, day) ELSE Input(rule, f).number,
                           rule.value.number)

\* An applicant passes exactly when every rule holds as the administrator entered it, and is
\* turned down only for a rule that does not hold of data that is there: nobody is rejected
\* for what is missing alone.
RulesAsEntered ==
  answer # NoAnswer =>
    /\ (answer.outcome = "PASS") = \A i \in DOMAIN answer.rules : Holds(answer.rules[i], facts, answer.day)
    /\ answer.outcome = "FAIL" =>
         \E i \in DOMAIN answer.rules : /\ Input(answer.rules[i], facts) # Null
                                        /\ ~Holds(answer.rules[i], facts, answer.day)

\* policy-evaluation.service.ts, "Stop on missing required data": the rules after the first
\* missing input have no say.
StopsOnMissing ==
  answer # NoAnswer =>
    LET rules == answer.read
        missing(i) == /\ Input(rules[i], facts) = Null
                      /\ \A j \in 1 .. (i - 1) : ruleOutcome(rules[j], facts, answer.day) = "PASS"
    IN (\E i \in DOMAIN rules : missing(i)) => answer.outcome = "missing"
==============================================================================
