------------------------------- MODULE Screening ------------------------------
(***************************************************************************)
(* What one survey goes through before it is claimed and sent              *)
(* (PipelineOrchestrator._process_one): NormalizationEngine.normalize,     *)
(* FilterEngine.evaluate, and the dispatcher's choice of a message.  Pure  *)
(* code: in PollService all of it is one nondeterministic choice.          *)
(*                                                                         *)
(* A payload is a function from field names to values.  Scores are in      *)
(* hundredths, and exact: the engine's floats fall on the same side of the *)
(* thresholds, 0.15 and the 0.5 that every caller gives for min_score, but *)
(* for the one sum that comes out one ulp low (LosesUlp).  The hourly rate *)
(* is compared exactly, as the division is for the default rate of 15 an   *)
(* hour, a quarter a minute.                                               *)
(***************************************************************************)
EXTENDS Integers, Sequences

CONSTANTS Payloads,   \* raw payloads
          Surveys,    \* surveys given to the filter by other callers
          Profiles,   \* user profiles
          Strict,     \* NormalizationEngine(strict=...)
          MinScore    \* FilterEngine(min_score=...), in hundredths

VARIABLES stage, payload, profile,
          norm,       \* NormalizationResult.status
          survey,     \* the survey, once there is one
          result,     \* FilterResult: status and reported score
          message     \* the template used, once there is one

vars == <<stage, payload, profile, norm, survey, result, message>>

NoSurvey == [payout |-> 0, minutes |-> 0, source |-> "", country |-> "",
             devices |-> {}, criteria |-> FALSE, url |-> FALSE]
NoResult == [status |-> "none", score |-> 0]

\* The results of the three stages.
TypeOK == /\ stage \in {"raw", "normalized", "filtered", "rejected", "sent"}
          /\ norm \in {"none", "valid", "partial", "invalid"}
          /\ result.status \in {"none", "ELIGIBLE", "REVIEW", "REJECTED"}
          /\ result.score \in 0..100
          /\ message \in {"none", "eligible", "review"}

\* A cycle starts with a payload; other callers give the filter a survey.
Init == /\ profile \in Profiles
        /\ \/ stage = "raw" /\ payload \in Payloads /\ survey = NoSurvey
           \/ stage = "normalized" /\ payload = <<>> /\ survey \in Surveys
        /\ norm = "none"
        /\ result = NoResult
        /\ message = "none"

-------------------------------------------------------------------------------
(* normalization/engine.py and schema.py                                   *)

Value(v) == [kind |-> "value", v |-> v]
Null     == [kind |-> "null"]
Junk     == [kind |-> "junk"]   \* float(), int() or the Survey model raises

\* The names of the two numbers.
NumberNames == {"payout", "compensation", "reward", "duration_minutes", "duration", "time"}

\* Numbers are whole; the profile's are any, as the contract has no bounds.
ASSUME ScreeningAssumption ==
    /\ MinScore = 50 /\ Strict \in BOOLEAN
    /\ \A s \in Surveys : s.payout \in Int /\ s.minutes \in Int
    /\ \A p \in Profiles : p.rate \in Int /\ p.limit \in Int
    /\ \A data \in Payloads : \A f \in DOMAIN data \cap NumberNames :
          data[f] \in {Null, Junk} \/ (data[f] = Value(data[f].v) /\ data[f].v \in Int)

\* field_mappings, in its order; the names of id and title behave alike.
FieldMappings == <<<<"compensation", "payout">>, <<"reward", "payout">>,
                   <<"duration", "duration_minutes">>, <<"time", "duration_minutes">>,
                   <<"platform", "source">>>>

\* Mutant: a later name overwrites an earlier one.
MutRename(data, names) ==
    IF names[1] \in DOMAIN data
    THEN [f \in DOMAIN data \cup {names[2]} |-> IF f = names[2] THEN data[names[1]] ELSE data[f]]
    ELSE data

Rename(data, names) ==
    IF names[1] \in DOMAIN data /\ names[2] \notin DOMAIN data
    THEN [f \in DOMAIN data \cup {names[2]} |-> IF f = names[2] THEN data[names[1]] ELSE data[f]]
    ELSE data

NormalizeFields(data) ==
    LET paid  == Rename(Rename(data, FieldMappings[1]), FieldMappings[2])
        timed == Rename(Rename(paid, FieldMappings[3]), FieldMappings[4])
    IN Rename(timed, FieldMappings[5])

Defaults == [payout |-> Value(0), duration_minutes |-> Value(0), source |-> Value("unknown")]

ApplyDefaults(data) ==
    [f \in DOMAIN data \cup DOMAIN Defaults |->
        IF f \in DOMAIN Defaults /\ (f \notin DOMAIN data \/ data[f] = Null)
        THEN Defaults[f] ELSE data[f]]

\* SchemaValidator names the fields of the Survey it makes; the others of the
\* payload (url, country, devices, criteria) get the model's defaults.
SurveyOf(data) == [NoSurvey EXCEPT !.payout  = data["payout"].v,
                                   !.minutes = data["duration_minutes"].v,
                                   !.source  = data["source"].v]

Normalize ==
    LET data == ApplyDefaults(NormalizeFields(payload)) IN
    /\ stage = "raw"
    /\ IF \E f \in DOMAIN Defaults : data[f] = Junk
       THEN /\ stage' = "rejected" /\ norm' = "invalid"
            /\ UNCHANGED survey
       ELSE /\ stage' = "normalized"
            /\ survey' = SurveyOf(data)
            /\ norm' = IF Strict /\ (survey'.payout <= 0 \/ survey'.minutes <= 0)
                       THEN "partial" ELSE "valid"
    /\ UNCHANGED <<payload, profile, result, message>>

-------------------------------------------------------------------------------
(* filter/rules.py and engine.py                                           *)

Upper(c) == IF c = "us" THEN "US" ELSE c

CountryMatch(s, p) == s.country = "" \/ Upper(s.country) = Upper(p.country)

HourlyRateOk(s, p) == s.payout > 0 /\ s.minutes > 0 /\ s.payout * 60 >= p.rate * s.minutes

\* Mutant: every device of the survey must be one of the user's.
MutDeviceCompatible(s, p) == s.devices = {} \/ p.devices = {} \/ s.devices \subseteq p.devices

DeviceCompatible(s, p) == s.devices = {} \/ p.devices = {} \/ s.devices \cap p.devices # {}

ScreeningOk(s, p) == s.criteria => p.demographics

\* Mutant: a rule that fails takes its weight off.
MutWeight(passed, weight) == IF passed THEN weight ELSE -weight

Weight(passed, weight) == IF passed THEN weight ELSE 0

WeightedScore(s, p) == Weight(HourlyRateOk(s, p), 40) + Weight(CountryMatch(s, p), 30)
                     + Weight(DeviceCompatible(s, p), 20) + Weight(ScreeningOk(s, p), 10)

\* The country, and a source that is not a preferred one, are hard failures.
HardFail(s, p) == ~CountryMatch(s, p) \/ (p.sources # {} /\ s.source \notin p.sources)

\* max_duration_minutes: 0 is no limit, as None is.
TooLong(s, p) == p.limit # 0 /\ s.minutes > p.limit

Deducted(score) == IF score >= 20 THEN score - 20 ELSE 0

\* 0.4 + 0.3 - 0.2 is 0.49999999999999994.
LosesUlp(s, p) == TooLong(s, p) /\ WeightedScore(s, p) = 70 /\ HourlyRateOk(s, p)
                    /\ CountryMatch(s, p)

\* Mutant: a hard failure keeps its score.
MutHardFailScore(score) == score

HardFailScore(score) == 0

Evaluate(s, p) ==
    LET score == IF TooLong(s, p) THEN Deducted(WeightedScore(s, p)) ELSE WeightedScore(s, p)
    IN IF HardFail(s, p) THEN [status |-> "REJECTED", score |-> HardFailScore(score)]
       ELSE [score  |-> score,
             status |-> IF score >= MinScore /\ ~(LosesUlp(s, p) /\ score = MinScore)
                        THEN "ELIGIBLE" ELSE IF score > 15 THEN "REVIEW" ELSE "REJECTED"]

Filter == /\ stage = "normalized"
          /\ result' = Evaluate(survey, profile)
          /\ stage' = IF result'.status = "REJECTED" THEN "rejected" ELSE "filtered"
          /\ UNCHANGED <<payload, profile, norm, survey, message>>

-------------------------------------------------------------------------------
(* delivery/dispatcher.py                                                  *)

\* Mutant: the threshold is the weight of one rule too low.
MutTemplate(score) == IF score >= 40 THEN "eligible" ELSE "review"

Template(score) == IF score >= 70 THEN "eligible" ELSE "review"

Notify == /\ stage = "filtered"
          /\ message' = Template(result.score)
          /\ stage' = "sent"
          /\ UNCHANGED <<payload, profile, norm, survey, result>>

Next == Normalize \/ Filter \/ Notify

Spec == Init /\ [][Next]_vars

-------------------------------------------------------------------------------
Evaluated == result.status # "none"
Given(f)  == f \in DOMAIN payload

\* The survey takes its numbers from the field's own name, else from the first
\* of its other names that the payload has, in the order the engine lists
\* them, even when that one is null (normalization/engine.py:91-126).
FirstNameWins ==
    norm \in {"valid", "partial"} =>
      LET amount(f) == IF payload[f] = Null THEN 0 ELSE payload[f].v IN
      /\ survey.payout = IF Given("payout") THEN amount("payout")
                         ELSE IF Given("compensation") THEN amount("compensation")
                         ELSE IF Given("reward") THEN amount("reward") ELSE 0
      /\ survey.minutes = IF Given("duration_minutes") THEN amount("duration_minutes")
                          ELSE IF Given("duration") THEN amount("duration")
                          ELSE IF Given("time") THEN amount("time") ELSE 0

\* The reported score explains the status: what is shown as REJECTED scores at
\* most 15, and what reaches min_score is ELIGIBLE, except the sum that rounds
\* up to min_score in the report only (filter/engine.py:71-86).
ReportedScore ==
    Evaluated =>
      /\ result.status = "REJECTED" <=> result.score <= 15
      /\ result.score < MinScore => result.status # "ELIGIBLE"
      /\ result.score >= MinScore => result.status = "ELIGIBLE" \/ LosesUlp(survey, profile)

Rank(status) == CASE status = "REJECTED" -> 0 [] status = "REVIEW" -> 1
                  [] status = "ELIGIBLE" -> 2

NoWorse(t, s) == /\ t.payout >= s.payout
                 /\ s.minutes > 0 => t.minutes \in 1..s.minutes
                 /\ s.minutes <= 0 => t.minutes = s.minutes
                 /\ t.source = s.source
                 /\ t.country \in {s.country, ""}
                 /\ t.devices = {} \/ (s.devices # {} /\ s.devices \subseteq t.devices)
                 /\ t.criteria => s.criteria

\* A survey that pays no less, takes no longer and asks no more of the
\* participant is never ranked lower, across the rules, the deduction for long
\* surveys and the rounding (filter/engine.py:50-77).
Monotone == Evaluated => \A t \in Surveys : NoWorse(t, survey) =>
                Rank(Evaluate(t, profile).status) >= Rank(result.status)

\* Only a survey found ELIGIBLE is announced as one (delivery/dispatcher.py:41-44); an
\* ELIGIBLE survey below 0.7 is announced for review.
AnnouncedIsEligible == message = "eligible" => result.status = "ELIGIBLE"

\* "country mismatch = instant reject" (filter/engine.py:59): no payload whose
\* country is not the profile's is announced.
CountryGatekeeper ==
    message # "none" /\ Given("country") => Upper(payload["country"].v) = Upper(profile.country)
===============================================================================
