---------------------------- MODULE ScreeningProofs ----------------------------
(***************************************************************************)
(* For any payloads, surveys and profiles: what a survey's numbers come    *)
(* from, what the filter's score says, and that a better survey ranks no   *)
(* lower.                                                                  *)
(***************************************************************************)
EXTENDS Screening, TLAPS

-------------------------------------------------------------------------------
(* Normalization                                                           *)

\* A name of the table adds its field, unless the field is there.
LEMMA RenameAdds ==
    ASSUME NEW data, NEW old, NEW new
    PROVE  LET r == Rename(data, <<old, new>>) IN
           /\ \A f : f \in DOMAIN r <=> f \in DOMAIN data \/ (f = new /\ old \in DOMAIN data)
           /\ \A f \in DOMAIN data : r[f] = data[f]
           /\ new \notin DOMAIN data /\ old \in DOMAIN data => r[new] = data[old]
<1>1. <<old, new>>[1] = old /\ <<old, new>>[2] = new
      OBVIOUS
<1> QED BY <1>1 DEF Rename

\* The first of three names that the payload has.
FirstOf(data, own, second, third) ==
    IF own \in DOMAIN data THEN data[own]
    ELSE IF second \in DOMAIN data THEN data[second]
    ELSE IF third \in DOMAIN data THEN data[third] ELSE Null

\* The table gives the two numbers under their own names.
LEMMA NamesAreOrdered ==
    ASSUME NEW data
    PROVE  LET r == NormalizeFields(data) IN
           /\ "payout" \in DOMAIN r
                <=> \E f \in {"payout", "compensation", "reward"} : f \in DOMAIN data
           /\ "duration_minutes" \in DOMAIN r
                <=> \E f \in {"duration_minutes", "duration", "time"} : f \in DOMAIN data
           /\ "payout" \in DOMAIN r => r["payout"] = FirstOf(data, "payout", "compensation", "reward")
           /\ "duration_minutes" \in DOMAIN r
                => r["duration_minutes"] = FirstOf(data, "duration_minutes", "duration", "time")
<1> DEFINE a == Rename(data, <<"compensation", "payout">>)
           b == Rename(a, <<"reward", "payout">>)
           c == Rename(b, <<"duration", "duration_minutes">>)
           d == Rename(c, <<"time", "duration_minutes">>)
           r == Rename(d, <<"platform", "source">>)
<1>1. NormalizeFields(data) = r
      BY DEF NormalizeFields, FieldMappings
<1>2. /\ \A f : f \in DOMAIN a <=> f \in DOMAIN data \/ (f = "payout" /\ "compensation" \in DOMAIN data)
      /\ \A f \in DOMAIN data : a[f] = data[f]
      /\ "payout" \notin DOMAIN data /\ "compensation" \in DOMAIN data => a["payout"] = data["compensation"]
      BY RenameAdds
<1>3. /\ \A f : f \in DOMAIN b <=> f \in DOMAIN a \/ (f = "payout" /\ "reward" \in DOMAIN a)
      /\ \A f \in DOMAIN a : b[f] = a[f]
      /\ "payout" \notin DOMAIN a /\ "reward" \in DOMAIN a => b["payout"] = a["reward"]
      BY RenameAdds
<1>4. /\ \A f : f \in DOMAIN c <=> f \in DOMAIN b \/ (f = "duration_minutes" /\ "duration" \in DOMAIN b)
      /\ \A f \in DOMAIN b : c[f] = b[f]
      /\ "duration_minutes" \notin DOMAIN b /\ "duration" \in DOMAIN b
           => c["duration_minutes"] = b["duration"]
      BY RenameAdds
<1>5. /\ \A f : f \in DOMAIN d <=> f \in DOMAIN c \/ (f = "duration_minutes" /\ "time" \in DOMAIN c)
      /\ \A f \in DOMAIN c : d[f] = c[f]
      /\ "duration_minutes" \notin DOMAIN c /\ "time" \in DOMAIN c => d["duration_minutes"] = c["time"]
      BY RenameAdds
<1>6. /\ \A f : f \in DOMAIN r <=> f \in DOMAIN d \/ (f = "source" /\ "platform" \in DOMAIN d)
      /\ \A f \in DOMAIN d : r[f] = d[f]
      BY RenameAdds
<1> HIDE DEF a, b, c, d, r
<1>7. \A f \in DOMAIN b : f \in DOMAIN r /\ r[f] = d[f] /\ d[f] = c[f] /\ c[f] = b[f]
      BY <1>4, <1>5, <1>6
<1>8. /\ "payout" \in DOMAIN r <=> "payout" \in DOMAIN b
      /\ "payout" \in DOMAIN b => r["payout"] = b["payout"]
      BY <1>4, <1>5, <1>6
<1>9. /\ "duration_minutes" \in DOMAIN r <=> "duration_minutes" \in DOMAIN d
      /\ "duration_minutes" \in DOMAIN d => r["duration_minutes"] = d["duration_minutes"]
      BY <1>6
<1>10. \A f \in {"duration_minutes", "duration", "time"} :
          /\ f \in DOMAIN b <=> f \in DOMAIN data
          /\ f \in DOMAIN b => b[f] = data[f]
      BY <1>2, <1>3
<1>11. /\ "payout" \in DOMAIN b
            <=> \E f \in {"payout", "compensation", "reward"} : f \in DOMAIN data
       /\ "payout" \in DOMAIN b => b["payout"] = FirstOf(data, "payout", "compensation", "reward")
      BY <1>2, <1>3 DEF FirstOf
<1>12. /\ "duration_minutes" \in DOMAIN d
            <=> \E f \in {"duration_minutes", "duration", "time"} : f \in DOMAIN b
       /\ "duration_minutes" \in DOMAIN d
            => d["duration_minutes"] = FirstOf(b, "duration_minutes", "duration", "time")
      BY <1>4, <1>5 DEF FirstOf
<1>13. /\ "duration_minutes" \in DOMAIN d
            <=> \E f \in {"duration_minutes", "duration", "time"} : f \in DOMAIN data
       /\ "duration_minutes" \in DOMAIN d
            => d["duration_minutes"] = FirstOf(data, "duration_minutes", "duration", "time")
      BY <1>10, <1>12 DEF FirstOf
<1> QED BY <1>1, <1>8, <1>9, <1>11, <1>13

\* A number of a payload, as the engine takes it: null and absent are zero.
NumberOf(x) == IF x = Null THEN 0 ELSE x.v

\* What the filter is given of a payload that is no junk.
LEMMA NumbersAreFirst ==
    ASSUME NEW data \in Payloads,
           LET full == ApplyDefaults(NormalizeFields(data)) IN
             \A f \in DOMAIN Defaults : full[f] # Junk
    PROVE  LET s == SurveyOf(ApplyDefaults(NormalizeFields(data))) IN
           /\ s.payout = NumberOf(FirstOf(data, "payout", "compensation", "reward"))
           /\ s.minutes = NumberOf(FirstOf(data, "duration_minutes", "duration", "time"))
           /\ s.payout \in Int /\ s.minutes \in Int
<1> DEFINE r == NormalizeFields(data)
           full == ApplyDefaults(r)
<1>0. /\ Null # Junk /\ \A n : Value(n) # Null /\ Value(n) # Junk /\ Value(n).v = n
      BY DEF Null, Junk, Value
<1>1. /\ DOMAIN Defaults = {"payout", "duration_minutes", "source"}
      /\ Defaults["payout"] = Value(0) /\ Defaults["duration_minutes"] = Value(0)
      BY DEF Defaults
<1>2. ASSUME NEW f \in {"payout", "duration_minutes"}
      PROVE  full[f] = IF f \notin DOMAIN r \/ r[f] = Null THEN Value(0) ELSE r[f]
      BY <1>1, <1>2 DEF ApplyDefaults
<1>3. SurveyOf(full).payout = full["payout"].v /\ SurveyOf(full).minutes = full["duration_minutes"].v
      BY DEF SurveyOf, NoSurvey
<1>4. full["payout"] # Junk /\ full["duration_minutes"] # Junk
      BY <1>1
<1>5. \A f \in DOMAIN data \cap NumberNames :
         data[f] \in {Null, Junk} \/ (data[f] = Value(data[f].v) /\ data[f].v \in Int)
      BY ScreeningAssumption
<1> DEFINE p == FirstOf(data, "payout", "compensation", "reward")
           m == FirstOf(data, "duration_minutes", "duration", "time")
<1>6. /\ p \in {Null, Junk} \/ (p = Value(p.v) /\ p.v \in Int)
      /\ m \in {Null, Junk} \/ (m = Value(m.v) /\ m.v \in Int)
      BY <1>5 DEF FirstOf, NumberNames
<1>7. full["payout"] = (IF p = Null THEN Value(0) ELSE p)
  <2>1. "payout" \notin DOMAIN r => p = Null
        BY NamesAreOrdered DEF FirstOf
  <2>2. "payout" \in DOMAIN r => r["payout"] = p
        BY NamesAreOrdered
  <2> QED BY <1>2, <2>1, <2>2
<1>8. full["duration_minutes"] = (IF m = Null THEN Value(0) ELSE m)
  <2>1. "duration_minutes" \notin DOMAIN r => m = Null
        BY NamesAreOrdered DEF FirstOf
  <2>2. "duration_minutes" \in DOMAIN r => r["duration_minutes"] = m
        BY NamesAreOrdered
  <2> QED BY <1>2, <2>1, <2>2
<1> HIDE DEF r, full, p, m
<1>9. full["payout"].v = NumberOf(p) /\ NumberOf(p) \in Int
      BY <1>0, <1>4, <1>6, <1>7 DEF NumberOf
<1>10. full["duration_minutes"].v = NumberOf(m) /\ NumberOf(m) \in Int
      BY <1>0, <1>4, <1>6, <1>8 DEF NumberOf
<1> QED BY <1>3, <1>9, <1>10 DEF r, full, p, m

-------------------------------------------------------------------------------
(* The filter                                                              *)

\* A score is a percentage, and it explains the status.
Explains(s, p, r) ==
    /\ r.score \in 0..100 /\ r.status \in {"ELIGIBLE", "REVIEW", "REJECTED"}
    /\ r.status = "REJECTED" <=> r.score <= 15
    /\ r.score < MinScore => r.status # "ELIGIBLE"
    /\ r.score >= MinScore => r.status = "ELIGIBLE" \/ (LosesUlp(s, p) /\ r.score = MinScore)

\* The rules' weights add up to a percentage.
LEMMA ScoresArePercentages == ASSUME NEW s, NEW p PROVE WeightedScore(s, p) \in 0..100
BY DEF WeightedScore, Weight

\* Whatever the survey and the profile, the score explains the status.
LEMMA ScoreExplains == ASSUME NEW s, NEW p PROVE Explains(s, p, Evaluate(s, p))
<1> DEFINE score == IF TooLong(s, p) THEN Deducted(WeightedScore(s, p)) ELSE WeightedScore(s, p)
<1>1. score \in 0..100
      BY ScoresArePercentages DEF Deducted
<1> HIDE DEF score
<1>2. CASE HardFail(s, p)
  <2>1. Evaluate(s, p).status = "REJECTED" /\ Evaluate(s, p).score = 0
        BY <1>2 DEF Evaluate, HardFailScore
  <2> QED BY <2>1, ScreeningAssumption DEF Explains
<1>3. CASE ~HardFail(s, p)
  <2>1. /\ Evaluate(s, p).score = score
        /\ Evaluate(s, p).status = IF score >= MinScore /\ ~(LosesUlp(s, p) /\ score = MinScore)
                                   THEN "ELIGIBLE" ELSE IF score > 15 THEN "REVIEW" ELSE "REJECTED"
        BY <1>3 DEF Evaluate, score
  <2> QED BY <1>1, <2>1, ScreeningAssumption DEF Explains
<1> QED BY <1>2, <1>3

\* The surveys and profiles the filter compares have whole numbers.
IsSurvey(s)  == s.payout \in Int /\ s.minutes \in Int
IsProfile(p) == p.rate \in Int /\ p.limit \in Int

\* A rule that a survey passes, a better one passes too.
LEMMA BetterPasses ==
    ASSUME NEW s, NEW t, NEW p, IsSurvey(s), IsSurvey(t), IsProfile(p), NoWorse(t, s)
    PROVE  /\ HourlyRateOk(s, p) => HourlyRateOk(t, p)
           /\ CountryMatch(s, p) => CountryMatch(t, p)
           /\ DeviceCompatible(s, p) => DeviceCompatible(t, p)
           /\ ScreeningOk(s, p) => ScreeningOk(t, p)
           /\ HardFail(t, p) => HardFail(s, p)
           /\ TooLong(t, p) => TooLong(s, p)
<1>0. /\ s.payout \in Int /\ s.minutes \in Int /\ t.payout \in Int /\ t.minutes \in Int
      /\ p.rate \in Int /\ p.limit \in Int
      BY DEF IsSurvey, IsProfile
<1>a. /\ t.payout >= s.payout
      /\ s.minutes > 0 => t.minutes \in 1..s.minutes
      /\ s.minutes <= 0 => t.minutes = s.minutes
      BY DEF NoWorse
<1>b. t.minutes <= s.minutes /\ (s.minutes > 0 => t.minutes >= 1)
      BY <1>0, <1>a
<1>1. HourlyRateOk(s, p) => HourlyRateOk(t, p)
  <2> SUFFICES ASSUME HourlyRateOk(s, p) PROVE HourlyRateOk(t, p)
      OBVIOUS
  <2>1. /\ s.payout > 0 /\ s.minutes > 0 /\ s.payout * 60 >= p.rate * s.minutes
        /\ t.payout >= s.payout /\ t.minutes >= 1 /\ t.minutes <= s.minutes
        BY <1>a, <1>b DEF HourlyRateOk
  <2>2. \A r, a, b \in Int : r >= 0 /\ a <= b => r * a <= r * b
        OBVIOUS
  <2>3. \A r, a \in Int : r < 0 /\ a >= 1 => r * a <= 0
        OBVIOUS
  <2>4. p.rate >= 0 => p.rate * t.minutes <= p.rate * s.minutes
        BY <1>0, <2>1, <2>2
  <2>5. p.rate < 0 => p.rate * t.minutes <= 0
        BY <1>0, <2>1, <2>3
  <2>6. p.rate * t.minutes \in Int /\ p.rate * s.minutes \in Int
        BY <1>0
  <2>7. t.payout * 60 >= p.rate * t.minutes
        BY <1>0, <2>1, <2>4, <2>5, <2>6
  <2> QED BY <1>0, <2>1, <2>7 DEF HourlyRateOk
<1>2. CountryMatch(s, p) => CountryMatch(t, p)
      BY DEF CountryMatch, NoWorse
<1>3. DeviceCompatible(s, p) => DeviceCompatible(t, p)
      BY DEF DeviceCompatible, NoWorse
<1>4. ScreeningOk(s, p) => ScreeningOk(t, p)
      BY DEF ScreeningOk, NoWorse
<1>5. TooLong(t, p) => TooLong(s, p)
      BY <1>0, <1>b DEF TooLong
<1> QED BY <1>1, <1>2, <1>3, <1>4, <1>5 DEF HardFail, NoWorse

\* So its score is no lower, and if one of them loses the ulp at min_score, the
\* better one does not lose it alone.
LEMMA BetterRanks ==
    ASSUME NEW s, NEW t, NEW p, IsSurvey(s), IsSurvey(t), IsProfile(p), NoWorse(t, s)
    PROVE  Rank(Evaluate(t, p).status) >= Rank(Evaluate(s, p).status)
<1> DEFINE scored(u) == IF TooLong(u, p) THEN Deducted(WeightedScore(u, p)) ELSE WeightedScore(u, p)
           ranked(u) == IF scored(u) >= MinScore /\ ~(LosesUlp(u, p) /\ scored(u) = MinScore)
                        THEN "ELIGIBLE" ELSE IF scored(u) > 15 THEN "REVIEW" ELSE "REJECTED"
<1>1. Rank("REJECTED") = 0 /\ Rank("REVIEW") = 1 /\ Rank("ELIGIBLE") = 2
      BY DEF Rank
<1>2. CASE HardFail(s, p)
  <2>1. Evaluate(s, p).status = "REJECTED"
        BY <1>2 DEF Evaluate
  <2>2. Evaluate(t, p).status \in {"ELIGIBLE", "REVIEW", "REJECTED"}
        BY ScoreExplains DEF Explains
  <2> QED BY <1>1, <2>1, <2>2
<1>3. CASE ~HardFail(s, p)
  <2>1. ~HardFail(t, p)
        BY <1>3, BetterPasses
  <2>2. Evaluate(s, p).status = ranked(s) /\ Evaluate(t, p).status = ranked(t)
        BY <1>3, <2>1 DEF Evaluate
  <2>3. /\ WeightedScore(s, p) \in 0..100 /\ WeightedScore(t, p) \in 0..100
        /\ WeightedScore(s, p) <= WeightedScore(t, p)
    <3>1. /\ Weight(HourlyRateOk(s, p), 40) <= Weight(HourlyRateOk(t, p), 40)
          /\ Weight(CountryMatch(s, p), 30) <= Weight(CountryMatch(t, p), 30)
          /\ Weight(DeviceCompatible(s, p), 20) <= Weight(DeviceCompatible(t, p), 20)
          /\ Weight(ScreeningOk(s, p), 10) <= Weight(ScreeningOk(t, p), 10)
          BY BetterPasses DEF Weight
    <3>2. ASSUME NEW q, NEW n \in Nat PROVE Weight(q, n) \in Int
          BY DEF Weight
    <3> QED BY <3>1, <3>2, ScoresArePercentages DEF WeightedScore
  <2>4. scored(s) \in 0..100 /\ scored(t) \in 0..100 /\ scored(s) <= scored(t)
        BY <2>3, BetterPasses DEF Deducted
  <2>5. LosesUlp(t, p) /\ scored(s) = MinScore /\ scored(t) = MinScore => LosesUlp(s, p)
    <3> SUFFICES ASSUME LosesUlp(t, p), scored(s) = MinScore, scored(t) = MinScore
                 PROVE  LosesUlp(s, p)
        OBVIOUS
    <3>1. TooLong(s, p) /\ WeightedScore(t, p) = 70
          BY BetterPasses DEF LosesUlp
    <3>2. WeightedScore(s, p) = 70
          BY <2>3, <3>1, ScreeningAssumption DEF Deducted
    <3>3. ~DeviceCompatible(t, p) /\ ~ScreeningOk(t, p)
          BY <3>1 DEF LosesUlp, WeightedScore, Weight
    <3>4. ~DeviceCompatible(s, p) /\ ~ScreeningOk(s, p)
          BY <3>3, BetterPasses
    <3>5. HourlyRateOk(s, p) /\ CountryMatch(s, p)
          BY <3>2, <3>4 DEF WeightedScore, Weight
    <3> QED BY <3>1, <3>2, <3>5 DEF LosesUlp
  <2>6. MinScore = 50
        BY ScreeningAssumption
  <2> HIDE DEF scored
  <2>7. Rank(ranked(t)) >= Rank(ranked(s))
        BY <1>1, <2>4, <2>5, <2>6
  <2> QED BY <2>2, <2>7
<1> QED BY <1>2, <1>3

-------------------------------------------------------------------------------
(* A survey's way through the stages                                       *)

\* What each stage has come from.
StagesFollow ==
    /\ profile \in Profiles /\ IsSurvey(survey)
    /\ stage = "raw" => payload \in Payloads /\ norm = "none"
    /\ stage \in {"raw", "normalized"} => result = NoResult /\ message = "none"
    /\ stage = "filtered" => result.status # "none" /\ message = "none"
    /\ result.status # "none" => result = Evaluate(survey, profile)
    /\ message = "eligible" => result.status # "none" /\ result.score >= 70

ScreenedInv == TypeOK /\ StagesFollow /\ FirstNameWins

\* Normalizing keeps the invariant.
LEMMA NormalizeKeeps == ASSUME ScreenedInv, Normalize PROVE ScreenedInv'
<1> DEFINE full == ApplyDefaults(NormalizeFields(payload))
<1>1. /\ stage = "raw" /\ payload \in Payloads /\ norm = "none"
      /\ result = NoResult /\ message = "none" /\ profile \in Profiles /\ IsSurvey(survey)
      BY DEF ScreenedInv, StagesFollow, Normalize
<1>2. UNCHANGED <<payload, profile, result, message>>
      BY DEF Normalize
<1>3. CASE \E f \in DOMAIN Defaults : full[f] = Junk
  <2>1. stage' = "rejected" /\ norm' = "invalid" /\ survey' = survey
        BY <1>3 DEF Normalize
  <2> QED BY <1>1, <1>2, <2>1 DEF ScreenedInv, StagesFollow, TypeOK, FirstNameWins, NoResult
<1>4. CASE ~ \E f \in DOMAIN Defaults : full[f] = Junk
  <2>1. stage' = "normalized" /\ survey' = SurveyOf(full) /\ norm' \in {"valid", "partial"}
        BY <1>4 DEF Normalize
  <2>2. \A f \in DOMAIN Defaults : full[f] # Junk
        BY <1>4
  <2>3. /\ SurveyOf(full).payout = NumberOf(FirstOf(payload, "payout", "compensation", "reward"))
        /\ SurveyOf(full).minutes = NumberOf(FirstOf(payload, "duration_minutes", "duration", "time"))
        /\ SurveyOf(full).payout \in Int /\ SurveyOf(full).minutes \in Int
        BY <1>1, <2>2, NumbersAreFirst
  <2> HIDE DEF full
  <2>4. /\ survey'.payout = NumberOf(FirstOf(payload', "payout", "compensation", "reward"))
        /\ survey'.minutes = NumberOf(FirstOf(payload', "duration_minutes", "duration", "time"))
        /\ IsSurvey(survey')
        BY <1>2, <2>1, <2>3 DEF IsSurvey
  <2>5. FirstNameWins'
        BY <2>4 DEF NumberOf, FirstOf, FirstNameWins, Given
  <2>6. TypeOK'
        BY <1>1, <1>2, <2>1 DEF TypeOK, NoResult
  <2>7. StagesFollow'
        BY <1>1, <1>2, <2>1, <2>4 DEF StagesFollow, NoResult
  <2> QED BY <2>5, <2>6, <2>7 DEF ScreenedInv
<1> QED BY <1>3, <1>4

\* Every stage preserves the invariant.
LEMMA ScreenedStep == ScreenedInv /\ [Next]_vars => ScreenedInv'
<1> SUFFICES ASSUME ScreenedInv, [Next]_vars PROVE ScreenedInv'
    OBVIOUS
<1>1. CASE Normalize
      BY <1>1, NormalizeKeeps
<1>2. CASE Filter
  <2>1. /\ result' = Evaluate(survey, profile)
        /\ stage' = IF result'.status = "REJECTED" THEN "rejected" ELSE "filtered"
        /\ UNCHANGED <<payload, profile, norm, survey, message>>
        BY <1>2 DEF Filter
  <2>2. result'.score \in 0..100 /\ result'.status \in {"ELIGIBLE", "REVIEW", "REJECTED"}
        BY <2>1, ScoreExplains DEF Explains
  <2>3. message = "none"
        BY <1>2 DEF Filter, ScreenedInv, StagesFollow
  <2>4. FirstNameWins'
        BY <2>1 DEF ScreenedInv, FirstNameWins, Given
  <2>5. TypeOK'
        BY <2>1, <2>2 DEF ScreenedInv, TypeOK
  <2> QED BY <2>1, <2>2, <2>3, <2>4, <2>5 DEF ScreenedInv, StagesFollow
<1>3. CASE Notify
  <2>1. /\ message' = Template(result.score) /\ stage = "filtered" /\ stage' = "sent"
        /\ UNCHANGED <<payload, profile, norm, survey, result>>
        BY <1>3 DEF Notify
  <2>2. /\ message' \in {"eligible", "review"}
        /\ message' = "eligible" => result.score >= 70
        BY <2>1 DEF Template
  <2>3. FirstNameWins'
        BY <2>1 DEF ScreenedInv, FirstNameWins, Given
  <2> QED BY <2>1, <2>2, <2>3 DEF ScreenedInv, TypeOK, StagesFollow
<1>4. CASE UNCHANGED vars
  <2>1. FirstNameWins'
        BY <1>4 DEF vars, ScreenedInv, FirstNameWins, Given
  <2> QED BY <1>4, <2>1 DEF vars, ScreenedInv, TypeOK, StagesFollow
<1> QED BY <1>1, <1>2, <1>3, <1>4 DEF Next

\* The invariant holds of every screening.
LEMMA ScreenedInvariant == Spec => []ScreenedInv
<1>1. Init => ScreenedInv
  <2> SUFFICES ASSUME Init PROVE ScreenedInv
      OBVIOUS
  <2>1. IsSurvey(survey)
    <3>1. \A s \in Surveys : IsSurvey(s)
          BY ScreeningAssumption, Zenon DEF IsSurvey
    <3>2. IsSurvey(NoSurvey)
          BY DEF IsSurvey, NoSurvey
    <3>3. survey = NoSurvey \/ survey \in Surveys
          BY DEF Init
    <3> QED BY <3>1, <3>2, <3>3
  <2> QED BY <2>1 DEF Init, ScreenedInv, TypeOK, StagesFollow, FirstNameWins, NoResult
<1> QED BY <1>1, ScreenedStep, PTL DEF Spec

\* The stages and their results keep their types (filter/engine.py:79-87).
THEOREM ScreeningTypeCorrect == Spec => []TypeOK
<1>1. ScreenedInv => TypeOK
      BY DEF ScreenedInv
<1> QED BY <1>1, ScreenedInvariant, PTL

\* A survey's numbers are those of the first of their names that the payload has,
\* for any payload (normalization/engine.py:91-126).
THEOREM FirstNamesWin == Spec => []FirstNameWins
<1>1. ScreenedInv => FirstNameWins
      BY DEF ScreenedInv
<1> QED BY <1>1, ScreenedInvariant, PTL

\* The reported score explains the status, for any survey and profile
\* (filter/engine.py:71-86).
THEOREM ScoresExplain == Spec => []ReportedScore
<1>1. ScreenedInv => ReportedScore
      BY ScoreExplains DEF ScreenedInv, StagesFollow, Explains, ReportedScore, Evaluated
<1> QED BY <1>1, ScreenedInvariant, PTL

\* A better survey is never ranked lower, for any two surveys and any profile
\* (filter/engine.py:50-77).
THEOREM BetterIsNoWorse == Spec => []Monotone
<1>1. ScreenedInv => Monotone
  <2> SUFFICES ASSUME ScreenedInv, Evaluated, NEW t \in Surveys, NoWorse(t, survey)
               PROVE  Rank(Evaluate(t, profile).status) >= Rank(result.status)
      BY DEF Monotone
  <2>1. IsSurvey(t)
        BY ScreeningAssumption, Zenon DEF IsSurvey
  <2>2. profile \in Profiles /\ IsSurvey(survey) /\ result = Evaluate(survey, profile)
        BY DEF ScreenedInv, StagesFollow, Evaluated
  <2>3. IsProfile(profile)
        BY <2>2, ScreeningAssumption DEF IsProfile
  <2> QED BY <2>1, <2>2, <2>3, BetterRanks
<1> QED BY <1>1, ScreenedInvariant, PTL

\* Only what the filter found ELIGIBLE is announced as eligible, for any survey and
\* profile (delivery/dispatcher.py:41-44).
THEOREM OnlyEligibleIsAnnounced == Spec => []AnnouncedIsEligible
<1>1. ScreenedInv => AnnouncedIsEligible
  <2> SUFFICES ASSUME ScreenedInv, message = "eligible" PROVE result.status = "ELIGIBLE"
      BY DEF AnnouncedIsEligible
  <2>1. result = Evaluate(survey, profile) /\ result.score >= 70
        BY DEF ScreenedInv, StagesFollow
  <2> QED BY <2>1, ScoreExplains, ScreeningAssumption DEF Explains
<1> QED BY <1>1, ScreenedInvariant, PTL
===============================================================================
