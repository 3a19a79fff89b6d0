----------------------------- MODULE MCScreening ------------------------------
(***************************************************************************)
(* Payloads with each name of the two numbers present, absent, null or not *)
(* a number; surveys and profiles on both sides of every rule.             *)
(***************************************************************************)
EXTENDS Screening, TLC

Optional(f, values) == {<<>>} \cup [{f} -> values]
Amounts == {Value(0), Value(3), Null, Junk}
Times   == {Value(10), Value(60), Null}

MCPayloads ==
    {a @@ b @@ c @@ d @@ e @@ g @@ [url |-> Value(TRUE)] :
        a \in Optional("payout", {Value(5), Null}), b \in Optional("compensation", Amounts),
        c \in Optional("reward", {Value(-1), Value(4)}),
        d \in Optional("duration_minutes", Times), e \in Optional("time", Times),
        g \in {[platform |-> Value("prolific"), country |-> Value(k)] : k \in {"us", "DE"}}}

MCSurveys ==
    [payout : {0, 5, 15}, minutes : {0, 20, 60}, source : {"prolific", "respondent"},
     country : {"", "us", "DE"}, devices : {{}, {"mobile"}, {"desktop"}, {"desktop", "mobile"}},
     criteria : BOOLEAN, url : {TRUE}]

MCProfiles ==
    [country : {"US"}, rate : {15}, devices : {{"desktop"}}, demographics : BOOLEAN,
     sources : {{}, {"prolific"}}, limit : {0, 30}]
===============================================================================
