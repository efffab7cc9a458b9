----------------------------- MODULE MCFindings -----------------------------
(* Corpora of up to three files: a measure reported with three values, in  *)
(* two years, twice in one file, denied, and next to another denial.       *)
EXTENDS Findings, TLC

CONSTANTS cost, speed, latency

Says(about, numbers) == [about |-> about, numbers |-> numbers, denies |-> FALSE]
Denies(about, numbers) == [about |-> about, numbers |-> numbers, denies |-> TRUE]

MCTexts == {
    <<Says(cost, {5})>>,
    <<Says(cost, {7})>>,
    <<Denies(cost, {5})>>,
    <<Says(cost, {5}), Says(cost, {5})>>,
    <<Says(cost, {5}), Denies(speed, {}), Says(speed, {})>>,
    <<Says(cost, {5}), Says(cost, {7}), Says(cost, {9})>>,
    <<Says(latency, {3, 2020}), Says(cost, {5})>>,
    <<Says(latency, {4, 2021})>>,
    <<Says(latency, {3, 2020, 2021})>>}

MCThemeOf == cost :> <<"price", "price", "users">> @@ speed :> <<"reports", "engine", "reports">>
             @@ latency :> <<"network", "median", General>>
=============================================================================
