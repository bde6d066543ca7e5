---------------------------- MODULE MCAppAnswers ----------------------------
(* Instances of AppAnswers for TLC.                                         *)
EXTENDS AppAnswers

\* Sweeps of one state with the advisories, asked for by two phones, and of the
\* country without; two phones that missed some of the last, and a radar loop of
\* two frames.
MCPhoneOf == [a \in Requests |-> IF a \in {"texas", "both"} THEN "ana" ELSE "ben"]
MCKindOf == [a \in Requests |->
  CASE a \in {"texas", "again", "usa"} -> "sweep" [] a \in {"both", "one"} -> "part" [] OTHER -> "radar"]
MCItemsOf == [a \in Requests |->
  CASE a \in {"usa", "both"} -> {1, 2} [] a = "one" -> {2} [] a \in {"texas", "again"} -> {5}
    [] OTHER -> {3, 4}]
MCStatesOf == [a \in Requests |-> IF a \in {"texas", "again"} THEN {11} ELSE {}]
MCWindow == [k \in Windowed |-> 2]
=============================================================================
