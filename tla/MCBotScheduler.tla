--------------------------- MODULE MCBotScheduler ---------------------------
(* Instances of BotScheduler for TLC: a tick of the clock is one minute.     *)
EXTENDS BotScheduler

MCJobOrder == <<"warnings", "digest">>
MCInterval == [j \in Jobs |-> IF j = "warnings" THEN 1 ELSE 2]
=============================================================================
