----------------------------- MODULE MCBotRadio -----------------------------
(* Instances of BotRadio for TLC.                                           *)
EXTENDS BotRadio

Load(packets, messages, losses, breaks, reconnects, scope, visible) ==
  [packets |-> packets, messages |-> messages, losses |-> losses, breaks |-> breaks,
   reconnects |-> reconnects, scope |-> scope, visible |-> visible]

\* An answer of two packets, with and without CoreScope; one packet while an answer
\* of the node is lost, the link breaks or is replaced, and one too long to be
\* echoed; messages for us while the link breaks.
MCLoads == {Load({"p", "q"}, 0, 0, 0, 0, "off", TRUE),
            Load({"p", "q"}, 0, 0, 0, 0, "decide", TRUE),
            Load({"p"}, 0, 1, 1, 0, "stats", TRUE),
            Load({"p"}, 0, 0, 0, 1, "decide", TRUE),
            Load({"p"}, 0, 0, 1, 0, "off", FALSE),
            Load({}, 2, 1, 1, 1, "off", TRUE)}

\* A node that falls silent while the bot is connected.
MCSilentLoads == {Load({}, 1, 0, 1, 0, "off", TRUE)}
=============================================================================
