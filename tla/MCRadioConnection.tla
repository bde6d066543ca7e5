-------------------------- MODULE MCRadioConnection --------------------------
(* Instances of RadioConnection for TLC.                                    *)
EXTENDS RadioConnection

Load(attempts, taps, stops, losses, timeouts, commands, messages) ==
  [attempts |-> attempts, taps |-> taps, stops |-> stops, losses |-> losses,
   timeouts |-> timeouts, commands |-> commands, messages |-> messages]

MCSessions == 1 .. 2
\* One link with everything that can happen to its commands; a radio or a demo, with
\* a lost link or a disconnect() in the middle; losses that the timer answers.
MCLoads == {Load(1, {"radio"}, 0, 1, 2, 1, {"m1", "m2"}),
            Load(2, {"radio", "demo"}, 0, 1, 0, 0, {"m1"}),
            Load(2, {"radio", "demo"}, 1, 0, 0, 0, {"m1"}),
            Load(2, {"radio"}, 1, 2, 0, 0, {})}
\* One link that breaks.
GhostLoads == {Load(1, {"radio"}, 0, 1, 0, 0, {})}
=============================================================================
