------------------------------- MODULE Harness -------------------------------
(* What the repository tests a deployment with: the bot fleet and the        *)
(* simulated player its bots steer.  The two share no state.                 *)
EXTENDS Fleet, SimPlayer

(* The harness can be believed: its bots report what happened, and the      *)
(* player they steer behaves (bot-client.ts, run-bots.ts, sim-player.ts).   *)
HarnessSound ==
    /\ FleetSound
    /\ SimSound

=============================================================================
