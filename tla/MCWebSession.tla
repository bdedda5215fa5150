---------------------------- MODULE MCWebSession ----------------------------
(* The clients of a deployment: WebSession with two tabs and two people, the *)
(* bot fleet and its player.  The three share nothing and are explored one   *)
(* at a time.                                                                *)
EXTENDS WebSession, Harness

VARIABLE part

MCInit ==
    /\ part \in {"session", "fleet", "sim"}
    /\ Init /\ FleetInit /\ SimInit
    /\ part # "session" => scope = (CHOOSE s \in Scopes : TRUE) /\ stored = NoUser
    /\ part # "fleet" =>
         /\ fleetScope = CHOOSE s \in FleetScopes : s.planes = {"node"}
         /\ dupControls /\ dedups = CHOOSE d \in fleetScope.dedups : TRUE

MCNext ==
    \/ part = "session" /\ Next /\ UNCHANGED <<fleetVars, simVars, part>>
    \/ part = "fleet" /\ FleetNext /\ UNCHANGED <<vars, simVars, part>>
    \/ part = "sim" /\ SimNext /\ UNCHANGED <<vars, fleetVars, part>>

MCSpec == MCInit /\ [][MCNext]_<<vars, fleetVars, simVars, part>>

(* In turn: a change of person, a password change, a sign-out and what they *)
(* meet in flight, the socket and its buffer.                               *)
MCScopes ==
    {[tabs |-> Tabs, asks |-> {"login", "refresh", "logout"}, n |-> 3, blips |-> 0, emits |-> 0],
     [tabs |-> Tabs, asks |-> {"setPassword", "elevated", "refresh"}, n |-> 3, blips |-> 0, emits |-> 0],
     [tabs |-> {"t1"}, asks |-> {"me", "claim", "room", "logoutAll"}, n |-> 3, blips |-> 0, emits |-> 0],
     [tabs |-> {"t1"}, asks |-> {"refresh"}, n |-> 1, blips |-> 2, emits |-> 3]}

(* In turn: a commander alone whose connection drops, one that is dropped   *)
(* twice, two bots under a deployment that applies repetitions.             *)
MCFleetScopes ==
    {[planes |-> {"node", "relay"}, dedups |-> BOOLEAN, bots |-> 1, cmds |-> 2,
      log |-> 4, hears |-> 2, drops |-> 1],
     [planes |-> {"node", "relay"}, dedups |-> {TRUE}, bots |-> 1, cmds |-> 1,
      log |-> 3, hears |-> 1, drops |-> 2],
     [planes |-> {"node"}, dedups |-> {FALSE}, bots |-> 2, cmds |-> 2,
      log |-> 4, hears |-> 2, drops |-> 0]}

=============================================================================
