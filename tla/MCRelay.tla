------------------------------ MODULE MCRelay ------------------------------
(* Relay: a client that reads and one that may stop, two rooms, one         *)
(* revocation of a token and one of all tokens of its user.                 *)
EXTENDS Relay, TLC

CONSTANTS c1, c2, rA, rB, j1, v1

MCConns == {c1, c2}
MCReaders == {c1}
MCRooms == {rA, rB}
MCJtis == {j1}
MCVersions == {v1}
MCKills == (c1 :> {}) @@ (c2 :> {j1, v1})

MCScopes ==
    {[frames |-> 5, facts |-> {}, errors |-> 0],
     [frames |-> 3, facts |-> {}, errors |-> 1],
     [frames |-> 2, facts |-> {j1, v1}, errors |-> 0],
     [frames |-> 1, facts |-> {j1, v1}, errors |-> 1]}

=============================================================================
