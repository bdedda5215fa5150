------------------------------- MODULE MCVoice -------------------------------
(* Voice with two users, a second tab of the first, and a third user.       *)
EXTENDS Voice

MCUserOf == [c \in Clients |-> IF c = "ada2" THEN "ada" ELSE c]

(* In turn: two users and every button, a lost transport, three on a call,  *)
(* two tabs of a user.                                                      *)
MCScopes ==
    {[clients |-> {"ada", "bob"}, clicks |-> 4, drops |-> 0],
     [clients |-> {"ada", "bob"}, clicks |-> 3, drops |-> 1],
     [clients |-> {"ada", "ada2", "bob"}, clicks |-> 2, drops |-> 0]}
=============================================================================
