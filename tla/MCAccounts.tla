---------------------------- MODULE MCAccounts ----------------------------
(* Accounts: two accounts, two Google identities, two tabs.            *)
EXTENDS Accounts, Buckets, TLC

CONSTANTS u1, u2, n1, n2, e1, e2, w1, w2, s1, s2, b1, r1, r2

MCUsers == {u1, u2}
MCNames == {n1, n2}
MCEmails == {e1, e2}
MCPasswords == {w1, w2}
MCSubjects == {s1, s2}
MCEmailOf == (s1 :> e1) @@ (s2 :> e2)
MCBrowsers == {b1}
MCRequests == {r1, r2}

(* Swapping the identities swaps their addresses with them.                 *)
Swap == (s1 :> s2) @@ (s2 :> s1) @@ (e1 :> e2) @@ (e2 :> e1)

Symmetry == Permutations(MCUsers) \cup Permutations(MCPasswords)
              \cup Permutations(MCNames) \cup Permutations(MCRequests)
              \cup {Swap}

(* The limiters' histories are tried first, each by itself.                 *)
MCInit == Init /\ trial \in Trials
MCNext == trial = NoTrial /\ Next /\ UNCHANGED trial
MCSpec == MCInit /\ [][MCNext]_<<vars, trial>>

=============================================================================
