--------------------------- MODULE MCRevocation ---------------------------
(* Revocation: two instances that hear of each other, or two and a relay    *)
(* that do not.                                                             *)
EXTENDS Revocation, TLC

CONSTANTS i1, i2, r1, t1, u1, u2

MCInstances == {i1, i2}
MCRelay == {r1}
MCTabs == {u1, u2}
MCOneTab == {u1}
MCOneToken == {t1}

Scope(rots, fails, expiries, hears, serves) ==
    [rotations |-> rots, mishaps |-> fails, expiries |-> expiries,
     hears |-> hears, serves |-> serves]

(* One refresh at a time with something going wrong, or two racing.         *)
MCScopes == {Scope(1, 1, 0, Receivers, Instances), Scope(2, 0, 0, Receivers, Instances)}

(* Nobody hears anything, and only one instance is called: the other learns *)
(* of revocations by its reloads alone.  Something goes wrong, or a token   *)
(* expires.                                                                 *)
MCDeaf == {Scope(0, 1, 0, {}, {i1}), Scope(0, 0, 1, {}, {i1})}

Symmetry == Permutations(MCInstances) \cup Permutations(MCTabs)

=============================================================================
