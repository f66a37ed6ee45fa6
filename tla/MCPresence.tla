----------------------------- MODULE MCPresence -----------------------------
EXTENDS Presence, TLC

PlayerSymmetry == Permutations(Players)

=============================================================================
