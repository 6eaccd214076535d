------------------------------ MODULE MCRopeXif ------------------------------
(* Small instances of RopeXifProtocol. *)
EXTENDS RopeXifProtocol

MCIds    == {0, 1, 2}
MCTwoIds == {0, 1}

\* One position and one pair, two words: without the prefetch the phase
\* travels with the word.
MCTwoOps == {[x |-> w, m |-> 0, i |-> 0] : w \in {1, 2}}

\* Two positions and every pair: the walks the prefetch follows and leaves.
MCWalks == {[x |-> 1, m |-> p, i |-> k] : p \in {0, 1}, k \in {0, 1}}

=============================================================================
