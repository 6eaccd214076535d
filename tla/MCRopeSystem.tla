---------------------------- MODULE MCRopeSystem ----------------------------
(* Small instances of RopeSystem. *)
EXTENDS RopeSystem

MCIds == 0 .. NumIds - 1
MCWords == Values \cup {StaleValue}

\* csr: offloaded, rejected and executed; illegal: offloaded, rejected and an
\* exception; fence: waits in WB and flushes what is behind it.
MCRejectedKinds == {"csr", "fence", "illegal", "rot"}
\* branch: kills IF and ID; load: an operand that comes late.
MCOwnKinds   == {"branch", "load", "rot"}
MCLoadRot    == {"load", "rot"}
MCDivKinds   == {"div", "rot"}
MCRotOnly    == {"rot"}

=============================================================================
