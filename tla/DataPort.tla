------------------------------ MODULE DataPort ------------------------------
(***************************************************************************)
(* What the load/store unit promises, whatever lies between it and the     *)
(* data bus: the core is answered once for every transfer it hands over,   *)
(* in order; the bus sees every transfer that is not blocked, once and in  *)
(* order; and only a bufferable store is answered before the bus has.      *)
(***************************************************************************)
EXTENDS Sequences

CONSTANT Transfers   \* records with a field attr

VARIABLES
  waiting,    \* handed over by the core and not answered to it
  owed,       \* of these and earlier ones, not yet taken by the bus
  granted     \* taken by the bus and not answered by it

portVars == <<waiting, owed, granted>>

\* Watchpoints and faults keep a transfer from the bus.
Passes(t) == t.attr \notin {"watch", "fault"}

PortInit == waiting = <<>> /\ owed = <<>> /\ granted = <<>>

\* Of what is handed over, at most one transfer, that which goes to the bus.
Passing(accepted) ==
  IF accepted # <<>> /\ Passes(Head(accepted)) THEN accepted ELSE <<>>

Drop(seq, gone) == IF gone THEN Tail(seq) ELSE seq

\* A blocked transfer may be answered as soon as it is the oldest; what the
\* bus must answer is answered in the very cycle.
MayAnswer(t, done) ==
  \/ ~Passes(t) \/ t.attr = "buffered"
  \/ done /\ Head(granted) = t

PortStep(accepted, answered, sent, done) ==
  LET due == owed \o Passing(accepted)
  IN  /\ answered => waiting # <<>> /\ MayAnswer(Head(waiting), done)
      /\ done => granted # <<>>
      /\ sent => due # <<>>
      /\ waiting' = Drop(waiting, answered) \o accepted
      /\ owed' = Drop(due, sent)
      /\ granted' = Drop(granted, done)
                      \o (IF sent THEN <<Head(due)>> ELSE <<>>)

PortNext ==
  \E accepted \in {<<>>} \cup {<<t>> : t \in Transfers},
     answered, sent, done \in BOOLEAN :
    PortStep(accepted, answered, sent, done)

PortSpec == PortInit /\ [][PortNext]_portVars

=============================================================================
