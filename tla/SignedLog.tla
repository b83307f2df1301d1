-------------------------------- MODULE SignedLog --------------------------------
(***************************************************************************)
(* What the replicated ledger promises: one author, whose log only grows   *)
(* at its end, and nodes that hold a prefix of it, entry by entry.  Each   *)
(* signing key has a log of its own; a node that held part of an earlier   *)
(* key's log never goes on with another's.                                 *)
(***************************************************************************)
EXTENDS Naturals, Sequences, SequencesExt

CONSTANTS
  Node,   \* nodes that may ever hold a copy
  Data    \* transaction facts

VARIABLES
  log,    \* log[k]: what was authored under the k-th key
  holds   \* holds[n]: the entries node n holds

Init ==
  /\ log = << <<>> >>
  /\ holds = [n \in Node |-> <<>>]

Author(d) ==
  /\ log' = [log EXCEPT ![Len(log)] = Append(@, d)]
  /\ UNCHANGED holds

Store(n) ==
  /\ \E k \in DOMAIN log :
       /\ Len(holds[n]) < Len(log[k])
       /\ IsPrefix(holds[n], log[k])
       /\ holds' = [holds EXCEPT ![n] = Append(@, log[k][Len(@) + 1])]
  /\ UNCHANGED log

Join(n) ==
  /\ holds[n] = <<>>
  /\ holds' = [holds EXCEPT ![n] = Last(log)]
  /\ UNCHANGED log

Leave(n) ==
  /\ holds' = [holds EXCEPT ![n] = <<>>]
  /\ UNCHANGED log

\* A new key: its log is empty, the nodes that ran beside the author are too.
NewKey ==
  /\ log' = Append(log, <<>>)
  /\ \E lost \in SUBSET Node :
       holds' = [n \in Node |-> IF n \in lost THEN <<>> ELSE holds[n]]

Next ==
  \/ \E d \in Data : Author(d)
  \/ \E n \in Node : Store(n) \/ Join(n) \/ Leave(n)
  \/ NewKey

Spec == Init /\ [][Next]_<<log, holds>>
=============================================================================
