------------------------------ MODULE DepinSettle ------------------------------
(***************************************************************************)
(* Paying out the DePIN meters.  Each settler (a tick of the auto-settle   *)
(* timer, a POST /v1/depin/settle) reads Cluster.Meter once, credits one   *)
(* node after the other in the wallet, and clears the meter of each node it*)
(* credited, while the cluster goes on.                                    *)
(***************************************************************************)
EXTENDS LedgerCluster, FiniteSetsExt

CONSTANTS
  Settler,   \* runs of settleDepin that may overlap; the timer is one of them
  Timer,
  MaxUnheard, \* bound: units whose credit ended in an error although the
              \* wallet committed it
  MaxPaid    \* bound: units ever credited for a node

ASSUME SettleAssumption ==
  IsFiniteSet(Settler) /\ Timer \in Settler /\ MaxUnheard \in Nat /\ MaxPaid \in Nat

VARIABLES
  opened,   \* users with a wallet account (external)
  paid,     \* paid[id]: units the wallet credited for node id (external)
  stage,    \* stage[s]: "idle", to "credit" the next node, to "clear" the credited
  meters,   \* meters[s]: what Meter reported and s has still to settle, by node id
  sum,      \* units paid in this pass
  total,    \* units in totalRewardedMin
  unheard,  \* ghost: unheard[id]: units credited by calls that ended in an error
  forfeited, \* ghost: forfeited[id]: pending units of a node that went offline
  overlapped \* ghost: nodes that two settlers had read and not settled at one time

ghosts == <<unheard, forfeited, overlapped>>
settling == <<opened, paid, stage, meters, sum, total>>
depin == <<cluster, settling, ghosts>>

NoMeters == [id \in {} |-> id]

SettleInit ==
  /\ Init
  /\ opened = {}
  /\ paid = [id \in Id |-> 0]
  /\ stage = [s \in Settler |-> "idle"]
  /\ meters = [s \in Settler |-> NoMeters]
  /\ sum = [s \in Settler |-> 0]
  /\ total = 0
  /\ unheard = [id \in Id |-> 0]
  /\ forfeited = [id \in Id |-> 0]
  /\ overlapped = {}

\* Nodes without an owner or without pending units have no reward to settle; the
\* mutant skips nodes with a single unit.
AboveOne == {id \in Live : replica[id].owner # NoOwner /\ replica[id].pending > 1}
Rewarded == {id \in Live : replica[id].owner # NoOwner /\ replica[id].pending > 0}
Meter == [id \in Rewarded |-> [owner |-> replica[id].owner, units |-> replica[id].pending]]

\* The node s settles next, as a set of at most one.
Turn(s) == {id \in DOMAIN meters[s] : \A x \in DOMAIN meters[s] : id <= x}
Without(f, id) == [x \in DOMAIN f \ {id} |-> f[x]]
Done(s, id) == meters' = [meters EXCEPT ![s] = Without(@, id)]

BeginSettle(s) ==
  /\ stage[s] = "idle"
  /\ stage' = [stage EXCEPT ![s] = "credit"]
  /\ meters' = [meters EXCEPT ![s] = Meter]
  /\ sum' = [sum EXCEPT ![s] = 0]
  /\ overlapped' = overlapped \cup
       {id \in DOMAIN Meter : \E t \in Settler : id \in DOMAIN meters[t]}
  /\ UNCHANGED <<cluster, opened, paid, total, unheard, forfeited>>

Unheard == SumFunction(unheard)

\* wallet.CreditNodeReward under a fresh ref.  The wallet credits the owner's account,
Books(s, id) ==
  /\ meters[s][id].owner \in opened
  /\ paid[id] + meters[s][id].units <= MaxPaid
  /\ paid' = [paid EXCEPT ![id] = @ + meters[s][id].units]

CreditHeard(s, id) ==
  /\ stage[s] = "credit" /\ id \in Turn(s) /\ Books(s, id)
  /\ stage' = [stage EXCEPT ![s] = "clear"]
  /\ UNCHANGED <<cluster, opened, meters, sum, total, ghosts>>

\* or the call ends in an error, without an account or for any other reason: the node
\* is skipped and stays pending,
CreditFails(s, id) ==
  /\ stage[s] = "credit" /\ id \in Turn(s)
  /\ Done(s, id)
  /\ UNCHANGED <<cluster, opened, paid, stage, sum, total, ghosts>>

\* also where the wallet had committed and only the reply was lost.
CreditUnheard(s, id) ==
  /\ stage[s] = "credit" /\ id \in Turn(s) /\ Books(s, id)
  /\ Unheard + meters[s][id].units <= MaxUnheard
  /\ unheard' = [unheard EXCEPT ![id] = @ + meters[s][id].units]
  /\ Done(s, id)
  /\ UNCHANGED <<cluster, opened, stage, sum, total, forfeited, overlapped>>

Credit(s) == \E id \in Id : CreditHeard(s, id) \/ CreditFails(s, id) \/ CreditUnheard(s, id)

\* What ClearPending is asked to subtract; the mutants zero the meter or leave it.
WholeMeter(s, id) == MaxLength
NotCleared(s, id) == 0
Credited(s, id) == meters[s][id].units

Less(n, units) == IF units > n THEN 0 ELSE n - units

Clear(s) ==
  /\ stage[s] = "clear"
  /\ \E id \in Turn(s) :
       /\ ClearPending(id, Credited(s, id))
       /\ forfeited' = [forfeited EXCEPT ![id] = Less(@, meters[s][id].units)]
       /\ sum' = [sum EXCEPT ![s] = @ + meters[s][id].units]
       /\ Done(s, id)
  /\ stage' = [stage EXCEPT ![s] = "credit"]
  /\ UNCHANGED <<opened, paid, total, unheard, overlapped>>

\* The totals are added under API.mu; the mutant overwrites them.
LastTotal(s) == sum[s]
NewTotal(s) == total + sum[s]

EndSettle(s) ==
  /\ stage[s] = "credit" /\ DOMAIN meters[s] = {}
  /\ stage' = [stage EXCEPT ![s] = "idle"]
  /\ sum' = [sum EXCEPT ![s] = 0]
  /\ total' = NewTotal(s)
  /\ UNCHANGED <<cluster, opened, paid, meters, ghosts>>

\* The owner's first deposit, in the wallet.
OpenAccount(o) ==
  /\ o \notin opened
  /\ opened' = opened \cup {o}
  /\ UNCHANGED <<cluster, paid, stage, meters, sum, total, ghosts>>

Settle(s) == BeginSettle(s) \/ Credit(s) \/ Clear(s) \/ EndSettle(s)

\* A node that goes offline takes what is pending with it.
Forfeit ==
  forfeited' = [id \in Id |->
    IF id \in Live \ DOMAIN replica' THEN replica[id].pending ELSE forfeited[id]]

DepinNext ==
  \/ ClusterStep /\ Forfeit /\ UNCHANGED <<settling, unheard, overlapped>>
  \/ \E s \in Settler : Settle(s)
  \/ \E o \in Owner : OpenAccount(o)

DepinSpec == SettleInit /\ [][DepinNext]_depin

\* The timer ticks for as long as the gateway runs, and its calls return.  A node's
\* credit that is tried again and again does not end in an error each time.
FairDepinSpec ==
  /\ DepinSpec /\ WF_depin(Settle(Timer))
  /\ \A id \in Id : SF_depin(CreditHeard(Timer, id))

(***************************************************************************)
(* Properties.                                                             *)
(***************************************************************************)
\* The type invariant of the settlement.
SettleTypeOK ==
  /\ ClusterTypeOK
  /\ opened \subseteq Owner
  /\ paid \in [Id -> Nat] /\ sum \in [Settler -> Nat] /\ total \in Nat
  /\ unheard \in [Id -> Nat] /\ forfeited \in [Id -> Nat] /\ overlapped \subseteq Id
  /\ stage \in [Settler -> {"idle", "credit", "clear"}]
  /\ DOMAIN meters = Settler
  /\ \A s \in Settler :
       /\ DOMAIN meters[s] \subseteq Id
       /\ \A id \in DOMAIN meters[s] : meters[s][id] \in [owner : Owner, units : Nat \ {0}]

\* Units s has credited for node id and not yet cleared.
Uncleared(s, id) ==
  IF stage[s] = "clear" /\ id \in Turn(s) THEN meters[s][id].units ELSE 0

Pending(id) == IF id \in Live THEN replica[id].pending ELSE forfeited[id]
Settled(id) == paid[id] + Pending(id)
Earned(id) ==
  metered[id] + unheard[id] + SumFunction([s \in Settler |-> Uncleared(s, id)])

\* ClearPending: what a node replicated is pending or paid, never both and never
\* neither, while entries arrive, nodes go and credits fail meanwhile.  Only a lost
\* reply pays it again, only a node's departure forfeits it; and where settlers
\* overlap a node is never paid less.
RewardConserved ==
  \A id \in Id :
    /\ id \notin overlapped => Settled(id) = Earned(id)
    /\ id \in Live => Settled(id) >= Earned(id)

\* ClearPending: a reward is never double-paid, not for a node that is gone either.
NeverDoublePaid == \A id \in Id : paid[id] <= metered[id]

\* What the dashboard reports as rewarded is what the wallet credited, except for
\* calls whose reply was lost, also when settlers overlap.
UnclearedBy(s) == SumFunction([id \in Id |-> Uncleared(s, id)])
TotalsArePaid ==
  SumFunction(paid) = total + Unheard + SumFunction(sum)
                      + SumFunction([s \in Settler |-> UnclearedBy(s)])

\* With the timer on, pending units of an owner with an account do not stay pending,
\* although single credits fail: a later pass tries again.
Owed(id) == id \in Live /\ replica[id].owner \in opened /\ replica[id].pending > 0
PendingIsSettled == \A id \in Id : []<>~Owed(id)
=============================================================================
