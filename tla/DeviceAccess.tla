------------------------------ MODULE DeviceAccess ------------------------------
(***************************************************************************)
(* Where the gateway relies on the registry of a user's phones: a signed   *)
(* payment and the handshake of a ledger WebSocket look the phone's key up *)
(* in the wallet and verify a signature, and act on the answer later.      *)
(***************************************************************************)
EXTENDS DeviceRegistry, Integers, SequencesExt

CONSTANTS
  Handler,   \* requests and connections the gateway serves at a time
  Payment,   \* signed payments phones send
  Auth       \* auth frames phones send

VARIABLES
  at,        \* at[h]: what h does next
  job,       \* job[h]: the payment or auth frame of h, or NoJob
  gone,      \* connections whose phone vanished without closing them
  seen       \* ghost: handlers whose key was active at some moment between the
             \* arrival of the payment or frame and its admission

gateway == <<at, job, gone>>
access == <<vars, gateway, seen>>

NoJob == [kind |-> "none"]
Connected == {h \in Handler : at[h] = "session"}

(***************************************************************************)
(* What is signed: the bill of a payment, or the nonce of the connection.  *)
(* A text is a sequence of words; a word that is not punctuation is a      *)
(* natural number, which a total or a quantity is written as.  Codes and   *)
(* skus are texts the caller chose and are not escaped.  The text begins   *)
(* with the user, who is the one whose registry this is.                   *)
(***************************************************************************)
Bar == 0 - 1
Comma == 0 - 2
Colon == 0 - 3
Minus == 0 - 4
Decimal(n) == IF n < 0 THEN <<Minus, 0 - n>> ELSE <<n>>

Total(items) == FoldLeft(LAMBDA sum, item : sum + item.price * item.quantity, 0, items)

Joined(text, item) ==
  (IF text = <<>> THEN text ELSE Append(text, Comma))
    \o Append(item.sku, Colon) \o Decimal(item.quantity)
ItemsText(items) == FoldLeft(Joined, <<>>, items)

\* canonicalCart names the code, the total, skus and quantities, but no prices; the
\* mutant forgets the total.
WithoutTotal(bill) == Append(bill.code, Bar) \o ItemsText(bill.items)
CanonicalCart(bill) ==
  Append(bill.code, Bar) \o Append(Decimal(Total(bill.items)), Bar) \o ItemsText(bill.items)

IsBill(bill) ==
  /\ bill.code \in Seq(Int) /\ ItemsText(bill.items) \in Seq(Int)
  /\ Total(bill.items) \in Int
ASSUME AccessAssumption ==
  /\ \A p \in Payment : p.kind = "pay" /\ IsBill(p.bill) /\ IsBill(p.signed)
  /\ \A f \in Auth : f.kind = "auth"

\* A signature is its signer and the text it is over.  A nonce is fresh, so a frame
\* signs this connection's nonce or an earlier one's.
Verifies(j) ==
  /\ j.signer = j.key
  /\ \/ j.kind = "pay" /\ CanonicalCart(j.signed) = CanonicalCart(j.bill)
     \/ j.kind = "auth" /\ j.signed = "this nonce"

AccessInit ==
  /\ Init
  /\ at = [h \in Handler |-> "idle"]
  /\ job = [h \in Handler |-> NoJob]
  /\ gone = {}
  /\ seen = {}

\* The registry as this step leaves it.
ActiveNow == {k \in Key : status'[k] = "active"}
Watch ==
  seen' = {h \in Handler :
    \/ at'[h] = "lookup" /\ job'[h].key \in ActiveNow
    \/ at'[h] \in {"lookup", "settle", "session"} /\ h \in seen}

Goes(h, stage, j) ==
  /\ at' = [at EXCEPT ![h] = stage]
  /\ job' = [job EXCEPT ![h] = j]
Ends(h) == Goes(h, "idle", NoJob) /\ gone' = gone \ {h}

(***************************************************************************)
(* The registry, as the gateway's endpoints and the wallet's RPCs reach it.*)
(***************************************************************************)
Served == UNCHANGED gateway /\ Watch

DeviceEnroll(k) == EnrollDevice(k) /\ Served
RecoveryRebind(s, k) == Begin(s, k) /\ Served
RebindStep(s) == (Step(s) \/ Fail(s) \/ AbortVictim(s)) /\ Served
\* An RPC of the wallet that no endpoint of the gateway calls.
RevokeDeviceRPC(k) == RevokeDevice(k) /\ Served

(***************************************************************************)
(* Handlers.                                                               *)
(***************************************************************************)
\* The wallet's ListDevices: active keys only; the mutant lists revoked ones too.
Enrolled == {k \in Key : status[k] # "absent"}
Listed == Active

PaySigned(h, p) ==
  /\ at[h] = "idle"
  /\ Goes(h, "lookup", p)
  /\ UNCHANGED <<vars, gone>> /\ Watch

\* ledgerWS accepts the connection and sends its challenge.
Accept(h) ==
  /\ at[h] = "idle"
  /\ Goes(h, "challenge", NoJob)
  /\ UNCHANGED <<vars, gone>> /\ Watch

AuthFrame(h, f) ==
  /\ at[h] = "challenge"
  /\ Goes(h, "lookup", f)
  /\ UNCHANGED <<vars, gone>> /\ Watch

\* Ten seconds without an auth frame, or the phone closes before it sends one; the
\* mutant has no timeout.
NoTimeout(h) == FALSE
TimedOut(h) == TRUE

HandshakeTimeout(h) ==
  /\ at[h] = "challenge" /\ TimedOut(h)
  /\ Ends(h)
  /\ UNCHANGED vars /\ Watch

\* deviceEnrolled, and the signature check that follows it.
Admitted(j) == j.key \in Listed /\ Verifies(j)

LookUp(h) ==
  /\ at[h] = "lookup"
  /\ \/ /\ Admitted(job[h])
        /\ Goes(h, IF job[h].kind = "pay" THEN "settle" ELSE "session", job[h])
        /\ UNCHANGED gone
     \/ ~Admitted(job[h]) /\ Ends(h)
  /\ UNCHANGED vars /\ Watch

\* A look-up that fails counts as not enrolled.
LookUpFails(h) ==
  /\ at[h] = "lookup"
  /\ Ends(h)
  /\ UNCHANGED vars /\ Watch

\* settle: the money path of PaymentFlow, with the total of the items as amount.
Settle(h) ==
  /\ at[h] = "settle"
  /\ Ends(h)
  /\ UNCHANGED vars /\ Watch

\* The phone loses its network; nobody tells the gateway.
Vanish(h) ==
  /\ h \in Connected /\ h \notin gone
  /\ gone' = gone \cup {h}
  /\ UNCHANGED <<vars, at, job>> /\ Watch

\* Both the reader and the writer end the connection: the phone closed it, or its
\* replica was killed.
Close(h) ==
  /\ h \in Connected
  /\ Ends(h)
  /\ UNCHANGED vars /\ Watch

\* The ticker's ping cannot be written to a phone that is gone; the mutant has no
\* ticker.
NoTicker(h) == FALSE
PingFails(h) == h \in gone

Ping(h) ==
  /\ at[h] = "session" /\ PingFails(h)
  /\ Ends(h)
  /\ UNCHANGED vars /\ Watch

AccessNext ==
  \/ \E k \in Key : DeviceEnroll(k) \/ RevokeDeviceRPC(k)
  \/ \E s \in Session, k \in Key : RecoveryRebind(s, k)
  \/ \E s \in Session : RebindStep(s)
  \/ \E h \in Handler, p \in Payment : PaySigned(h, p)
  \/ \E h \in Handler, f \in Auth : AuthFrame(h, f)
  \/ \E h \in Handler :
       \/ Accept(h) \/ HandshakeTimeout(h) \/ LookUp(h) \/ LookUpFails(h)
       \/ Settle(h) \/ Vanish(h) \/ Close(h) \/ Ping(h)

AccessSpec == AccessInit /\ [][AccessNext]_access

\* Timers fire, the wallet answers, and Postgres serves waiting transactions.
AccessFairness ==
  /\ \A s \in Session : SF_access(Step(s) /\ Served)
  /\ WF_access(\E s \in Session : AbortVictim(s) /\ Served)
  /\ \A h \in Handler : WF_access(HandshakeTimeout(h) \/ LookUp(h) \/ Ping(h))
FairAccessSpec == AccessSpec /\ AccessFairness

(***************************************************************************)
(* Properties.                                                             *)
(***************************************************************************)
\* The type invariant; sessions of the wallet keep theirs.
AccessTypeOK ==
  /\ TypeOK
  /\ at \in [Handler -> {"idle", "challenge", "lookup", "settle", "session"}]
  /\ \A h \in Handler : CASE at[h] = "settle" -> job[h] \in Payment
                          [] at[h] = "session" -> job[h] \in Auth
                          [] at[h] = "lookup" -> job[h] \in Payment \cup Auth
                          [] OTHER -> job[h] = NoJob
  /\ gone \subseteq Connected
  /\ seen \subseteq Handler

\* paySigned, wsHandshake: the answer of the look-up may be stale when money moves or
\* a session opens, but it is never older than the request, whatever enrolments,
\* revocations and recoveries run meanwhile: what arrives after the key's revocation
\* took effect is refused.
KeyWasActive == \A h \in Handler : at[h] \in {"settle", "session"} => h \in seen

\* canonicalCart: if the code and the skus of the bill a phone signed contain no "|",
\* its signature authorizes no other code and no other amount, whatever bill comes with
\* it and although the text names no prices.  A session's phone signed the nonce of this
\* connection.
Unambiguous(bill) == \A text \in {bill.code, ItemsText(bill.items)} : Bar \notin ToSet(text)
DebitsWhatWasSigned ==
  \A h \in Handler :
    /\ at[h] \in {"settle", "session"} => job[h].signer = job[h].key
    /\ at[h] = "settle" /\ Unambiguous(job[h].signed) =>
         /\ job[h].bill.code = job[h].signed.code
         /\ Total(job[h].bill.items) = Total(job[h].signed.items)
    /\ at[h] = "session" => job[h].signed = "this nonce"

\* RebindDevices is one transaction: no recovery, whichever statement it fails at and
\* however many run at once, leaves a user without an active key; only revoking the
\* last one does.
NeverLockedOut == [][ActiveNow = {} /\ Active # {} => \E k \in Key : RevokeDevice(k)]_vars

\* ledgerWS: a handshake ends, whatever the phone does, and a session whose phone
\* vanished is closed, so its node does not stay registered.
ConnectionsEnd ==
  \A h \in Handler : []<>(at[h] \notin {"challenge", "lookup"} /\ h \notin gone)
=============================================================================
