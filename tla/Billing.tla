------------------------------ MODULE Billing ------------------------------
(***************************************************************************)
(* The paid plan of one organization: app/api/routes/billing.py with the   *)
(* Cashfree calls of app/services/billing_gateway.py.  An order is paid at *)
(* the provider; the server learns it from verify_order, which the browser *)
(* calls on its return, and from webhooks, which the provider repeats and  *)
(* an operator may replay.  Both end in _activate_paid_order, which takes  *)
(* no lock: it tests the order and extends the account on what it read.    *)
(***************************************************************************)
EXTENDS Integers, FiniteSets

CONSTANTS
    Workers,   \* threads that serve billing requests of this organization
    Orders,    \* ids of billing orders
    Free,      \* the plan of an account that never paid
    Period,    \* the days an order pays for (30)
    MaxTime    \* bound: days that pass

ASSUME BillingAssumption ==
    /\ Free \notin Orders
    /\ Period \in Nat \ {0}
    /\ MaxTime \in Nat

VARIABLES
    now,       \* the day
    status,    \* status of each billing_orders row; "none": no row
    opened,    \* orders whose payment_session_id is stored and handed out
    account,   \* the organization_billing_accounts row
    events,    \* committed billing_webhook_events rows, by event_key
    provider,  \* the provider's state of each order (external)
    sent,      \* webhooks the provider may deliver, any number of times
    req,       \* what each worker is doing
    extended   \* history: how often an order extended the period

vars == <<now, status, opened, account, events, provider, sent, req, extended>>

-----------------------------------------------------------------------------
OrderStatus == {"none", "creating", "created", "active", "failed", "paid"}

\* plan: the order whose plan_code the account has.
Account == [plan : Orders \union {Free}, end : Nat]

\* "REFUND" stands for every webhook whose order carries no matching amount.
Kinds == {"PAID", "FAILED", "REFUND"}

\* x_idempotency_key: one per payment event of an order.
Webhook == [order : Orders, kind : Kinds]

Ops == {"idle", "checkout", "verify", "webhook"}

\* seen: the status the handler loaded; said: what the provider said of the
\* order; acc, at: the account it loaded and when.
Request == [op : Ops, order : Orders \union {Free}, seen : OrderStatus,
            said : Kinds \union {"", "ACTIVE", "ERROR"}, acc : Account,
            at : Nat, loaded : BOOLEAN]

Idle == [op |-> "idle", order |-> Free, seen |-> "none", said |-> "",
         acc |-> [plan |-> Free, end |-> 0], at |-> 0, loaded |-> FALSE]

Begin(w, op, o, said) ==
    /\ req[w].op = "idle"
    /\ req' = [req EXCEPT ![w] =
                 [Idle EXCEPT !.op = op, !.order = o, !.seen = status[o], !.said = said]]

Finish(w) == req' = [req EXCEPT ![w] = Idle]

Written(c, old, new) == IF new = old THEN c ELSE new

\* The billing page has created the account.
Init ==
    /\ now = 0
    /\ status = [o \in Orders |-> "none"]
    /\ opened = {}
    /\ account = [plan |-> Free, end |-> 0]
    /\ events = {}
    /\ provider = [o \in Orders |-> "none"]
    /\ sent = {}
    /\ req = [w \in Workers |-> Idle]
    /\ extended = [o \in Orders |-> 0]

-----------------------------------------------------------------------------
(* create_checkout *)

CheckoutInsert(w, o) ==
    /\ status[o] = "none"
    /\ req[w].op = "idle"
    /\ status' = [status EXCEPT ![o] = "creating"]
    /\ req' = [req EXCEPT ![w] =
                 [Idle EXCEPT !.op = "checkout", !.order = o, !.seen = "creating"]]
    /\ UNCHANGED <<now, opened, account, events, provider, sent, extended>>

\* create_cashfree_order: the order is made or not, the answer comes or not.
CheckoutCall(w) ==
    /\ req[w].op = "checkout" /\ req[w].said = ""
    /\ \E made, answered \in BOOLEAN :
         /\ provider' = [provider EXCEPT ![req[w].order] = IF made THEN "ACTIVE" ELSE @]
         /\ req' = [req EXCEPT ![w].said = IF made /\ answered THEN "ACTIVE" ELSE "ERROR"]
    /\ UNCHANGED <<now, status, opened, account, events, sent, extended>>

CheckoutCommit(w) ==
    LET o == req[w].order  made == req[w].said = "ACTIVE" IN
    /\ req[w].op = "checkout" /\ req[w].said # ""
    /\ status' = [status EXCEPT ![o] = IF made THEN "created" ELSE "failed"]
    /\ opened' = IF made THEN opened \union {o} ELSE opened
    /\ Finish(w)
    /\ UNCHANGED <<now, account, events, provider, sent, extended>>

-----------------------------------------------------------------------------
(* verify_order *)

VerifyRead(w, o) ==
    /\ status[o] \notin {"none", "paid"}
    /\ Begin(w, "verify", o, "")
    /\ UNCHANGED <<now, status, opened, account, events, provider, sent, extended>>

\* fetch_cashfree_order, and the account if the answer is PAID.  A call that
\* fails ends the request (Crash).
VerifyFetch(w) ==
    /\ req[w].op = "verify" /\ ~req[w].loaded
    /\ provider[req[w].order] # "none"
    /\ req' = [req EXCEPT ![w].said = provider[req[w].order], ![w].acc = account,
                          ![w].at = now, ![w].loaded = TRUE]
    /\ UNCHANGED <<now, status, opened, account, events, provider, sent, extended>>

-----------------------------------------------------------------------------
(* cashfree_webhook *)

\* Mutant of WebhookInsert: the event is committed before it is processed.
WebhookInsertCommits(w, m) ==
    /\ m \in sent
    /\ m \notin events
    /\ Begin(w, "webhook", m.order, m.kind)
    /\ events' = events \union {m}
    /\ UNCHANGED <<now, status, opened, account, provider, sent, extended>>

\* The event row is flushed, then the order is read.  A key that another open
\* transaction has inserted makes the flush wait; a committed one is answered
\* "accepted" without an effect.
WebhookInsert(w, m) ==
    /\ m \in sent
    /\ m \notin events
    /\ \A v \in Workers : ~(req[v].op = "webhook" /\ req[v].order = m.order
                              /\ req[v].said = m.kind)
    /\ Begin(w, "webhook", m.order, m.kind)
    /\ UNCHANGED <<now, status, opened, account, events, provider, sent, extended>>

WebhookLoad(w) ==
    /\ req[w].op = "webhook" /\ ~req[w].loaded
    /\ req' = [req EXCEPT ![w].acc = account, ![w].at = now, ![w].loaded = TRUE]
    /\ UNCHANGED <<now, status, opened, account, events, provider, sent, extended>>

-----------------------------------------------------------------------------
(* _activate_paid_order and the commit of its two callers *)

\* Mutant of PeriodStart: the rest of the current period is lost.
PeriodStartNow(r) == r.at

PeriodStart(r) == IF r.acc.end > r.at THEN r.acc.end ELSE r.at

\* Mutant of Activates: an open order counts as a paid one.
ActivatesOpen(r) == r.seen # "paid" /\ r.said \in {"PAID", "ACTIVE"}

Activates(r) == r.seen # "paid" /\ r.said = "PAID"

\* Mutant of NewStatus: the provider's word is stored as it is.
NewStatusRaw(r) == IF r.said = "PAID" THEN "paid" ELSE r.said

\* A word of the provider that is not PAID becomes the order's status.
NewStatus(r) ==
    IF r.seen = "paid" \/ r.said = "REFUND" THEN r.seen
    ELSE CASE r.said = "PAID" -> "paid"
           [] r.said = "FAILED" -> "failed"
           [] OTHER -> "active"

ActivateCommit(w) ==
    LET r == req[w]  o == req[w].order IN
    /\ r.op \in {"verify", "webhook"} /\ r.loaded
    /\ status' = [status EXCEPT ![o] = Written(@, r.seen, NewStatus(r))]
    /\ account' = IF ~Activates(r) THEN account
                  ELSE [plan |-> Written(account.plan, r.acc.plan, o),
                        end |-> PeriodStart(r) + Period]
    /\ extended' = [extended EXCEPT ![o] = IF Activates(r) THEN @ + 1 ELSE @]
    /\ events' = IF r.op = "webhook"
                 THEN events \union {[order |-> o, kind |-> r.said]} ELSE events
    /\ Finish(w)
    /\ UNCHANGED <<now, opened, provider, sent>>

-----------------------------------------------------------------------------
(* The environment. *)

\* The worker dies, a call to the provider fails, or the commit does.
Crash(w) ==
    /\ req[w].op # "idle"
    /\ Finish(w)
    /\ UNCHANGED <<now, status, opened, account, events, provider, sent, extended>>

Pay(o) ==
    /\ o \in opened
    /\ provider[o] = "ACTIVE"
    /\ provider' = [provider EXCEPT ![o] = "PAID"]
    /\ sent' = sent \union {[order |-> o, kind |-> "PAID"]}
    /\ UNCHANGED <<now, status, opened, account, events, req, extended>>

\* A payment attempt fails and the order stays open, or money is refunded.
Report(o) ==
    /\ o \in opened
    /\ \E k \in {"FAILED", "REFUND"} :
         /\ provider[o] = (IF k = "FAILED" THEN "ACTIVE" ELSE "PAID")
         /\ sent' = sent \union {[order |-> o, kind |-> k]}
    /\ UNCHANGED <<now, status, opened, account, events, provider, req, extended>>

Tick ==
    /\ now < MaxTime
    /\ now' = now + 1
    /\ UNCHANGED <<status, opened, account, events, provider, sent, req, extended>>

Handler(w) ==
    \/ \E o \in Orders : CheckoutInsert(w, o) \/ VerifyRead(w, o)
    \/ CheckoutCall(w) \/ CheckoutCommit(w)
    \/ VerifyFetch(w)
    \/ \E m \in sent : WebhookInsert(w, m)
    \/ WebhookLoad(w)
    \/ ActivateCommit(w)

Next ==
    \/ \E w \in Workers : Handler(w) \/ Crash(w)
    \/ \E o \in Orders : Pay(o) \/ Report(o)
    \/ Tick

Spec == Init /\ [][Next]_vars

\* A request ends, by its commit or by a failure.  The provider delivers a
\* webhook again until it is answered, and not every delivery meets a failure.
Fairness ==
    /\ \A w \in Workers : WF_vars(req[w].op # "idle" /\ (Handler(w) \/ Crash(w)))
    /\ \A o \in Orders :
        /\ SF_vars(\E w \in Workers : WebhookInsert(w, [order |-> o, kind |-> "PAID"]))
        /\ SF_vars(\E w \in Workers :
             req[w].order = o /\ req[w].said = "PAID" /\ WebhookLoad(w))
        /\ SF_vars(\E w \in Workers :
             req[w].order = o /\ req[w].said = "PAID" /\ ActivateCommit(w))

FairSpec == Spec /\ Fairness

-----------------------------------------------------------------------------
(* Properties. *)

TypeOK ==
    /\ now \in 0..MaxTime
    /\ status \in [Orders -> OrderStatus]
    /\ opened \subseteq Orders
    /\ account \in Account
    /\ events \subseteq Webhook
    /\ provider \in [Orders -> {"none", "ACTIVE", "PAID"}]
    /\ sent \subseteq Webhook
    /\ req \in [Workers -> Request]
    /\ extended \in [Orders -> Nat]

\* docs/billing-cashfree-launch.md:76 "Only a signed or server-fetched paid
\* state activates a plan": no lost call, failed payment or checkout that went
\* wrong shows an order as paid, extends the period or changes the plan.
ActivatedOnlyByPayment ==
    /\ \A o \in Orders :
          status[o] = "paid" \/ extended[o] > 0 => provider[o] = "PAID"
    /\ account.plan # Free => provider[account.plan] = "PAID"

\* An event that is recorded has had its effect: a webhook that was answered
\* "accepted" is not needed again.
RecordedIsActivated ==
    \A m \in events : m.kind = "PAID" => extended[m.order] > 0

\* An order that was paid is activated in the end, whatever handlers die.
PaidIsActivated ==
    \A o \in Orders : provider[o] = "PAID" ~> extended[o] > 0

\* docs/billing-cashfree-launch.md:64 "replay the webhook from Cashfree; the
\* billing period must not extend a second time".
ExtendedOnce == \A o \in Orders : extended[o] <= 1

\* docs/billing-cashfree-launch.md:62 "the order shows paid": an order that
\* extended the period is shown as paid, so its receipt is available.
ActivatedShowsPaid == \A o \in Orders : extended[o] > 0 => status[o] = "paid"

\* docs/billing-cashfree-launch.md:79 "monthly payments": every paid order adds a
\* period to the account.
EveryOrderCounts ==
    account.end >= Period * Cardinality({o \in Orders : extended[o] > 0})

\* Only payments have an effect, and a payment that is recorded has had it.
PaymentsCount == ActivatedOnlyByPayment /\ RecordedIsActivated

\* Each payment adds one period, no more and no less, and is shown.
PeriodsAdd == ExtendedOnce /\ ActivatedShowsPaid /\ EveryOrderCounts
=============================================================================
