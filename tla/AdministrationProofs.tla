------------------------ MODULE AdministrationProofs ------------------------
(***************************************************************************)
(* The proofs about what administrators and providers do to the rows of    *)
(* others, one part after the other: billing, the settings of an           *)
(* organization, the erasure of candidates' data, the accounts, the videos *)
(* and recordings, and the courses.  Nothing bounds the workers, orders,   *)
(* domains, issues, clients, pieces or desks.                              *)
(*                                                                         *)
(* Billing: only a payment at the provider activates an order, and a       *)
(* recorded payment event has activated its order.  Orders that are being  *)
(* created are followed from their row, which one worker inserts, to the   *)
(* payment, which needs the session that this worker stores; what a        *)
(* handler carries about an order stays true because a payment is never    *)
(* taken back.  And when no two requests that may activate overlap, each   *)
(* order adds one period to the account.                                   *)
(*                                                                         *)
(* Each other part has an invariant of its own, <Part>Inv, that says what  *)
(* a request between its read and its commit still knows of the rows; the  *)
(* last section joins them for the specification of MCAdministration,      *)
(* where a behaviour is about one of the parts.                            *)
(***************************************************************************)
EXTENDS Billing, MCAdministration, FiniteSetTheorems, TLAPS

Paid(o) == provider[o] = "PAID"

\* One worker makes an order's checkout, and nobody pays before it is stored.
CheckoutInv ==
    /\ \A o \in Orders : status[o] = "none" => o \notin opened
    /\ \A o \in Orders : Paid(o) => o \in opened
    /\ \A w \in Workers : req[w].op = "checkout" =>
          /\ req[w].order \in Orders \ opened
          /\ status[req[w].order] # "none"
          /\ req[w].said \in {"", "ACTIVE", "ERROR"}
    /\ \A v, w \in Workers :
          (req[v].op = "checkout" /\ req[w].op = "checkout"
             /\ req[v].order = req[w].order) => v = w

\* What a handler that may activate carries about its order.
CarriedInv ==
    \A w \in Workers : req[w].op \in {"verify", "webhook"} =>
        /\ req[w].order \in Orders
        /\ req[w].seen # "none"
        /\ req[w].seen = "paid" => extended[req[w].order] > 0
        /\ req[w].said = "PAID" => Paid(req[w].order)
        /\ req[w].op = "webhook" => req[w].said \in Kinds

SentInv ==
    \A m \in sent : m.order \in opened /\ (m.kind = "PAID" => Paid(m.order))

EffectInv ==
    /\ \A o \in Orders : status[o] = "paid" => extended[o] > 0
    /\ \A o \in Orders : extended[o] > 0 => Paid(o)
    /\ account.plan # Free => Paid(account.plan)
    /\ RecordedIsActivated

IInv == TypeOK /\ CheckoutInv /\ CarriedInv /\ SentInv /\ EffectInv
-----------------------------------------------------------------------------
LEMMA IdleRequest == Idle \in Request
  BY DEF Idle, Request, Ops, OrderStatus, Kinds, Account

LEMMA InitIInv == Init => IInv
<1> SUFFICES ASSUME Init PROVE IInv
  OBVIOUS
<1> USE DEF Init
<1>1. TypeOK
  BY IdleRequest, BillingAssumption DEF TypeOK, OrderStatus, Account
<1>2. CheckoutInv /\ CarriedInv
  BY DEF CheckoutInv, CarriedInv, Paid, Idle
<1>3. SentInv /\ EffectInv
  BY DEF SentInv, EffectInv, RecordedIsActivated
<1> QED BY <1>1, <1>2, <1>3 DEF IInv

\* Which checkouts are under way changes only with a checkout's own steps.
LEMMA CheckoutKept ==
  ASSUME CheckoutInv, NEW w \in Workers,
         \A v \in Workers : v # w => req'[v] = req[v],
         \/ req'[w].op # "checkout"
         \/ /\ req[w].op = "checkout"
            /\ req'[w].order = req[w].order
            /\ req'[w].said \in {"", "ACTIVE", "ERROR"},
         opened' = opened,
         \A o \in Orders : status'[o] = "none" => status[o] = "none",
         \A o \in Orders : Paid(o)' => Paid(o)
  PROVE  CheckoutInv'
<1>1. \A v \in Workers : req'[v].op = "checkout" =>
         /\ req[v].op = "checkout" /\ req'[v].order = req[v].order
         /\ req'[v].said \in {"", "ACTIVE", "ERROR"}
  BY DEF CheckoutInv
<1>2. ASSUME NEW u \in Workers, NEW v \in Workers,
             req'[u].op = "checkout", req'[v].op = "checkout",
             req'[u].order = req'[v].order
      PROVE  u = v
  <2>1. /\ req[u].op = "checkout" /\ req[v].op = "checkout"
        /\ req[u].order = req[v].order
    BY <1>1, <1>2
  <2> QED BY <2>1 DEF CheckoutInv
<1>3. ASSUME NEW v \in Workers, req'[v].op = "checkout"
      PROVE  req'[v].order \in Orders \ opened /\ status'[req'[v].order] # "none"
  <2>1. /\ req[v].op = "checkout" /\ req'[v].order = req[v].order
    BY <1>1, <1>3
  <2>2. req[v].order \in Orders \ opened /\ status[req[v].order] # "none"
    BY <2>1 DEF CheckoutInv
  <2> QED BY <2>1, <2>2
<1>4. \A o \in Orders : (status'[o] = "none" => o \notin opened)
                        /\ (Paid(o)' => o \in opened)
  BY DEF CheckoutInv
<1> QED BY <1>1, <1>2, <1>3, <1>4 DEF CheckoutInv

\* What the other handlers carry stays true: payments and effects stay.
LEMMA CarriedKept ==
  ASSUME CarriedInv, NEW w \in Workers,
         \A v \in Workers : v # w => req'[v] = req[v],
         req'[w].op \in {"verify", "webhook"} =>
            /\ req'[w].order \in Orders
            /\ req'[w].seen # "none"
            /\ req'[w].seen = "paid" => extended'[req'[w].order] > 0
            /\ req'[w].said = "PAID" => provider'[req'[w].order] = "PAID"
            /\ req'[w].op = "webhook" => req'[w].said \in Kinds,
         \A o \in Orders : extended[o] > 0 => extended'[o] > 0,
         \A o \in Orders : provider[o] = "PAID" => provider'[o] = "PAID"
  PROVE  CarriedInv'
<1> SUFFICES ASSUME NEW v \in Workers, req'[v].op \in {"verify", "webhook"}
             PROVE  /\ req'[v].order \in Orders
                    /\ req'[v].seen # "none"
                    /\ req'[v].seen = "paid" => extended'[req'[v].order] > 0
                    /\ req'[v].said = "PAID" => provider'[req'[v].order] = "PAID"
                    /\ req'[v].op = "webhook" => req'[v].said \in Kinds
  BY DEF CarriedInv, Paid
<1>1. CASE v = w
  BY <1>1
<1>2. CASE v # w
  <2>1. req'[v] = req[v]
    BY <1>2
  <2>2. /\ req[v].order \in Orders /\ req[v].seen # "none"
        /\ req[v].seen = "paid" => extended[req[v].order] > 0
        /\ req[v].said = "PAID" => provider[req[v].order] = "PAID"
        /\ req[v].op = "webhook" => req[v].said \in Kinds
    BY <2>1 DEF CarriedInv, Paid
  <2> QED BY <2>1, <2>2
<1> QED BY <1>1, <1>2

LEMMA CheckoutInsertKeeps ==
  ASSUME IInv, NEW w \in Workers, NEW o \in Orders, CheckoutInsert(w, o)
  PROVE  IInv'
<1> USE DEF CheckoutInsert, IInv
<1>1. TypeOK'
  BY IdleRequest DEF TypeOK, Request, Idle, Ops, OrderStatus, Kinds, Account
<1>a. /\ req'[w].op = "checkout" /\ req'[w].order = o /\ req'[w].said = ""
      /\ \A v \in Workers : v # w => req'[v] = req[v]
      /\ \A q \in Orders : status'[q] = IF q = o THEN "creating" ELSE status[q]
  BY DEF TypeOK, Idle
<1>b. /\ status[o] = "none" /\ opened' = opened /\ extended' = extended
      /\ \A q \in Orders : Paid(q)' <=> Paid(q)
      /\ CheckoutInv /\ CarriedInv
  BY DEF Paid
<1>2. CheckoutInv'
  <2> HIDE DEF CheckoutInsert, IInv
  <2>1. \A q \in Orders : (status'[q] = "none" => q \notin opened)
                        /\ (Paid(q)' => q \in opened)
    BY <1>a, <1>b DEF CheckoutInv
  <2>2. ASSUME NEW v \in Workers, v # w, req'[v].op = "checkout"
        PROVE  /\ req'[v] = req[v] /\ req'[v].order # o
               /\ req'[v].order \in Orders \ opened
               /\ status'[req'[v].order] # "none"
               /\ req'[v].said \in {"", "ACTIVE", "ERROR"}
    <3>1. req'[v] = req[v]
      BY <2>2, <1>a
    <3>2. /\ req[v].order \in Orders \ opened /\ status[req[v].order] # "none"
          /\ req[v].said \in {"", "ACTIVE", "ERROR"}
      BY <2>2, <3>1, <1>b DEF CheckoutInv
    <3>3. status[o] = "none" /\ status'[req[v].order] # "none"
      BY <3>2, <1>a, <1>b
    <3> QED BY <3>1, <3>2, <3>3
  <2>3. o \notin opened /\ status'[o] # "none"
    BY <1>a, <1>b DEF CheckoutInv
  <2>4. ASSUME NEW u \in Workers, NEW v \in Workers,
               req'[u].op = "checkout", req'[v].op = "checkout",
               req'[u].order = req'[v].order
        PROVE  u = v
    <3>1. CASE u = w \/ v = w
      BY <3>1, <2>2, <2>4, <1>a
    <3>2. CASE u # w /\ v # w
      <4>1. req'[u] = req[u] /\ req'[v] = req[v]
        BY <3>2, <1>a
      <4> QED BY <4>1, <2>4, <1>b DEF CheckoutInv
    <3> QED BY <3>1, <3>2
  <2>5. \A v \in Workers : req'[v].op = "checkout" =>
           /\ req'[v].order \in Orders \ opened'
           /\ status'[req'[v].order] # "none"
           /\ req'[v].said \in {"", "ACTIVE", "ERROR"}
    BY <2>2, <2>3, <1>a, <1>b
  <2> QED BY <2>1, <2>4, <2>5, <1>b DEF CheckoutInv
<1>3. CarriedInv'
  <2> HIDE DEF CheckoutInsert, IInv
  <2> QED BY <1>a, <1>b, CarriedKept DEF Paid
<1>4. SentInv' /\ EffectInv'
  BY DEF TypeOK, SentInv, EffectInv, Paid, RecordedIsActivated, Account
<1> QED BY <1>1, <1>2, <1>3, <1>4

LEMMA CheckoutCallKeeps ==
  ASSUME IInv, NEW w \in Workers, CheckoutCall(w)
  PROVE  IInv'
<1> USE DEF CheckoutCall, IInv
<1>1. ~Paid(req[w].order) /\ req[w].order \in Orders
  BY DEF CheckoutInv
<1>2. \A o \in Orders : Paid(o)' <=> Paid(o)
  BY <1>1 DEF TypeOK, Paid
<1>3. TypeOK'
  <2>1. PICK said \in {"ACTIVE", "ERROR"} :
          req' = [req EXCEPT ![w].said = said]
    BY Zenon
  <2>2. [req[w] EXCEPT !.said = said] \in Request
    <3>1. req[w] \in Request
      BY DEF TypeOK
    <3> HIDE DEF CheckoutCall, IInv
    <3> QED BY <3>1, <2>1 DEF Request
  <2>3. req' \in [Workers -> Request]
    BY <2>1, <2>2 DEF TypeOK
  <2> QED BY <2>3 DEF TypeOK
<1>a. /\ req'[w].op = "checkout" /\ req'[w].order = req[w].order
      /\ req'[w].said \in {"ACTIVE", "ERROR"}
      /\ \A v \in Workers : v # w => req'[v] = req[v]
  <2>1. PICK said \in {"ACTIVE", "ERROR"} :
          req' = [req EXCEPT ![w].said = said]
    BY Zenon
  <2>2. req[w] \in Request /\ req[w].op = "checkout" /\ req \in [Workers -> Request]
    BY DEF TypeOK
  <2> HIDE DEF CheckoutCall, IInv
  <2> QED BY <2>1, <2>2 DEF Request
<1>b. /\ req[w].op = "checkout" /\ opened' = opened /\ extended' = extended
      /\ status' = status /\ CheckoutInv /\ CarriedInv
  OBVIOUS
<1>4. CheckoutInv' /\ CarriedInv'
  <2> HIDE DEF CheckoutCall, IInv
  <2>1. CheckoutInv'
    BY <1>2, <1>a, <1>b, CheckoutKept
  <2>2. CarriedInv'
    BY <1>2, <1>a, <1>b, CarriedKept DEF Paid
  <2> QED BY <2>1, <2>2
<1>5. SentInv' /\ EffectInv'
  BY <1>2 DEF TypeOK, SentInv, EffectInv, RecordedIsActivated, Account, Webhook
<1> QED BY <1>3, <1>4, <1>5

LEMMA CheckoutCommitKeeps ==
  ASSUME IInv, NEW w \in Workers, CheckoutCommit(w)
  PROVE  IInv'
<1> USE DEF CheckoutCommit, Finish, IInv
<1>1. TypeOK'
  BY IdleRequest DEF TypeOK, OrderStatus, CheckoutInv
<1>2. CheckoutInv'
  BY DEF TypeOK, CheckoutInv, Paid, Idle, OrderStatus
<1>3. CarriedInv'
  BY DEF TypeOK, CarriedInv, Paid, Idle
<1>4. SentInv' /\ EffectInv'
  BY DEF TypeOK, CheckoutInv, SentInv, EffectInv, Paid, RecordedIsActivated
<1> QED BY <1>1, <1>2, <1>3, <1>4

LEMMA VerifyReadKeeps ==
  ASSUME IInv, NEW w \in Workers, NEW o \in Orders, VerifyRead(w, o)
  PROVE  IInv'
<1> USE DEF VerifyRead, Begin, IInv
<1>1. TypeOK'
  BY IdleRequest DEF TypeOK, Request, Idle, Ops
<1>2. CheckoutInv'
  BY DEF TypeOK, CheckoutInv, Paid, Idle
<1>3. CarriedInv'
  BY DEF TypeOK, CarriedInv, Paid, Idle
<1>4. SentInv' /\ EffectInv'
  BY DEF SentInv, EffectInv, Paid, RecordedIsActivated
<1> QED BY <1>1, <1>2, <1>3, <1>4

LEMMA VerifyFetchKeeps ==
  ASSUME IInv, NEW w \in Workers, VerifyFetch(w)
  PROVE  IInv'
<1> USE DEF VerifyFetch, IInv
<1>a. /\ req[w].order \in Orders /\ provider[req[w].order] \in {"ACTIVE", "PAID"}
      /\ req[w] \in Request /\ account \in Account /\ now \in Nat
  BY BillingAssumption DEF TypeOK, CarriedInv
<1>b. [req[w] EXCEPT !.said = provider[req[w].order], !.acc = account, !.at = now,
                     !.loaded = TRUE] \in Request
  BY <1>a DEF Request, Kinds
<1>1. TypeOK'
  BY <1>b DEF TypeOK
<1>c. /\ req'[w].op = "verify" /\ req'[w].order = req[w].order
      /\ req'[w].seen = req[w].seen /\ req'[w].said = provider[req[w].order]
      /\ \A v \in Workers : v # w => req'[v] = req[v]
  BY <1>a DEF TypeOK, Request
<1>d. /\ req[w].op = "verify" /\ opened' = opened /\ extended' = extended
      /\ status' = status /\ CheckoutInv /\ CarriedInv
      /\ \A o \in Orders : Paid(o)' <=> Paid(o)
  BY DEF Paid
<1>2. CheckoutInv' /\ CarriedInv'
  <2> HIDE DEF VerifyFetch, IInv
  <2>1. CheckoutInv'
    BY <1>c, <1>d, CheckoutKept
  <2>2. /\ req[w].order \in Orders /\ req[w].seen # "none"
        /\ req[w].seen = "paid" => extended[req[w].order] > 0
        /\ req[w].said = "PAID" => Paid(req[w].order)
        /\ req[w].op = "webhook" => req[w].said \in Kinds
    BY <1>d DEF CarriedInv
  <2>3. CarriedInv'
    BY <2>2, <1>c, <1>d, CarriedKept DEF Paid
  <2> QED BY <2>1, <2>3
<1>3. SentInv' /\ EffectInv'
  BY DEF SentInv, EffectInv, Paid, RecordedIsActivated
<1> QED BY <1>1, <1>2, <1>3

LEMMA WebhookInsertKeeps ==
  ASSUME IInv, NEW w \in Workers, NEW m \in sent, WebhookInsert(w, m)
  PROVE  IInv'
<1> USE DEF WebhookInsert, Begin, IInv
<1>1. m.order \in Orders /\ m.kind \in Kinds
  BY DEF TypeOK, Webhook
<1>2. TypeOK'
  BY <1>1, IdleRequest DEF TypeOK, Request, Idle, Ops
<1>3. CheckoutInv'
  BY <1>1 DEF TypeOK, CheckoutInv, Paid, Idle
<1>4. CarriedInv'
  BY <1>1 DEF TypeOK, CarriedInv, CheckoutInv, SentInv, EffectInv, Paid, Idle
<1>5. SentInv' /\ EffectInv'
  BY DEF SentInv, EffectInv, Paid, RecordedIsActivated
<1> QED BY <1>2, <1>3, <1>4, <1>5

LEMMA WebhookLoadKeeps ==
  ASSUME IInv, NEW w \in Workers, WebhookLoad(w)
  PROVE  IInv'
<1> USE DEF WebhookLoad, IInv
<1>a. req[w] \in Request /\ account \in Account /\ now \in Nat
  BY BillingAssumption DEF TypeOK
<1>b. [req[w] EXCEPT !.acc = account, !.at = now, !.loaded = TRUE] \in Request
  BY <1>a DEF Request
<1>1. TypeOK'
  BY <1>b DEF TypeOK
<1>c. /\ req'[w].op = "webhook" /\ req'[w].order = req[w].order
      /\ req'[w].seen = req[w].seen /\ req'[w].said = req[w].said
      /\ \A v \in Workers : v # w => req'[v] = req[v]
  BY <1>a DEF TypeOK, Request
<1>d. /\ req[w].op = "webhook" /\ opened' = opened /\ extended' = extended
      /\ status' = status /\ CheckoutInv /\ CarriedInv
      /\ \A o \in Orders : Paid(o)' <=> Paid(o)
  BY DEF Paid
<1>2. CheckoutInv' /\ CarriedInv'
  <2> HIDE DEF WebhookLoad, IInv
  <2>1. CheckoutInv'
    BY <1>c, <1>d, CheckoutKept
  <2>2. /\ req[w].order \in Orders /\ req[w].seen # "none"
        /\ req[w].seen = "paid" => extended[req[w].order] > 0
        /\ req[w].said = "PAID" => Paid(req[w].order)
        /\ req[w].op = "webhook" => req[w].said \in Kinds
    BY <1>d DEF CarriedInv
  <2>3. CarriedInv'
    BY <2>2, <1>c, <1>d, CarriedKept DEF Paid
  <2> QED BY <2>1, <2>3
<1>3. SentInv' /\ EffectInv'
  BY DEF SentInv, EffectInv, Paid, RecordedIsActivated
<1> QED BY <1>1, <1>2, <1>3

LEMMA ActivateCommitKeeps ==
  ASSUME IInv, NEW w \in Workers, ActivateCommit(w)
  PROVE  IInv'
<1> DEFINE r == req[w]  o == req[w].order
<1> USE DEF IInv
<1>1. /\ o \in Orders /\ r \in Request /\ r.seen \in OrderStatus
      /\ r.seen # "none" /\ r.op \in {"verify", "webhook"}
      /\ r.seen = "paid" => extended[o] > 0
      /\ r.said = "PAID" => Paid(o)
      /\ r.op = "webhook" => r.said \in Kinds
  BY DEF ActivateCommit, CarriedInv, TypeOK, Request
<1>2. NewStatus(r) \in OrderStatus \ {"none"}
  BY <1>1 DEF NewStatus, OrderStatus
<1>3. NewStatus(r) = "paid" => Activates(r) \/ r.seen = "paid"
  BY <1>1 DEF NewStatus, Activates
<1>4. /\ extended' = [extended EXCEPT ![o] = IF Activates(r) THEN @ + 1 ELSE @]
      /\ status' = [status EXCEPT ![o] = Written(@, r.seen, NewStatus(r))]
      /\ req' = [req EXCEPT ![w] = Idle]
      /\ UNCHANGED <<now, opened, provider, sent>>
  BY DEF ActivateCommit, Finish
<1>5. /\ \A q \in Orders : extended[q] > 0 => extended'[q] > 0
      /\ Activates(r) => extended'[o] > 0 /\ Paid(o)
      /\ \A q \in Orders : extended'[q] > 0 => Paid(q)
  BY <1>1, <1>4 DEF TypeOK, EffectInv, Activates
<1>6. /\ status' \in [Orders -> OrderStatus]
      /\ \A q \in Orders : status'[q] = "none" => status[q] = "none"
      /\ \A q \in Orders : status'[q] = "paid" => extended'[q] > 0
  <2>1. CASE Written(status[o], r.seen, NewStatus(r)) = status[o]
    BY <2>1, <1>1, <1>4, <1>5 DEF TypeOK, EffectInv
  <2>2. CASE Written(status[o], r.seen, NewStatus(r)) = NewStatus(r)
    BY <2>2, <1>1, <1>2, <1>3, <1>4, <1>5 DEF TypeOK, EffectInv
  <2> QED BY <2>1, <2>2 DEF Written
<1>7. account' \in Account /\ (account'.plan # Free => Paid(account'.plan))
  <2>1. CASE ~Activates(r)
    BY <2>1 DEF ActivateCommit, TypeOK, EffectInv
  <2>2. CASE Activates(r)
    <3>1. PeriodStart(r) + Period \in Nat
      <4>1. r.at \in Nat /\ r.acc.end \in Nat
        BY <1>1 DEF Request, Account
      <4> QED BY <4>1, BillingAssumption DEF PeriodStart
    <3>2. account' = [plan |-> Written(account.plan, r.acc.plan, o),
                      end |-> PeriodStart(r) + Period]
      BY <2>2 DEF ActivateCommit
    <3>3. Written(account.plan, r.acc.plan, o) \in {account.plan, o}
      BY DEF Written
    <3> QED BY <3>1, <3>2, <3>3, <1>1, <1>5, <2>2 DEF TypeOK, Account, EffectInv
  <2> QED BY <2>1, <2>2
<1>8. /\ events' \subseteq Webhook
      /\ \A m \in events' : m.kind = "PAID" => extended'[m.order] > 0
  <2>1. CASE r.op # "webhook"
    BY <2>1, <1>5 DEF ActivateCommit, TypeOK, EffectInv, RecordedIsActivated, Webhook
  <2>2. CASE r.op = "webhook"
    <3>1. events' = events \union {[order |-> o, kind |-> r.said]}
      BY <2>2 DEF ActivateCommit
    <3>2. r.said = "PAID" => extended'[o] > 0
      BY <1>1, <1>5 DEF Activates
    <3> QED BY <3>1, <3>2, <2>2, <1>1, <1>5
         DEF TypeOK, EffectInv, RecordedIsActivated, Webhook
  <2> QED BY <2>1, <2>2
<1>9. TypeOK'
  BY <1>1, <1>4, <1>6, <1>7, <1>8, IdleRequest DEF TypeOK
<1>a. req'[w].op = "idle" /\ \A v \in Workers : v # w => req'[v] = req[v]
  BY <1>4 DEF TypeOK, Idle
<1>b. \A q \in Orders : Paid(q)' <=> Paid(q)
  BY <1>4 DEF Paid
<1>10. CheckoutInv'
  BY <1>4, <1>6, <1>a, <1>b, CheckoutKept
<1>11. CarriedInv'
  BY <1>4, <1>5, <1>a, <1>b, CarriedKept
<1>12. SentInv' /\ EffectInv'
  BY <1>4, <1>5, <1>6, <1>7, <1>8 DEF SentInv, EffectInv, Paid, RecordedIsActivated
<1> QED BY <1>9, <1>10, <1>11, <1>12

LEMMA CrashKeeps ==
  ASSUME IInv, NEW w \in Workers, Crash(w)
  PROVE  IInv'
<1> USE DEF Crash, Finish, IInv
<1>1. TypeOK'
  BY IdleRequest DEF TypeOK
<1>2. CheckoutInv' /\ CarriedInv'
  BY DEF TypeOK, CheckoutInv, CarriedInv, Paid, Idle
<1>3. SentInv' /\ EffectInv'
  BY DEF SentInv, EffectInv, Paid, RecordedIsActivated
<1> QED BY <1>1, <1>2, <1>3

LEMMA ProviderKeeps ==
  ASSUME IInv, NEW o \in Orders, Pay(o) \/ Report(o)
  PROVE  IInv'
<1> USE DEF IInv
<1>1. /\ \A q \in Orders : Paid(q) => Paid(q)'
      /\ \A q \in Orders : Paid(q)' => q \in opened
      /\ provider' \in [Orders -> {"none", "ACTIVE", "PAID"}]
  <2>1. CASE provider' = [provider EXCEPT ![o] = "PAID"] /\ o \in opened
    BY <2>1 DEF TypeOK, CheckoutInv, Paid
  <2>2. CASE provider' = provider
    BY <2>2 DEF TypeOK, CheckoutInv, Paid
  <2> QED BY <2>1, <2>2 DEF Pay, Report
<1>2. UNCHANGED <<now, status, opened, account, events, req, extended>>
  BY DEF Pay, Report
<1>3. /\ sent' \subseteq Webhook
      /\ \A m \in sent' : m.order \in opened /\ (m.kind = "PAID" => Paid(m.order)')
  <2>1. CASE Pay(o)
    BY <2>1, <1>1 DEF Pay, TypeOK, SentInv, Webhook, Kinds, Paid
  <2>2. CASE Report(o)
    BY <2>2, <1>1 DEF Report, TypeOK, SentInv, Webhook, Kinds, Paid
  <2> QED BY <2>1, <2>2
<1>4. TypeOK'
  BY <1>1, <1>2, <1>3 DEF TypeOK
<1>5. CheckoutInv' /\ CarriedInv'
  BY <1>1, <1>2 DEF CheckoutInv, CarriedInv
<1>6. SentInv' /\ EffectInv'
  BY <1>1, <1>2, <1>3
     DEF TypeOK, Account, SentInv, EffectInv, RecordedIsActivated
<1> QED BY <1>4, <1>5, <1>6

LEMMA NextStep == IInv /\ [Next]_vars => IInv'
<1> SUFFICES ASSUME IInv, [Next]_vars PROVE IInv'
  OBVIOUS
<1>1. CASE UNCHANGED vars
  BY <1>1 DEF vars, IInv, TypeOK, CheckoutInv, CarriedInv, SentInv, EffectInv,
     RecordedIsActivated, Paid
<1>2. CASE Tick
  <2>1. TypeOK'
    BY <1>2, BillingAssumption DEF Tick, IInv, TypeOK
  <2>2. CheckoutInv' /\ CarriedInv' /\ SentInv' /\ EffectInv'
    BY <1>2 DEF Tick, IInv, CheckoutInv, CarriedInv, SentInv, EffectInv,
       RecordedIsActivated, Paid
  <2> QED BY <2>1, <2>2 DEF IInv
<1>3. ASSUME NEW w \in Workers, Handler(w) PROVE IInv'
  BY <1>3, CheckoutInsertKeeps, VerifyReadKeeps, CheckoutCallKeeps,
     CheckoutCommitKeeps, VerifyFetchKeeps, WebhookInsertKeeps, WebhookLoadKeeps,
     ActivateCommitKeeps DEF Handler
<1> QED BY <1>1, <1>2, <1>3, CrashKeeps, ProviderKeeps DEF Next

\* The inductive invariant holds in every reachable state of billing.py's
\* handlers, for every number of workers, orders and days.
THEOREM Invariance == Spec => []IInv
  BY InitIInv, NextStep, PTL DEF Spec

\* The billing rows and every handler's snapshot keep their types.
THEOREM TypeCorrect == Spec => []TypeOK
  BY Invariance, PTL DEF IInv

\* _activate_paid_order: only a payment at the provider makes an order paid,
\* extends the period or gives the account a plan.
THEOREM OnlyPaymentsActivate == Spec => []ActivatedOnlyByPayment
<1>1. IInv => ActivatedOnlyByPayment
  BY DEF IInv, TypeOK, EffectInv, ActivatedOnlyByPayment, Paid
<1> QED BY <1>1, Invariance, PTL

\* cashfree_webhook: a recorded payment event has activated its order, so the
\* answer "accepted" to its replay loses nothing.
THEOREM RecordedEventsActivated == Spec => []RecordedIsActivated
<1>1. IInv => RecordedIsActivated
  BY DEF IInv, EffectInv
<1> QED BY <1>1, Invariance, PTL

\* Only a payment has an effect on orders and account, and a payment event
\* that is recorded has had it.
THEOREM PaymentsAreWhatCounts == Spec => []PaymentsCount
BY OnlyPaymentsActivate, RecordedEventsActivated, PTL DEF PaymentsCount

-----------------------------------------------------------------------------
(* What _activate_paid_order promises of the period needs that no two      *)
(* requests that may activate are under way at a time.                     *)

Activating(w) == req[w].op \in {"verify", "webhook"}
InTurn == \A v, w \in Workers : Activating(v) /\ Activating(w) => v = w

AddedOrders == {o \in Orders : extended[o] > 0}

\* A request that may activate has loaded what the rows still are.
LoadedInv ==
    \A w \in Workers : Activating(w) =>
        /\ req[w].seen = "paid" <=> status[req[w].order] = "paid"
        /\ req[w].loaded => req[w].acc = account

SumInv ==
    /\ IsFiniteSet(AddedOrders)
    /\ account.end >= Period * Cardinality(AddedOrders)

TurnInv == LoadedInv /\ ExtendedOnce /\ ActivatedShowsPaid /\ SumInv

LEMMA InitTurnInv == Init => TurnInv
<1> SUFFICES ASSUME Init PROVE TurnInv
  OBVIOUS
<1>1. LoadedInv /\ ExtendedOnce /\ ActivatedShowsPaid
  <2>1. \A w \in Workers : ~Activating(w)
    BY DEF Init, Activating, Idle
  <2> QED BY <2>1 DEF Init, LoadedInv, ExtendedOnce, ActivatedShowsPaid
<1>2. AddedOrders = {}
  BY DEF Init, AddedOrders
<1>3. SumInv
  <2>1. account.end = 0 /\ Cardinality(AddedOrders) = 0 /\ IsFiniteSet(AddedOrders)
    BY <1>2, FS_EmptySet DEF Init
  <2>2. Period * 0 = 0
    BY BillingAssumption
  <2> QED BY <2>1, <2>2 DEF SumInv
<1> QED BY <1>1, <1>3 DEF TurnInv

\* The sums stay while nothing is activated.
LEMMA SumKept ==
  ASSUME SumInv, UNCHANGED <<account, extended>>
  PROVE  SumInv'
<1>1. AddedOrders' = AddedOrders
  BY DEF AddedOrders
<1> QED BY <1>1 DEF SumInv

\* Another request's steps change neither row of a request under way: an
\* order that is being created is not paid.
LEMMA CheckoutTurn ==
  ASSUME IInv, TurnInv, NEW w \in Workers, NEW o \in Orders,
         CheckoutInsert(w, o) \/ CheckoutCall(w) \/ CheckoutCommit(w)
  PROVE  TurnInv'
<1> USE DEF IInv, TurnInv
<1>1. /\ UNCHANGED <<account, extended>>
      /\ ~Activating(w)'
      /\ \A v \in Workers : v # w => req'[v] = req[v]
  <2>1. req \in [Workers -> Request]
    BY DEF TypeOK
  <2>2. CASE CheckoutInsert(w, o)
    BY <2>1, <2>2 DEF CheckoutInsert, Activating, Idle
  <2>3. CASE CheckoutCall(w)
    <3>1. PICK said \in {"ACTIVE", "ERROR"} : req' = [req EXCEPT ![w].said = said]
      BY <2>3, Zenon DEF CheckoutCall
    <3>2. req'[w].op = "checkout"
      BY <3>1, <2>1, <2>3 DEF CheckoutCall, Request
    <3> QED BY <3>1, <3>2, <2>1, <2>3 DEF CheckoutCall, Activating
  <2>4. CASE CheckoutCommit(w)
    BY <2>1, <2>4 DEF CheckoutCommit, Finish, Activating, Idle
  <2> QED BY <2>2, <2>3, <2>4
<1>2. \A q \in Orders : status[q] = "paid" <=> status'[q] = "paid"
  <2>1. CASE CheckoutInsert(w, o)
    BY <2>1 DEF CheckoutInsert, TypeOK
  <2>2. CASE CheckoutCall(w)
    BY <2>2 DEF CheckoutCall
  <2>3. CASE CheckoutCommit(w)
    <3>1. req[w].order \in Orders /\ status[req[w].order] # "paid"
      BY <2>3 DEF CheckoutCommit, CheckoutInv, EffectInv
    <3> QED BY <3>1, <2>3 DEF CheckoutCommit, TypeOK
  <2> QED BY <2>1, <2>2, <2>3
<1>3. LoadedInv'
  <2> SUFFICES ASSUME NEW v \in Workers, Activating(v)'
               PROVE  /\ req'[v].seen = "paid" <=> status'[req'[v].order] = "paid"
                      /\ req'[v].loaded => req'[v].acc = account'
    BY DEF LoadedInv
  <2>1. req'[v] = req[v] /\ Activating(v)
    BY <1>1 DEF Activating
  <2>2. req[v].order \in Orders
    BY <2>1 DEF CarriedInv, Activating
  <2> QED BY <1>1, <1>2, <2>1, <2>2 DEF LoadedInv
<1>4. ExtendedOnce' /\ ActivatedShowsPaid'
  BY <1>1, <1>2 DEF ExtendedOnce, ActivatedShowsPaid
<1> QED BY <1>1, <1>3, <1>4, SumKept

\* A request begins, loads or ends, and none that may activate is beside it.
LEMMA RequestTurn ==
  ASSUME IInv, TurnInv, NEW w \in Workers,
         \/ \E o \in Orders : VerifyRead(w, o)
         \/ \E m \in sent : WebhookInsert(w, m)
         \/ VerifyFetch(w) \/ WebhookLoad(w) \/ Crash(w)
  PROVE  TurnInv'
<1> USE DEF IInv, TurnInv
<1>1. /\ UNCHANGED <<account, extended, status>>
      /\ \A v \in Workers : v # w => req'[v] = req[v]
  BY DEF VerifyRead, WebhookInsert, VerifyFetch, WebhookLoad, Crash, Begin, Finish, TypeOK
<1>2. Activating(w)' =>
        /\ req'[w].seen = "paid" <=> status[req'[w].order] = "paid"
        /\ req'[w].loaded => req'[w].acc = account
  <2>1. CASE \E o \in Orders : VerifyRead(w, o)
    BY <2>1 DEF VerifyRead, Begin, TypeOK, Idle
  <2>2. CASE \E m \in sent : WebhookInsert(w, m)
    <3>1. PICK m \in sent : WebhookInsert(w, m)
      BY <2>2
    <3>2. /\ req'[w].seen = status[m.order] /\ req'[w].order = m.order
          /\ ~req'[w].loaded
      BY <3>1 DEF WebhookInsert, Begin, TypeOK, Idle
    <3> QED BY <3>2
  <2>3. CASE VerifyFetch(w) \/ WebhookLoad(w)
    <3>1. req[w] \in Request /\ req \in [Workers -> Request]
      BY DEF TypeOK
    <3>2. /\ Activating(w)
          /\ req'[w].seen = req[w].seen /\ req'[w].order = req[w].order
          /\ req'[w].acc = account
      <4>1. CASE VerifyFetch(w)
        BY <3>1, <4>1 DEF VerifyFetch, Activating, Request
      <4>2. CASE WebhookLoad(w)
        BY <3>1, <4>2 DEF WebhookLoad, Activating, Request
      <4> QED BY <2>3, <4>1, <4>2
    <3>3. req[w].seen = "paid" <=> status[req[w].order] = "paid"
      BY <3>2 DEF LoadedInv
    <3>4. req'[w].seen = "paid" <=> status[req'[w].order] = "paid"
      BY <3>2, <3>3
    <3> QED BY <3>2, <3>4
  <2>4. CASE Crash(w)
    BY <2>4 DEF Crash, Finish, Activating, TypeOK, Idle
  <2> QED BY <2>1, <2>2, <2>3, <2>4
<1>3. LoadedInv'
  BY <1>1, <1>2 DEF LoadedInv, Activating
<1>4. ExtendedOnce' /\ ActivatedShowsPaid'
  BY <1>1 DEF ExtendedOnce, ActivatedShowsPaid
<1> QED BY <1>1, <1>3, <1>4, SumKept

\* The commit acts on the rows as they are, so it adds one period for an order
\* that was not counted before, and shows the order as paid.
LEMMA ActivateTurn ==
  ASSUME IInv, TurnInv, InTurn, NEW w \in Workers, ActivateCommit(w)
  PROVE  TurnInv'
<1> DEFINE r == req[w]  o == req[w].order
<1> USE DEF IInv, TurnInv
<1>1. /\ o \in Orders /\ r \in Request /\ r.op \in {"verify", "webhook"} /\ r.loaded
      /\ r.seen = "paid" <=> status[o] = "paid"
      /\ r.acc = account
      /\ r.said = "PAID" => Paid(o)
  BY DEF ActivateCommit, CarriedInv, TypeOK, LoadedInv, Activating
<1>2. /\ extended' = [extended EXCEPT ![o] = IF Activates(r) THEN @ + 1 ELSE @]
      /\ status' = [status EXCEPT ![o] = Written(@, r.seen, NewStatus(r))]
      /\ req' = [req EXCEPT ![w] = Idle]
      /\ account' = IF ~Activates(r) THEN account
                    ELSE [plan |-> Written(account.plan, r.acc.plan, o),
                          end |-> PeriodStart(r) + Period]
  BY DEF ActivateCommit, Finish
<1>3. LoadedInv'
  <2>1. \A v \in Workers : ~Activating(v)'
    BY <1>1, <1>2 DEF InTurn, Activating, TypeOK, Idle
  <2> QED BY <2>1 DEF LoadedInv
<1>4. /\ status[o] = "paid" => status'[o] = "paid"
      /\ Activates(r) => status[o] # "paid" /\ status'[o] = "paid"
  <2>1. status'[o] = Written(status[o], r.seen, NewStatus(r))
    BY <1>1, <1>2 DEF TypeOK
  <2>2. CASE r.seen = "paid"
    BY <2>1, <2>2, <1>1 DEF NewStatus, Written, Activates
  <2>3. CASE r.seen # "paid"
    BY <2>1, <2>3, <1>1 DEF NewStatus, Written, Activates
  <2> QED BY <2>2, <2>3
<1>5. extended[o] \in Nat /\ (status[o] # "paid" => extended[o] = 0)
  BY <1>1 DEF TypeOK, ActivatedShowsPaid
<1>6. ExtendedOnce'
  BY <1>1, <1>2, <1>4, <1>5 DEF ExtendedOnce, TypeOK
<1>7. ActivatedShowsPaid'
  BY <1>1, <1>2, <1>4, <1>5 DEF ActivatedShowsPaid, TypeOK
<1>8. SumInv'
  <2>1. CASE ~Activates(r)
    <3>1. extended' = extended /\ account' = account
      BY <2>1, <1>1, <1>2 DEF TypeOK
    <3> QED BY <3>1, SumKept
  <2>2. CASE Activates(r)
    <3>1. extended[o] = 0 /\ o \notin AddedOrders
      BY <2>2, <1>4, <1>5 DEF AddedOrders
    <3>2. AddedOrders' = AddedOrders \union {o}
      BY <2>2, <1>1, <1>2, <3>1 DEF AddedOrders, TypeOK
    <3>3. /\ IsFiniteSet(AddedOrders') /\ Cardinality(AddedOrders) \in Nat
          /\ Cardinality(AddedOrders') = Cardinality(AddedOrders) + 1
      BY <3>1, <3>2, FS_AddElement, FS_CardinalityType DEF SumInv
    <3>4. account'.end >= account.end + Period
      <4>1. account.end \in Nat /\ r.at \in Nat /\ Period \in Nat
        BY <1>1, BillingAssumption DEF TypeOK, Account, Request
      <4>2. account'.end = PeriodStart(r) + Period
        BY <2>2, <1>2
      <4>3. PeriodStart(r) \in Nat /\ PeriodStart(r) >= account.end
        BY <4>1, <1>1 DEF PeriodStart
      <4> QED BY <4>1, <4>2, <4>3
    <3>5. account.end >= Period * Cardinality(AddedOrders)
      BY DEF SumInv
    <3>6. Period * (Cardinality(AddedOrders) + 1) = Period * Cardinality(AddedOrders) + Period
      BY <3>3, BillingAssumption
    <3>7. account'.end \in Int /\ account.end \in Int /\ Period * Cardinality(AddedOrders) \in Int
      <4>1. Period \in Nat
        BY BillingAssumption
      <4>2. account'.end = PeriodStart(r) + Period /\ account.end \in Nat
        BY <2>2, <1>2 DEF TypeOK, Account
      <4>3. PeriodStart(r) \in Nat
        BY <1>1, <4>2 DEF PeriodStart, Request
      <4> QED BY <4>1, <4>2, <4>3, <3>3
    <3>8. account'.end >= Period * (Cardinality(AddedOrders) + 1)
      BY <3>4, <3>5, <3>6, <3>7, BillingAssumption
    <3> QED BY <3>3, <3>8 DEF SumInv
  <2> QED BY <2>1, <2>2
<1> QED BY <1>3, <1>6, <1>7, <1>8

LEMMA TurnStep == IInv /\ TurnInv /\ InTurn /\ [Next]_vars => TurnInv'
<1> SUFFICES ASSUME IInv, TurnInv, InTurn, [Next]_vars PROVE TurnInv'
  OBVIOUS
<1>1. ASSUME UNCHANGED <<status, account, extended, req>> PROVE TurnInv'
  <2>1. LoadedInv' /\ ExtendedOnce' /\ ActivatedShowsPaid'
    BY <1>1 DEF TurnInv, LoadedInv, Activating, ExtendedOnce, ActivatedShowsPaid
  <2> QED BY <2>1, <1>1, SumKept DEF TurnInv
<1>2. CASE UNCHANGED vars
  BY <1>1, <1>2 DEF vars
<1>3. CASE Tick \/ \E o \in Orders : Pay(o) \/ Report(o)
  BY <1>1, <1>3 DEF Tick, Pay, Report
<1>4. ASSUME NEW w \in Workers, Handler(w) \/ Crash(w) PROVE TurnInv'
  <2>1. CASE \E o \in Orders : CheckoutInsert(w, o)
    BY <2>1, CheckoutTurn
  <2>2. CASE CheckoutCall(w) \/ CheckoutCommit(w)
    <3>1. req[w].order \in Orders
      BY <2>2 DEF CheckoutCall, CheckoutCommit, IInv, CheckoutInv
    <3> QED BY <2>2, <3>1, CheckoutTurn
  <2>3. CASE ActivateCommit(w)
    BY <2>3, ActivateTurn
  <2> QED BY <1>4, <2>1, <2>2, <2>3, RequestTurn DEF Handler
<1> QED BY <1>2, <1>3, <1>4 DEF Next

\* _activate_paid_order, when no two requests that may activate overlap: an
\* order extends the period once, is shown as paid, and adds a whole period.
\* The run billing_twice shows what becomes of it when they do.
THEOREM PeriodsAddInTurn == Spec /\ []InTurn => []PeriodsAdd
<1>1. TurnInv => PeriodsAdd
  BY DEF TurnInv, SumInv, PeriodsAdd, EveryOrderCounts, AddedOrders
<1> QED BY <1>1, InitTurnInv, TurnStep, Invariance, PTL DEF Spec

-----------------------------------------------------------------------------
(* The settings. *)

\* A connection that is verified or enforced in a value was proven.
Sound(s) == s.verified \/ s.enforced => s.domain \in proven

SettingsInv ==
    /\ SettingsTypeOK
    /\ Sound(settings) /\ \A t \in Threads : Sound(writer[t].after)
    /\ HoldStands
    \* A copy that governs nothing has the hold of the row, until the row changes.
    /\ \A t \in Threads :
          LET w == writer[t] IN
          w.busy /\ w.writes /\ ~w.old /\ ~w.governs => lost \/ w.after.hold = settings.hold

LEMMA NewSettingsOK == NewSettings \in Settings /\ NoWriter \in Writer
  BY DEF NewSettings, Settings, NoWriter, Writer

LEMMA SettingsStart == SettingsInit => SettingsInv
<1> SUFFICES ASSUME SettingsInit PROVE SettingsInv
  OBVIOUS
<1>1. SettingsTypeOK
  BY NewSettingsOK DEF SettingsInit, SettingsTypeOK
<1>2. \A t \in Threads : ~writer[t].busy /\ writer[t].after = NewSettings
  BY DEF SettingsInit, NoWriter
<1>3. settings = NewSettings /\ ordered = FALSE
  BY DEF SettingsInit
<1>4. ~NewSettings.verified /\ ~NewSettings.enforced /\ NewSettings.hold = FALSE
  BY DEF NewSettings
<1>5. Sound(settings) /\ HoldStands
  BY <1>3, <1>4 DEF Sound, HoldStands
<1>6. \A t \in Threads : Sound(writer[t].after)
  BY <1>2, <1>4 DEF Sound
<1> QED BY <1>1, <1>2, <1>5, <1>6 DEF SettingsInv

\* What a request copies is sound, and has the row's hold unless it governs.
LEMMA Loads ==
  ASSUME SettingsInv, NEW t \in Threads, NEW after \in Settings,
         NEW differs \in BOOLEAN, NEW governs \in BOOLEAN,
         Load(t, after, differs, governs),
         proven' \subseteq Domains, proven \subseteq proven',
         after.verified \/ after.enforced => after.domain \in proven',
         ~governs => after.hold = settings.hold
  PROVE  SettingsInv'
<1> DEFINE w == [busy |-> TRUE, governs |-> governs, after |-> after,
                 writes |-> differs \/ after # settings, old |-> FALSE]
<1>1. /\ writer' = [writer EXCEPT ![t] = w]
      /\ settings' = settings /\ ordered' = ordered /\ lost' = lost
  BY DEF Load
<1>2. w \in Writer
  <2>1. (differs \/ after # settings) \in BOOLEAN
    OBVIOUS
  <2> QED BY <2>1 DEF Writer
<1>3. w.after = after /\ w.governs = governs /\ w.busy
  OBVIOUS
<1> HIDE DEF w
<1>4. writer \in [Threads -> Writer] /\ settings \in Settings
  BY DEF SettingsInv, SettingsTypeOK
<1>5. writer' \in [Threads -> Writer] /\ writer'[t] = w
      /\ \A u \in Threads \ {t} : writer'[u] = writer[u]
  BY <1>1, <1>2, <1>4
<1>6. SettingsTypeOK'
  BY <1>1, <1>5 DEF SettingsInv, SettingsTypeOK
<1>7. Sound(settings)'
  BY <1>1 DEF SettingsInv, Sound
<1>8. ASSUME NEW u \in Threads PROVE Sound(writer[u].after)'
  <2>1. CASE u = t
    BY <2>1, <1>5, <1>3 DEF Sound
  <2>2. CASE u # t
    <3>1. Sound(writer[u].after) /\ writer'[u] = writer[u]
      BY <2>2, <1>5 DEF SettingsInv
    <3> QED BY <3>1 DEF Sound
  <2> QED BY <2>1, <2>2
<1>9. HoldStands'
  BY <1>1 DEF SettingsInv, HoldStands
<1>10. ASSUME NEW u \in Threads, writer'[u].busy, writer'[u].writes, ~writer'[u].old,
              ~writer'[u].governs
       PROVE  lost' \/ writer'[u].after.hold = settings'.hold
  <2>1. CASE u = t
    BY <2>1, <1>5, <1>3, <1>1, <1>10
  <2>2. CASE u # t
    BY <2>2, <1>5, <1>1, <1>10 DEF SettingsInv
  <2> QED BY <2>1, <2>2
<1> QED BY <1>6, <1>7, <1>8, <1>9, <1>10 DEF SettingsInv

LEMMA WriteKeeps ==
  ASSUME SettingsInv, NEW t \in Threads, Write(t)
  PROVE  SettingsInv'
<1> DEFINE w == writer[t]
<1>1. /\ w.busy
      /\ settings' = IF w.writes THEN w.after ELSE settings
      /\ ordered' = IF w.governs THEN settings'.hold ELSE ordered
      /\ lost' = (lost \/ (w.writes /\ w.old))
      /\ writer' = [u \in Threads |->
            IF u = t THEN NoWriter
            ELSE [writer[u] EXCEPT !.old = @ \/ (writer[u].busy /\ w.writes)]]
      /\ proven' = proven
  BY DEF Write
<1>2. /\ writer \in [Threads -> Writer] /\ settings \in Settings
      /\ ordered \in BOOLEAN /\ lost \in BOOLEAN /\ proven \subseteq Domains
  BY DEF SettingsInv, SettingsTypeOK
<1>3. w \in Writer /\ w.after \in Settings
  BY <1>2 DEF Writer
<1>4. settings' \in Settings /\ Sound(settings)'
  <2>1. Sound(settings) /\ Sound(w.after)
    BY DEF SettingsInv
  <2> QED BY <1>1, <1>2, <1>3, <2>1 DEF Sound
<1>5. ordered' \in BOOLEAN /\ lost' \in BOOLEAN
  <2>1. settings'.hold \in BOOLEAN /\ (w.writes /\ w.old) \in BOOLEAN
    BY <1>4 DEF Settings
  <2> QED BY <1>1, <1>2, <2>1
<1>6. ASSUME NEW u \in Threads \ {t}
      PROVE  /\ writer'[u] \in Writer /\ writer'[u].after = writer[u].after
             /\ writer'[u].governs = writer[u].governs
             /\ writer'[u].writes = writer[u].writes
             /\ writer'[u].busy = writer[u].busy
             /\ ~writer'[u].old => ~writer[u].old /\ ~(writer[u].busy /\ w.writes)
  <2> DEFINE old == writer[u].old \/ (writer[u].busy /\ w.writes)
  <2>1. writer'[u] = [writer[u] EXCEPT !.old = old]
    BY <1>1
  <2>2. writer[u] \in Writer /\ old \in BOOLEAN
    BY <1>2 DEF Writer
  <2>3. ~old => ~writer[u].old /\ ~(writer[u].busy /\ w.writes)
    OBVIOUS
  <2> HIDE DEF old
  <2>4. writer'[u].old = old
    BY <2>1, <2>2 DEF Writer
  <2> QED BY <2>1, <2>2, <2>3, <2>4 DEF Writer
<1>7. writer'[t] = NoWriter
  BY <1>1
<1>8. writer' \in [Threads -> Writer]
  BY <1>1, <1>6, <1>7, NewSettingsOK
<1>9. HoldStands'
  <2>1. CASE w.governs
    BY <2>1, <1>1 DEF HoldStands
  <2>2. CASE ~w.governs /\ w.writes /\ ~w.old
    <3>1. lost \/ w.after.hold = settings.hold
      BY <2>2, <1>1 DEF SettingsInv
    <3>2. lost \/ settings.hold = ordered
      BY DEF SettingsInv, HoldStands
    <3> QED BY <3>1, <3>2, <2>2, <1>1 DEF HoldStands
  <2>3. CASE w.writes /\ w.old
    BY <2>3, <1>1 DEF HoldStands
  <2>4. CASE ~w.governs /\ ~w.writes
    BY <2>4, <1>1 DEF HoldStands, SettingsInv
  <2> QED BY <2>1, <2>2, <2>3, <2>4
<1>10. ASSUME NEW u \in Threads PROVE Sound(writer[u].after)'
  <2>1. CASE u = t
    BY <2>1, <1>7 DEF NoWriter, NewSettings, Sound
  <2>2. CASE u # t
    <3>1. Sound(writer[u].after) /\ writer'[u].after = writer[u].after
      BY <2>2, <1>6 DEF SettingsInv
    <3> QED BY <3>1, <1>1 DEF Sound
  <2> QED BY <2>1, <2>2
<1>11. ASSUME NEW u \in Threads, writer'[u].busy, writer'[u].writes, ~writer'[u].old,
              ~writer'[u].governs
       PROVE  lost' \/ writer'[u].after.hold = settings'.hold
  <2>1. u # t
    BY <1>7, <1>11 DEF NoWriter
  <2>2. /\ writer[u].busy /\ writer[u].writes /\ ~writer[u].old /\ ~writer[u].governs
        /\ ~w.writes /\ writer'[u].after = writer[u].after
    BY <2>1, <1>6, <1>11
  <2>3. lost \/ writer[u].after.hold = settings.hold
    BY <2>2 DEF SettingsInv
  <2> QED BY <2>2, <2>3, <1>1
<1>12. SettingsTypeOK'
  BY <1>1, <1>2, <1>4, <1>5, <1>8 DEF SettingsTypeOK
<1> QED BY <1>4, <1>9, <1>10, <1>11, <1>12 DEF SettingsInv

LEMMA WriteFailsKeeps ==
  ASSUME SettingsInv, NEW t \in Threads, WriteFails(t)
  PROVE  SettingsInv'
<1>1. /\ writer' = [writer EXCEPT ![t] = NoWriter]
      /\ settings' = settings /\ ordered' = ordered /\ proven' = proven /\ lost' = lost
  BY DEF WriteFails
<1>2. writer \in [Threads -> Writer]
  BY DEF SettingsInv, SettingsTypeOK
<1>3. /\ writer' \in [Threads -> Writer] /\ writer'[t] = NoWriter
      /\ \A u \in Threads \ {t} : writer'[u] = writer[u]
  BY <1>1, <1>2, NewSettingsOK
<1>4. ASSUME NEW u \in Threads PROVE Sound(writer[u].after)'
  <2>1. CASE u = t
    BY <2>1, <1>3 DEF NoWriter, NewSettings, Sound
  <2>2. CASE u # t
    BY <2>2, <1>3, <1>1 DEF Sound, SettingsInv
  <2> QED BY <2>1, <2>2
<1>5. ASSUME NEW u \in Threads, writer'[u].busy, writer'[u].writes, ~writer'[u].old,
              ~writer'[u].governs
      PROVE  lost' \/ writer'[u].after.hold = settings'.hold
  <2>1. writer'[u] = writer[u]
    BY <1>3, <1>5 DEF NoWriter
  <2> QED BY <2>1, <1>1, <1>5 DEF SettingsInv
<1>6. SettingsTypeOK' /\ HoldStands' /\ Sound(settings)'
  BY <1>1, <1>3 DEF SettingsInv, SettingsTypeOK, HoldStands, Sound
<1> QED BY <1>4, <1>5, <1>6 DEF SettingsInv

LEMMA HoldStep == ASSUME SettingsInv, HoldNext PROVE SettingsInv'
<1>0. settings \in Settings /\ proven \subseteq Domains /\ Sound(settings)
  BY DEF SettingsInv, SettingsTypeOK
<1>1. ASSUME NEW t \in Threads, NEW hold \in BOOLEAN, Govern(t, hold) PROVE SettingsInv'
  <2> DEFINE after == [settings EXCEPT !.hold = hold]
  <2>1. PICK others \in BOOLEAN : Load(t, after, others, TRUE)
    BY <1>1 DEF Govern
  <2>2. after \in Settings /\ after.verified = settings.verified
        /\ after.enforced = settings.enforced /\ after.domain = settings.domain
    BY <1>0 DEF Settings
  <2>3. proven' = proven
    BY <1>1 DEF Govern
  <2> HIDE DEF after
  <2> QED BY <1>0, <2>1, <2>2, <2>3, Loads DEF Sound
<1> QED BY <1>1, WriteKeeps, WriteFailsKeeps DEF HoldNext

LEMMA SettingsStep == ASSUME SettingsInv, SettingsNext PROVE SettingsInv'
<1>0. settings \in Settings /\ proven \subseteq Domains /\ Sound(settings)
  BY DEF SettingsInv, SettingsTypeOK
<1>1. ASSUME NEW t \in Threads, NEW differs \in BOOLEAN, OtherKey(t, differs)
      PROVE  SettingsInv'
  BY <1>1, <1>0, Loads DEF OtherKey, Sound
<1>2. ASSUME NEW t \in Threads, UpdateProfile(t) \/ BrandCompany(t) \/ ActivateAssess(t)
      PROVE  SettingsInv'
  BY <1>1, <1>2 DEF UpdateProfile, BrandCompany, ActivateAssess
<1>3. ASSUME NEW t \in Threads, NEW verified \in BOOLEAN, Operate(t, verified)
      PROVE  SettingsInv'
  <2> DEFINE after == [settings EXCEPT !.verified = verified]
  <2>1. Load(t, after, TRUE, FALSE) /\ proven' = proven /\ (verified => settings.verified)
    BY <1>3 DEF Operate
  <2>2. after \in Settings /\ after.verified = verified /\ after.hold = settings.hold
        /\ after.enforced = settings.enforced /\ after.domain = settings.domain
    BY <1>0 DEF Settings
  <2> HIDE DEF after
  <2> QED BY <1>0, <2>1, <2>2, Loads DEF Sound
<1>4. ASSUME NEW t \in Threads, NEW domain \in Domains, SamlLogin(t, domain)
      PROVE  SettingsInv'
  <2> DEFINE after == [settings EXCEPT !.verified = TRUE]
  <2>1. /\ Load(t, after, TRUE, FALSE) /\ proven' = proven \union {domain}
        /\ settings.domain = domain
    BY <1>4 DEF SamlLogin
  <2>2. after \in Settings /\ after.hold = settings.hold /\ after.domain = domain
    BY <1>0, <2>1 DEF Settings
  <2> HIDE DEF after
  <2> QED BY <1>0, <2>1, <2>2, Loads
<1>5. ASSUME NEW t \in Threads, NEW domain \in Domains, NEW metadata \in BOOLEAN,
             NEW enforced \in BOOLEAN, Configure(t, domain, metadata, enforced)
      PROVE  SettingsInv'
  <2> DEFINE verified == settings.verified /\ Unchanged(settings, domain, metadata)
             after == [settings EXCEPT !.domain = domain, !.enforced = enforced,
                                       !.verified = verified]
  <2>1. Load(t, after, TRUE, FALSE) /\ proven' = proven /\ (enforced => verified)
    BY <1>5 DEF Configure
  <2>2. verified \in BOOLEAN
    BY <1>0 DEF Settings, Unchanged
  <2>3. verified => settings.verified /\ domain = settings.domain
    BY DEF Unchanged
  <2> HIDE DEF verified
  <2>4. after \in Settings /\ after.verified = verified /\ after.hold = settings.hold
        /\ after.enforced = enforced /\ after.domain = domain
    BY <1>0, <2>2 DEF Settings
  <2> HIDE DEF after
  <2> QED BY <1>0, <2>1, <2>3, <2>4, Loads DEF Sound
<1>6. CASE HoldNext
  BY <1>6, HoldStep
<1> QED BY <1>2, <1>3, <1>4, <1>5, <1>6 DEF SettingsNext

LEMMA SettingsStutter == ASSUME SettingsInv, UNCHANGED settingsVars PROVE SettingsInv'
  BY DEF SettingsInv, settingsVars, SettingsTypeOK, Sound, HoldStands

LEMMA SettingsInvHolds == SettingsInv => SettingsTypeOK /\ EnforcedIsProven /\ HoldStands
  BY DEF SettingsInv, Sound, EnforcedIsProven

-----------------------------------------------------------------------------
\* A row names the candidate from its invitation on; work that is saved for a
\* row without a name was on its way when the name was erased.
IssuesInv ==
    /\ \A i \in Issues : issues[i].named => issues[i].status # "none"
    /\ \A i \in Own :
          /\ issues[i].status \in {"issued", "started"} => issues[i].named
          /\ issues[i].answers /\ ~issues[i].named => "work" \in overlaps
    /\ \A i \in due \intersect Own :
          /\ issues[i].status # "none"
          /\ issues[i].named => "invite" \in overlaps

DeletionsInv ==
    \A r \in Requests :
        /\ requests[r].status = "completed" /\ requests[r].notes => "update" \in overlaps
        /\ requests[r].status = "approved" => requests[r].verified \/ "update" \in overlaps

\* An erasure has listed rows that nobody works on any more, and a request that
\* is approved; no hold was known when it read the settings.
JobInv(j) ==
    /\ j.op \in {"save", "submit"} => \A i \in j.issues :
          /\ issues[i].status \in {"started", "submitted", "revoked"}
          /\ i \in Own => issues[i].named \/ "work" \in overlaps
    /\ j.op \in {"execute", "retain"} =>
          /\ j.issues \subseteq Own
          /\ \A i \in j.issues : issues[i].status \in {"submitted", "revoked"}
          /\ j.freely \/ lost
    /\ j.op = "retain" => j.request = {}
    /\ j.op = "execute" => \A r \in j.request :
          "update" \in overlaps \/ (requests[r].verified /\ requests[r].status \in {"approved", "completed"})
    /\ j.op = "update" =>
          /\ j.act \in Acts /\ ~Closed(j.row)
          /\ j.act = "approve" => j.row.verified

DataInv ==
    /\ SettingsInv /\ DataTypeOK
    /\ IssuesInv /\ DeletionsInv
    /\ \A t \in Threads : JobInv(job[t])

LEMMA NoJobOK == NoJob \in Job /\ NoRow \in RequestRow
  BY DEF NoJob, NoRow, Job, RequestRow, Acts

LEMMA DataStart == DataInit => DataInv
<1> SUFFICES ASSUME DataInit PROVE DataInv
  OBVIOUS
<1>1. SettingsInv /\ SettingsTypeOK
  BY SettingsStart, SettingsInvHolds DEF DataInit
<1>2. DataTypeOK
  <2>1. /\ person = [named |-> TRUE, active |-> FALSE] /\ due = {} /\ overlaps = {}
        /\ issues = [i \in Issues |-> [status |-> "none", named |-> FALSE, answers |-> FALSE]]
        /\ requests = [r \in Requests |-> NoRow] /\ job = [t \in Threads |-> NoJob]
    BY DEF DataInit
  <2>2. [status |-> "none", named |-> FALSE, answers |-> FALSE] \in Issue
    BY DEF Issue
  <2>3. person \in [named : BOOLEAN, active : BOOLEAN]
    BY <2>1
  <2> QED BY <1>1, <2>1, <2>2, <2>3, NoJobOK DEF DataTypeOK
<1>3. IssuesInv /\ DeletionsInv
  BY DataAssumption DEF DataInit, IssuesInv, DeletionsInv, NoRow
<1>4. \A t \in Threads : JobInv(job[t])
  BY DEF DataInit, JobInv, NoJob
<1> QED BY <1>1, <1>2, <1>3, <1>4 DEF DataInv

LEMMA DataTypes ==
  ASSUME DataInv
  PROVE  /\ SettingsInv /\ SettingsTypeOK
         /\ person \in [named : BOOLEAN, active : BOOLEAN]
         /\ issues \in [Issues -> Issue] /\ requests \in [Requests -> RequestRow]
         /\ job \in [Threads -> Job] /\ due \subseteq Issues
         /\ overlaps \subseteq {"work", "update", "invite"} /\ Own \subseteq Issues
  BY DataAssumption DEF DataInv, DataTypeOK

\* What a job that goes on knows stays true.
LEMMA JobKept ==
  ASSUME NEW t \in Threads, job[t] \in Job, JobInv(job[t]), job'[t] = job[t],
         overlaps \subseteq overlaps', lost => lost',
         \A i \in Issues :
            /\ issues[i].status \in {"submitted", "revoked"} =>
                  issues'[i].status \in {"submitted", "revoked"}
            /\ issues[i].status = "started" =>
                  issues'[i].status \in {"started", "submitted", "revoked"},
         job[t].op \in {"save", "submit"} =>
            \A i \in job[t].issues :
                issues[i].named => issues'[i].named \/ "work" \in overlaps',
         job[t].op = "execute" =>
            \A r \in job[t].request :
                \/ "update" \in overlaps'
                \/ requests[r].verified /\ requests[r].status \in {"approved", "completed"} =>
                      requests'[r].verified /\ requests'[r].status \in {"approved", "completed"}
  PROVE  JobInv(job[t])'
<1> DEFINE j == job[t]
<1>0. j.issues \subseteq Issues /\ job'[t] = j
  BY DEF Job
<1>1. j.op \in {"save", "submit"} => \A i \in j.issues :
          /\ issues'[i].status \in {"started", "submitted", "revoked"}
          /\ i \in Own => issues'[i].named \/ "work" \in overlaps'
  <2> SUFFICES ASSUME j.op \in {"save", "submit"}, NEW i \in j.issues
               PROVE  /\ issues'[i].status \in {"started", "submitted", "revoked"}
                      /\ i \in Own => issues'[i].named \/ "work" \in overlaps'
    OBVIOUS
  <2>1. /\ issues[i].status \in {"started", "submitted", "revoked"}
        /\ i \in Own => issues[i].named \/ "work" \in overlaps
    BY DEF JobInv
  <2> QED BY <2>1, <1>0
<1>2. j.op \in {"execute", "retain"} =>
          /\ j.issues \subseteq Own
          /\ \A i \in j.issues : issues'[i].status \in {"submitted", "revoked"}
          /\ j.freely \/ lost'
  <2>1. j.op \in {"execute", "retain"} =>
          /\ j.issues \subseteq Own
          /\ \A i \in j.issues : issues[i].status \in {"submitted", "revoked"}
          /\ j.freely \/ lost
    BY DEF JobInv
  <2> QED BY <2>1, <1>0
<1>3. j.op = "execute" => \A r \in j.request :
          "update" \in overlaps' \/ (requests'[r].verified /\ requests'[r].status \in {"approved", "completed"})
  <2>1. j.op = "execute" => \A r \in j.request :
          "update" \in overlaps \/ (requests[r].verified /\ requests[r].status \in {"approved", "completed"})
    BY DEF JobInv
  <2> QED BY <2>1
<1>4. /\ j.op = "retain" => j.request = {}
      /\ j.op = "update" => j.act \in Acts /\ ~Closed(j.row) /\ (j.act = "approve" => j.row.verified)
  BY DEF JobInv
<1> HIDE DEF j
<1> QED BY <1>0, <1>1, <1>2, <1>3, <1>4 DEF JobInv, Closed

LEMMA JobGone == ASSUME NEW t \in Threads, job'[t] = NoJob PROVE JobInv(job[t])'
  BY DEF JobInv, NoJob

\* A job begins with what it has read: nothing else changes.
LEMMA JobBegins ==
  ASSUME DataInv, NEW t \in Threads, NEW j \in Job, JobInv(j), BeginJob(t, j)
  PROVE  DataInv'
<1>1. /\ job' = [job EXCEPT ![t] = j]
      /\ UNCHANGED settingsVars
      /\ person' = person /\ issues' = issues /\ requests' = requests
      /\ due' = due /\ overlaps' = overlaps
  BY DEF BeginJob, dataRows
<1>2. lost' = lost
  BY <1>1 DEF settingsVars
<1>3. SettingsInv' /\ SettingsTypeOK'
  BY <1>1, SettingsStutter, DataTypes DEF SettingsInv
<1>4. /\ job' \in [Threads -> Job] /\ job'[t] = j
      /\ \A u \in Threads \ {t} : job'[u] = job[u]
  BY <1>1, DataTypes
<1>5. DataTypeOK'
  BY <1>1, <1>3, <1>4 DEF DataInv, DataTypeOK
<1>6. IssuesInv' /\ DeletionsInv'
  BY <1>1 DEF DataInv, IssuesInv, DeletionsInv
<1>7. ASSUME NEW u \in Threads PROVE JobInv(job[u])'
  <2>1. CASE u = t
    BY <2>1, <1>1, <1>2, <1>4 DEF JobInv, Closed
  <2>2. CASE u # t
    <3>1. JobInv(job[u]) /\ job[u] \in Job /\ job'[u] = job[u]
      BY <2>2, <1>4, DataTypes DEF DataInv
    <3> QED BY <3>1, <1>1, <1>2, JobKept
  <2> QED BY <2>1, <2>2
<1> QED BY <1>3, <1>5, <1>6, <1>7 DEF DataInv

-----------------------------------------------------------------------------
\* The candidate's row is read by nobody's invariant.
LEMMA ApplyKeeps == ASSUME DataInv, NEW active \in BOOLEAN, Apply(active) PROVE DataInv'
<1>1. /\ person' = [person EXCEPT !.active = active] /\ UNCHANGED settingsVars
      /\ issues' = issues /\ requests' = requests /\ job' = job
      /\ due' = due /\ overlaps' = overlaps
  BY DEF Apply, CandidateOnly
<1>2. lost' = lost
  BY <1>1 DEF settingsVars
<1>3. SettingsInv' /\ SettingsTypeOK'
  BY <1>1, SettingsStutter, DataTypes DEF SettingsInv
<1>4. DataTypeOK'
  BY <1>1, <1>3, DataTypes DEF DataTypeOK
<1>5. IssuesInv' /\ DeletionsInv'
  BY <1>1 DEF DataInv, IssuesInv, DeletionsInv
<1>6. ASSUME NEW u \in Threads PROVE JobInv(job[u])'
  <2>1. JobInv(job[u]) /\ job[u] \in Job /\ job'[u] = job[u]
    BY <1>1, DataTypes DEF DataInv
  <2> QED BY <2>1, <1>1, <1>2, JobKept
<1> QED BY <1>3, <1>4, <1>5, <1>6 DEF DataInv

\* An issue that moves on, without losing its name, disturbs no job.
LEMMA IssueMoves ==
  ASSUME DataInv, NEW i \in Issues, NEW row \in Issue, IssueChanges(i, row),
         row.status # "none",
         issues[i].status \in {"none", "issued", "started"},
         issues[i].status = "started" => row.status \in {"started", "submitted", "revoked"},
         issues[i].status \in {"issued", "started"} => row.named = issues[i].named,
         issues[i].status = "none" => row.named,
         row.answers => issues[i].answers
  PROVE  DataInv'
<1>1. /\ issues' = [issues EXCEPT ![i] = row] /\ UNCHANGED settingsVars
      /\ person' = person /\ requests' = requests /\ job' = job
      /\ due' = due /\ overlaps' = overlaps
  BY DEF IssueChanges, CandidateOnly
<1>2. lost' = lost
  BY <1>1 DEF settingsVars
<1>3. SettingsInv' /\ SettingsTypeOK'
  BY <1>1, SettingsStutter, DataTypes DEF SettingsInv
<1>4. /\ issues' \in [Issues -> Issue] /\ issues'[i] = row
      /\ \A k \in Issues \ {i} : issues'[k] = issues[k]
  BY <1>1, DataTypes
<1>5. DataTypeOK'
  BY <1>1, <1>3, <1>4, DataTypes DEF DataTypeOK
<1>6. IssuesInv'
  <2>1. IssuesInv /\ Own \subseteq Issues
    BY DataTypes DEF DataInv
  <2>2. \A k \in Issues : issues'[k].named => issues'[k].status # "none"
    BY <2>1, <1>4 DEF IssuesInv
  <2>3. ASSUME NEW k \in Own
        PROVE  /\ issues'[k].status \in {"issued", "started"} => issues'[k].named
               /\ issues'[k].answers /\ ~issues'[k].named => "work" \in overlaps'
    <3>1. CASE k = i
      BY <3>1, <1>1, <1>4, <2>1 DEF IssuesInv
    <3>2. CASE k # i
      BY <3>2, <1>1, <1>4, <2>1 DEF IssuesInv
    <3> QED BY <3>1, <3>2
  <2>4. ASSUME NEW k \in due' \intersect Own
        PROVE  /\ issues'[k].status # "none"
               /\ issues'[k].named => "invite" \in overlaps'
    <3>1. CASE k = i
      <4>1. k \in due \intersect Own /\ issues[k].status # "none"
        BY <1>1, <2>1 DEF IssuesInv
      <4> QED BY <3>1, <4>1, <1>1, <1>4, <2>1 DEF IssuesInv
    <3>2. CASE k # i
      BY <3>2, <1>1, <1>4, <2>1 DEF IssuesInv
    <3> QED BY <3>1, <3>2
  <2> QED BY <2>2, <2>3, <2>4 DEF IssuesInv
<1>7. DeletionsInv'
  BY <1>1 DEF DataInv, DeletionsInv
<1>8. ASSUME NEW u \in Threads PROVE JobInv(job[u])'
  <2>1. JobInv(job[u]) /\ job[u] \in Job /\ job'[u] = job[u]
    BY <1>1, DataTypes DEF DataInv
  <2>2. \A k \in Issues :
            /\ issues[k].status \in {"submitted", "revoked"} =>
                  issues'[k].status \in {"submitted", "revoked"}
            /\ issues[k].status = "started" =>
                  issues'[k].status \in {"started", "submitted", "revoked"}
    BY <1>4
  <2>3. \A k \in Issues : issues[k].named => issues'[k].named
    <3>1. issues[i].named => issues[i].status # "none"
      BY DEF DataInv, IssuesInv
    <3> QED BY <1>4, <3>1
  <2>4. job[u].issues \subseteq Issues
    BY <2>1 DEF Job
  <2> QED BY <2>1, <2>2, <2>3, <2>4, <1>1, <1>2, JobKept
<1> QED BY <1>3, <1>5, <1>6, <1>7, <1>8 DEF DataInv

LEMMA CandidateKeeps ==
  ASSUME DataInv, NEW i \in Issues, Invite(i) \/ LogIn(i) \/ RevokeIssue(i)
  PROVE  DataInv'
<1>0. issues[i] \in Issue
  BY DataTypes
<1>1. CASE Invite(i)
  <2> DEFINE row == [status |-> "issued", named |-> TRUE, answers |-> FALSE]
  <2>1. row \in Issue /\ row.status = "issued" /\ row.named /\ ~row.answers
    BY DEF Issue
  <2>2. IssueChanges(i, row) /\ issues[i].status = "none"
    BY <1>1 DEF Invite
  <2> HIDE DEF row
  <2> QED BY <2>1, <2>2, IssueMoves
<1>2. ASSUME NEW later \in {"started", "revoked"},
             IssueChanges(i, [issues[i] EXCEPT !.status = later]),
             issues[i].status = "issued" \/ (issues[i].status = "started" /\ later = "revoked")
      PROVE  DataInv'
  <2> DEFINE row == [issues[i] EXCEPT !.status = later]
  <2>1. /\ row \in Issue /\ row.status = later /\ row.named = issues[i].named
        /\ row.answers = issues[i].answers
    BY <1>0 DEF Issue
  <2>2. IssueChanges(i, row)
    BY <1>2
  <2> HIDE DEF row
  <2> QED BY <2>1, <2>2, <1>2, IssueMoves
<1>3. CASE LogIn(i)
  BY <1>2, <1>3 DEF LogIn
<1>4. CASE RevokeIssue(i)
  BY <1>2, <1>4 DEF RevokeIssue
<1> QED BY <1>1, <1>3, <1>4

LEMMA ReceiveKeeps == ASSUME DataInv, NEW r \in Requests, Receive(r) PROVE DataInv'
<1> DEFINE row == [status |-> "received", verified |-> FALSE, notes |-> TRUE]
<1>1. /\ requests' = [requests EXCEPT ![r] = row] /\ UNCHANGED settingsVars
      /\ person' = person /\ issues' = issues /\ job' = job
      /\ due' = due /\ overlaps' = overlaps /\ requests[r].status = "none"
  BY DEF Receive
<1>2. lost' = lost
  BY <1>1 DEF settingsVars
<1>3. SettingsInv' /\ SettingsTypeOK'
  BY <1>1, SettingsStutter, DataTypes DEF SettingsInv
<1>4. row \in RequestRow /\ row.status = "received"
  BY DEF RequestRow
<1> HIDE DEF row
<1>5. /\ requests' \in [Requests -> RequestRow] /\ requests'[r] = row
      /\ \A k \in Requests \ {r} : requests'[k] = requests[k]
  BY <1>1, <1>4, DataTypes
<1>6. DataTypeOK'
  BY <1>1, <1>3, <1>5, DataTypes DEF DataTypeOK
<1>7. IssuesInv'
  BY <1>1 DEF DataInv, IssuesInv
<1>8. DeletionsInv'
  BY <1>1, <1>4, <1>5 DEF DataInv, DeletionsInv
<1>9. ASSUME NEW u \in Threads PROVE JobInv(job[u])'
  <2>1. JobInv(job[u]) /\ job[u] \in Job /\ job'[u] = job[u]
    BY <1>1, DataTypes DEF DataInv
  <2>2. job[u].request \subseteq Requests
    BY <2>1 DEF Job
  <2>3. \A k \in Requests : requests[k].verified /\ requests[k].status \in {"approved", "completed"} =>
            requests'[k].verified /\ requests'[k].status \in {"approved", "completed"}
    BY <1>1, <1>5
  <2> QED BY <2>1, <2>2, <2>3, <1>1, <1>2, JobKept
<1> QED BY <1>3, <1>6, <1>7, <1>8, <1>9 DEF DataInv

\* The commit of a job: its own knowledge goes, and that of the others is kept.
LEMMA JobEnds ==
  ASSUME DataInv, NEW t \in Threads, job' = [job EXCEPT ![t] = NoJob],
         UNCHANGED settingsVars,
         person' \in [named : BOOLEAN, active : BOOLEAN],
         issues' \in [Issues -> Issue], requests' \in [Requests -> RequestRow],
         due' \subseteq Issues, overlaps' \subseteq {"work", "update", "invite"},
         overlaps \subseteq overlaps', IssuesInv', DeletionsInv',
         \A i \in Issues :
            /\ issues[i].status \in {"submitted", "revoked"} =>
                  issues'[i].status \in {"submitted", "revoked"}
            /\ issues[i].status = "started" =>
                  issues'[i].status \in {"started", "submitted", "revoked"},
         \A u \in Threads \ {t} : job[u].op \in {"save", "submit"} =>
            \A i \in job[u].issues : issues[i].named => issues'[i].named \/ "work" \in overlaps',
         \A u \in Threads \ {t} : job[u].op = "execute" =>
            \A r \in job[u].request :
                \/ "update" \in overlaps'
                \/ requests[r].verified /\ requests[r].status \in {"approved", "completed"} =>
                      requests'[r].verified /\ requests'[r].status \in {"approved", "completed"}
  PROVE  DataInv'
<1>1. lost' = lost
  BY DEF settingsVars
<1>2. SettingsInv' /\ SettingsTypeOK'
  BY SettingsStutter, DataTypes DEF SettingsInv
<1>3. /\ job' \in [Threads -> Job] /\ job'[t] = NoJob
      /\ \A u \in Threads \ {t} : job'[u] = job[u]
  BY DataTypes, NoJobOK
<1>4. DataTypeOK'
  BY <1>2, <1>3 DEF DataTypeOK
<1>5. ASSUME NEW u \in Threads PROVE JobInv(job[u])'
  <2>1. CASE u = t
    BY <2>1, <1>3, JobGone
  <2>2. CASE u # t
    <3>1. JobInv(job[u]) /\ job[u] \in Job /\ job'[u] = job[u]
      BY <2>2, <1>3, DataTypes DEF DataInv
    <3> QED BY <3>1, <2>2, <1>1, JobKept
  <2> QED BY <2>1, <2>2
<1> QED BY <1>2, <1>4, <1>5 DEF DataInv

LEMMA JobFailsKeeps == ASSUME DataInv, NEW t \in Threads, JobFails(t) PROVE DataInv'
<1>1. /\ job' = [job EXCEPT ![t] = NoJob] /\ UNCHANGED settingsVars
      /\ person' = person /\ issues' = issues /\ requests' = requests
      /\ due' = due /\ overlaps' = overlaps
  BY DEF JobFails, dataRows
<1>2. IssuesInv' /\ DeletionsInv'
  BY <1>1 DEF DataInv, IssuesInv, DeletionsInv
<1> QED BY <1>1, <1>2, DataTypes, JobEnds

LEMMA WorkKeeps ==
  ASSUME DataInv, NEW t \in Threads, NEW i \in Issues, NEW op \in {"save", "submit"}, Work(t, i, op)
  PROVE  DataInv'
<1> DEFINE j == [NoJob EXCEPT !.op = op, !.issues = {i}]
<1>1. issues[i].status = "started" /\ BeginJob(t, j)
  BY DEF Work
<1>2. j \in Job /\ j.op = op /\ j.issues = {i}
  BY NoJobOK DEF Job, NoJob
<1>3. i \in Own => issues[i].named
  BY <1>1 DEF DataInv, IssuesInv
<1> HIDE DEF j
<1>4. JobInv(j)
  BY <1>1, <1>2, <1>3 DEF JobInv
<1> QED BY <1>1, <1>2, <1>4, JobBegins

LEMMA WorkCommitsKeeps == ASSUME DataInv, NEW t \in Threads, WorkCommits(t) PROVE DataInv'
<1> DEFINE j == job[t]
<1>1. /\ j.op \in {"save", "submit"}
      /\ issues' = [i \in Issues |->
           IF i \notin j.issues THEN issues[i]
           ELSE [issues[i] EXCEPT !.answers = TRUE,
                                  !.status = IF j.op = "submit" THEN "submitted" ELSE @]]
      /\ job' = [job EXCEPT ![t] = NoJob] /\ UNCHANGED settingsVars
      /\ person' = person /\ requests' = requests /\ due' = due /\ overlaps' = overlaps
  BY DEF WorkCommits
<1>2. \A i \in j.issues : /\ issues[i].status \in {"started", "submitted", "revoked"}
                          /\ i \in Own => issues[i].named \/ "work" \in overlaps
  BY <1>1 DEF DataInv, JobInv
<1>3. ASSUME NEW i \in Issues
      PROVE  /\ issues'[i] \in Issue
             /\ i \notin j.issues => issues'[i] = issues[i]
             /\ issues'[i].named = issues[i].named
             /\ i \in j.issues => issues'[i].answers
             /\ issues'[i].status = issues[i].status \/
                  (i \in j.issues /\ issues'[i].status = "submitted")
  <2>1. issues[i] \in Issue
    BY DataTypes
  <2>2. CASE i \notin j.issues
    BY <2>1, <2>2, <1>1
  <2>3. CASE i \in j.issues /\ j.op = "submit"
    <3>1. issues'[i] = [issues[i] EXCEPT !.answers = TRUE, !.status = "submitted"]
      BY <2>3, <1>1
    <3> QED BY <3>1, <2>1, <2>3 DEF Issue
  <2>4. CASE i \in j.issues /\ j.op # "submit"
    <3>1. issues'[i] = [issues[i] EXCEPT !.answers = TRUE, !.status = issues[i].status]
      BY <2>4, <1>1
    <3> QED BY <3>1, <2>1, <2>4 DEF Issue
  <2> QED BY <2>2, <2>3, <2>4
<1>4. issues' \in [Issues -> Issue]
  BY <1>1, <1>3
<1> HIDE DEF j
<1>5. IssuesInv'
  <2>1. IssuesInv /\ Own \subseteq Issues /\ due \subseteq Issues
    BY DataTypes DEF DataInv
  <2>2. ASSUME NEW i \in Issues PROVE issues'[i].named => issues'[i].status # "none"
    BY <2>1, <1>3 DEF IssuesInv
  <2>3. ASSUME NEW i \in Own
        PROVE  /\ issues'[i].status \in {"issued", "started"} => issues'[i].named
               /\ issues'[i].answers /\ ~issues'[i].named => "work" \in overlaps'
    <3>1. CASE i \in j.issues
      BY <3>1, <2>1, <1>1, <1>2, <1>3 DEF IssuesInv
    <3>2. CASE i \notin j.issues
      BY <3>2, <2>1, <1>1, <1>3 DEF IssuesInv
    <3> QED BY <3>1, <3>2
  <2>4. ASSUME NEW i \in due' \intersect Own
        PROVE  issues'[i].status # "none" /\ (issues'[i].named => "invite" \in overlaps')
    <3>1. i \in Issues /\ i \in due \intersect Own
      BY <2>1, <1>1
    <3>2. issues[i].status # "none" /\ (issues[i].named => "invite" \in overlaps)
      BY <3>1, <2>1 DEF IssuesInv
    <3>3. issues'[i].status # "none" /\ issues'[i].named = issues[i].named
      BY <3>1, <3>2, <1>3
    <3> QED BY <3>2, <3>3, <1>1
  <2> QED BY <2>2, <2>3, <2>4 DEF IssuesInv
<1>6. DeletionsInv'
  BY <1>1 DEF DataInv, DeletionsInv
<1>7. \A i \in Issues :
            /\ issues[i].status \in {"submitted", "revoked"} =>
                  issues'[i].status \in {"submitted", "revoked"}
            /\ issues[i].status = "started" =>
                  issues'[i].status \in {"started", "submitted", "revoked"}
  BY <1>3
<1>8. \A u \in Threads : job[u].issues \subseteq Issues
  BY DataTypes DEF Job
<1>9. \A u \in Threads : \A i \in job[u].issues : issues[i].named => issues'[i].named
  BY <1>3, <1>8
<1> QED BY <1>1, <1>4, <1>5, <1>6, <1>7, <1>9, DataTypes, JobEnds

-----------------------------------------------------------------------------
LEMMA UpdateRequestKeeps ==
  ASSUME DataInv, NEW t \in Threads, NEW r \in Requests, NEW act \in Acts, UpdateRequest(t, r, act)
  PROVE  DataInv'
<1> DEFINE j == [NoJob EXCEPT !.op = "update", !.request = {r}, !.act = act, !.row = requests[r]]
<1>1. /\ ~Closed(requests[r]) /\ BeginJob(t, j)
      /\ act = "approve" => requests[r].verified
  BY DEF UpdateRequest
<1>2. requests[r] \in RequestRow
  BY DataTypes
<1>3. j \in Job /\ j.op = "update" /\ j.act = act /\ j.row = requests[r]
  BY <1>2, NoJobOK DEF Job, NoJob
<1> HIDE DEF j
<1>4. JobInv(j)
  BY <1>1, <1>3 DEF JobInv
<1> QED BY <1>1, <1>3, <1>4, JobBegins

\* A step of a request leads to none of the states that an erasure brings about.
LEMMA StepOfRequest ==
  ASSUME NEW row \in RequestRow, NEW act \in Acts
  PROVE  /\ StatusAfter(row, act) \in {"received", "identity_verified", "in_review", "approved",
                                       "on_hold", "rejected"}
         /\ StatusAfter(row, act) = "approved" => act = "approve"
<1>1. act \in {"verify_identity", "start_review", "approve", "reject", "hold", "resume"}
  BY DEF Acts
<1>2. CASE act = "verify_identity"
  BY <1>2 DEF StatusAfter
<1>3. CASE act = "start_review"
  BY <1>3 DEF StatusAfter
<1>4. CASE act = "approve"
  BY <1>4 DEF StatusAfter
<1>5. CASE act = "reject"
  BY <1>5 DEF StatusAfter
<1>6. CASE act = "hold"
  BY <1>6 DEF StatusAfter
<1>7. CASE act = "resume"
  BY <1>7 DEF StatusAfter
<1> QED BY <1>1, <1>2, <1>3, <1>4, <1>5, <1>6, <1>7

LEMMA UpdatedRow ==
  ASSUME NEW row \in RequestRow, NEW loaded \in RequestRow, NEW act \in Acts,
         act = "approve" => loaded.verified, ~Closed(loaded)
  PROVE  /\ Updated(row, loaded, act) \in RequestRow
         /\ row = loaded =>
              /\ Updated(row, loaded, act).status # "completed"
              /\ Updated(row, loaded, act).status = "approved" =>
                    Updated(row, loaded, act).verified \/ row.status = "approved"
         /\ row.verified => Updated(row, loaded, act).verified
<1> DEFINE after == StatusAfter(loaded, act)
           state == IF after = loaded.status THEN row.status ELSE after
           verified == row.verified \/ act = "verify_identity"
<1>1. Updated(row, loaded, act) = [status |-> state, verified |-> verified, notes |-> loaded.notes]
  BY DEF Updated
<1>2. /\ after \in {"received", "identity_verified", "in_review", "approved", "on_hold", "rejected"}
      /\ after = "approved" => act = "approve"
  BY StepOfRequest
<1> HIDE DEF after
<1>3. verified \in BOOLEAN /\ (row.verified => verified)
  BY DEF RequestRow
<1>4. /\ state \in {"none", "received", "identity_verified", "in_review", "approved",
                     "on_hold", "rejected", "completed"}
      /\ row = loaded /\ state = "completed" => row.status = "completed"
      /\ state = "approved" => row.status = "approved" \/ act = "approve"
  BY <1>2 DEF RequestRow
<1>5. loaded.status # "completed"
  BY DEF Closed
<1> HIDE DEF state, verified
<1>6. Updated(row, loaded, act) \in RequestRow
  BY <1>1, <1>3, <1>4 DEF RequestRow
<1>7. Updated(row, loaded, act).status = state /\ Updated(row, loaded, act).verified = verified
  BY <1>1
<1> QED BY <1>3, <1>4, <1>5, <1>6, <1>7

\* What the commit of a step does to the requests, and which overlap it reports.
LEMMA UpdateCommitted ==
  ASSUME DataInv, NEW t \in Threads, UpdateCommits(t)
  PROVE  /\ requests' \in [Requests -> RequestRow]
         /\ overlaps \subseteq overlaps' /\ overlaps' \subseteq overlaps \union {"update"}
         /\ \A r \in Requests :
               \/ requests'[r] = requests[r]
               \/ "update" \in overlaps'
               \/ /\ ~Closed(requests[r]) /\ Executing(r) = {}
                  /\ requests'[r].status # "completed"
                  /\ requests'[r].status = "approved" =>
                       requests'[r].verified \/ requests[r].status = "approved"
                  /\ requests[r].verified => requests'[r].verified
<1> DEFINE j == job[t]
<1>1. /\ j.op = "update"
      /\ requests' = [r \in Requests |-> IF r \in j.request
                        THEN Updated(requests[r], j.row, j.act) ELSE requests[r]]
      /\ overlaps' = overlaps \union
           {o \in {"update"} : \E r \in j.request : requests[r] # j.row \/ Executing(r) # {}}
  BY DEF UpdateCommits
<1>2. /\ j.act \in Acts /\ ~Closed(j.row) /\ (j.act = "approve" => j.row.verified)
      /\ j.row \in RequestRow /\ j.request \subseteq Requests
  <2>1. JobInv(j) /\ j \in Job
    BY DataTypes DEF DataInv
  <2> QED BY <2>1, <1>1 DEF JobInv, Job
<1> HIDE DEF j
<1>3. ASSUME NEW r \in Requests
      PROVE  requests[r] \in RequestRow /\ Updated(requests[r], j.row, j.act) \in RequestRow
  BY <1>2, DataTypes, UpdatedRow
<1>4. requests' \in [Requests -> RequestRow]
  BY <1>1, <1>3
<1>5. ASSUME NEW r \in Requests, requests'[r] # requests[r], "update" \notin overlaps'
      PROVE  /\ ~Closed(requests[r]) /\ Executing(r) = {}
             /\ requests'[r].status # "completed"
             /\ requests'[r].status = "approved" =>
                  requests'[r].verified \/ requests[r].status = "approved"
             /\ requests[r].verified => requests'[r].verified
  <2>1. r \in j.request /\ requests'[r] = Updated(requests[r], j.row, j.act)
    BY <1>1, <1>5
  <2>2. requests[r] = j.row /\ Executing(r) = {}
    BY <2>1, <1>1, <1>5
  <2> QED BY <2>1, <2>2, <1>2, <1>3, UpdatedRow
<1>6. overlaps \subseteq overlaps' /\ overlaps' \subseteq overlaps \union {"update"}
  BY <1>1
<1> QED BY <1>4, <1>5, <1>6

LEMMA UpdateCommitsKeeps == ASSUME DataInv, NEW t \in Threads, UpdateCommits(t) PROVE DataInv'
<1>1. /\ job' = [job EXCEPT ![t] = NoJob] /\ UNCHANGED settingsVars
      /\ person' = person /\ issues' = issues /\ due' = due
  BY DEF UpdateCommits
<1>2. /\ requests' \in [Requests -> RequestRow]
      /\ overlaps \subseteq overlaps' /\ overlaps' \subseteq overlaps \union {"update"}
      /\ \A r \in Requests :
            \/ requests'[r] = requests[r]
            \/ "update" \in overlaps'
            \/ /\ ~Closed(requests[r]) /\ Executing(r) = {}
               /\ requests'[r].status # "completed"
               /\ requests'[r].status = "approved" =>
                    requests'[r].verified \/ requests[r].status = "approved"
               /\ requests[r].verified => requests'[r].verified
  BY UpdateCommitted
<1>3. IssuesInv'
  BY <1>1, <1>2 DEF DataInv, IssuesInv
<1>4. DeletionsInv'
  <2> SUFFICES ASSUME NEW r \in Requests, "update" \notin overlaps'
               PROVE  /\ ~(requests'[r].status = "completed" /\ requests'[r].notes)
                      /\ requests'[r].status = "approved" => requests'[r].verified
    BY DEF DeletionsInv
  <2>1. /\ ~(requests[r].status = "completed" /\ requests[r].notes)
        /\ requests[r].status = "approved" => requests[r].verified
    BY <1>2 DEF DataInv, DeletionsInv
  <2> QED BY <2>1, <1>2
<1>5. ASSUME NEW u \in Threads, job[u].op = "execute", NEW r \in job[u].request,
             "update" \notin overlaps',
             requests[r].verified, requests[r].status \in {"approved", "completed"}
      PROVE  requests'[r].verified /\ requests'[r].status \in {"approved", "completed"}
  <2>1. r \in Requests
    BY DataTypes DEF Job
  <2>2. u \in Executing(r)
    BY <1>5 DEF Executing
  <2> QED BY <2>1, <2>2, <1>2, <1>5
<1> QED BY <1>1, <1>2, <1>3, <1>4, <1>5, DataTypes, JobEnds

-----------------------------------------------------------------------------
LEMMA ExecuteKeeps ==
  ASSUME DataInv, NEW t \in Threads, NEW r \in Requests, Execute(t, r)
  PROVE  DataInv'
<1> DEFINE gone == {i \in Own : issues[i].named}
           j == [NoJob EXCEPT !.op = "execute", !.request = {r}, !.person = person.named,
                              !.issues = gone, !.freely = ~ordered]
<1>1. /\ requests[r].status = "approved" /\ ~settings.hold /\ ~Refused
      /\ BeginJob(t, j)
  BY DEF Execute, Blocked
<1>2. person.named \in BOOLEAN /\ (~ordered) \in BOOLEAN /\ gone \subseteq Issues
  BY DataTypes DEF SettingsTypeOK
<1>3. \A i \in gone : i \in Own /\ issues[i].status \in {"submitted", "revoked"}
  <2> SUFFICES ASSUME NEW i \in gone PROVE issues[i].status \in {"submitted", "revoked"}
    OBVIOUS
  <2>1. issues[i] \in Issue /\ issues[i].status # "none"
    BY DataTypes DEF DataInv, IssuesInv
  <2>2. issues[i].status \notin {"issued", "started"}
    BY <1>1 DEF Refused
  <2> QED BY <2>1, <2>2 DEF Issue
<1> HIDE DEF gone
<1>4. /\ j \in Job /\ j.op = "execute" /\ j.request = {r} /\ j.issues = gone
      /\ j.freely = ~ordered
  BY <1>2, NoJobOK DEF Job, NoJob
<1>5. ~ordered \/ lost
  <2>1. settings.hold \in BOOLEAN /\ ordered \in BOOLEAN
    BY DataTypes DEF SettingsTypeOK, Settings
  <2> QED BY <2>1, <1>1 DEF DataInv, SettingsInv, HoldStands
<1>6. "update" \in overlaps \/ requests[r].verified
  BY <1>1 DEF DataInv, DeletionsInv
<1> HIDE DEF j
<1>7. JobInv(j)
  BY <1>1, <1>3, <1>4, <1>5, <1>6 DEF JobInv
<1> QED BY <1>1, <1>4, <1>7, JobBegins

LEMMA RetainKeeps ==
  ASSUME DataInv, NEW t \in Threads, NEW period \in SUBSET (Own \union {"person"}), Retain(t, period)
  PROVE  DataInv'
<1> DEFINE gone == {i \in Own \intersect period :
                       issues[i].named /\ issues[i].status \in {"submitted", "revoked"}}
           whom == "person" \in period /\ ~person.active
           j == [NoJob EXCEPT !.op = "retain", !.person = whom, !.issues = gone, !.freely = ~ordered]
<1>1. ~settings.hold /\ BeginJob(t, j)
  BY DEF Retain, Blocked
<1>2. whom \in BOOLEAN /\ (~ordered) \in BOOLEAN /\ gone \subseteq Issues
  BY DataTypes DEF SettingsTypeOK
<1>3. \A i \in gone : i \in Own /\ issues[i].status \in {"submitted", "revoked"}
  OBVIOUS
<1> HIDE DEF gone, whom
<1>4. /\ j \in Job /\ j.op = "retain" /\ j.request = {} /\ j.issues = gone
      /\ j.freely = ~ordered
  BY <1>2, NoJobOK DEF Job, NoJob
<1>5. ~ordered \/ lost
  <2>1. settings.hold \in BOOLEAN /\ ordered \in BOOLEAN
    BY DataTypes DEF SettingsTypeOK, Settings
  <2> QED BY <2>1, <1>1 DEF DataInv, SettingsInv, HoldStands
<1> HIDE DEF j
<1>6. JobInv(j)
  BY <1>1, <1>3, <1>4, <1>5 DEF JobInv
<1> QED BY <1>1, <1>4, <1>6, JobBegins

\* What an erasure does to the rows and which overlaps it reports.
LEMMA EraseDoes ==
  ASSUME DataInv, NEW t \in Threads, Erase(t)
  PROVE  /\ job[t].op \in {"execute", "retain"}
         /\ issues' \in [Issues -> Issue] /\ requests' \in [Requests -> RequestRow]
         /\ \A i \in job[t].issues \intersect Issues :
               ~issues'[i].named /\ ~issues'[i].answers /\ issues'[i].status = issues[i].status
         /\ \A i \in Issues \ job[t].issues : issues'[i] = issues[i]
         /\ \A r \in job[t].request \intersect Requests :
               /\ requests'[r].status = "completed" /\ ~requests'[r].notes
               /\ requests'[r].verified = requests[r].verified
         /\ \A r \in Requests \ job[t].request : requests'[r] = requests[r]
<1> DEFINE j == job[t]
<1>1. /\ j.op \in {"execute", "retain"}
      /\ issues' = [i \in Issues |-> Erased(i, j.issues)]
      /\ requests' = [r \in Requests |-> IF r \in j.request
                        THEN [requests[r] EXCEPT !.status = "completed", !.notes = FALSE]
                        ELSE requests[r]]
  BY DEF Erase
<1> HIDE DEF j
<1>2. ASSUME NEW i \in Issues
      PROVE  /\ issues'[i] \in Issue
             /\ i \in j.issues => ~issues'[i].named /\ ~issues'[i].answers
                                  /\ issues'[i].status = issues[i].status
             /\ i \notin j.issues => issues'[i] = issues[i]
  <2>1. issues[i] \in Issue
    BY DataTypes
  <2>2. CASE i \in j.issues
    <3>1. issues'[i] = [issues[i] EXCEPT !.named = FALSE, !.answers = FALSE]
      BY <2>2, <1>1 DEF Erased
    <3> QED BY <3>1, <2>1, <2>2 DEF Issue
  <2>3. CASE i \notin j.issues
    BY <2>1, <2>3, <1>1 DEF Erased
  <2> QED BY <2>2, <2>3
<1>3. ASSUME NEW r \in Requests
      PROVE  /\ requests'[r] \in RequestRow
             /\ r \in j.request => /\ requests'[r].status = "completed" /\ ~requests'[r].notes
                                   /\ requests'[r].verified = requests[r].verified
             /\ r \notin j.request => requests'[r] = requests[r]
  <2>1. requests[r] \in RequestRow
    BY DataTypes
  <2>2. CASE r \in j.request
    <3>1. requests'[r] = [requests[r] EXCEPT !.status = "completed", !.notes = FALSE]
      BY <2>2, <1>1
    <3> QED BY <3>1, <2>1, <2>2 DEF RequestRow
  <2>3. CASE r \notin j.request
    BY <2>1, <2>3, <1>1
  <2> QED BY <2>2, <2>3
<1>4. issues' \in [Issues -> Issue] /\ requests' \in [Requests -> RequestRow]
  BY <1>1, <1>2, <1>3
<1>5. j = job[t]
  BY DEF j
<1> QED BY <1>1, <1>2, <1>3, <1>4, <1>5

LEMMA EraseKeeps == ASSUME DataInv, NEW t \in Threads, Erase(t) PROVE DataInv'
<1> DEFINE j == job[t]
           work == {o \in {"work"} : \E u \in Others(t, {"save", "submit"}) : job[u].issues \intersect j.issues # {}}
           update == {o \in {"update"} : \E u \in Others(t, {"update"}) : job[u].request \intersect j.request # {}}
           invite == {o \in {"invite"} : j.op = "execute" /\ \E i \in Own \ j.issues : issues[i].named}
<1>1. /\ job' = [job EXCEPT ![t] = NoJob] /\ UNCHANGED settingsVars
      /\ person' = [person EXCEPT !.named = @ /\ ~j.person]
      /\ due' = IF j.op = "execute" THEN due \union {i \in Issues : issues[i].status # "none"} ELSE due
      /\ overlaps' = overlaps \union work \union update \union invite
  BY DEF Erase
<1>2. /\ j.op \in {"execute", "retain"}
      /\ issues' \in [Issues -> Issue] /\ requests' \in [Requests -> RequestRow]
      /\ \A i \in j.issues \intersect Issues :
            ~issues'[i].named /\ ~issues'[i].answers /\ issues'[i].status = issues[i].status
      /\ \A i \in Issues \ j.issues : issues'[i] = issues[i]
      /\ \A r \in j.request \intersect Requests :
            /\ requests'[r].status = "completed" /\ ~requests'[r].notes
            /\ requests'[r].verified = requests[r].verified
      /\ \A r \in Requests \ j.request : requests'[r] = requests[r]
  BY EraseDoes
<1>3. /\ j.issues \subseteq Own /\ Own \subseteq Issues
      /\ \A i \in j.issues : issues[i].status \in {"submitted", "revoked"}
  BY <1>2, DataTypes DEF DataInv, JobInv
<1>4. person' \in [named : BOOLEAN, active : BOOLEAN]
  <2>1. (person.named /\ ~j.person) \in BOOLEAN /\ person \in [named : BOOLEAN, active : BOOLEAN]
    BY DataTypes
  <2>2. person' = [person EXCEPT !.named = (person.named /\ ~j.person)]
    BY <1>1
  <2> HIDE DEF j
  <2> QED BY <2>1, <2>2
<1>5. /\ overlaps \subseteq overlaps' /\ overlaps' \subseteq {"work", "update", "invite"}
      /\ due' \subseteq Issues
  BY <1>1, DataTypes
<1>6. ASSUME NEW u \in Threads \ {t}, job[u].op \in {"save", "submit"}, NEW i \in job[u].issues,
             issues[i].named
      PROVE  issues'[i].named \/ "work" \in overlaps'
  <2>1. i \in Issues
    BY DataTypes DEF Job
  <2>2. CASE i \in j.issues
    <3>1. u \in Others(t, {"save", "submit"})
      BY <1>6 DEF Others
    <3> QED BY <3>1, <2>2, <1>1
  <2>3. CASE i \notin j.issues
    BY <2>1, <2>3, <1>2, <1>6
  <2> QED BY <2>2, <2>3
<1>7. \A i \in Own \ j.issues : j.op = "execute" /\ issues[i].named => "invite" \in overlaps'
  BY <1>1
<1> HIDE DEF j, work, update, invite
<1>8. IssuesInv'
  <2>1. IssuesInv
    BY DEF DataInv
  <2>2. ASSUME NEW i \in Issues PROVE issues'[i].named => issues'[i].status # "none"
    BY <2>1, <1>2 DEF IssuesInv
  <2>3. ASSUME NEW i \in Own
        PROVE  /\ issues'[i].status \in {"issued", "started"} => issues'[i].named
               /\ issues'[i].answers /\ ~issues'[i].named => "work" \in overlaps'
    <3>1. CASE i \in j.issues
      BY <3>1, <1>2, <1>3
    <3>2. CASE i \notin j.issues
      BY <3>2, <2>1, <1>2, <1>3, <1>5 DEF IssuesInv
    <3> QED BY <3>1, <3>2
  <2>4. ASSUME NEW i \in due' \intersect Own
        PROVE  issues'[i].status # "none" /\ (issues'[i].named => "invite" \in overlaps')
    <3>1. issues[i].status # "none"
      BY <2>1, <1>1 DEF IssuesInv
    <3>2. CASE i \in j.issues
      BY <3>1, <3>2, <1>2, <1>3
    <3>3. CASE i \notin j.issues /\ i \in due
      <4>1. issues'[i] = issues[i] /\ (issues[i].named => "invite" \in overlaps)
        BY <3>3, <2>1, <1>2, <1>3 DEF IssuesInv
      <4> QED BY <4>1, <3>1, <1>5
    <3>4. CASE i \notin j.issues /\ i \notin due
      <4>1. j.op = "execute" /\ issues'[i] = issues[i]
        BY <3>4, <1>1, <1>2, <1>3
      <4> QED BY <4>1, <3>1, <3>4, <1>7
    <3> QED BY <3>2, <3>3, <3>4
  <2> QED BY <2>2, <2>3, <2>4 DEF IssuesInv
<1>9. DeletionsInv'
  <2> SUFFICES ASSUME NEW r \in Requests
               PROVE  /\ requests'[r].status = "completed" /\ requests'[r].notes => "update" \in overlaps'
                      /\ requests'[r].status = "approved" => requests'[r].verified \/ "update" \in overlaps'
    BY DEF DeletionsInv
  <2>1. CASE r \in j.request
    BY <2>1, <1>2
  <2>2. CASE r \notin j.request
    BY <2>2, <1>2, <1>5 DEF DataInv, DeletionsInv
  <2> QED BY <2>1, <2>2
<1>10. \A i \in Issues :
            /\ issues[i].status \in {"submitted", "revoked"} =>
                  issues'[i].status \in {"submitted", "revoked"}
            /\ issues[i].status = "started" =>
                  issues'[i].status \in {"started", "submitted", "revoked"}
  BY <1>2
<1>11. \A r \in Requests : requests[r].verified /\ requests[r].status \in {"approved", "completed"} =>
            requests'[r].verified /\ requests'[r].status \in {"approved", "completed"}
  BY <1>2
<1>12. \A u \in Threads : job[u].request \subseteq Requests
  BY DataTypes DEF Job
<1> QED BY <1>1, <1>2, <1>4, <1>5, <1>6, <1>8, <1>9, <1>10, <1>11, <1>12, JobEnds

-----------------------------------------------------------------------------
LEMMA DataUnderSettings ==
  ASSUME DataInv, SettingsInv', lost => lost', UNCHANGED <<dataRows, job, due, overlaps>>
  PROVE  DataInv'
<1>1. /\ person' = person /\ issues' = issues /\ requests' = requests /\ job' = job
      /\ due' = due /\ overlaps' = overlaps
  BY DEF dataRows
<1>2. DataTypeOK'
  BY <1>1, DataTypes DEF DataTypeOK, SettingsInv
<1>3. IssuesInv' /\ DeletionsInv'
  BY <1>1 DEF DataInv, IssuesInv, DeletionsInv
<1>4. ASSUME NEW u \in Threads PROVE JobInv(job[u])'
  <2>1. JobInv(job[u]) /\ job[u] \in Job /\ job'[u] = job[u]
    BY <1>1, DataTypes DEF DataInv
  <2> QED BY <2>1, <1>1, JobKept
<1> QED BY <1>2, <1>3, <1>4 DEF DataInv

\* A value that was lost is not found again.
LEMMA LostStays == ASSUME SettingsInv, SettingsNext PROVE lost => lost'
  BY DEF SettingsNext, HoldNext, UpdateProfile, BrandCompany, ActivateAssess, OtherKey, Operate,
         Configure, SamlLogin, Govern, Load, Write, WriteFails

LEMMA DataStep == ASSUME DataInv, DataNext PROVE DataInv'
<1>1. CASE HoldNext /\ UNCHANGED <<dataRows, job, due, overlaps>>
  <2>1. SettingsInv /\ SettingsNext
    BY <1>1, DataTypes DEF SettingsNext
  <2> QED BY <1>1, <2>1, HoldStep, LostStays, DataUnderSettings
<1> QED BY <1>1, ApplyKeeps, CandidateKeeps, ReceiveKeeps, WorkKeeps, WorkCommitsKeeps,
           UpdateRequestKeeps, UpdateCommitsKeeps, ExecuteKeeps, RetainKeeps, EraseKeeps,
           JobFailsKeeps DEF DataNext

LEMMA DataStutter == ASSUME DataInv, UNCHANGED dataVars PROVE DataInv'
<1>1. UNCHANGED settingsVars /\ UNCHANGED <<dataRows, job, due, overlaps>>
  BY DEF dataVars
<1>2. lost' = lost
  BY <1>1 DEF settingsVars
<1> QED BY <1>1, <1>2, SettingsStutter, DataTypes, DataUnderSettings

LEMMA DataInvHolds == DataInv => DataTypeOK /\ ErasedForGood
<1> SUFFICES ASSUME DataInv PROVE DataTypeOK /\ ErasedForGood
  OBVIOUS
<1>1. IssuesInv /\ DeletionsInv /\ DataTypeOK
  BY DEF DataInv
<1>2. ASSUME NEW i \in due \intersect Own
      PROVE  /\ issues[i].named => "invite" \in overlaps
             /\ issues[i].answers => overlaps \intersect {"invite", "work"} # {}
  BY <1>1 DEF IssuesInv
<1> QED BY <1>1, <1>2 DEF ErasedForGood, DeletionsInv

\* An erasure that is committed knew of no hold.
LEMMA HoldProtectsStep ==
  ASSUME DataInv, NEW t \in Threads, job[t].op \in {"execute", "retain"}
  PROVE  job[t].freely \/ lost
  BY DEF DataInv, JobInv

\* The steps of a request are taken in turn.
LEMMA RequestsStep ==
  ASSUME DataInv, DataNext, NEW r \in Requests, requests'[r].status # requests[r].status,
         "update" \notin overlaps'
  PROVE  /\ ~Closed(requests[r])
         /\ requests'[r].status = "completed" =>
              requests[r].status = "approved" /\ requests[r].verified
<1>1. ASSUME NEW k \in Requests, Receive(k)
      PROVE  requests[r].status = "none" /\ requests'[r].status = "received"
  BY <1>1, DataTypes DEF Receive
<1>2. ASSUME NEW t \in Threads, UpdateCommits(t)
      PROVE  ~Closed(requests[r]) /\ requests'[r].status # "completed"
  BY <1>2, UpdateCommitted
<1>3. ASSUME NEW t \in Threads, Erase(t)
      PROVE  /\ ~Closed(requests[r])
             /\ requests[r].status = "approved" /\ requests[r].verified
  <2>1. /\ job[t].op \in {"execute", "retain"} /\ r \in job[t].request
        /\ requests'[r].status = "completed"
    BY <1>3, EraseDoes
  <2>2. "update" \notin overlaps
    BY <1>3 DEF Erase
  <2>3. requests[r].verified /\ requests[r].status \in {"approved", "completed"}
    BY <2>1, <2>2 DEF DataInv, JobInv
  <2> QED BY <2>1, <2>3 DEF Closed
<1>4. CASE requests' = requests
  BY <1>4
<1> QED BY <1>1, <1>2, <1>3, <1>4
        DEF DataNext, Closed, Apply, CandidateOnly, Invite, LogIn, RevokeIssue, IssueChanges,
            Work, WorkCommits, Execute, UpdateRequest, Retain, BeginJob, JobFails, dataRows

-----------------------------------------------------------------------------
(* The accounts of one person. *)

Columns == {"email", "name", "state", "approval"}
Words == {"address", "tomb", "registered", "token", "active", "frozen", "banned", "deleted",
          "approved", "withheld"}
ColumnSets == UNION {[cols -> Words] : cols \in SUBSET Columns}

AdminOps == {"active", "freeze", "ban", "delete", "decide"}
SignInOps == {"request", "context"}
RowOps == SignInOps \union AdminOps \union {"register"}

Call == [op : RowOps \union {"idle", "unknown", "create", "provision", "company"},
         for : {"none", "request", "context"}, row : Nat, set : ColumnSets,
         seen : {"none", "active", "frozen", "banned", "deleted"},
         ban : {"none", "address", "tomb"}, barred : BOOLEAN]

\* The columns a request writes, and what it writes to them.
SetOf(j) ==
    /\ j.op \in SignInOps => DOMAIN j.set \subseteq {"name"}
    /\ j.op \in {"active", "freeze", "ban", "decide"} => DOMAIN j.set \subseteq {"state", "approval"}
    /\ j.op = "register" => DOMAIN j.set \subseteq {"email", "name", "approval"}
    /\ "email" \in DOMAIN j.set => j.set["email"] = IF j.op = "delete" THEN "tomb" ELSE "address"
    /\ "name" \in DOMAIN j.set =>
          j.set["name"] = IF j.op = "delete" THEN "tomb"
                          ELSE IF j.op = "register" THEN "registered" ELSE "token"
    /\ "state" \in DOMAIN j.set =>
          /\ j.set["state"] \in {"active", "frozen", "banned", "deleted"}
          /\ j.set["state"] = "active" => j.op = "active"
          /\ j.set["state"] = "deleted" => j.op = "delete"
    /\ "approval" \in DOMAIN j.set => j.set["approval"] \in {"approved", "withheld"}

\* While no name was written over a deletion: a deletion leaves neither name
\* nor address, and a registration that brings an address brings a name as well.
NameKept(j) ==
    /\ j.op = "delete" =>
          /\ "email" \notin DOMAIN j.set => rows[j.row].email = "tomb"
          /\ "name" \notin DOMAIN j.set => rows[j.row].name = "tomb"
    /\ j.op = "register" /\ "email" \in DOMAIN j.set =>
          "name" \in DOMAIN j.set /\ rows[j.row].name = "tomb"

\* A sign-in that began under the ban found no account that is active, and
\* makes none.
CallInv(j) ==
    /\ j \in Call
    /\ j.op \in RowOps => j.row \in DOMAIN rows
    /\ SetOf(j)
    /\ "name" \notin races => NameKept(j)
    /\ j.barred => barred
    /\ j.barred => j.op \in SignInOps \union {"unknown"}
    /\ j.barred /\ j.op \in SignInOps /\ "address" \notin races =>
          j.seen # "active" /\ rows[j.row].state # "active"

AccountsInv ==
    /\ AccountsTypeOK /\ OneAccount /\ BannedStaysOut
    /\ \A b \in bans : b.row \in DOMAIN rows
    /\ barred => AddressBanned
    /\ barred /\ "address" \notin races =>
          /\ \A r \in Holding : rows[r].state # "active"
          /\ \E b \in bans : b.email = "address" /\ rows[b.row].state # "active"
    /\ "name" \notin races => \A r \in DOMAIN rows :
          /\ rows[r].email = "tomb" => rows[r].name = "tomb"
          /\ rows[r].state = "deleted" => rows[r].email = "tomb"
    /\ client \in [Clients -> Call] /\ \A c \in Clients : CallInv(client[c])

LEMMA ColumnSetsHave ==
  /\ \A cols \in SUBSET Columns : \A f \in [cols -> Words] : f \in ColumnSets
  /\ \A f \in ColumnSets : DOMAIN f \subseteq Columns /\ \A col \in DOMAIN f : f[col] \in Words
  BY DEF ColumnSets

\* What a request writes of a row that it has changed.
LEMMA ChangesOfRow ==
  ASSUME NEW old \in Row, NEW new \in Row
  PROVE  /\ Changes(old, new) \in ColumnSets
         /\ \A col \in Columns : col \in DOMAIN Changes(old, new) <=> old[col] # new[col]
         /\ \A col \in DOMAIN Changes(old, new) : Changes(old, new)[col] = new[col]
<1> DEFINE cols == {col \in DOMAIN old : new[col] # old[col]}
<1>1. Changes(old, new) = [col \in cols |-> new[col]]
  BY DEF Changes
<1>2. DOMAIN old = Columns /\ \A col \in Columns : new[col] \in Words
  BY DEF Row, Columns, Words
<1>3. cols \subseteq Columns
  BY <1>2
<1>4. [col \in cols |-> new[col]] \in [cols -> Words]
  BY <1>2, <1>3
<1>5. Changes(old, new) \in ColumnSets
  BY <1>1, <1>3, <1>4, ColumnSetsHave
<1> QED BY <1>1, <1>2, <1>5

LEMMA NoChangesOK == NoChanges \in ColumnSets /\ DOMAIN NoChanges = {}
<1>1. NoChanges \in [{} -> Words]
  BY DEF NoChanges
<1> QED BY <1>1, ColumnSetsHave DEF NoChanges

\* Columns that are written get what is written, the others stay.
LEMMA UpdateOfRow ==
  ASSUME NEW row \in Row, NEW set \in ColumnSets,
         "email" \in DOMAIN set => set["email"] \in {"address", "tomb"},
         "name" \in DOMAIN set => set["name"] \in {"registered", "token", "tomb"},
         "state" \in DOMAIN set => set["state"] \in {"active", "frozen", "banned", "deleted"},
         "approval" \in DOMAIN set => set["approval"] \in {"approved", "withheld"}
  PROVE  /\ Update(row, set) \in Row
         /\ Update(row, set).email = IF "email" \in DOMAIN set THEN set["email"] ELSE row.email
         /\ Update(row, set).name = IF "name" \in DOMAIN set THEN set["name"] ELSE row.name
         /\ Update(row, set).state = IF "state" \in DOMAIN set THEN set["state"] ELSE row.state
<1> DEFINE email == IF "email" \in DOMAIN set THEN set["email"] ELSE row.email
           name == IF "name" \in DOMAIN set THEN set["name"] ELSE row.name
           state == IF "state" \in DOMAIN set THEN set["state"] ELSE row.state
           approval == IF "approval" \in DOMAIN set THEN set["approval"] ELSE row.approval
<1>1. DOMAIN row = Columns
  BY DEF Row, Columns
<1>2. Update(row, set) = [col \in Columns |-> IF col \in DOMAIN set THEN set[col] ELSE row[col]]
  BY <1>1 DEF Update
<1>3. /\ Update(row, set)["email"] = email /\ Update(row, set)["name"] = name
      /\ Update(row, set)["state"] = state /\ Update(row, set)["approval"] = approval
  BY <1>2 DEF Columns
<1>4. Update(row, set) = [email |-> email, name |-> name, state |-> state, approval |-> approval]
  BY <1>2, <1>3 DEF Columns
<1>5. email \in {"address", "tomb"} /\ name \in {"registered", "token", "tomb"}
      /\ state \in {"active", "frozen", "banned", "deleted"} /\ approval \in {"approved", "withheld"}
  BY DEF Row
<1> HIDE DEF email, name, state, approval
<1>6. Update(row, set) \in Row
  BY <1>4, <1>5 DEF Row
<1>7. Update(row, set).email = email /\ Update(row, set).name = name /\ Update(row, set).state = state
  BY <1>4
<1> QED BY <1>6, <1>7 DEF email, name, state

LEMMA NoCallOK == NoCall \in Call /\ NoCall.op = "idle" /\ ~NoCall.barred
  BY NoChangesOK DEF NoCall, Call

LEMMA NoCallInv == CallInv(NoCall)
<1>1. NoCall \in Call /\ NoCall.op = "idle" /\ ~NoCall.barred /\ DOMAIN NoCall.set = {}
  BY NoCallOK, NoChangesOK DEF NoCall
<1>2. SetOf(NoCall) /\ NameKept(NoCall)
  BY <1>1 DEF SetOf, NameKept, SignInOps
<1> QED BY <1>1, <1>2 DEF CallInv, RowOps, SignInOps, AdminOps

LEMMA AccountsStart == AccountsInit => AccountsInv
<1> SUFFICES ASSUME AccountsInit PROVE AccountsInv
  OBVIOUS
<1>1. /\ rows = <<>> /\ identity \in BOOLEAN /\ bans = {} /\ acts = 0
      /\ client = [c \in Clients |-> NoCall]
      /\ barred = FALSE /\ entered = FALSE /\ races = {}
  BY DEF AccountsInit
<1>2. rows \in Seq(Row) /\ Len(rows) = 0 /\ DOMAIN rows = {}
  BY <1>1
<1>3. AccountsTypeOK
  <2>1. 0 \in 0..MaxActs /\ Len(rows) <= MaxRows
    BY <1>2, AccountsAssumption
  <2>2. {identity, barred, entered} \subseteq BOOLEAN /\ races \subseteq {"name", "address"}
    BY <1>1
  <2>3. bans \subseteq [row : 1..MaxRows, email : {"address", "tomb"}]
    BY <1>1
  <2> QED BY <1>1, <1>2, <2>1, <2>2, <2>3 DEF AccountsTypeOK
<1>4. OneAccount /\ BannedStaysOut
  BY <1>1, <1>2 DEF OneAccount, Holding, BannedStaysOut
<1>5. client \in [Clients -> Call] /\ \A c \in Clients : CallInv(client[c])
  BY <1>1, NoCallOK, NoCallInv
<1> QED BY <1>1, <1>2, <1>3, <1>4, <1>5 DEF AccountsInv

LEMMA AccountTypes ==
  ASSUME AccountsInv
  PROVE  /\ rows \in Seq(Row) /\ Len(rows) \in 0..MaxRows /\ DOMAIN rows = 1..Len(rows)
         /\ \A r \in DOMAIN rows : rows[r] \in Row
         /\ bans \subseteq [row : 1..MaxRows, email : {"address", "tomb"}]
         /\ acts \in 0..MaxActs /\ identity \in BOOLEAN /\ barred \in BOOLEAN /\ entered \in BOOLEAN
         /\ races \subseteq {"name", "address"}
         /\ client \in [Clients -> Call]
<1>1. AccountsTypeOK /\ client \in [Clients -> Call]
  BY DEF AccountsInv
<1>2. rows \in Seq(Row) /\ Len(rows) <= MaxRows
  BY <1>1 DEF AccountsTypeOK
<1>3. Len(rows) \in Nat /\ DOMAIN rows = 1..Len(rows) /\ MaxRows \in Nat
  BY <1>2, AccountsAssumption
<1>4. \A r \in DOMAIN rows : rows[r] \in Row
  BY <1>2
<1>5. Len(rows) \in 0..MaxRows
  BY <1>2, <1>3
<1> QED BY <1>1, <1>2, <1>3, <1>4, <1>5 DEF AccountsTypeOK

-----------------------------------------------------------------------------
\* A request turns to something else, and no row changes.
LEMMA CallTurns ==
  ASSUME AccountsInv, NEW c \in Clients, NEW j \in Call, CallInv(j),
         client' = [client EXCEPT ![c] = j], UNCHANGED <<rows, bans, barred, entered, races>>,
         identity' \in BOOLEAN, acts' \in 0..MaxActs
  PROVE  AccountsInv'
<1>1. /\ client' \in [Clients -> Call] /\ client'[c] = j
      /\ \A q \in Clients \ {c} : client'[q] = client[q]
  BY AccountTypes
<1>2. ASSUME NEW q \in Clients PROVE CallInv(client[q])'
  <2>1. CallInv(client'[q])
    <3>1. CASE q = c
      BY <3>1, <1>1
    <3>2. CASE q # c
      <4>1. CallInv(client[q]) /\ client'[q] = client[q]
        BY <3>2, <1>1 DEF AccountsInv
      <4> QED BY <4>1
    <3> QED BY <3>1, <3>2
  <2> QED BY <2>1 DEF CallInv, SetOf, NameKept
<1>3. AccountsTypeOK'
  BY DEF AccountsInv, AccountsTypeOK
<1>4. OneAccount' /\ BannedStaysOut'
  BY DEF AccountsInv, OneAccount, BannedStaysOut, Holding
<1> QED BY <1>1, <1>2, <1>3, <1>4 DEF AccountsInv, AddressBanned, Holding

LEMMA CallEnds ==
  ASSUME AccountsInv, NEW c \in Clients, Ends(c), UNCHANGED <<rows, bans, barred, entered, races>>,
         identity' \in BOOLEAN, acts' \in 0..MaxActs
  PROVE  AccountsInv'
  BY CallTurns, NoCallOK, NoCallInv DEF Ends

LEMMA CallStarts ==
  ASSUME AccountsInv, NEW c \in Clients, NEW j \in Call, CallInv(j), Starts(c, j),
         identity' \in BOOLEAN, acts' \in 0..MaxActs
  PROVE  AccountsInv'
  BY CallTurns DEF Starts

-----------------------------------------------------------------------------
\* A sign-in that finds a row.
LEMMA FoundRow ==
  ASSUME AccountsInv, NEW c \in Clients, NEW op \in SignInOps, NEW r \in Holding,
         NEW began \in BOOLEAN, began => barred
  PROVE  LET j == [Found(c, op, r) EXCEPT !.barred = began] IN j \in Call /\ CallInv(j)
<1> DEFINE j == [Found(c, op, r) EXCEPT !.barred = began]
           new == [rows[r] EXCEPT !.name = "token"]
           set == Changes(rows[r], new)
<1>1. r \in DOMAIN rows /\ rows[r].email = "address" /\ rows[r] \in Row /\ r \in Nat
  BY AccountTypes DEF Holding
<1>2. new \in Row /\ new.name = "token" /\ \A col \in Columns \ {"name"} : new[col] = rows[r][col]
  BY <1>1 DEF Row, Columns
<1> HIDE DEF new
<1>3. /\ set \in ColumnSets /\ DOMAIN set \subseteq {"name"}
      /\ "name" \in DOMAIN set => set["name"] = "token"
  <2>1. /\ set \in ColumnSets
        /\ \A col \in Columns : col \in DOMAIN set <=> rows[r][col] # new[col]
        /\ \A col \in DOMAIN set : set[col] = new[col]
    BY <1>1, <1>2, ChangesOfRow
  <2>2. DOMAIN set \subseteq Columns
    BY <2>1, ColumnSetsHave
  <2> HIDE DEF set
  <2>3. new["name"] = "token"
    BY <1>2
  <2> QED BY <2>1, <2>2, <2>3, <1>2
<1>4. /\ client[c] \in Call
      /\ Found(c, op, r) = [NoCall EXCEPT !.op = op, !.row = r, !.seen = rows[r].state,
                             !.barred = client[c].barred, !.set = set]
  BY AccountTypes DEF Found, new
<1> HIDE DEF set
<1>5. /\ j.op = op /\ j.row = r /\ j.seen = rows[r].state /\ j.barred = began /\ j.set = set
      /\ j \in Call
  <2>1. rows[r].state \in {"active", "frozen", "banned", "deleted"} /\ client[c].barred \in BOOLEAN
    BY <1>1, <1>4 DEF Row, Call
  <2>2. op \in RowOps
    BY DEF RowOps
  <2> QED BY <2>1, <2>2, <1>1, <1>3, <1>4, NoCallOK DEF Call, NoCall
<1> HIDE DEF j
<1>6. SetOf(j) /\ NameKept(j)
  BY <1>3, <1>5 DEF SetOf, NameKept, SignInOps
<1>7. began /\ "address" \notin races => rows[r].state # "active"
  BY DEF AccountsInv
<1>8. CallInv(j)
  BY <1>1, <1>5, <1>6, <1>7 DEF CallInv
<1> QED BY <1>5, <1>8 DEF j

LEMMA LooksKeep ==
  ASSUME AccountsInv, NEW c \in Clients, RequestLooks(c) \/ ContextLooks(c),
         UNCHANGED <<identity, acts>>
  PROVE  AccountsInv'
<1>0. /\ barred \in BOOLEAN /\ identity' \in BOOLEAN /\ acts' \in 0..MaxActs
  BY AccountTypes
<1>1. ASSUME NEW op \in SignInOps, Unknown(c, op) PROVE AccountsInv'
  <2> DEFINE j == [NoCall EXCEPT !.op = "unknown", !.for = op, !.barred = barred]
  <2>1. /\ j \in Call /\ j.op = "unknown" /\ j.barred = barred /\ j.set = NoChanges
    BY <1>0, NoChangesOK DEF NoCall, Call, RowOps, SignInOps, AdminOps
  <2>2. Starts(c, j)
    BY <1>1 DEF Unknown
  <2> HIDE DEF j
  <2>3. SetOf(j) /\ NameKept(j)
    BY <2>1, NoChangesOK DEF SetOf, NameKept, SignInOps
  <2>4. CallInv(j)
    BY <2>1, <2>3 DEF CallInv, RowOps, SignInOps, AdminOps
  <2> QED BY <1>0, <2>1, <2>2, <2>4, CallStarts
<1>2. ASSUME NEW op \in SignInOps, NEW r \in Holding, Known(c, op, r) PROVE AccountsInv'
  <2> DEFINE j == [Found(c, op, r) EXCEPT !.barred = barred]
  <2>1. j \in Call /\ CallInv(j)
    BY <1>0, FoundRow
  <2>2. Starts(c, j)
    BY <1>2 DEF Known
  <2> HIDE DEF j
  <2> QED BY <1>0, <2>1, <2>2, CallStarts
<1> QED BY <1>1, <1>2 DEF RequestLooks, ContextLooks, SignInOps

LEMMA CheckBansKeeps ==
  ASSUME AccountsInv, NEW c \in Clients, CheckBans(c), UNCHANGED <<identity, acts>>
  PROVE  AccountsInv'
<1>0. identity' \in BOOLEAN /\ acts' \in 0..MaxActs /\ client[c] \in Call /\ CallInv(client[c])
      /\ client[c].op = "unknown"
  BY AccountTypes DEF AccountsInv, CheckBans
<1>1. CASE Unbanned
  <2> DEFINE j == [client[c] EXCEPT !.op = "create"]
  <2>1. /\ j \in Call /\ j.op = "create" /\ j.barred = client[c].barred /\ j.set = client[c].set
    BY <1>0 DEF Call
  <2>2. ~client[c].barred
    BY <1>0, <1>1 DEF CallInv, AccountsInv, Unbanned
  <2>3. client' = [client EXCEPT ![c] = j]
    BY <1>1 DEF CheckBans, Proceeds
  <2> HIDE DEF j
  <2>4. SetOf(j) /\ NameKept(j)
    BY <1>0, <2>1 DEF SetOf, NameKept, CallInv, SignInOps
  <2>5. CallInv(j)
    BY <2>1, <2>2, <2>4 DEF CallInv, RowOps, SignInOps, AdminOps
  <2> QED BY <1>0, <2>1, <2>3, <2>5, CallTurns DEF CheckBans
<1>2. CASE ~Unbanned
  BY <1>0, <1>2, CallEnds DEF CheckBans
<1> QED BY <1>1, <1>2

LEMMA CreateClashesKeeps ==
  ASSUME AccountsInv, NEW c \in Clients, CreateClashes(c), UNCHANGED <<identity, acts>>
  PROVE  AccountsInv'
<1>0. identity' \in BOOLEAN /\ acts' \in 0..MaxActs /\ client[c] \in Call /\ CallInv(client[c])
      /\ client[c].op = "create" /\ UNCHANGED <<rows, bans, barred, entered, races>>
  BY AccountTypes DEF AccountsInv, CreateClashes
<1>1. ~client[c].barred
  BY <1>0 DEF CallInv, SignInOps
<1>2. ASSUME NEW r \in Holding, Proceeds(c, Found(c, "request", r)) PROVE AccountsInv'
  <2> DEFINE j == Found(c, "request", r)
  <2>1. [j EXCEPT !.barred = FALSE] \in Call /\ CallInv([j EXCEPT !.barred = FALSE])
    BY FoundRow DEF SignInOps
  <2>2. j = [NoCall EXCEPT !.op = "request", !.row = r, !.seen = rows[r].state,
               !.barred = FALSE, !.set = Changes(rows[r], [rows[r] EXCEPT !.name = "token"])]
    <3>1. client[c].barred = FALSE
      BY <1>0, <1>1 DEF Call
    <3> QED BY <3>1 DEF Found
  <2>3. j = [j EXCEPT !.barred = FALSE]
    BY <2>2 DEF NoCall
  <2>4. client' = [client EXCEPT ![c] = j]
    BY <1>2 DEF Proceeds
  <2> HIDE DEF j
  <2> QED BY <1>0, <2>1, <2>3, <2>4, CallTurns
<1> QED BY <1>0, <1>2, CallEnds DEF CreateClashes

LEMMA RequestFailsKeeps ==
  ASSUME AccountsInv, NEW c \in Clients, RequestFails(c), UNCHANGED <<identity, acts>>
  PROVE  AccountsInv'
  BY CallEnds, AccountTypes DEF RequestFails

LEMMA ProvisionKeeps ==
  ASSUME AccountsInv, NEW c \in Clients, \/ Provision(c) /\ UNCHANGED identity
                                         \/ MakeIdentity(c) /\ UNCHANGED acts
  PROVE  AccountsInv'
<1>1. CASE Provision(c) /\ UNCHANGED identity
  <2> DEFINE j == [NoCall EXCEPT !.op = "provision"]
  <2>1. j \in Call /\ j.op = "provision" /\ ~j.barred /\ j.set = NoChanges
    BY NoChangesOK DEF NoCall, Call, RowOps, SignInOps, AdminOps
  <2>2. Starts(c, j) /\ acts' = acts + 1 /\ acts < MaxActs
    BY <1>1 DEF Provision, Counted
  <2> HIDE DEF j
  <2>3. CallInv(j)
    BY <2>1, NoChangesOK DEF CallInv, RowOps, SignInOps, AdminOps, SetOf, NameKept
  <2>4. acts' \in 0..MaxActs /\ identity' \in BOOLEAN
    BY <1>1, <2>2, AccountTypes, AccountsAssumption
  <2> QED BY <2>1, <2>2, <2>3, <2>4, CallStarts
<1>2. CASE MakeIdentity(c) /\ UNCHANGED acts
  <2>0. /\ client[c].op = "provision" /\ identity' \in BOOLEAN /\ acts' \in 0..MaxActs
        /\ UNCHANGED <<rows, bans, barred, entered, races>>
        /\ client[c] \in Call /\ CallInv(client[c])
    BY <1>2, AccountTypes DEF MakeIdentity, AccountsInv
  <2>1. CASE Ends(c)
    BY <2>0, <2>1, CallEnds
  <2>2. CASE Proceeds(c, [client[c] EXCEPT !.op = "company"])
    <3> DEFINE j == [client[c] EXCEPT !.op = "company"]
    <3>1. j \in Call /\ j.op = "company" /\ j.barred = client[c].barred /\ j.set = client[c].set
      BY <2>0 DEF Call
    <3>2. client' = [client EXCEPT ![c] = j]
      BY <2>2 DEF Proceeds
    <3>3. ~client[c].barred
      BY <2>0 DEF CallInv, SignInOps
    <3> HIDE DEF j
    <3>4. SetOf(j) /\ NameKept(j)
      BY <2>0, <3>1 DEF SetOf, NameKept, CallInv, SignInOps
    <3>5. CallInv(j)
      BY <3>1, <3>3, <3>4 DEF CallInv, RowOps, SignInOps, AdminOps
    <3> QED BY <2>0, <3>1, <3>2, <3>5, CallTurns
  <2> QED BY <1>2, <2>1, <2>2 DEF MakeIdentity
<1> QED BY <1>1, <1>2

-----------------------------------------------------------------------------
(* What administrators and registrations set out to write. *)

LEMMA InStateRow ==
  ASSUME NEW row \in Row, NEW action \in {"active", "freeze", "ban", "delete"}
  PROVE  LET new == InState(row, action) IN
         /\ new \in Row
         /\ new.state = [active |-> "active", freeze |-> "frozen", ban |-> "banned",
                         delete |-> "deleted"][action]
         /\ new.email = IF action = "delete" THEN "tomb" ELSE row.email
         /\ new.name = IF action = "delete" THEN "tomb" ELSE row.name
<1> DEFINE approved == [row EXCEPT !.approval = "approved"]
           withheld == [row EXCEPT !.approval = "withheld"]
<1>1. Judged(row, TRUE) = approved /\ Judged(row, FALSE) = withheld
  BY DEF Judged
<1>2. /\ approved \in Row /\ approved.email = row.email /\ approved.name = row.name
      /\ withheld \in Row /\ withheld.email = row.email /\ withheld.name = row.name
  BY DEF Row
<1> HIDE DEF approved, withheld
<1>3. CASE action = "active"
  <2>1. InState(row, action) = [approved EXCEPT !.state = "active"]
    BY <1>1, <1>3 DEF InState
  <2> QED BY <2>1, <1>2, <1>3 DEF Row
<1>4. CASE action = "freeze"
  <2>1. InState(row, action) = [approved EXCEPT !.state = "frozen"]
    BY <1>1, <1>4 DEF InState
  <2> QED BY <2>1, <1>2, <1>4 DEF Row
<1>5. CASE action = "ban"
  <2>1. InState(row, action) = [withheld EXCEPT !.state = "banned"]
    BY <1>1, <1>5 DEF InState
  <2> QED BY <2>1, <1>2, <1>5 DEF Row
<1>6. CASE action = "delete"
  <2>1. InState(row, action) = [withheld EXCEPT !.state = "deleted", !.email = "tomb", !.name = "tomb"]
    BY <1>1, <1>6 DEF InState
  <2> QED BY <2>1, <1>2, <1>6 DEF Row
<1> QED BY <1>3, <1>4, <1>5, <1>6

LEMMA SetStateKeeps ==
  ASSUME AccountsInv, NEW c \in Clients, NEW r \in DOMAIN rows,
         NEW action \in {"active", "freeze", "ban", "delete"}, SetState(c, r, action),
         UNCHANGED identity
  PROVE  AccountsInv'
<1> DEFINE new == InState(rows[r], action)
           set == Changes(rows[r], new)
           ban == IF action = "ban" THEN BanFor(r) ELSE "none"
           j == [NoCall EXCEPT !.op = action, !.row = r, !.set = set, !.ban = ban]
<1>1. /\ Starts(c, j) /\ acts' \in 0..MaxActs /\ identity' \in BOOLEAN
  <2>1. acts < MaxActs /\ acts' = acts + 1 /\ Starts(c, j)
    BY DEF SetState, Counted
  <2> QED BY <2>1, AccountTypes, AccountsAssumption
<1>2. rows[r] \in Row /\ r \in Nat
  BY AccountTypes
<1>3. /\ new \in Row
      /\ new.state \in {"active", "frozen", "banned", "deleted"}
      /\ new.state = "active" => action = "active"
      /\ new.state = "deleted" => action = "delete"
      /\ action # "delete" => new.email = rows[r].email /\ new.name = rows[r].name
      /\ action = "delete" => new.email = "tomb" /\ new.name = "tomb"
  BY <1>2, InStateRow
<1>4. new.approval \in {"approved", "withheld"}
  BY <1>3 DEF Row
<1> HIDE DEF new
<1>5. /\ set \in ColumnSets /\ DOMAIN set \subseteq Columns
      /\ \A col \in Columns : col \in DOMAIN set <=> rows[r][col] # new[col]
      /\ \A col \in DOMAIN set : set[col] = new[col]
  BY <1>2, <1>3, ChangesOfRow, ColumnSetsHave
<1> HIDE DEF set
<1>6. ban \in {"none", "address", "tomb"}
  BY <1>2 DEF BanFor, Row
<1> HIDE DEF ban
<1>7. j \in Call /\ j.op = action /\ j.row = r /\ j.set = set /\ ~j.barred
  <2>1. action \in RowOps
    BY DEF RowOps, AdminOps
  <2> QED BY <2>1, <1>2, <1>5, <1>6, NoCallOK DEF Call, NoCall
<1> HIDE DEF j
<1>8. SetOf(j)
  <2>1. action # "delete" => DOMAIN set \subseteq {"state", "approval"}
    BY <1>3, <1>5 DEF Columns
  <2>2. "email" \in DOMAIN set => action = "delete" /\ set["email"] = "tomb"
    BY <2>1, <1>3, <1>5
  <2>3. "name" \in DOMAIN set => action = "delete" /\ set["name"] = "tomb"
    BY <2>1, <1>3, <1>5
  <2>4. "state" \in DOMAIN set => set["state"] = new.state
    BY <1>5
  <2>5. "approval" \in DOMAIN set => set["approval"] = new.approval
    BY <1>5
  <2> QED BY <2>1, <2>2, <2>3, <2>4, <2>5, <1>3, <1>4, <1>7 DEF SetOf, SignInOps
<1>9. NameKept(j)
  <2>1. action = "delete" => /\ "email" \notin DOMAIN set => rows[r].email = "tomb"
                             /\ "name" \notin DOMAIN set => rows[r].name = "tomb"
    BY <1>3, <1>5 DEF Columns
  <2> QED BY <2>1, <1>7 DEF NameKept
<1>10. CallInv(j)
  BY <1>7, <1>8, <1>9 DEF CallInv
<1> QED BY <1>1, <1>7, <1>10, CallStarts

LEMMA DecideKeeps ==
  ASSUME AccountsInv, NEW c \in Clients, NEW r \in DOMAIN rows, NEW approve \in BOOLEAN,
         Decide(c, r, approve), UNCHANGED identity
  PROVE  AccountsInv'
<1> DEFINE new == Judged(rows[r], approve)
           set == Changes(rows[r], new)
           j == [NoCall EXCEPT !.op = "decide", !.row = r, !.set = set]
<1>1. /\ Starts(c, j) /\ acts' \in 0..MaxActs /\ identity' \in BOOLEAN
  <2>1. acts < MaxActs /\ acts' = acts + 1 /\ Starts(c, j)
    BY DEF Decide, Counted
  <2> QED BY <2>1, AccountTypes, AccountsAssumption
<1>2. rows[r] \in Row /\ r \in Nat
  BY AccountTypes
<1>3. /\ new \in Row /\ new.approval \in {"approved", "withheld"}
      /\ \A col \in Columns \ {"approval"} : new[col] = rows[r][col]
  BY <1>2 DEF Row, Judged, Columns
<1> HIDE DEF new
<1>5. /\ set \in ColumnSets /\ DOMAIN set \subseteq Columns
      /\ \A col \in Columns : col \in DOMAIN set <=> rows[r][col] # new[col]
      /\ \A col \in DOMAIN set : set[col] = new[col]
  BY <1>2, <1>3, ChangesOfRow, ColumnSetsHave
<1> HIDE DEF set
<1>6. DOMAIN set \subseteq {"approval"} /\ ("approval" \in DOMAIN set => set["approval"] \in {"approved", "withheld"})
  BY <1>3, <1>5
<1>7. j \in Call /\ j.op = "decide" /\ j.row = r /\ j.set = set /\ ~j.barred
  <2>1. "decide" \in RowOps
    BY DEF RowOps, AdminOps
  <2> QED BY <2>1, <1>2, <1>5, NoCallOK DEF Call, NoCall
<1> HIDE DEF j
<1>8. SetOf(j) /\ NameKept(j)
  BY <1>6, <1>7 DEF SetOf, NameKept, SignInOps
<1>9. CallInv(j)
  BY <1>7, <1>8 DEF CallInv
<1> QED BY <1>1, <1>7, <1>9, CallStarts

LEMMA RegisterKeeps ==
  ASSUME AccountsInv, NEW c \in Clients, NEW r \in DOMAIN rows, Register(c, r),
         UNCHANGED <<identity, acts>>
  PROVE  AccountsInv'
<1> DEFINE new == Registered(rows[r], "address")
           set == Changes(rows[r], new)
           j == [NoCall EXCEPT !.op = "register", !.row = r, !.set = set, !.barred = barred]
<1>1. Unbanned /\ Starts(c, j) /\ acts' \in 0..MaxActs /\ identity' \in BOOLEAN
  BY AccountTypes DEF Register
<1>2. rows[r] \in Row /\ r \in Nat /\ barred \in BOOLEAN
  BY AccountTypes
<1>3. /\ new \in Row /\ new.approval = "approved" /\ new.name = "registered" /\ new.email = "address"
      /\ new.state = rows[r].state
  BY <1>2 DEF Row, Registered
<1> HIDE DEF new
<1>4. ~barred
  BY <1>1 DEF AccountsInv, Unbanned
<1>5. /\ set \in ColumnSets /\ DOMAIN set \subseteq Columns
      /\ \A col \in Columns : col \in DOMAIN set <=> rows[r][col] # new[col]
      /\ \A col \in DOMAIN set : set[col] = new[col]
  BY <1>2, <1>3, ChangesOfRow, ColumnSetsHave
<1> HIDE DEF set
<1>6. /\ DOMAIN set \subseteq {"email", "name", "approval"}
      /\ "email" \in DOMAIN set => set["email"] = "address" /\ rows[r].email # "address"
      /\ "name" \in DOMAIN set => set["name"] = "registered"
      /\ "approval" \in DOMAIN set => set["approval"] = "approved"
      /\ rows[r].name = "tomb" => "name" \in DOMAIN set
  BY <1>3, <1>5 DEF Columns
<1>7. j \in Call /\ j.op = "register" /\ j.row = r /\ j.set = set /\ ~j.barred
  <2>1. "register" \in RowOps
    BY DEF RowOps
  <2> QED BY <2>1, <1>2, <1>4, <1>5, NoCallOK DEF Call, NoCall
<1> HIDE DEF j
<1>8. SetOf(j)
  BY <1>6, <1>7 DEF SetOf, SignInOps
<1>9. "name" \notin races => NameKept(j)
  <2>1. "name" \notin races /\ rows[r].email = "tomb" => rows[r].name = "tomb"
    BY DEF AccountsInv
  <2>2. rows[r].email \in {"address", "tomb"}
    BY <1>2 DEF Row
  <2> QED BY <2>1, <2>2, <1>6, <1>7 DEF NameKept
<1>10. CallInv(j)
  BY <1>7, <1>8, <1>9 DEF CallInv
<1> QED BY <1>1, <1>7, <1>10, CallStarts

LEMMA LoginKeeps == ASSUME AccountsInv, Login, UNCHANGED <<identity, acts>> PROVE AccountsInv'
<1>1. /\ UNCHANGED <<rows, bans, client, barred, races>> /\ entered' = (entered \/ barred)
      /\ \E r \in Holding : rows[r].state = "active"
  BY DEF Login
<1>2. entered' \in BOOLEAN
  BY <1>1, AccountTypes
<1>3. AccountsTypeOK'
  BY <1>1, <1>2 DEF AccountsInv, AccountsTypeOK
<1>4. BannedStaysOut'
  BY <1>1 DEF AccountsInv, BannedStaysOut
<1>5. OneAccount'
  BY <1>1 DEF AccountsInv, OneAccount, Holding
<1>6. \A c \in Clients : CallInv(client[c])'
  BY <1>1 DEF AccountsInv, CallInv, SetOf, NameKept
<1> QED BY <1>1, <1>3, <1>4, <1>5, <1>6 DEF AccountsInv, AddressBanned, Holding

-----------------------------------------------------------------------------
(* Commits. *)

\* What the other requests know stays true when rows are written.
LEMMA CallKept ==
  ASSUME AccountsInv, NEW q \in Clients, client'[q] \in Call,
         client'[q].op = client[q].op, client'[q].row = client[q].row,
         client'[q].set = client[q].set, client'[q].seen = client[q].seen,
         client'[q].barred => client[q].barred /\ barred',
         DOMAIN rows \subseteq DOMAIN rows', races \subseteq races',
         \A r \in DOMAIN rows :
            /\ "name" \notin races' =>
                  /\ rows[r].name = "tomb" => rows'[r].name = "tomb"
                  /\ rows[r].email = "tomb" => rows'[r].email = "tomb"
            /\ barred' /\ rows[r].state # "active" => rows'[r].state # "active"
  PROVE  CallInv(client[q])'
<1>1. CallInv(client[q])
  BY DEF AccountsInv
<1>3. SetOf(client'[q])
  BY <1>1 DEF CallInv, SetOf
<1>4. client'[q].op \in RowOps => client'[q].row \in DOMAIN rows
  BY <1>1 DEF CallInv
<1>5. ASSUME "name" \notin races'
      PROVE  /\ client'[q].op = "delete" =>
                  /\ "email" \notin DOMAIN client'[q].set => rows'[client'[q].row].email = "tomb"
                  /\ "name" \notin DOMAIN client'[q].set => rows'[client'[q].row].name = "tomb"
             /\ client'[q].op = "register" /\ "email" \in DOMAIN client'[q].set =>
                  "name" \in DOMAIN client'[q].set /\ rows'[client'[q].row].name = "tomb"
  <2>1. NameKept(client[q])
    BY <1>1, <1>5 DEF CallInv
  <2>2. client'[q].op \in {"delete", "register"} => client'[q].row \in DOMAIN rows
    BY <1>4 DEF RowOps, AdminOps
  <2> QED BY <2>1, <2>2, <1>5 DEF NameKept
<1>6. client'[q].barred => client'[q].op \in SignInOps \union {"unknown"}
  BY <1>1 DEF CallInv
<1>7. ASSUME client'[q].barred, client'[q].op \in SignInOps, "address" \notin races'
      PROVE  client'[q].seen # "active" /\ rows'[client'[q].row].state # "active"
  <2>1. client[q].seen # "active" /\ rows[client[q].row].state # "active"
    BY <1>1, <1>7 DEF CallInv
  <2>2. client'[q].row \in DOMAIN rows
    BY <1>4, <1>7 DEF RowOps
  <2> QED BY <2>1, <2>2, <1>7
<1>8. client'[q].op \in RowOps => client'[q].row \in DOMAIN rows'
  BY <1>4
<1> HIDE DEF RowOps
<1> QED BY <1>3, <1>5, <1>6, <1>7, <1>8 DEF CallInv, NameKept, SetOf

LEMMA NoCallKept == ASSUME NEW q \in Clients, client'[q] = NoCall PROVE CallInv(client[q])'
<1>1. NoCall \in Call /\ NoCall.op = "idle" /\ ~NoCall.barred /\ DOMAIN NoCall.set = {}
  BY NoCallOK, NoChangesOK DEF NoCall
<1>2. /\ client'[q] \in Call /\ client'[q].op = "idle" /\ ~client'[q].barred
      /\ DOMAIN client'[q].set = {}
  BY <1>1
<1>3. SetOf(client'[q])
  BY <1>2 DEF SetOf, SignInOps
<1>4. NameKept(client[q])'
  BY <1>2 DEF NameKept
<1>5. client'[q].op \notin RowOps
  BY <1>2 DEF RowOps, SignInOps, AdminOps
<1> QED BY <1>2, <1>3, <1>4, <1>5 DEF CallInv, SetOf, SignInOps

\* Requests other than the one that commits, whether a ban is lifted or not.
LEMMA OtherCalls ==
  ASSUME AccountsInv, NEW c \in Clients,
         \/ Ends(c) /\ barred' = barred
         \/ EndsAndLifts(c) /\ barred' \in BOOLEAN
  PROVE  /\ client' \in [Clients -> Call] /\ client'[c] = NoCall
         /\ \A q \in Clients \ {c} :
               /\ client'[q].op = client[q].op /\ client'[q].row = client[q].row
               /\ client'[q].set = client[q].set /\ client'[q].seen = client[q].seen
               /\ client'[q].barred => client[q].barred /\ barred'
<1>0. client \in [Clients -> Call] /\ \A q \in Clients : CallInv(client[q])
  BY AccountTypes DEF AccountsInv
<1>1. CASE Ends(c) /\ barred' = barred
  BY <1>0, <1>1, NoCallOK DEF Ends, CallInv
<1>2. CASE EndsAndLifts(c) /\ barred' \in BOOLEAN
  <2>1. client'[c] = NoCall
    BY <1>2 DEF EndsAndLifts
  <2>2. ASSUME NEW q \in Clients \ {c}
        PROVE  /\ client'[q] \in Call
               /\ client'[q].op = client[q].op /\ client'[q].row = client[q].row
               /\ client'[q].set = client[q].set /\ client'[q].seen = client[q].seen
               /\ client'[q].barred => client[q].barred /\ barred'
    <3> DEFINE b == client[q].barred /\ barred'
    <3>1. client'[q] = [client[q] EXCEPT !.barred = b]
      BY <1>2 DEF EndsAndLifts
    <3>2. client[q] \in Call /\ b \in BOOLEAN
      BY <1>0, <1>2 DEF Call
    <3>3. b => client[q].barred /\ barred'
      OBVIOUS
    <3> HIDE DEF b
    <3>4. client'[q].barred = b
      BY <3>1, <3>2 DEF Call
    <3> QED BY <3>1, <3>2, <3>3, <3>4 DEF Call
  <2>3. client' = [q \in Clients |-> client'[q]]
    BY <1>2 DEF EndsAndLifts
  <2> QED BY <2>1, <2>2, <2>3, NoCallOK
<1> QED BY <1>1, <1>2

\* The rows after a commit: the person still has one, and a deleted row is
\* nameless, or a race is reported.
RowsStand ==
    /\ rows' \in Seq(Row) /\ Len(rows') = Len(rows) /\ DOMAIN rows' = DOMAIN rows
    /\ OneAccount'
    /\ races \subseteq races' /\ races' \subseteq {"name", "address"}
    /\ "name" \notin races' => \A q \in DOMAIN rows :
          /\ rows[q].name = "tomb" => rows'[q].name = "tomb"
          /\ rows[q].email = "tomb" => rows'[q].email = "tomb"
          /\ rows'[q].email = "tomb" => rows'[q].name = "tomb"
          /\ rows'[q].state = "deleted" => rows'[q].email = "tomb"

\* A row that holds a banned address is the one that was banned, or the race is
\* reported: by a request that did not begin under the ban.
RaceSeen(c) ==
    ~client[c].barred => "address" \in races' \/
        \A q \in DOMAIN rows, b \in bans' :
            rows'[q].email = "address" /\ b.email = "address" => b.row = q

\* A commit of columns.
LEMMA Stored ==
  ASSUME AccountsInv, NEW c \in Clients, NEW r \in DOMAIN rows, NEW set \in ColumnSets,
         Stores(c, r, set),
         "email" \in DOMAIN set => set["email"] \in {"address", "tomb"},
         "name" \in DOMAIN set => set["name"] \in {"registered", "token", "tomb"},
         "state" \in DOMAIN set => set["state"] \in {"active", "frozen", "banned", "deleted"},
         "approval" \in DOMAIN set => set["approval"] \in {"approved", "withheld"},
         "email" \in DOMAIN set /\ set["email"] = "address" => Holding \subseteq {r},
         "name" \notin races =>
            /\ "email" \in DOMAIN set /\ set["email"] = "address" => "name" \in DOMAIN set
            /\ "email" \in DOMAIN set /\ set["email"] = "tomb" =>
                  \/ rows[r].name = "tomb"
                  \/ "name" \in DOMAIN set /\ set["name"] = "tomb"
            /\ "state" \in DOMAIN set /\ set["state"] = "deleted" =>
                  IF "email" \in DOMAIN set THEN set["email"] = "tomb" ELSE rows[r].email = "tomb"
  PROVE  /\ RowsStand /\ RaceSeen(c)
         /\ \A q \in DOMAIN rows \ {r} : rows'[q] = rows[q]
         /\ rows'[r].state = IF "state" \in DOMAIN set THEN set["state"] ELSE rows[r].state
         /\ rows'[r].email = IF "email" \in DOMAIN set THEN set["email"] ELSE rows[r].email
<1> DEFINE new == Update(rows[r], set)
<1>1. /\ rows' = [rows EXCEPT ![r] = new]
      /\ races' = races \union {n \in {"name"} : rows[r].name = "tomb" /\ n \in DOMAIN set}
                        \union AddressRace(c)
  BY DEF Stores
<1>2. rows \in Seq(Row) /\ rows[r] \in Row
  BY AccountTypes
<1>3. /\ new \in Row
      /\ new.email = IF "email" \in DOMAIN set THEN set["email"] ELSE rows[r].email
      /\ new.name = IF "name" \in DOMAIN set THEN set["name"] ELSE rows[r].name
      /\ new.state = IF "state" \in DOMAIN set THEN set["state"] ELSE rows[r].state
  BY <1>2, UpdateOfRow
<1> HIDE DEF new
<1>4. /\ rows' \in Seq(Row) /\ Len(rows') = Len(rows) /\ DOMAIN rows' = DOMAIN rows
      /\ rows'[r] = new /\ \A q \in DOMAIN rows \ {r} : rows'[q] = rows[q]
  BY <1>1, <1>2, <1>3
<1>5. races \subseteq races' /\ races' \subseteq {"name", "address"}
  BY <1>1, AccountTypes DEF AddressRace
<1>6. OneAccount'
  <2>1. OneAccount
    BY DEF AccountsInv
  <2>2. ASSUME NEW p \in DOMAIN rows, NEW q \in DOMAIN rows, p # q,
               rows'[p].email = "address", rows'[q].email = "address"
        PROVE  FALSE
    <3>1. CASE p # r /\ q # r
      BY <3>1, <2>1, <2>2, <1>4 DEF OneAccount, Holding
    <3>2. ASSUME NEW k \in DOMAIN rows, k # r, rows'[k].email = "address", new.email = "address"
          PROVE  FALSE
      <4>1. k \in Holding
        BY <3>2, <1>4 DEF Holding
      <4>2. ~("email" \in DOMAIN set /\ set["email"] = "address")
        BY <4>1, <3>2
      <4>3. r \in Holding
        BY <4>2, <3>2, <1>3 DEF Holding
      <4> QED BY <4>1, <4>3, <3>2, <2>1 DEF OneAccount
    <3> QED BY <3>1, <3>2, <2>2, <1>4
  <2> QED BY <2>2, <1>4 DEF OneAccount, Holding
<1>7. ASSUME "name" \notin races', NEW q \in DOMAIN rows
      PROVE  /\ rows[q].name = "tomb" => rows'[q].name = "tomb"
             /\ rows[q].email = "tomb" => rows'[q].email = "tomb"
             /\ rows'[q].email = "tomb" => rows'[q].name = "tomb"
             /\ rows'[q].state = "deleted" => rows'[q].email = "tomb"
  <2>1. /\ "name" \notin races /\ (rows[r].name = "tomb" => "name" \notin DOMAIN set)
        /\ rows[q].email = "tomb" => rows[q].name = "tomb"
        /\ rows[q].state = "deleted" => rows[q].email = "tomb"
        /\ rows[r].email = "tomb" => rows[r].name = "tomb"
        /\ rows[r].state = "deleted" => rows[r].email = "tomb"
    BY <1>1, <1>7 DEF AccountsInv
  <2>2. CASE q # r
    BY <2>1, <2>2, <1>4
  <2>3. CASE q = r
    <3>1. rows[r].name = "tomb" => new.name = "tomb"
      BY <2>1, <1>3
    <3>2. rows[r].email = "tomb" => new.email = "tomb"
      BY <2>1, <1>3
    <3>3. new.email = "tomb" => new.name = "tomb"
      BY <2>1, <3>1, <1>3
    <3>4. new.state = "deleted" => new.email = "tomb"
      BY <2>1, <3>2, <1>3
    <3> QED BY <2>3, <3>1, <3>2, <3>3, <3>4, <1>4
  <2> QED BY <2>2, <2>3
<1>8. ASSUME ~client[c].barred, "address" \notin races',
             NEW q \in DOMAIN rows, NEW b \in bans',
             rows'[q].email = "address", b.email = "address"
      PROVE  b.row = q
  <2>1. AddressRace(c) = {}
    BY <1>1, <1>8 DEF AddressRace
  <2>2. q \in Holding'
    BY <1>4, <1>8 DEF Holding
  <2> QED BY <2>1, <2>2, <1>8 DEF AddressRace
<1> QED BY <1>3, <1>4, <1>5, <1>6, <1>7, <1>8 DEF RowsStand, RaceSeen

\* The columns a request has set.
LEMMA Committed ==
  ASSUME AccountsInv, NEW c \in Clients, client[c].op \in RowOps, Commits(c),
         client[c].op = "register" /\ "email" \in DOMAIN client[c].set => Holding = {}
  PROVE  LET r == client[c].row  set == client[c].set IN
         /\ r \in DOMAIN rows /\ RowsStand /\ RaceSeen(c)
         /\ \A q \in DOMAIN rows \ {r} : rows'[q] = rows[q]
         /\ rows'[r].state = IF "state" \in DOMAIN set THEN set["state"] ELSE rows[r].state
         /\ rows'[r].email = IF "email" \in DOMAIN set THEN set["email"] ELSE rows[r].email
<1> DEFINE r == client[c].row
           set == client[c].set
           op == client[c].op
<1>1. client[c] \in Call /\ CallInv(client[c]) /\ set \in ColumnSets /\ op \in RowOps
  BY AccountTypes DEF AccountsInv, Call
<1>2. r \in DOMAIN rows /\ SetOf(client[c]) /\ ("name" \notin races => NameKept(client[c]))
  BY <1>1 DEF CallInv
<1>3. Stores(c, r, set)
  BY DEF Commits
<1>4. /\ "email" \in DOMAIN set => set["email"] = IF op = "delete" THEN "tomb" ELSE "address"
      /\ "email" \in DOMAIN set => op \in {"delete", "register"}
      /\ "name" \in DOMAIN set => set["name"] \in {"registered", "token", "tomb"}
      /\ "name" \in DOMAIN set /\ op = "delete" => set["name"] = "tomb"
      /\ "state" \in DOMAIN set => set["state"] \in {"active", "frozen", "banned", "deleted"}
      /\ "state" \in DOMAIN set /\ set["state"] = "deleted" => op = "delete"
      /\ "approval" \in DOMAIN set => set["approval"] \in {"approved", "withheld"}
  BY <1>1, <1>2 DEF SetOf, RowOps, AdminOps
<1>5. "name" \notin races =>
        /\ op = "delete" => /\ "email" \notin DOMAIN set => rows[r].email = "tomb"
                            /\ "name" \notin DOMAIN set => rows[r].name = "tomb"
        /\ op = "register" /\ "email" \in DOMAIN set => "name" \in DOMAIN set
  BY <1>2 DEF NameKept
<1>6. op = "register" /\ "email" \in DOMAIN set => Holding = {}
  OBVIOUS
<1> HIDE DEF r, set, op
<1>7. "email" \in DOMAIN set /\ set["email"] = "address" => Holding \subseteq {r}
  BY <1>4, <1>6
<1>8. "name" \notin races =>
            /\ "email" \in DOMAIN set /\ set["email"] = "address" => "name" \in DOMAIN set
            /\ "email" \in DOMAIN set /\ set["email"] = "tomb" =>
                  \/ rows[r].name = "tomb"
                  \/ "name" \in DOMAIN set /\ set["name"] = "tomb"
            /\ "state" \in DOMAIN set /\ set["state"] = "deleted" =>
                  IF "email" \in DOMAIN set THEN set["email"] = "tomb" ELSE rows[r].email = "tomb"
  BY <1>4, <1>5
<1>9. /\ RowsStand /\ RaceSeen(c)
      /\ \A q \in DOMAIN rows \ {r} : rows'[q] = rows[q]
      /\ rows'[r].state = IF "state" \in DOMAIN set THEN set["state"] ELSE rows[r].state
      /\ rows'[r].email = IF "email" \in DOMAIN set THEN set["email"] ELSE rows[r].email
  <2>1. /\ set \in ColumnSets /\ r \in DOMAIN rows
        /\ "email" \in DOMAIN set => set["email"] \in {"address", "tomb"}
    BY <1>1, <1>2, <1>4 DEF r, set
  <2> QED BY <2>1, <1>3, <1>4, <1>7, <1>8, Stored
<1> QED BY <1>2, <1>9 DEF r, set

\* A commit after which the rows stand keeps the invariant, when it lets nobody
\* in and makes no row active under a ban.
LEMMA CommitKeeps ==
  ASSUME AccountsInv, NEW c \in Clients, RowsStand, identity' = identity, acts' = acts,
         bans \subseteq bans', \A b \in bans' \ bans : b \in [row : DOMAIN rows, email : {"address", "tomb"}],
         barred' \in BOOLEAN, barred' => AddressBanned',
         entered' \in BOOLEAN, entered' => "address" \in races',
         (Ends(c) /\ barred' = barred) \/ EndsAndLifts(c),
         barred' => \A r \in DOMAIN rows : rows[r].state # "active" => rows'[r].state # "active",
         barred' /\ "address" \notin races' =>
            /\ \A r \in Holding' : rows'[r].state # "active"
            /\ \E b \in bans' : b.email = "address" /\ rows'[b.row].state # "active"
  PROVE  AccountsInv'
<1>1. /\ rows' \in Seq(Row) /\ Len(rows') = Len(rows) /\ DOMAIN rows' = DOMAIN rows /\ OneAccount'
      /\ races \subseteq races' /\ races' \subseteq {"name", "address"}
      /\ "name" \notin races' => \A q \in DOMAIN rows :
            /\ rows[q].name = "tomb" => rows'[q].name = "tomb"
            /\ rows[q].email = "tomb" => rows'[q].email = "tomb"
            /\ rows'[q].email = "tomb" => rows'[q].name = "tomb"
            /\ rows'[q].state = "deleted" => rows'[q].email = "tomb"
  BY DEF RowsStand
<1>2. /\ DOMAIN rows \subseteq 1..MaxRows /\ identity' \in BOOLEAN /\ acts' \in 0..MaxActs
      /\ bans \subseteq [row : 1..MaxRows, email : {"address", "tomb"}]
      /\ Len(rows') <= MaxRows
  BY <1>1, AccountTypes, AccountsAssumption
<1>3. AccountsTypeOK'
  <2>1. bans' \subseteq [row : 1..MaxRows, email : {"address", "tomb"}]
    BY <1>2
  <2>2. {identity', barred', entered'} \subseteq BOOLEAN
    BY <1>2
  <2> QED BY <1>1, <1>2, <2>1, <2>2 DEF AccountsTypeOK
<1>4. \A b \in bans' : b.row \in DOMAIN rows'
  BY <1>1 DEF AccountsInv
<1>5. /\ client' \in [Clients -> Call] /\ client'[c] = NoCall
      /\ \A q \in Clients \ {c} :
            /\ client'[q].op = client[q].op /\ client'[q].row = client[q].row
            /\ client'[q].set = client[q].set /\ client'[q].seen = client[q].seen
            /\ client'[q].barred => client[q].barred /\ barred'
  BY OtherCalls
<1>6. ASSUME NEW q \in Clients PROVE CallInv(client[q])'
  <2>1. CASE q = c
    BY <2>1, <1>5, NoCallKept
  <2>2. CASE q # c
    <3>1. client'[q] \in Call
      BY <1>5
    <3> QED BY <3>1, <2>2, <1>1, <1>5, CallKept
  <2> QED BY <2>1, <2>2
<1>7. BannedStaysOut'
  BY DEF BannedStaysOut
<1> QED BY <1>1, <1>3, <1>4, <1>5, <1>6, <1>7 DEF AccountsInv

\* The witness for a ban that stands, and the rows that are not active, when
\* the states of rows do not change but to states other than "active".
LEMMA BanStands ==
  ASSUME AccountsInv, NEW c \in Clients, RowsStand, RaceSeen(c), ~client[c].barred, bans \subseteq bans',
         \A b \in bans' : b.row \in DOMAIN rows, "address" \notin races',
         \E b \in bans' : b.email = "address" /\ rows'[b.row].state # "active"
  PROVE  \A r \in Holding' : rows'[r].state # "active"
<1>1. PICK b \in bans' : b.email = "address" /\ rows'[b.row].state # "active"
  OBVIOUS
<1>2. ASSUME NEW r \in Holding' PROVE rows'[r].state # "active"
  <2>1. r \in DOMAIN rows /\ rows'[r].email = "address"
    BY DEF RowsStand, Holding
  <2>2. b.row = r
    BY <1>1, <2>1 DEF RaceSeen
  <2> QED BY <1>1, <2>2
<1> QED BY <1>2

\* A sign-in writes the name only.
LEMMA SignsInKeeps ==
  ASSUME AccountsInv, NEW c \in Clients, NEW seen, Admits(c, seen), client[c].op \in SignInOps,
         \/ seen = client[c].seen
         \/ seen = rows[client[c].row].state,
         UNCHANGED <<identity, acts>>
  PROVE  AccountsInv'
<1> DEFINE r == client[c].row
           set == client[c].set
<1>1. CallInv(client[c]) /\ client[c] \in Call /\ r \in DOMAIN rows /\ DOMAIN set \subseteq {"name"}
  BY AccountTypes DEF AccountsInv, CallInv, SetOf, RowOps
<1>2. /\ bans' = bans /\ barred' = barred /\ Ends(c)
      /\ IF set = NoChanges THEN UNCHANGED <<rows, races>> ELSE Commits(c)
      /\ IF seen = "active" THEN entered' = (entered \/ (client[c].barred /\ barred))
                            ELSE entered' = entered
  BY DEF Admits, Accept
<1>3. /\ DOMAIN rows' = DOMAIN rows
      /\ \A q \in DOMAIN rows : rows'[q].state = rows[q].state /\ rows'[q].email = rows[q].email
      /\ races \subseteq races'
  <2>1. CASE set = NoChanges
    BY <2>1, <1>2
  <2>2. CASE set # NoChanges
    <3>1. /\ RowsStand /\ r \in DOMAIN rows
          /\ \A q \in DOMAIN rows \ {r} : rows'[q] = rows[q]
          /\ rows'[r].state = IF "state" \in DOMAIN set THEN set["state"] ELSE rows[r].state
          /\ rows'[r].email = IF "email" \in DOMAIN set THEN set["email"] ELSE rows[r].email
      BY <2>2, <1>2, Committed DEF RowOps, SignInOps
    <3> QED BY <3>1, <1>1 DEF RowsStand
  <2> QED BY <2>1, <2>2
<1>4. entered' \in BOOLEAN /\ (entered' => "address" \in races')
  <2>1. entered => "address" \in races
    BY DEF AccountsInv, BannedStaysOut
  <2>2. client[c].barred /\ "address" \notin races => seen # "active"
    BY <1>1 DEF CallInv
  <2>3. entered \in BOOLEAN /\ barred \in BOOLEAN /\ client[c].barred \in BOOLEAN
    BY <1>1, AccountTypes DEF Call
  <2> QED BY <2>1, <2>2, <2>3, <1>2, <1>3
<1>5. RowsStand
  <2>1. CASE set = NoChanges
    <3>1. rows' = rows /\ races' = races
      BY <2>1, <1>2
    <3>2. OneAccount'
      BY <3>1 DEF AccountsInv, OneAccount, Holding
    <3> QED BY <3>1, <3>2, AccountTypes DEF AccountsInv, RowsStand
  <2>2. CASE set # NoChanges
    BY <2>2, <1>2, Committed DEF RowOps, SignInOps
  <2> QED BY <2>1, <2>2
<1>6. barred' => AddressBanned'
  BY <1>2 DEF AccountsInv, AddressBanned
<1>7. ASSUME barred', "address" \notin races'
      PROVE  /\ \A q \in Holding' : rows'[q].state # "active"
             /\ \E b \in bans' : b.email = "address" /\ rows'[b.row].state # "active"
  <2>1. /\ \A q \in Holding : rows[q].state # "active"
        /\ \E b \in bans : b.email = "address" /\ rows[b.row].state # "active"
        /\ \A b \in bans : b.row \in DOMAIN rows
    BY <1>2, <1>3, <1>7 DEF AccountsInv
  <2>2. Holding' = Holding
    BY <1>3 DEF Holding
  <2>3. Holding \subseteq DOMAIN rows
    BY DEF Holding
  <2> QED BY <2>1, <2>2, <2>3, <1>2, <1>3
<1>8. \A q \in DOMAIN rows : rows'[q].state = rows[q].state
  BY <1>3
<1>9. barred' \in BOOLEAN
  BY <1>2, AccountTypes
<1> QED BY <1>2, <1>4, <1>5, <1>6, <1>7, <1>8, <1>9, CommitKeeps

LEMMA SignInsKeep ==
  ASSUME AccountsInv, NEW c \in Clients, RequestSignsIn(c) \/ ContextSignsIn(c),
         UNCHANGED <<identity, acts>>
  PROVE  AccountsInv'
<1>1. CASE RequestSignsIn(c)
  <2>1. CASE client[c].set = NoChanges
    BY <1>1, <2>1, SignsInKeeps DEF RequestSignsIn, SignInOps
  <2>2. CASE client[c].set # NoChanges
    BY <1>1, <2>2, SignsInKeeps DEF RequestSignsIn, SignInOps
  <2> QED BY <2>1, <2>2
<1>2. CASE ContextSignsIn(c)
  BY <1>2, SignsInKeeps DEF ContextSignsIn, SignInOps
<1> QED BY <1>1, <1>2

\* A row that is made: the banned address is that of another row.
LEMMA RowIsMade ==
  ASSUME AccountsInv, NEW row \in Row, row.email = "address", row.state = "active",
         Holding = {}, Len(rows) < MaxRows, rows' = Append(rows, row)
  PROVE  /\ rows' \in Seq(Row) /\ Len(rows') <= MaxRows
         /\ DOMAIN rows' = DOMAIN rows \union {Len(rows) + 1} /\ Len(rows) + 1 \notin DOMAIN rows
         /\ \A r \in DOMAIN rows : rows'[r] = rows[r]
         /\ rows'[Len(rows) + 1] = row
         /\ Holding' = {Len(rows) + 1} /\ OneAccount'
<1>1. /\ rows \in Seq(Row) /\ Len(rows) \in Nat /\ DOMAIN rows = 1..Len(rows) /\ MaxRows \in Nat
  BY AccountTypes, AccountsAssumption
<1>2. rows' \in Seq(Row) /\ Len(rows') = Len(rows) + 1
  BY <1>1
<1>3. DOMAIN rows' = 1..(Len(rows) + 1)
  BY <1>1, <1>2
<1>4. DOMAIN rows' = DOMAIN rows \union {Len(rows) + 1} /\ Len(rows) + 1 \notin DOMAIN rows
  BY <1>1, <1>3
<1>5. /\ \A r \in DOMAIN rows : rows'[r] = rows[r]
      /\ rows'[Len(rows) + 1] = row
  BY <1>1
<1>6. Holding' = {Len(rows) + 1}
  BY <1>4, <1>5 DEF Holding
<1> QED BY <1>1, <1>2, <1>4, <1>5, <1>6 DEF OneAccount

LEMMA RowIsMadeKeeps ==
  ASSUME AccountsInv, NEW c \in Clients, NEW row \in Row, row.email = "address", row.state = "active",
         row.name # "tomb",
         Holding = {}, Len(rows) < MaxRows, rows' = Append(rows, row),
         bans' = bans, identity' = identity, acts' = acts,
         entered' = entered, races \subseteq races', races' \subseteq {"name", "address"},
         barred' \in BOOLEAN, barred' => barred /\ "address" \in races',
         (Ends(c) /\ barred' = barred) \/ EndsAndLifts(c)
  PROVE  AccountsInv'
<1>1. /\ rows' \in Seq(Row) /\ Len(rows') <= MaxRows
      /\ DOMAIN rows' = DOMAIN rows \union {Len(rows) + 1} /\ Len(rows) + 1 \notin DOMAIN rows
      /\ \A r \in DOMAIN rows : rows'[r] = rows[r]
      /\ rows'[Len(rows) + 1] = row /\ OneAccount'
  BY RowIsMade
<1>2. AccountsTypeOK'
  <2>1. {identity', barred', entered'} \subseteq BOOLEAN /\ acts' \in 0..MaxActs
    BY AccountTypes
  <2>2. bans' \subseteq [row : 1..MaxRows, email : {"address", "tomb"}]
    BY AccountTypes
  <2> QED BY <1>1, <2>1, <2>2 DEF AccountsTypeOK
<1>3. \A b \in bans' : b.row \in DOMAIN rows'
  BY <1>1 DEF AccountsInv
<1>4. barred' => AddressBanned'
  BY DEF AccountsInv, AddressBanned
<1>5. "name" \notin races' => \A r \in DOMAIN rows' :
        /\ rows'[r].email = "tomb" => rows'[r].name = "tomb"
        /\ rows'[r].state = "deleted" => rows'[r].email = "tomb"
  BY <1>1 DEF AccountsInv
<1>6. /\ client' \in [Clients -> Call] /\ client'[c] = NoCall
      /\ \A q \in Clients \ {c} :
            /\ client'[q].op = client[q].op /\ client'[q].row = client[q].row
            /\ client'[q].set = client[q].set /\ client'[q].seen = client[q].seen
            /\ client'[q].barred => client[q].barred /\ barred'
  BY OtherCalls
<1>7. ASSUME NEW q \in Clients PROVE CallInv(client[q])'
  <2>1. CASE q = c
    BY <2>1, <1>6, NoCallKept
  <2>2. CASE q # c
    <3>1. client'[q] \in Call
      BY <1>6
    <3> QED BY <3>1, <2>2, <1>1, <1>6, CallKept
  <2> QED BY <2>1, <2>2
<1>8. BannedStaysOut'
  BY DEF AccountsInv, BannedStaysOut
<1> QED BY <1>1, <1>2, <1>3, <1>4, <1>5, <1>6, <1>7, <1>8 DEF AccountsInv

LEMMA NewRowKeeps ==
  ASSUME AccountsInv, NEW c \in Clients, NEW op, NEW approval \in {"withheld", "approved"},
         NewRow(c, op, approval), UNCHANGED <<identity, acts>>
  PROVE  AccountsInv'
<1> DEFINE row == [email |-> "address", name |-> "token", state |-> "active", approval |-> approval]
<1>1. /\ client[c].op = "create" /\ Holding = {} /\ Len(rows) < MaxRows /\ rows' = Append(rows, row)
      /\ bans' = bans /\ barred' = barred /\ races' = races \union AddressRace(c)
      /\ entered' = (entered \/ (client[c].barred /\ barred)) /\ Ends(c)
  BY DEF NewRow, Accept
<1>2. row \in Row /\ row.email = "address" /\ row.state = "active" /\ row.name # "tomb"
  BY DEF Row
<1> HIDE DEF row
<1>3. ~client[c].barred /\ entered \in BOOLEAN /\ barred \in BOOLEAN
  <2>1. CallInv(client[c])
    BY DEF AccountsInv
  <2> QED BY <2>1, <1>1, AccountTypes DEF CallInv, SignInOps
<1>4. entered' = entered
  BY <1>1, <1>3
<1>5. races \subseteq races' /\ races' \subseteq {"name", "address"}
  BY <1>1, AccountTypes DEF AddressRace
<1>6. barred' => "address" \in races'
  <2> SUFFICES ASSUME barred PROVE "address" \in AddressRace(c)
    BY <1>1
  <2>1. PICK b \in bans : b.email = "address"
    BY DEF AccountsInv, AddressBanned
  <2>2. Len(rows) + 1 \in Holding' /\ Len(rows) + 1 # b.row
    BY <1>1, <1>2, RowIsMade DEF AccountsInv
  <2>3. b \in bans'
    BY <1>1
  <2> QED BY <2>1, <2>2, <2>3, <1>3 DEF AddressRace
<1> QED BY <1>1, <1>2, <1>3, <1>4, <1>5, <1>6, RowIsMadeKeeps

LEMMA CompanyCommitsKeeps ==
  ASSUME AccountsInv, NEW c \in Clients, CompanyCommits(c), UNCHANGED <<identity, acts>>
  PROVE  AccountsInv'
<1> DEFINE row == [email |-> "address", name |-> "registered", state |-> "active",
                   approval |-> "approved"]
<1>1. /\ Holding = {} /\ Len(rows) < MaxRows /\ rows' = Append(rows, row)
      /\ bans' = bans /\ barred' = FALSE /\ races' = races /\ entered' = entered /\ EndsAndLifts(c)
  BY DEF CompanyCommits
<1>2. row \in Row /\ row.email = "address" /\ row.state = "active" /\ row.name # "tomb"
  BY DEF Row
<1> HIDE DEF row
<1>3. races' \subseteq {"name", "address"}
  BY <1>1, AccountTypes
<1> QED BY <1>1, <1>2, <1>3, RowIsMadeKeeps

\* A commit of a request that did not begin under the ban, and of bans as they
\* are: no state changes to "active" under a ban.
LEMMA UnbarredKeeps ==
  ASSUME AccountsInv, NEW c \in Clients, RowsStand, RaceSeen(c), ~client[c].barred,
         UNCHANGED <<identity, acts, entered>>,
         bans \subseteq bans', \A b \in bans' \ bans : b \in [row : DOMAIN rows, email : {"address", "tomb"}],
         barred' \in BOOLEAN,
         (Ends(c) /\ barred' = barred) \/ EndsAndLifts(c),
         barred' => \A r \in DOMAIN rows : rows[r].state # "active" => rows'[r].state # "active",
         barred' => barred \/ \E b \in bans' : b.email = "address" /\ rows'[b.row].state # "active"
  PROVE  AccountsInv'
<1>1. \A b \in bans' : b.row \in DOMAIN rows
  BY DEF AccountsInv
<1>2. races \subseteq races'
  BY DEF RowsStand
<1>3. entered' \in BOOLEAN /\ (entered' => "address" \in races')
  BY <1>2, AccountTypes DEF AccountsInv, BannedStaysOut
<1>4. barred' => AddressBanned'
  BY DEF AccountsInv, AddressBanned
<1>5. ASSUME barred', "address" \notin races'
      PROVE  \E b \in bans' : b.email = "address" /\ rows'[b.row].state # "active"
  <2>1. CASE barred
    <3>1. PICK b \in bans : b.email = "address" /\ rows[b.row].state # "active"
      BY <2>1, <1>2, <1>5 DEF AccountsInv
    <3>2. b \in bans' /\ b.row \in DOMAIN rows
      BY <1>1
    <3> QED BY <3>1, <3>2, <1>5
  <2> QED BY <2>1, <1>5
<1>6. ASSUME barred', "address" \notin races'
      PROVE  \A r \in Holding' : rows'[r].state # "active"
  BY <1>1, <1>5, <1>6, BanStands
<1> QED BY <1>3, <1>4, <1>5, <1>6, CommitKeeps

LEMMA RegisterCommitsKeeps ==
  ASSUME AccountsInv, NEW c \in Clients, RegisterCommits(c), UNCHANGED <<identity, acts>>
  PROVE  AccountsInv'
<1> DEFINE r == client[c].row
           clash == "email" \in DOMAIN client[c].set /\ Holding # {}
           whole == Registered(rows[r], rows[r].email)
<1>1. /\ client[c].op = "register" /\ bans' = bans /\ barred' = barred
      /\ IF clash THEN Stores(c, r, whole) ELSE Commits(c)
      /\ entered' = (entered \/ (client[c].barred /\ barred)) /\ Ends(c)
  BY DEF RegisterCommits, Accept
<1>2. CallInv(client[c]) /\ r \in DOMAIN rows /\ rows[r] \in Row /\ ~client[c].barred
      /\ entered \in BOOLEAN /\ barred \in BOOLEAN
  <2>1. CallInv(client[c])
    BY DEF AccountsInv
  <2>2. r \in DOMAIN rows /\ ~client[c].barred
    BY <2>1, <1>1 DEF CallInv, RowOps, SignInOps
  <2> QED BY <2>1, <2>2, AccountTypes
<1>3. entered' = entered
  BY <1>1, <1>2
<1>4. /\ RowsStand /\ RaceSeen(c)
      /\ \A q \in DOMAIN rows : rows'[q].state = rows[q].state
  <2>1. CASE clash
    <3>1. /\ whole = [rows[r] EXCEPT !.name = "registered", !.approval = "approved"]
          /\ DOMAIN whole = Columns
          /\ whole["email"] = rows[r].email /\ whole["name"] = "registered"
          /\ whole["state"] = rows[r].state /\ whole["approval"] = "approved"
      BY <1>2 DEF Registered, Row, Columns
    <3>2. whole \in ColumnSets
      <4>1. whole \in [Columns -> Words]
        BY <1>2 DEF Registered, Row, Columns, Words
      <4> QED BY <4>1, ColumnSetsHave
    <3>3. Stores(c, r, whole)
      BY <1>1, <2>1
    <3>4. rows[r].email = "address" => Holding \subseteq {r}
      BY <1>2 DEF AccountsInv, OneAccount, Holding
    <3>5. "name" \notin races => rows[r].name = "tomb"
      BY <1>1, <1>2, <2>1 DEF CallInv, NameKept
    <3>6. "name" \notin races /\ rows[r].state = "deleted" => rows[r].email = "tomb"
      BY <1>2 DEF AccountsInv
    <3>7. rows[r].email \in {"address", "tomb"} /\ rows[r].state \in {"active", "frozen", "banned", "deleted"}
      BY <1>2 DEF Row
    <3> HIDE DEF whole, r
    <3>8. /\ {"email", "name", "state", "approval"} \subseteq DOMAIN whole
          /\ RowsStand /\ RaceSeen(c)
          /\ \A q \in DOMAIN rows \ {r} : rows'[q] = rows[q]
          /\ rows'[r].state = IF "state" \in DOMAIN whole THEN whole["state"] ELSE rows[r].state
      <4>1. /\ {"email", "name", "state", "approval"} \subseteq DOMAIN whole
        BY <3>1 DEF Columns
      <4> QED BY <4>1, <1>2, <3>1, <3>2, <3>3, <3>4, <3>5, <3>6, <3>7, Stored
    <3> QED BY <3>1, <3>8
  <2>2. CASE ~clash
    <3>1. Commits(c) /\ ("email" \in DOMAIN client[c].set => Holding = {})
      BY <1>1, <2>2
    <3>2. /\ RowsStand /\ RaceSeen(c)
          /\ \A q \in DOMAIN rows \ {r} : rows'[q] = rows[q]
          /\ rows'[r].state = IF "state" \in DOMAIN client[c].set THEN client[c].set["state"]
                              ELSE rows[r].state
      BY <1>1, <3>1, Committed DEF RowOps
    <3>3. "state" \notin DOMAIN client[c].set
      BY <1>1, <1>2 DEF CallInv, SetOf
    <3> QED BY <3>2, <3>3
  <2> QED BY <2>1, <2>2
<1> QED BY <1>1, <1>2, <1>3, <1>4, UnbarredKeeps

LEMMA AdminCommitsKeeps ==
  ASSUME AccountsInv, NEW c \in Clients, AdminCommits(c), UNCHANGED <<identity, acts>>
  PROVE  AccountsInv'
<1> DEFINE r == client[c].row
           set == client[c].set
           op == client[c].op
           ban == [row |-> r, email |-> client[c].ban]
           placed == [row |-> r, email |-> "address"]
<1>1. /\ op \in AdminOps /\ entered' = entered /\ Commits(c) /\ EndsAndLifts(c)
      /\ bans' = bans \union {b \in {ban} : client[c].ban # "none"}
      /\ barred' = IF op \notin {"ban", "active"} THEN barred
                   ELSE IF rows'[r].state = "banned" THEN barred \/ placed \in bans'
                        ELSE barred /\ rows'[r].state # "active"
  BY DEF AdminCommits, AdminOps
<1>2. /\ CallInv(client[c]) /\ client[c] \in Call /\ ~client[c].barred /\ barred \in BOOLEAN
  <2>1. CallInv(client[c])
    BY DEF AccountsInv
  <2>2. ~client[c].barred
    BY <2>1, <1>1 DEF CallInv, SignInOps, AdminOps
  <2> QED BY <2>1, <2>2, AccountTypes
<1>3. /\ r \in DOMAIN rows /\ RowsStand /\ RaceSeen(c)
      /\ \A q \in DOMAIN rows \ {r} : rows'[q] = rows[q]
      /\ rows'[r].state = IF "state" \in DOMAIN set THEN set["state"] ELSE rows[r].state
  BY <1>1, Committed DEF RowOps, AdminOps
<1>4. bans \subseteq bans' /\ \A b \in bans' \ bans : b \in [row : DOMAIN rows, email : {"address", "tomb"}]
  <2>1. client[c].ban \in {"none", "address", "tomb"}
    BY <1>2 DEF Call
  <2> QED BY <2>1, <1>1, <1>3
<1>5. barred' \in BOOLEAN
  BY <1>1, <1>2
<1>6. "state" \in DOMAIN set /\ set["state"] = "active" => op = "active"
  BY <1>2 DEF CallInv, SetOf
<1> HIDE DEF r, set, op, placed
<1>7. ASSUME barred', NEW q \in DOMAIN rows, rows[q].state # "active" PROVE rows'[q].state # "active"
  <2>1. CASE q # r
    BY <2>1, <1>3, <1>7
  <2>2. CASE q = r
    <3>1. rows'[r].state = "active" => op = "active"
      BY <2>2, <1>3, <1>6, <1>7
    <3>2. op = "active" => rows'[r].state # "active"
      BY <1>1, <1>7
    <3> QED BY <2>2, <3>1, <3>2
  <2> QED BY <2>1, <2>2
<1>8. barred' => barred \/ \E b \in bans' : b.email = "address" /\ rows'[b.row].state # "active"
  <2> SUFFICES ASSUME barred', ~barred
               PROVE  \E b \in bans' : b.email = "address" /\ rows'[b.row].state # "active"
    OBVIOUS
  <2>1. rows'[r].state = "banned" /\ placed \in bans'
    BY <1>1
  <2>2. placed.email = "address" /\ placed.row = r
    BY DEF placed
  <2> QED BY <2>1, <2>2
<1> QED BY <1>1, <1>2, <1>3, <1>4, <1>5, <1>7, <1>8, UnbarredKeeps


LEMMA AccountsStep == AccountsInv /\ AccountsNext => AccountsInv'
<1> SUFFICES ASSUME AccountsInv, AccountsNext PROVE AccountsInv'
  OBVIOUS
<1>1. ASSUME NEW c \in Clients, RequestLooks(c) \/ ContextLooks(c) \/ RequestSignsIn(c) \/ ContextSignsIn(c)
                                \/ CheckBans(c) \/ CreateClashes(c),
             UNCHANGED <<identity, acts>>
      PROVE  AccountsInv'
  BY <1>1, LooksKeep, SignInsKeep, CheckBansKeeps, CreateClashesKeeps
<1>2. ASSUME NEW c \in Clients, NEW approval \in {"withheld", "approved"},
             RequestCreates(c, approval) \/ ContextCreates(c, approval), UNCHANGED <<identity, acts>>
      PROVE  AccountsInv'
  BY <1>2, NewRowKeeps DEF RequestCreates, ContextCreates
<1>3. ASSUME NEW c \in Clients, NEW r \in DOMAIN rows, Register(c, r), UNCHANGED <<identity, acts>>
      PROVE  AccountsInv'
  BY <1>3, RegisterKeeps
<1>4. ASSUME NEW c \in Clients, RegisterCommits(c) \/ AdminCommits(c) \/ CompanyCommits(c) \/ RequestFails(c),
             UNCHANGED <<identity, acts>>
      PROVE  AccountsInv'
  BY <1>4, RegisterCommitsKeeps, AdminCommitsKeeps, CompanyCommitsKeeps, RequestFailsKeeps
<1>5. ASSUME NEW c \in Clients, NEW r \in DOMAIN rows,
             \/ \E action \in {"active", "freeze", "ban", "delete"} : SetState(c, r, action)
             \/ \E approve \in BOOLEAN : Decide(c, r, approve),
             UNCHANGED identity
      PROVE  AccountsInv'
  BY <1>5, SetStateKeeps, DecideKeeps DEF AdminOps
<1> QED BY <1>1, <1>2, <1>3, <1>4, <1>5, LoginKeeps, ProvisionKeeps DEF AccountsNext

LEMMA AccountsStutter == AccountsInv /\ UNCHANGED accountVars => AccountsInv'
<1> SUFFICES ASSUME AccountsInv, UNCHANGED accountVars PROVE AccountsInv'
  OBVIOUS
<1>1. /\ rows' = rows /\ identity' = identity /\ bans' = bans /\ acts' = acts /\ client' = client
      /\ barred' = barred /\ entered' = entered /\ races' = races
  BY DEF accountVars
<1>2. AccountsTypeOK' /\ OneAccount' /\ BannedStaysOut'
  BY <1>1 DEF AccountsInv, AccountsTypeOK, OneAccount, BannedStaysOut, Holding
<1>3. \A c \in Clients : CallInv(client[c])'
  BY <1>1 DEF AccountsInv, CallInv, SetOf, NameKept
<1> QED BY <1>1, <1>2, <1>3 DEF AccountsInv, AddressBanned, Holding

LEMMA AccountsInvHolds == AccountsInv => AccountsTypeOK /\ OneAccount /\ BannedStaysOut /\ DeletedIsNameless
  BY DEF AccountsInv, DeletedIsNameless

-----------------------------------------------------------------------------
(* A video sent in chunks. *)

UploadJob == [op : {"none", "chunk", "merge", "publish"}, chunk : SUBSET Chunks,
              seen : {"none", "initiated", "uploading", "failed"}]

\* While nothing has gone wrong: one request completes the upload, the chunks
\* are deleted with their directory when it has merged them, and what is merged
\* has every chunk.
Undisturbed ==
    /\ \A i \in Chunks : parts[i] \in {"none", "whole"}
    /\ ~directory => \A i \in Chunks : parts[i] = "none"
    /\ \A u, v \in Uploaders :
          uploader[u].op \in {"merge", "publish"} /\ uploader[v].op \in {"merge", "publish"} => u = v
    /\ \A u \in Uploaders : uploader[u].op = "merge" => directory
    /\ \A u \in Uploaders :
          uploader[u].op = "publish" => ~directory /\ \A i \in Chunks : merged[i] = "whole"
    /\ promised => /\ ~directory
                   /\ \A u \in Uploaders : uploader[u].op \notin {"merge", "publish"}
                   /\ \A i \in Chunks : Published[i] = "whole"

UploadInv == UploadTypeOK /\ (mishaps = {} => Undisturbed)

LEMMA UploadTypes ==
  ASSUME UploadTypeOK
  PROVE  /\ upload \in {"initiated", "uploading", "completed", "failed"}
         /\ directory \in BOOLEAN /\ remote \in BOOLEAN /\ promised \in BOOLEAN
         /\ parts \in [Chunks -> Content] /\ merged \in [Chunks -> Content]
         /\ stored \in [Chunks -> Content]
         /\ uploader \in [Uploaders -> UploadJob] /\ mishaps \subseteq {"torn", "late", "two"}
  BY DEF UploadTypeOK, UploadJob

LEMMA UploadTyped ==
  ASSUME upload' \in {"initiated", "uploading", "completed", "failed"},
         directory' \in BOOLEAN, remote' \in BOOLEAN, promised' \in BOOLEAN,
         parts' \in [Chunks -> Content], merged' \in [Chunks -> Content],
         stored' \in [Chunks -> Content],
         uploader' \in [Uploaders -> UploadJob], mishaps' \subseteq {"torn", "late", "two"}
  PROVE  UploadTypeOK'
  BY DEF UploadTypeOK, UploadJob, Content

LEMMA NothingOK == Nothing \in [Chunks -> Content] /\ \A i \in Chunks : Nothing[i] = "none"
  BY DEF Nothing, Content

LEMMA RestingOK == Resting \in UploadJob /\ Resting.op = "none"
  BY DEF Resting, UploadJob

LEMMA UploadStart == UploadInit => UploadInv
<1> SUFFICES ASSUME UploadInit PROVE UploadInv
  OBVIOUS
<1>1. /\ upload = "initiated" /\ directory = TRUE /\ parts = Nothing /\ merged = Nothing
      /\ stored = Nothing /\ uploader = [u \in Uploaders |-> Resting] /\ remote \in BOOLEAN
      /\ promised = FALSE /\ mishaps = {}
  BY DEF UploadInit
<1>2. UploadTypeOK
  <2>1. uploader \in [Uploaders -> UploadJob]
    BY <1>1, RestingOK
  <2> QED BY <1>1, <2>1, NothingOK DEF UploadTypeOK, UploadJob
<1>3. Undisturbed
  BY <1>1, NothingOK, RestingOK DEF Undisturbed
<1> QED BY <1>2, <1>3 DEF UploadInv

LEMMA UploaderTurns ==
  ASSUME UploadInv, NEW u \in Uploaders, NEW j \in UploadJob, uploader' = [uploader EXCEPT ![u] = j]
  PROVE  /\ uploader' \in [Uploaders -> UploadJob] /\ uploader'[u] = j
         /\ \A v \in Uploaders \ {u} : uploader'[v] = uploader[v]
  BY UploadTypes DEF UploadInv

\* A request that ends, or waits for a chunk, and leaves the files.
LEMMA UploaderRests ==
  ASSUME UploadInv, NEW u \in Uploaders, NEW j \in UploadJob, j.op \notin {"merge", "publish"},
         uploader' = [uploader EXCEPT ![u] = j],
         upload' \in {"initiated", "uploading", "completed", "failed"},
         UNCHANGED <<directory, parts, merged, stored, remote, promised, mishaps>>
  PROVE  UploadInv'
<1>1. /\ uploader' \in [Uploaders -> UploadJob] /\ uploader'[u] = j
      /\ \A v \in Uploaders \ {u} : uploader'[v] = uploader[v]
  BY UploaderTurns
<1>2. UploadTypeOK'
  BY <1>1, UploadTypes, UploadTyped DEF UploadInv
<1>3. ASSUME Undisturbed PROVE Undisturbed'
  <2>1. \A v \in Uploaders : uploader'[v].op \in {"merge", "publish"} => uploader'[v] = uploader[v]
    BY <1>1
  <2> QED BY <2>1, <1>3 DEF Undisturbed, Published
<1> QED BY <1>2, <1>3 DEF UploadInv

LEMMA ChunkArrivesKeeps ==
  ASSUME UploadInv, NEW u \in Uploaders, NEW i \in Chunks, ChunkArrives(u, i)
  PROVE  UploadInv'
<1> DEFINE j == [op |-> "chunk", chunk |-> {i}, seen |-> upload]
<1>1. /\ upload # "completed" /\ uploader' = [uploader EXCEPT ![u] = j] /\ directory' = TRUE
      /\ mishaps' = mishaps \union {m \in {"late"} : ~directory}
      /\ UNCHANGED <<upload, parts, merged, stored, remote, promised>>
  BY DEF ChunkArrives
<1>2. j \in UploadJob /\ j.op = "chunk"
  BY <1>1, UploadTypes DEF UploadInv, UploadJob
<1> HIDE DEF j
<1>3. /\ uploader' \in [Uploaders -> UploadJob] /\ uploader'[u] = j
      /\ \A v \in Uploaders \ {u} : uploader'[v] = uploader[v]
  BY <1>1, <1>2, UploaderTurns
<1>4. UploadTypeOK'
  BY <1>1, <1>3, UploadTypes, UploadTyped DEF UploadInv
<1>5. ASSUME mishaps' = {} PROVE Undisturbed'
  <2>1. Undisturbed /\ directory
    BY <1>1, <1>5 DEF UploadInv
  <2>2. \A v \in Uploaders : uploader'[v].op \in {"merge", "publish"} => uploader'[v] = uploader[v]
    BY <1>2, <1>3
  <2> QED BY <2>1, <2>2, <1>1 DEF Undisturbed, Published
<1> QED BY <1>4, <1>5 DEF UploadInv

LEMMA ChunkWrites ==
  ASSUME UploadInv, NEW u \in Uploaders, NEW content \in {"whole", "torn"}, CanWrite(u),
         ChunkFile(u, content), Rests(u),
         upload' \in {"initiated", "uploading", "completed", "failed"},
         mishaps' = mishaps \union {m \in {"torn"} : content = "torn"},
         UNCHANGED <<directory, merged, stored, remote, promised>>
  PROVE  UploadInv'
<1>1. /\ directory
      /\ parts' = [i \in Chunks |-> IF i \in uploader[u].chunk THEN content ELSE parts[i]]
      /\ uploader' = [uploader EXCEPT ![u] = Resting]
  BY DEF CanWrite, ChunkFile, Rests
<1>2. /\ uploader' \in [Uploaders -> UploadJob] /\ uploader'[u] = Resting
      /\ \A v \in Uploaders \ {u} : uploader'[v] = uploader[v]
  BY <1>1, RestingOK, UploaderTurns
<1>3. UploadTypeOK'
  <2>1. parts' \in [Chunks -> Content]
    BY <1>1, UploadTypes DEF UploadInv, Content
  <2> QED BY <1>2, <2>1, UploadTypes, UploadTyped DEF UploadInv
<1>4. ASSUME mishaps' = {} PROVE Undisturbed'
  <2>1. Undisturbed /\ content = "whole"
    BY <1>4 DEF UploadInv
  <2>2. \A v \in Uploaders : uploader'[v].op \in {"merge", "publish"} => uploader'[v] = uploader[v]
    BY <1>2, RestingOK
  <2>3. \A i \in Chunks : parts'[i] \in {"none", "whole"}
    BY <2>1, <1>1 DEF Undisturbed
  <2> QED BY <2>1, <2>2, <2>3, <1>1 DEF Undisturbed, Published
<1> QED BY <1>3, <1>4 DEF UploadInv

LEMMA ChunksKeep ==
  ASSUME UploadInv, NEW u \in Uploaders, ChunkKnown(u) \/ ChunkStored(u) \/ ChunkTorn(u)
  PROVE  UploadInv'
<1>0. /\ upload \in {"initiated", "uploading", "completed", "failed"}
      /\ mishaps \subseteq {"torn", "late", "two"}
  BY UploadTypes DEF UploadInv
<1>1. CASE ChunkKnown(u)
  BY <1>0, <1>1, RestingOK, UploaderRests DEF ChunkKnown, Rests
<1>2. CASE ChunkStored(u)
  <2>1. upload' \in {"initiated", "uploading", "completed", "failed"}
    BY <1>0, <1>2 DEF ChunkStored, Sets
  <2>2. mishaps' = mishaps \union {m \in {"torn"} : "whole" = "torn"}
    BY <1>2 DEF ChunkStored
  <2> QED BY <1>2, <2>1, <2>2, ChunkWrites DEF ChunkStored
<1>3. CASE ChunkTorn(u)
  <2>1. mishaps' = mishaps \union {m \in {"torn"} : "torn" = "torn"}
    BY <1>3 DEF ChunkTorn
  <2> QED BY <1>0, <1>3, <2>1, ChunkWrites DEF ChunkTorn
<1> QED BY <1>1, <1>2, <1>3

LEMMA MergeKeeps ==
  ASSUME UploadInv, NEW u \in Uploaders, Merge(u)
  PROVE  UploadInv'
<1> DEFINE j == [Resting EXCEPT !.op = "merge"]
<1>1. /\ uploader[u] = Resting /\ directory /\ merged' = Nothing
      /\ mishaps' = mishaps \union {m \in {"two"} : OthersIn(u, {"merge", "publish"})}
      /\ uploader' = [uploader EXCEPT ![u] = j]
      /\ UNCHANGED <<upload, directory, parts, stored, remote, promised>>
  BY DEF Merge, Does
<1>2. j \in UploadJob /\ j.op = "merge"
  BY DEF Resting, UploadJob
<1> HIDE DEF j
<1>3. /\ uploader' \in [Uploaders -> UploadJob] /\ uploader'[u] = j
      /\ \A v \in Uploaders \ {u} : uploader'[v] = uploader[v]
  BY <1>1, <1>2, UploaderTurns
<1>4. UploadTypeOK'
  <2>1. mishaps' \subseteq {"torn", "late", "two"}
    BY <1>1, UploadTypes DEF UploadInv
  <2> QED BY <2>1, <1>1, <1>3, UploadTypes, UploadTyped, NothingOK DEF UploadInv
<1>5. ASSUME mishaps' = {} PROVE Undisturbed'
  <2>1. Undisturbed /\ ~OthersIn(u, {"merge", "publish"})
    BY <1>1, <1>5 DEF UploadInv
  <2>2. \A v \in Uploaders : uploader'[v].op \in {"merge", "publish"} => v = u
    BY <2>1, <1>3 DEF OthersIn
  <2>3. ~promised
    BY <2>1, <1>1 DEF Undisturbed
  <2> QED BY <2>1, <2>2, <2>3, <1>1, <1>2, <1>3 DEF Undisturbed
<1> QED BY <1>4, <1>5 DEF UploadInv

LEMMA MergeLateKeeps ==
  ASSUME UploadInv, NEW u \in Uploaders, MergeLate(u)
  PROVE  UploadInv'
<1>1. /\ upload' = "failed"
      /\ UNCHANGED <<directory, parts, merged, stored, uploader, remote, promised, mishaps>>
  BY DEF MergeLate
<1>2. UploadTypeOK'
  BY <1>1, UploadTypes, UploadTyped DEF UploadInv
<1>3. Undisturbed => Undisturbed'
  BY <1>1 DEF Undisturbed, Published
<1> QED BY <1>1, <1>2, <1>3 DEF UploadInv

LEMMA MergeEndsKeeps ==
  ASSUME UploadInv, NEW u \in Uploaders, MergeEnds(u)
  PROVE  UploadInv'
<1> DEFINE j == [Resting EXCEPT !.op = "publish"]
<1>1. /\ uploader[u].op = "merge" /\ merged' = parts /\ UNCHANGED <<stored, remote, promised, mishaps>>
  BY DEF MergeEnds
<1>2. j \in UploadJob /\ j.op = "publish"
  BY DEF Resting, UploadJob
<1> HIDE DEF j
<1>3. mishaps = {} => ~promised
  BY <1>1 DEF UploadInv, Undisturbed
<1>4. CASE Missing # {}
  <2>1. upload' = "failed" /\ uploader' = [uploader EXCEPT ![u] = Resting] /\ UNCHANGED <<directory, parts>>
    BY <1>4 DEF MergeEnds, Rests
  <2>2. /\ uploader' \in [Uploaders -> UploadJob] /\ uploader'[u] = Resting
        /\ \A v \in Uploaders \ {u} : uploader'[v] = uploader[v]
    BY <2>1, RestingOK, UploaderTurns
  <2>3. UploadTypeOK'
    BY <1>1, <2>1, <2>2, UploadTypes, UploadTyped DEF UploadInv
  <2>4. ASSUME mishaps = {} PROVE Undisturbed'
    <3>1. Undisturbed
      BY <2>4 DEF UploadInv
    <3>2. \A v \in Uploaders : uploader'[v].op \notin {"merge", "publish"}
      BY <3>1, <2>2, <1>1, RestingOK DEF Undisturbed
    <3> QED BY <3>1, <3>2, <1>1, <1>3, <2>1, <2>4 DEF Undisturbed
  <2> QED BY <2>3, <2>4, <1>1 DEF UploadInv
<1>5. CASE Missing = {}
  <2>1. /\ parts' = Nothing /\ directory' = FALSE /\ uploader' = [uploader EXCEPT ![u] = j]
        /\ upload' = upload
    BY <1>5 DEF MergeEnds, Does, j
  <2>2. /\ uploader' \in [Uploaders -> UploadJob] /\ uploader'[u] = j
        /\ \A v \in Uploaders \ {u} : uploader'[v] = uploader[v]
    BY <2>1, <1>2, UploaderTurns
  <2>3. UploadTypeOK'
    BY <1>1, <2>1, <2>2, UploadTypes, UploadTyped, NothingOK DEF UploadInv
  <2>4. ASSUME mishaps = {} PROVE Undisturbed'
    <3>1. Undisturbed
      BY <2>4 DEF UploadInv
    <3>2. \A v \in Uploaders : uploader'[v].op \in {"merge", "publish"} => v = u
      BY <3>1, <2>2, <1>1 DEF Undisturbed
    <3>3. \A i \in Chunks : merged'[i] = "whole"
      BY <3>1, <1>1, <1>5 DEF Undisturbed, Missing
    <3> QED BY <3>1, <3>2, <3>3, <1>1, <1>2, <1>3, <2>1, <2>2, <2>4, NothingOK DEF Undisturbed
  <2> QED BY <2>3, <2>4, <1>1 DEF UploadInv
<1> QED BY <1>4, <1>5

LEMMA PublishKeeps ==
  ASSUME UploadInv, NEW u \in Uploaders, Publish(u)
  PROVE  UploadInv'
<1>1. /\ uploader[u].op = "publish" /\ upload' = "completed" /\ promised' = TRUE
      /\ stored' = (IF remote THEN merged ELSE stored)
      /\ merged' = (IF remote THEN Nothing ELSE merged)
      /\ uploader' = [uploader EXCEPT ![u] = Resting] /\ UNCHANGED <<directory, parts, remote, mishaps>>
  BY DEF Publish, Rests
<1>2. /\ uploader' \in [Uploaders -> UploadJob] /\ uploader'[u] = Resting
      /\ \A v \in Uploaders \ {u} : uploader'[v] = uploader[v]
  BY <1>1, RestingOK, UploaderTurns
<1>3. UploadTypeOK'
  <2>1. merged' \in [Chunks -> Content] /\ stored' \in [Chunks -> Content]
    BY <1>1, NothingOK, UploadTypes DEF UploadInv
  <2> QED BY <1>1, <1>2, <2>1, UploadTypes, UploadTyped DEF UploadInv
<1>4. ASSUME mishaps = {} PROVE Undisturbed'
  <2>1. Undisturbed
    BY <1>4 DEF UploadInv
  <2>2. \A v \in Uploaders : uploader'[v].op \notin {"merge", "publish"}
    BY <2>1, <1>1, <1>2, RestingOK DEF Undisturbed
  <2>3. ~directory /\ \A i \in Chunks : merged[i] = "whole"
    BY <2>1, <1>1 DEF Undisturbed
  <2>4. \A i \in Chunks : Published'[i] = "whole"
    BY <2>3, <1>1 DEF Published
  <2> QED BY <2>1, <2>2, <2>3, <2>4, <1>1 DEF Undisturbed
<1> QED BY <1>1, <1>3, <1>4 DEF UploadInv

LEMMA UploadStep == UploadInv /\ UploadNext => UploadInv'
<1> SUFFICES ASSUME UploadInv, UploadNext PROVE UploadInv'
  OBVIOUS
<1>1. upload \in {"initiated", "uploading", "completed", "failed"}
  BY UploadTypes DEF UploadInv
<1>2. ASSUME NEW u \in Uploaders, PublishFails(u) \/ UploaderEnds(u) PROVE UploadInv'
  BY <1>1, <1>2, RestingOK, UploaderRests DEF PublishFails, UploaderEnds, Rests
<1> QED BY <1>2, ChunkArrivesKeeps, ChunksKeep, MergeKeeps, MergeLateKeeps, MergeEndsKeeps, PublishKeeps
        DEF UploadNext

LEMMA UploadStutter == UploadInv /\ UNCHANGED uploadVars => UploadInv'
<1> SUFFICES ASSUME UploadInv, UNCHANGED uploadVars PROVE UploadInv'
  OBVIOUS
<1>1. UNCHANGED <<upload, directory, parts, merged, stored, uploader, remote, promised, mishaps>>
  BY DEF uploadVars
<1>2. UploadTypeOK'
  BY <1>1, UploadTypes, UploadTyped DEF UploadInv
<1>3. Undisturbed => Undisturbed'
  BY <1>1 DEF Undisturbed, Published
<1> QED BY <1>1, <1>2, <1>3 DEF UploadInv

LEMMA UploadInvHolds == UploadInv => UploadTypeOK /\ UploadWhole
  BY DEF UploadInv, UploadWhole, Undisturbed

-----------------------------------------------------------------------------
(* The recording of a live class. *)

RecorderJob == [op : {"none", "piece", "merge", "announce", "tidy"}, pieces : SUBSET Pieces]

\* While nothing has slipped: one request completes, after every piece, with
\* all that is there; what it announces has all that was acknowledged, and it
\* leaves none of it behind.
Uncrossed ==
    /\ \A q, r \in Recorders :
          recorder[q].op \in Completing /\ recorder[r].op \in Completing => q = r
    /\ \A q, r \in Recorders : recorder[q].op \in Completing => recorder[r].op # "piece"
    /\ news > 0 => \A r \in Recorders : recorder[r].op # "piece"
    /\ \A r \in Recorders : recorder[r].op = "piece" => recorder[r].pieces \subseteq There
    /\ news = 0 => \A p \in received : shelf[p] = "whole"
    /\ \A r \in Recorders :
          recorder[r].op \in {"merge", "announce"} => news = 0 /\ recorder[r].pieces = There
    /\ \A r \in Recorders :
          recorder[r].op = "announce" => \A p \in received : film[p] = "whole"
    /\ \A r \in Recorders :
          recorder[r].op = "tidy" => news = 1 /\ There \subseteq recorder[r].pieces
    /\ news > 0 => There = {} \/ \E r \in Recorders : recorder[r].op = "tidy"
    /\ news <= 1
    /\ news = 1 => \A p \in received : Shown[p] = "whole"

RecordingInv == RecordingTypeOK /\ (slips = {} => Uncrossed)

LEMMA RecordingTypes ==
  ASSUME RecordingTypeOK
  PROVE  /\ shelf \in Film /\ film \in Film /\ cloud \in Film /\ offsite \in BOOLEAN
         /\ news \in 0..MaxNews /\ news \in Nat /\ received \subseteq Pieces
         /\ recorder \in [Recorders -> RecorderJob] /\ slips \subseteq {"late", "two", "cut"}
<1>1. {"none", "piece"} \union Completing = {"none", "piece", "merge", "announce", "tidy"}
  BY DEF Completing
<1>2. news \in 0..MaxNews /\ news \in Nat
  BY RecordingAssumption DEF RecordingTypeOK
<1>3. /\ shelf \in Film /\ film \in Film /\ cloud \in Film
  BY DEF RecordingTypeOK
<1> QED BY <1>1, <1>2, <1>3 DEF RecordingTypeOK, RecorderJob

LEMMA RecordingTyped ==
  ASSUME shelf' \in Film, film' \in Film, cloud' \in Film, offsite' \in BOOLEAN,
         news' \in 0..MaxNews, received' \subseteq Pieces,
         recorder' \in [Recorders -> RecorderJob], slips' \subseteq {"late", "two", "cut"}
  PROVE  RecordingTypeOK'
<1>1. {"none", "piece"} \union Completing = {"none", "piece", "merge", "announce", "tidy"}
  BY DEF Completing
<1>2. {shelf', film', cloud'} \subseteq Film
  OBVIOUS
<1> QED BY <1>1, <1>2 DEF RecordingTypeOK, RecorderJob, Film

LEMMA NoFilmOK == NoFilm \in Film /\ \A p \in Pieces : NoFilm[p] = "none"
  BY DEF NoFilm, Film

LEMMA AsleepOK == Asleep \in RecorderJob /\ Asleep.op = "none"
  BY DEF Asleep, RecorderJob

LEMMA RecordingStart == RecordingInit => RecordingInv
<1> SUFFICES ASSUME RecordingInit PROVE RecordingInv
  OBVIOUS
<1>1. /\ shelf = NoFilm /\ film = NoFilm /\ cloud = NoFilm /\ offsite \in BOOLEAN /\ news = 0
      /\ recorder = [r \in Recorders |-> Asleep] /\ received = {} /\ slips = {}
  BY DEF RecordingInit
<1>2. RecordingTypeOK
  <2>1. recorder \in [Recorders -> [op : {"none", "piece"} \union Completing, pieces : SUBSET Pieces]]
    BY <1>1 DEF Asleep
  <2>2. news \in 0..MaxNews
    BY <1>1, RecordingAssumption
  <2> QED BY <1>1, <2>1, <2>2, NoFilmOK DEF RecordingTypeOK
<1>3. Uncrossed
  BY <1>1, AsleepOK DEF Uncrossed, Completing
<1> QED BY <1>2, <1>3 DEF RecordingInv

LEMMA RecorderTurns ==
  ASSUME RecordingInv, NEW r \in Recorders, NEW j \in RecorderJob, recorder' = [recorder EXCEPT ![r] = j]
  PROVE  /\ recorder' \in [Recorders -> RecorderJob] /\ recorder'[r] = j
         /\ \A q \in Recorders \ {r} : recorder'[q] = recorder[q]
  BY RecordingTypes DEF RecordingInv

LEMMA PieceArrivesKeeps ==
  ASSUME RecordingInv, NEW r \in Recorders, NEW p \in Pieces, PieceArrives(r, p)
  PROVE  RecordingInv'
<1> DEFINE j == [op |-> "piece", pieces |-> {p}]
<1>0. shelf \in Film /\ news \in Nat /\ received \subseteq Pieces /\ slips \subseteq {"late", "two", "cut"}
      /\ recorder \in [Recorders -> RecorderJob]
  BY RecordingTypes DEF RecordingInv
<1>1. /\ recorder[r] = Asleep /\ recorder' = [recorder EXCEPT ![r] = j]
      /\ shelf' = [shelf EXCEPT ![p] = "torn"] /\ received' = received \ {p}
      /\ slips' = slips \union {s \in {"late"} : news > 0 \/ Alongside(r, Completing)}
      /\ UNCHANGED <<film, cloud, offsite, news>>
  BY DEF PieceArrives, Works, Slips
<1>2. j \in RecorderJob /\ j.op = "piece" /\ j.pieces = {p}
  BY DEF RecorderJob
<1> HIDE DEF j
<1>3. /\ recorder' \in [Recorders -> RecorderJob] /\ recorder'[r] = j
      /\ \A q \in Recorders \ {r} : recorder'[q] = recorder[q]
  BY <1>1, <1>2, RecorderTurns
<1>4. /\ shelf' \in Film /\ shelf'[p] = "torn" /\ \A o \in Pieces \ {p} : shelf'[o] = shelf[o]
  BY <1>0, <1>1 DEF Film
<1>5. RecordingTypeOK'
  <2>1. slips' \subseteq {"late", "two", "cut"} /\ received' \subseteq Pieces
    BY <1>0, <1>1
  <2> QED BY <2>1, <1>1, <1>3, <1>4, RecordingTypes, RecordingTyped DEF RecordingInv
<1>6. ASSUME slips' = {} PROVE Uncrossed'
  <2>1. Uncrossed /\ ~(news > 0) /\ ~Alongside(r, Completing)
    BY <1>1, <1>6 DEF RecordingInv
  <2>2. \A q \in Recorders : recorder'[q].op \notin Completing
    BY <2>1, <1>2, <1>3 DEF Alongside, Completing
  <2>3. \A o \in received' : shelf'[o] = "whole"
    BY <2>1, <1>0, <1>1, <1>4 DEF Uncrossed
  <2>4. There' = There \union {p}
    BY <1>4 DEF There
  <2>5. \A q \in Recorders : recorder'[q].op = "piece" => recorder'[q].pieces \subseteq There'
    BY <2>1, <2>4, <1>2, <1>3 DEF Uncrossed
  <2>6. news' = news /\ news = 0
    BY <2>1, <1>0, <1>1
  <2> QED BY <2>2, <2>3, <2>5, <2>6 DEF Uncrossed, Completing
<1> QED BY <1>5, <1>6 DEF RecordingInv

LEMMA PieceStoredKeeps ==
  ASSUME RecordingInv, NEW r \in Recorders, PieceStored(r)
  PROVE  RecordingInv'
<1> DEFINE pieces == recorder[r].pieces
<1>0. shelf \in Film /\ news \in Nat /\ received \subseteq Pieces
      /\ recorder \in [Recorders -> RecorderJob] /\ pieces \subseteq Pieces
  BY RecordingTypes DEF RecordingInv, RecorderJob
<1>1. /\ recorder[r].op = "piece"
      /\ shelf' = [p \in Pieces |-> IF p \in pieces /\ shelf[p] # "none" THEN "whole" ELSE shelf[p]]
      /\ received' = received \union pieces /\ recorder' = [recorder EXCEPT ![r] = Asleep]
      /\ UNCHANGED <<film, cloud, offsite, news, slips>>
  BY DEF PieceStored, Stops
<1> HIDE DEF pieces
<1>2. /\ recorder' \in [Recorders -> RecorderJob] /\ recorder'[r] = Asleep
      /\ \A q \in Recorders \ {r} : recorder'[q] = recorder[q]
  BY <1>1, AsleepOK, RecorderTurns
<1>3. shelf' \in Film /\ There' = There
  <2>1. \A p \in Pieces : shelf[p] \in {"none", "torn", "whole"}
    BY <1>0 DEF Film
  <2>2. shelf' \in Film
    BY <2>1, <1>1 DEF Film
  <2> QED BY <2>1, <2>2, <1>1 DEF There
<1>4. RecordingTypeOK'
  BY <1>0, <1>1, <1>2, <1>3, RecordingTypes, RecordingTyped DEF RecordingInv
<1>5. ASSUME slips = {} PROVE Uncrossed'
  <2>1. Uncrossed
    BY <1>5 DEF RecordingInv
  <2>2. \A q \in Recorders : recorder'[q].op \notin Completing
    <3>1. \A q \in Recorders : recorder[q].op \notin Completing
      BY <2>1, <1>1 DEF Uncrossed
    <3> QED BY <3>1, <1>2, AsleepOK DEF Completing
  <2>3. pieces \subseteq There /\ news = 0
    <3>1. pieces \subseteq There
      BY <2>1, <1>1 DEF Uncrossed, pieces
    <3>2. ~(news > 0)
      BY <2>1, <1>1 DEF Uncrossed
    <3> QED BY <3>1, <3>2, <1>0
  <2>4. \A o \in received' : shelf'[o] = "whole"
    BY <2>1, <2>3, <1>0, <1>1 DEF Uncrossed, There
  <2>5. \A q \in Recorders : recorder'[q].op = "piece" => recorder'[q].pieces \subseteq There'
    BY <2>1, <1>2, <1>3, AsleepOK DEF Uncrossed
  <2>6. news' = news
    BY <1>1
  <2> QED BY <2>2, <2>3, <2>4, <2>5, <2>6 DEF Uncrossed, Completing
<1> QED BY <1>1, <1>4, <1>5 DEF RecordingInv

LEMMA CompletionBeginsKeeps ==
  ASSUME RecordingInv, NEW r \in Recorders, CompletionBegins(r)
  PROVE  RecordingInv'
<1> DEFINE j == [op |-> "merge", pieces |-> There]
<1>0. shelf \in Film /\ news \in Nat /\ slips \subseteq {"late", "two", "cut"}
      /\ recorder \in [Recorders -> RecorderJob]
  BY RecordingTypes DEF RecordingInv
<1>1. /\ recorder[r] = Asleep /\ There # {} /\ recorder' = [recorder EXCEPT ![r] = j]
      /\ film' = NoFilm
      /\ slips' = slips \union {s \in {"late"} : Alongside(r, {"piece"})}
                        \union {s \in {"two"} : Alongside(r, Completing)}
      /\ UNCHANGED <<shelf, cloud, offsite, news, received>>
  BY DEF CompletionBegins, Works
<1>2. j \in RecorderJob /\ j.op = "merge" /\ j.pieces = There
  BY DEF RecorderJob, There
<1> HIDE DEF j
<1>3. /\ recorder' \in [Recorders -> RecorderJob] /\ recorder'[r] = j
      /\ \A q \in Recorders \ {r} : recorder'[q] = recorder[q]
  BY <1>1, <1>2, RecorderTurns
<1>4. RecordingTypeOK'
  <2>1. slips' \subseteq {"late", "two", "cut"}
    BY <1>0, <1>1
  <2> QED BY <2>1, <1>1, <1>3, NoFilmOK, RecordingTypes, RecordingTyped DEF RecordingInv
<1>5. ASSUME slips' = {} PROVE Uncrossed'
  <2>1. Uncrossed /\ ~Alongside(r, {"piece"}) /\ ~Alongside(r, Completing)
    BY <1>1, <1>5 DEF RecordingInv
  <2>2. \A q \in Recorders : q # r => recorder'[q].op \notin Completing /\ recorder'[q].op # "piece"
    BY <2>1, <1>3 DEF Alongside
  <2>3. \A q \in Recorders : recorder[q].op # "tidy"
    BY <2>1, <1>1, AsleepOK DEF Alongside, Completing
  <2>4. news = 0
    BY <2>1, <2>3, <1>0, <1>1 DEF Uncrossed
  <2>5. There' = There /\ news' = news /\ \A p \in received' : shelf'[p] = "whole"
    BY <2>1, <2>4, <1>1 DEF There, Uncrossed
  <2> QED BY <2>2, <2>4, <2>5, <1>2, <1>3 DEF Uncrossed, Completing
<1> QED BY <1>4, <1>5 DEF RecordingInv

LEMMA AssembleKeeps ==
  ASSUME RecordingInv, NEW r \in Recorders, Assemble(r)
  PROVE  RecordingInv'
<1> DEFINE pieces == recorder[r].pieces
           j == [op |-> "announce", pieces |-> pieces]
<1>0. shelf \in Film /\ film \in Film /\ news \in Nat /\ received \subseteq Pieces
      /\ recorder \in [Recorders -> RecorderJob] /\ pieces \subseteq Pieces
  BY RecordingTypes DEF RecordingInv, RecorderJob
<1>1. /\ recorder[r].op = "merge"
      /\ IF pieces \subseteq There
         THEN /\ film' = [p \in Pieces |-> IF p \in pieces THEN shelf[p] ELSE film[p]]
              /\ recorder' = [recorder EXCEPT ![r] = j]
         ELSE film' = film /\ recorder' = [recorder EXCEPT ![r] = Asleep]
      /\ UNCHANGED <<shelf, cloud, offsite, news, received, slips>>
  BY DEF Assemble, Works, Stops
<1>2. j \in RecorderJob /\ j.op = "announce" /\ j.pieces = pieces
  BY <1>0 DEF RecorderJob
<1> HIDE DEF j, pieces
<1>3. PICK k \in RecorderJob : /\ recorder' = [recorder EXCEPT ![r] = k]
                               /\ k = j \/ k = Asleep
  BY <1>1, <1>2, AsleepOK
<1>4. /\ recorder' \in [Recorders -> RecorderJob] /\ recorder'[r] = k
      /\ \A q \in Recorders \ {r} : recorder'[q] = recorder[q]
  BY <1>3, RecorderTurns
<1>5. film' \in Film
  BY <1>0, <1>1 DEF Film
<1>6. RecordingTypeOK'
  BY <1>1, <1>4, <1>5, RecordingTypes, RecordingTyped DEF RecordingInv
<1>7. ASSUME slips = {} PROVE Uncrossed'
  <2>1. Uncrossed
    BY <1>7 DEF RecordingInv
  <2>2. news = 0 /\ pieces = There
    BY <2>1, <1>1 DEF Uncrossed, pieces
  <2>3. \A q \in Recorders : q # r => recorder'[q].op \notin Completing /\ recorder'[q].op # "piece"
    <3>1. recorder[r].op \in Completing
      BY <1>1 DEF Completing
    <3> QED BY <3>1, <2>1, <1>4 DEF Uncrossed
  <2>4. recorder'[r] = j
    BY <2>2, <1>1, <1>2, <1>4, RecorderTurns
  <2>5. There' = There /\ news' = news /\ received' = received /\ \A p \in received' : shelf'[p] = "whole"
    BY <2>1, <2>2, <1>1 DEF There, Uncrossed
  <2>6. \A p \in received' : film'[p] = "whole"
    <3>1. \A p \in received' : p \in pieces
      BY <2>2, <2>5, <1>0, <1>1 DEF There
    <3> QED BY <3>1, <2>2, <2>5, <1>0, <1>1
  <2> QED BY <2>2, <2>3, <2>4, <2>5, <2>6, <1>2 DEF Uncrossed, Completing
<1> QED BY <1>1, <1>6, <1>7 DEF RecordingInv

LEMMA AnnounceKeeps ==
  ASSUME RecordingInv, NEW r \in Recorders, Announce(r)
  PROVE  RecordingInv'
<1> DEFINE pieces == recorder[r].pieces
           j == [op |-> "tidy", pieces |-> pieces]
<1>0. film \in Film /\ cloud \in Film /\ news \in Nat /\ recorder \in [Recorders -> RecorderJob]
      /\ pieces \subseteq Pieces
  BY RecordingTypes DEF RecordingInv, RecorderJob
<1>1. /\ recorder[r].op = "announce" /\ news < MaxNews /\ news' = news + 1
      /\ cloud' = (IF offsite THEN film ELSE cloud)
      /\ recorder' = [recorder EXCEPT ![r] = j]
      /\ UNCHANGED <<shelf, film, offsite, received, slips>>
  BY DEF Announce, Works
<1>2. j \in RecorderJob /\ j.op = "tidy" /\ j.pieces = pieces
  BY <1>0 DEF RecorderJob
<1> HIDE DEF j, pieces
<1>3. /\ recorder' \in [Recorders -> RecorderJob] /\ recorder'[r] = j
      /\ \A q \in Recorders \ {r} : recorder'[q] = recorder[q]
  BY <1>1, <1>2, RecorderTurns
<1>4. RecordingTypeOK'
  <2>1. news' \in 0..MaxNews
    BY <1>0, <1>1, RecordingAssumption
  <2>2. cloud' \in Film
    BY <1>0, <1>1
  <2> QED BY <2>1, <2>2, <1>1, <1>3, RecordingTypes, RecordingTyped DEF RecordingInv
<1>5. ASSUME slips = {} PROVE Uncrossed'
  <2>1. Uncrossed
    BY <1>5 DEF RecordingInv
  <2>2. /\ news = 0 /\ pieces = There
        /\ \A p \in received : film[p] = "whole"
    BY <2>1, <1>1 DEF Uncrossed, pieces
  <2>3. \A q \in Recorders : q # r => recorder'[q].op \notin Completing /\ recorder'[q].op # "piece"
    <3>1. recorder[r].op \in Completing
      BY <1>1 DEF Completing
    <3> QED BY <3>1, <2>1, <1>3 DEF Uncrossed
  <2>4. There' = There /\ news' = 1
    BY <2>2, <1>1 DEF There
  <2>5. \A p \in received' : Shown'[p] = "whole"
    BY <2>2, <1>1 DEF Shown
  <2> QED BY <2>2, <2>3, <2>4, <2>5, <1>2, <1>3 DEF Uncrossed, Completing
<1> QED BY <1>1, <1>4, <1>5 DEF RecordingInv

\* A request that stops, but for one that was deleting pieces.
LEMMA StopsKeeps ==
  ASSUME RecordingInv, NEW r \in Recorders, recorder[r].op # "tidy" \/ There = {},
         recorder' = [recorder EXCEPT ![r] = Asleep],
         cloud' = cloud \/ (recorder[r].op = "announce" /\ cloud' = film),
         UNCHANGED <<shelf, film, offsite, news, received, slips>>
  PROVE  RecordingInv'
<1>1. /\ recorder' \in [Recorders -> RecorderJob] /\ recorder'[r] = Asleep
      /\ \A q \in Recorders \ {r} : recorder'[q] = recorder[q]
  BY AsleepOK, RecorderTurns
<1>2. cloud' \in Film
  BY RecordingTypes DEF RecordingInv
<1>3. RecordingTypeOK'
  BY <1>1, <1>2, RecordingTypes, RecordingTyped DEF RecordingInv
<1>4. ASSUME slips = {} PROVE Uncrossed'
  <2>1. Uncrossed
    BY <1>4 DEF RecordingInv
  <2>2. \A q \in Recorders : q = r \/ recorder'[q] = recorder[q]
    BY <1>1
  <2>3. recorder'[r].op = "none"
    BY <1>1, AsleepOK
  <2>4. There' = There
    BY DEF There
  <2>5. news = 1 => \A p \in received : Shown'[p] = "whole"
    BY <2>1 DEF Uncrossed, Shown
  <2>6. news > 0 => There = {} \/ \E q \in Recorders : recorder'[q].op = "tidy"
    BY <2>1, <2>2 DEF Uncrossed
  <2>7. /\ \A q, o \in Recorders :
              recorder'[q].op \in Completing /\ recorder'[o].op \in Completing => q = o
        /\ \A q, o \in Recorders : recorder'[q].op \in Completing => recorder'[o].op # "piece"
        /\ news > 0 => \A q \in Recorders : recorder'[q].op # "piece"
    BY <2>1, <2>2, <2>3 DEF Uncrossed, Completing
  <2>8. \A q \in Recorders :
          /\ recorder'[q].op = "piece" => recorder'[q].pieces \subseteq There
          /\ recorder'[q].op \in {"merge", "announce"} => news = 0 /\ recorder'[q].pieces = There
          /\ recorder'[q].op = "announce" => \A p \in received : film[p] = "whole"
          /\ recorder'[q].op = "tidy" => news = 1 /\ There \subseteq recorder'[q].pieces
    BY <2>1, <2>2, <2>3 DEF Uncrossed
  <2>9. news <= 1 /\ (news = 0 => \A p \in received : shelf[p] = "whole")
    BY <2>1 DEF Uncrossed
  <2> QED BY <2>4, <2>5, <2>6, <2>7, <2>8, <2>9 DEF Uncrossed
<1> QED BY <1>3, <1>4 DEF RecordingInv

LEMMA TidyKeeps ==
  ASSUME RecordingInv, NEW r \in Recorders, NEW p \in Pieces, Tidy(r, p)
  PROVE  RecordingInv'
<1> DEFINE rest == recorder[r].pieces \ {p}
           j == [op |-> "tidy", pieces |-> rest]
<1>0. shelf \in Film /\ recorder \in [Recorders -> RecorderJob] /\ rest \subseteq Pieces
  BY RecordingTypes DEF RecordingInv, RecorderJob
<1>1. /\ recorder[r].op = "tidy" /\ shelf' = [shelf EXCEPT ![p] = "none"]
      /\ recorder' = [recorder EXCEPT ![r] = j]
      /\ UNCHANGED <<film, cloud, offsite, news, received, slips>>
  BY DEF Tidy, Works
<1>2. j \in RecorderJob /\ j.op = "tidy" /\ j.pieces = rest
  BY <1>0 DEF RecorderJob
<1> HIDE DEF j
<1>3. /\ recorder' \in [Recorders -> RecorderJob] /\ recorder'[r] = j
      /\ \A q \in Recorders \ {r} : recorder'[q] = recorder[q]
  BY <1>1, <1>2, RecorderTurns
<1>4. shelf' \in Film /\ There' = There \ {p}
  BY <1>0, <1>1 DEF Film, There
<1>5. RecordingTypeOK'
  BY <1>1, <1>3, <1>4, RecordingTypes, RecordingTyped DEF RecordingInv
<1>6. ASSUME slips = {} PROVE Uncrossed'
  <2>1. Uncrossed
    BY <1>6 DEF RecordingInv
  <2>2. news = 1 /\ There' \subseteq rest
    BY <2>1, <1>1, <1>4 DEF Uncrossed
  <2>3. \A q \in Recorders : q # r => recorder'[q].op \notin Completing /\ recorder'[q].op # "piece"
    <3>1. recorder[r].op \in Completing
      BY <1>1 DEF Completing
    <3> QED BY <3>1, <2>1, <1>3 DEF Uncrossed
  <2>4. news' = news /\ \A o \in received' : Shown'[o] = "whole"
    BY <2>1, <2>2, <1>1 DEF Shown, Uncrossed
  <2> HIDE DEF rest
  <2> QED BY <2>2, <2>3, <2>4, <1>2, <1>3 DEF Uncrossed, Completing
<1> QED BY <1>1, <1>5, <1>6 DEF RecordingInv

LEMMA RecorderEndsKeeps ==
  ASSUME RecordingInv, NEW r \in Recorders, RecorderEnds(r)
  PROVE  RecordingInv'
<1>1. /\ recorder' = [recorder EXCEPT ![r] = Asleep]
      /\ slips' = slips \union {s \in {"cut"} : recorder[r].op = "tidy"}
      /\ UNCHANGED <<shelf, film, cloud, offsite, news, received>>
  BY DEF RecorderEnds, Stops, Slips
<1>2. CASE recorder[r].op # "tidy"
  <2>1. slips' = slips
    BY <1>1, <1>2
  <2> QED BY <2>1, <1>1, <1>2, StopsKeeps
<1>3. CASE recorder[r].op = "tidy"
  <2>1. slips' # {} /\ slips' \subseteq {"late", "two", "cut"}
    BY <1>1, <1>3, RecordingTypes DEF RecordingInv
  <2>2. recorder' \in [Recorders -> RecorderJob]
    BY <1>1, AsleepOK, RecorderTurns
  <2>3. RecordingTypeOK'
    BY <1>1, <2>1, <2>2, RecordingTypes, RecordingTyped DEF RecordingInv
  <2> QED BY <2>1, <2>3 DEF RecordingInv
<1> QED BY <1>2, <1>3

LEMMA TidyEndsKeeps ==
  ASSUME RecordingInv, NEW r \in Recorders, TidyEnds(r)
  PROVE  RecordingInv'
<1>1. /\ recorder[r].op = "tidy" /\ recorder[r].pieces = {}
      /\ recorder' = [recorder EXCEPT ![r] = Asleep]
      /\ UNCHANGED <<shelf, film, cloud, offsite, news, received, slips>>
  BY DEF TidyEnds, Stops
<1>2. CASE slips = {}
  <2>1. There = {}
    BY <1>1, <1>2 DEF RecordingInv, Uncrossed
  <2> QED BY <2>1, <1>1, StopsKeeps
<1>3. CASE slips # {}
  <2>1. recorder' \in [Recorders -> RecorderJob]
    BY <1>1, AsleepOK, RecorderTurns
  <2>2. RecordingTypeOK'
    BY <1>1, <2>1, RecordingTypes, RecordingTyped DEF RecordingInv
  <2> QED BY <2>2, <1>1, <1>3 DEF RecordingInv
<1> QED BY <1>2, <1>3

LEMMA RecordingStep == RecordingInv /\ RecordingNext => RecordingInv'
<1> SUFFICES ASSUME RecordingInv, RecordingNext PROVE RecordingInv'
  OBVIOUS
<1>1. ASSUME NEW r \in Recorders, AnnounceFails(r) PROVE RecordingInv'
  BY <1>1, StopsKeeps DEF AnnounceFails, Stops
<1> QED BY <1>1, PieceArrivesKeeps, PieceStoredKeeps, CompletionBeginsKeeps, AssembleKeeps, AnnounceKeeps,
           TidyKeeps, TidyEndsKeeps, RecorderEndsKeeps DEF RecordingNext

LEMMA RecordingStutter == RecordingInv /\ UNCHANGED recordingVars => RecordingInv'
<1> SUFFICES ASSUME RecordingInv, UNCHANGED recordingVars PROVE RecordingInv'
  OBVIOUS
<1>1. UNCHANGED <<shelf, film, cloud, offsite, news, recorder, received, slips>>
  BY DEF recordingVars
<1>2. RecordingTypeOK'
  BY <1>1, RecordingTypes, RecordingTyped DEF RecordingInv
<1>3. Uncrossed => Uncrossed'
  BY <1>1 DEF Uncrossed, There, Shown
<1> QED BY <1>1, <1>2, <1>3 DEF RecordingInv

LEMMA RecordingInvHolds == RecordingInv => RecordingTypeOK /\ RecordingKept
<1> SUFFICES ASSUME RecordingInv, slips = {} PROVE RecordingKept
  BY DEF RecordingInv, RecordingKept
<1> QED BY DEF RecordingInv, RecordingKept, Uncrossed

-----------------------------------------------------------------------------
(* A course and what belongs to it. *)

CourseColumns == {"exists", "published", "intro", "picture"}
JobColumns == {"op", "set", "try", "listed", "files"}

\* A request of the provider, and the course it meets: the picture it writes
\* and the video of its lesson are there while the course is, a course that it
\* publishes has a lesson, and it deletes files after the course only.
JobFits(j, exists, playable, files) ==
    /\ DOMAIN j = JobColumns
    /\ j.listed \subseteq Children
    /\ j.files \subseteq {"picture", "newer picture", "recorded", "evidence"}
    /\ DOMAIN j.set \subseteq {"published", "intro", "picture"}
    /\ "published" \in DOMAIN j.set =>
          /\ j.set["published"] \in BOOLEAN
          /\ j.set["published"] => j.op = "publish"
    /\ "intro" \in DOMAIN j.set => j.set["intro"] \in BOOLEAN
    /\ "picture" \in DOMAIN j.set =>
          /\ j.set["picture"] \in {"picture", "newer picture"}
          /\ exists => j.set["picture"] \in files
    /\ j.op = "lesson" => j.try \in 1..Spellings /\ (exists => "recorded" \in files)
    /\ j.op = "publish" /\ exists => playable
    /\ j.op = "clean" => ~exists

CatalogInv ==
    /\ CatalogTypeOK /\ RowsHaveFiles /\ PublishedIsPlayable /\ DeletedWhole
    /\ DOMAIN desk = Desks
    /\ \A d \in Desks : JobFits(desk[d], course.exists, Playable, media)

LEMMA CourseTypes ==
  ASSUME CatalogTypeOK
  PROVE  /\ DOMAIN course = CourseColumns
         /\ course.exists \in BOOLEAN /\ course.published \in BOOLEAN /\ course.intro \in BOOLEAN
         /\ course.picture \in {"picture", "newer picture"}
         /\ below \subseteq Children /\ media \subseteq Files
         /\ draft \in {"none", "picture", "own picture"}
  BY DEF CatalogTypeOK, CourseColumns

LEMMA CatalogMoves ==
  ASSUME DOMAIN course' = CourseColumns,
         course'.exists \in BOOLEAN, course'.published \in BOOLEAN, course'.intro \in BOOLEAN,
         course'.picture \in {"picture", "newer picture"},
         below' \subseteq Children, media' \subseteq Files,
         draft' \in {"none", "picture", "own picture"},
         RowsHaveFiles', PublishedIsPlayable', DeletedWhole', DOMAIN desk' = Desks,
         \A d \in Desks : JobFits(desk'[d], course'.exists, Playable', media')
  PROVE  CatalogInv'
<1>1. {course'.exists, course'.published, course'.intro} \subseteq BOOLEAN
  OBVIOUS
<1>2. \A d \in Desks : desk'[d].listed \subseteq Children /\ desk'[d].files \subseteq Files
  BY DEF JobFits, Files
<1>3. CatalogTypeOK'
  BY <1>1, <1>2 DEF CatalogTypeOK, CourseColumns, Children, Lessons, Files
<1> QED BY <1>3 DEF CatalogInv, JobFits

\* What a request knows stays true of a course that lives on, or is gone.
LEMMA JobStillFits ==
  ASSUME NEW j, NEW old \in BOOLEAN, NEW lives \in BOOLEAN, NEW had, NEW has, NEW files, NEW kept,
         JobFits(j, old, had, files), lives => old, lives /\ had => has, lives => files \subseteq kept
  PROVE  JobFits(j, lives, has, kept)
  BY DEF JobFits

LEMMA AtEaseOK ==
  /\ DOMAIN AtEase = JobColumns /\ AtEase.op = "none" /\ AtEase.listed = {} /\ AtEase.files = {}
  /\ AtEase.set = NoChanges /\ DOMAIN NoChanges = {}
  BY DEF AtEase, JobColumns, NoChanges

LEMMA AtEaseFits ==
  ASSUME NEW exists, NEW playable, NEW files
  PROVE  JobFits(AtEase, exists, playable, files)
  BY AtEaseOK DEF JobFits

\* What a request writes of the columns it has been asked to set.
LEMMA DifferingColumns ==
  ASSUME NEW set
  PROVE  /\ DOMAIN Differing(set) \subseteq DOMAIN set
         /\ \A col \in DOMAIN Differing(set) : Differing(set)[col] = set[col]
<1> DEFINE new == [f \in DOMAIN course |-> IF f \in DOMAIN set THEN set[f] ELSE course[f]]
<1>1. Differing(set) = [f \in {g \in DOMAIN course : new[g] # course[g]} |-> new[f]]
  BY DEF Differing, Changes, Update
<1>2. \A f \in DOMAIN course : new[f] = IF f \in DOMAIN set THEN set[f] ELSE course[f]
  OBVIOUS
<1> HIDE DEF new
<1> QED BY <1>1, <1>2

LEMMA CatalogStart == CatalogInit => CatalogInv
<1> SUFFICES ASSUME CatalogInit PROVE CatalogInv
  OBVIOUS
<1>1. /\ course = [exists |-> TRUE, published |-> FALSE, intro |-> TRUE, picture |-> "picture"]
      /\ below = {} /\ media = {"picture"} /\ draft = "none" /\ desk = [d \in Desks |-> AtEase]
  BY DEF CatalogInit
<1>2. CatalogTypeOK
  BY <1>1, AtEaseOK DEF CatalogTypeOK, Files
<1>3. RowsHaveFiles /\ PublishedIsPlayable /\ DeletedWhole
  BY <1>1 DEF RowsHaveFiles, PublishedIsPlayable, DeletedWhole, NamedBy
<1> QED BY <1>1, <1>2, <1>3, AtEaseFits DEF CatalogInv

LEMMA DeskTurns ==
  ASSUME CatalogInv, NEW d \in Desks, NEW j, desk' = [desk EXCEPT ![d] = j]
  PROVE  /\ DOMAIN desk' = Desks /\ desk'[d] = j
         /\ \A e \in Desks \ {d} : desk'[e] = desk[e]
  BY DEF CatalogInv

\* A request takes up something, or leaves it; files may be stored for it.
LEMMA DeskKeeps ==
  ASSUME CatalogInv, NEW d \in Desks, NEW j, desk' = [desk EXCEPT ![d] = j],
         JobFits(j, course.exists, Playable, media'),
         media \subseteq media', media' \subseteq Files, UNCHANGED <<course, below, draft>>
  PROVE  CatalogInv'
<1>1. /\ DOMAIN desk' = Desks /\ desk'[d] = j
      /\ \A e \in Desks \ {d} : desk'[e] = desk[e]
  BY DeskTurns
<1>2. CatalogTypeOK /\ RowsHaveFiles /\ PublishedIsPlayable /\ DeletedWhole
  BY DEF CatalogInv
<1>3. RowsHaveFiles' /\ PublishedIsPlayable' /\ DeletedWhole'
  BY <1>2 DEF RowsHaveFiles, PublishedIsPlayable, DeletedWhole, NamedBy
<1>4. Playable' = Playable
  BY DEF Playable
<1>5. ASSUME NEW e \in Desks PROVE JobFits(desk'[e], course'.exists, Playable', media')
  <2>1. CASE e = d
    BY <2>1, <1>1, <1>4
  <2>2. CASE e # d
    <3>1. JobFits(desk[e], course.exists, Playable, media) /\ desk'[e] = desk[e]
      BY <2>2, <1>1 DEF CatalogInv
    <3>2. course.exists \in BOOLEAN
      BY <1>2, CourseTypes
    <3> QED BY <3>1, <3>2, <1>4, JobStillFits
  <2> QED BY <2>1, <2>2
<1> QED BY <1>1, <1>2, <1>3, <1>5, CourseTypes, CatalogMoves

LEMMA ColumnsTake ==
  ASSUME CatalogInv, NEW d \in Desks, UpdateCourse(d) \/ PublishCourse(d) \/ UnpublishCourse(d)
  PROVE  CatalogInv'
<1>0. CatalogTypeOK /\ media \subseteq Files
  BY CourseTypes DEF CatalogInv
<1>1. ASSUME NEW op \in {"update", "publish", "unpublish"}, NEW set,
             Takes(d, [AtEase EXCEPT !.op = op, !.set = Differing(set)]),
             DOMAIN set \subseteq {"published", "intro", "picture"},
             "published" \in DOMAIN set => set["published"] = (op = "publish"),
             "intro" \in DOMAIN set => set["intro"] \in BOOLEAN,
             "picture" \in DOMAIN set => set["picture"] = "newer picture" /\ set["picture"] \in media',
             op = "publish" => Playable,
             media \subseteq media', media' \subseteq Files, UNCHANGED <<course, below, draft>>
      PROVE  CatalogInv'
  <2> DEFINE writes == Differing(set)
             j == [AtEase EXCEPT !.op = op, !.set = writes]
  <2>1. desk' = [desk EXCEPT ![d] = j]
    BY <1>1 DEF Takes
  <2>2. DOMAIN writes \subseteq DOMAIN set /\ \A col \in DOMAIN writes : writes[col] = set[col]
    BY DifferingColumns
  <2> HIDE DEF writes
  <2>3. /\ DOMAIN j = JobColumns /\ j.op = op /\ j.set = writes /\ j.listed = {} /\ j.files = {}
    BY AtEaseOK DEF JobColumns
  <2> HIDE DEF j
  <2>4. "published" \in DOMAIN writes => /\ writes["published"] \in BOOLEAN
                                         /\ writes["published"] => op = "publish"
    BY <2>2, <1>1
  <2>5. "picture" \in DOMAIN writes => /\ writes["picture"] \in {"picture", "newer picture"}
                                       /\ writes["picture"] \in media'
    BY <2>2, <1>1
  <2>6. /\ "intro" \in DOMAIN writes => writes["intro"] \in BOOLEAN
        /\ DOMAIN writes \subseteq {"published", "intro", "picture"}
    BY <2>2, <1>1
  <2>7. JobFits(j, course.exists, Playable, media')
    BY <2>3, <2>4, <2>5, <2>6, <1>1 DEF JobFits
  <2> QED BY <2>1, <2>7, <1>1, DeskKeeps
<1>2. CASE UpdateCourse(d)
  <2>1. PICK set \in {[intro |-> TRUE], [intro |-> FALSE], [picture |-> "newer picture"]} :
            /\ Takes(d, [AtEase EXCEPT !.op = "update", !.set = Differing(set)])
            /\ media' = media \union {set[col] : col \in DOMAIN set \intersect {"picture"}}
    BY <1>2 DEF UpdateCourse
  <2>2. UNCHANGED <<course, below, draft>>
    BY <1>2 DEF UpdateCourse
  <2>3. CASE set = [picture |-> "newer picture"]
    <3>1. DOMAIN set = {"picture"} /\ set["picture"] = "newer picture"
      BY <2>3
    <3>2. media' = media \union {"newer picture"}
      BY <2>1, <3>1
    <3>3. media' \subseteq Files
      BY <3>2, <1>0 DEF Files
    <3> QED BY <2>1, <2>2, <3>1, <3>2, <3>3, <1>1
  <2>4. ASSUME NEW shown \in BOOLEAN, set = [intro |-> shown] PROVE CatalogInv'
    <3>1. DOMAIN set = {"intro"} /\ set["intro"] \in BOOLEAN
      BY <2>4
    <3>2. media' = media
      BY <2>1, <3>1
    <3> QED BY <2>1, <2>2, <3>1, <3>2, <1>0, <1>1
  <2> QED BY <2>1, <2>3, <2>4
<1>3. CASE PublishCourse(d)
  <2> DEFINE set == [published |-> TRUE]
  <2>1. /\ Playable /\ Takes(d, [AtEase EXCEPT !.op = "publish", !.set = Differing(set)])
        /\ UNCHANGED <<course, below, media, draft>>
    BY <1>3 DEF PublishCourse
  <2>2. DOMAIN set = {"published"} /\ set["published"] = ("publish" = "publish")
    OBVIOUS
  <2> HIDE DEF set
  <2> QED BY <2>1, <2>2, <1>0, <1>1
<1>4. CASE UnpublishCourse(d)
  <2> DEFINE set == [published |-> FALSE]
  <2>1. /\ Takes(d, [AtEase EXCEPT !.op = "unpublish", !.set = Differing(set)])
        /\ UNCHANGED <<course, below, media, draft>>
    BY <1>4 DEF UnpublishCourse
  <2>2. DOMAIN set = {"published"} /\ set["published"] = ("unpublish" = "publish")
    OBVIOUS
  <2> HIDE DEF set
  <2> QED BY <2>1, <2>2, <1>0, <1>1
<1> QED BY <1>2, <1>3, <1>4

LEMMA CourseCommitsKeeps ==
  ASSUME CatalogInv, NEW d \in Desks, CourseCommits(d)
  PROVE  CatalogInv'
<1> DEFINE set == desk[d].set
<1>0. /\ CatalogTypeOK /\ RowsHaveFiles /\ PublishedIsPlayable /\ DeletedWhole
      /\ JobFits(desk[d], course.exists, Playable, media)
  BY DEF CatalogInv
<1>1. /\ course' = IF course.exists THEN Update(course, set) ELSE course
      /\ desk' = [desk EXCEPT ![d] = AtEase] /\ UNCHANGED <<below, media, draft>>
  BY DEF CourseCommits, Leaves
<1>2. CASE ~course.exists
  BY <1>1, <1>2, CourseTypes, AtEaseFits, DeskKeeps DEF CatalogInv
<1>3. CASE course.exists
  <2>1. course' = [f \in CourseColumns |-> IF f \in DOMAIN set THEN set[f] ELSE course[f]]
    BY <1>0, <1>1, <1>3, CourseTypes DEF Update
  <2>2. /\ "exists" \notin DOMAIN set
        /\ "published" \in DOMAIN set => /\ set["published"] \in BOOLEAN
                                         /\ set["published"] => Playable
        /\ "intro" \in DOMAIN set => set["intro"] \in BOOLEAN
        /\ "picture" \in DOMAIN set => set["picture"] \in {"picture", "newer picture"} /\ set["picture"] \in media
    BY <1>0, <1>3 DEF JobFits
  <2> HIDE DEF set
  <2>3. /\ DOMAIN course' = CourseColumns /\ course'.exists = course.exists
        /\ course'.published = IF "published" \in DOMAIN set THEN set["published"] ELSE course.published
        /\ course'.intro = IF "intro" \in DOMAIN set THEN set["intro"] ELSE course.intro
        /\ course'.picture = IF "picture" \in DOMAIN set THEN set["picture"] ELSE course.picture
    BY <2>1, <2>2 DEF CourseColumns
  <2>4. course'.published \in BOOLEAN /\ course'.intro \in BOOLEAN
    BY <2>2, <2>3, <1>0, CourseTypes
  <2>5. course'.picture \in {"picture", "newer picture"} /\ course'.picture \in media
    BY <2>2, <2>3, <1>0, <1>3, CourseTypes DEF RowsHaveFiles
  <2>6. course'.published => Playable
    <3>1. course.published => Playable
      BY <1>0, <1>3 DEF PublishedIsPlayable, Playable
    <3> QED BY <3>1, <2>2, <2>3
  <2>7. RowsHaveFiles' /\ PublishedIsPlayable' /\ DeletedWhole'
    BY <2>3, <2>5, <2>6, <1>0, <1>1, <1>3
       DEF RowsHaveFiles, PublishedIsPlayable, Playable, DeletedWhole, NamedBy
  <2>8. /\ DOMAIN desk' = Desks /\ desk'[d] = AtEase
        /\ \A e \in Desks \ {d} : desk'[e] = desk[e]
    BY <1>1, DeskTurns
  <2>9. ASSUME NEW e \in Desks PROVE JobFits(desk'[e], course'.exists, Playable', media')
    <3>1. Playable' = Playable /\ media' = media
      BY <1>1 DEF Playable
    <3>2. CASE e = d
      BY <3>2, <2>8, AtEaseFits
    <3>3. CASE e # d
      <4>1. JobFits(desk[e], course.exists, Playable, media) /\ desk'[e] = desk[e]
        BY <3>3, <2>8 DEF CatalogInv
      <4> QED BY <4>1, <3>1, <2>3
    <3> QED BY <3>2, <3>3
  <2>10. course'.exists \in BOOLEAN
    BY <2>3, <1>0, CourseTypes
  <2> QED BY <2>3, <2>4, <2>5, <2>7, <2>8, <2>9, <2>10, <1>0, <1>1, CourseTypes, CatalogMoves
<1> QED BY <1>2, <1>3

-----------------------------------------------------------------------------
\* A row is added to a course that is there, after its file.
LEMMA RowAdded ==
  ASSUME CatalogInv, NEW r \in Children, course.exists, below' = below \union {r},
         media \subseteq media', media' \subseteq Files, NamedBy({r}) \subseteq media',
         DOMAIN desk' = Desks,
         \A d \in Desks : desk'[d] = desk[d] \/ JobFits(desk'[d], course.exists, Playable, media),
         UNCHANGED <<course, draft>>
  PROVE  CatalogInv'
<1>0. CatalogTypeOK /\ RowsHaveFiles /\ PublishedIsPlayable /\ DeletedWhole
  BY DEF CatalogInv
<1>1. NamedBy(below') \subseteq media'
  BY <1>0 DEF RowsHaveFiles, NamedBy
<1>2. Playable => Playable'
  BY DEF Playable
<1>3. RowsHaveFiles' /\ PublishedIsPlayable' /\ DeletedWhole'
  BY <1>0, <1>1, <1>2 DEF RowsHaveFiles, PublishedIsPlayable, Playable, DeletedWhole
<1>4. ASSUME NEW d \in Desks PROVE JobFits(desk'[d], course'.exists, Playable', media')
  <2>1. JobFits(desk'[d], course.exists, Playable, media)
    BY DEF CatalogInv
  <2>2. course.exists \in BOOLEAN /\ course'.exists \in BOOLEAN /\ course'.exists = course.exists
    BY <1>0, CourseTypes
  <2> QED BY <2>1, <2>2, <1>2 DEF JobFits
<1>5. below' \subseteq Children
  BY <1>0, CourseTypes
<1> QED BY <1>0, <1>3, <1>4, <1>5, CourseTypes, CatalogMoves

LEMMA ChildrenAre ==
  /\ \A n \in 1..Spellings : <<"recorded", n>> \in Children
  /\ \A kind \in {"member", "attempt", "evidence", "task"} : <<kind, 1>> \in Children
  BY DEF Children, Lessons

LEMMA LessonTryKeeps ==
  ASSUME CatalogInv, NEW d \in Desks, LessonTry(d)
  PROVE  CatalogInv'
<1> DEFINE more == [desk[d] EXCEPT !.try = @ + 1]
           next == IF desk[d].try < Spellings THEN more ELSE AtEase
<1>0. /\ CatalogTypeOK /\ JobFits(desk[d], course.exists, Playable, media) /\ course.exists \in BOOLEAN
      /\ media \subseteq Files
  BY CourseTypes DEF CatalogInv
<1>1. /\ desk[d].op = "lesson" /\ UNCHANGED <<course, media, draft>>
      /\ \/ /\ course.exists /\ below' = below \union {<<"recorded", desk[d].try>>}
            /\ desk' = [desk EXCEPT ![d] = AtEase] \/ desk' = [desk EXCEPT ![d] = next]
         \/ /\ desk' = [desk EXCEPT ![d] = next]
            /\ UNCHANGED below
  BY DEF LessonTry, Turns
<1>2. desk[d].try \in 1..Spellings
  BY <1>0, <1>1 DEF JobFits
<1>3. JobFits(AtEase, course.exists, Playable, media)
  BY AtEaseFits
<1>4. JobFits(next, course.exists, Playable, media)
  <2>1. CASE desk[d].try < Spellings
    <3>1. /\ DOMAIN more = DOMAIN desk[d] /\ more.op = desk[d].op /\ more.set = desk[d].set
          /\ more.listed = desk[d].listed /\ more.files = desk[d].files /\ more.try = desk[d].try + 1
      BY <1>0 DEF JobFits, JobColumns
    <3>2. more.try \in 1..Spellings
      BY <3>1, <2>1, <1>2, CatalogAssumption
    <3> HIDE DEF more
    <3>3. JobFits(more, course.exists, Playable, media)
      BY <3>1, <3>2, <1>0 DEF JobFits
    <3> QED BY <3>3, <2>1
  <2>2. CASE ~(desk[d].try < Spellings)
    BY <2>2, <1>3
  <2> QED BY <2>1, <2>2
<1> HIDE DEF next
<1>5. PICK j : /\ desk' = [desk EXCEPT ![d] = j]
               /\ j = AtEase \/ j = next
  BY <1>1
<1>6. JobFits(j, course.exists, Playable, media)
  BY <1>3, <1>4, <1>5
<1>7. CASE UNCHANGED below
  BY <1>0, <1>1, <1>5, <1>6, <1>7, DeskKeeps
<1>8. CASE course.exists /\ below' = below \union {<<"recorded", desk[d].try>>}
  <2>1. <<"recorded", desk[d].try>> \in Children
    BY <1>2, ChildrenAre
  <2>2. NamedBy({<<"recorded", desk[d].try>>}) \subseteq media
    <3>1. "recorded" \in media
      BY <1>0, <1>1, <1>8 DEF JobFits
    <3> QED BY <3>1 DEF NamedBy
  <2>3. DOMAIN desk' = Desks /\ \A e \in Desks : desk'[e] = desk[e] \/ desk'[e] = j
    BY <1>5, DeskTurns
  <2> QED BY <2>1, <2>2, <2>3, <1>0, <1>1, <1>6, <1>8, RowAdded
<1> QED BY <1>1, <1>7, <1>8

LEMMA JoinsKeeps ==
  ASSUME CatalogInv, NEW kind \in {"member", "attempt", "evidence", "task"}, Joins(kind)
  PROVE  CatalogInv'
<1>1. /\ course.exists /\ below' = below \union {<<kind, 1>>}
      /\ media' = media \union {f \in {"evidence"} : f = kind} /\ UNCHANGED <<course, draft, desk>>
  BY DEF Joins
<1>2. media' \subseteq Files
  BY <1>1, CourseTypes DEF CatalogInv, Files
<1>3. NamedBy({<<kind, 1>>}) \subseteq media'
  BY <1>1 DEF NamedBy
<1>4. <<kind, 1>> \in Children
  BY ChildrenAre
<1> QED BY <1>1, <1>2, <1>3, <1>4, RowAdded DEF CatalogInv

\* The draft and the video are stored beside the course.
LEMMA BesideKeeps ==
  ASSUME CatalogInv, StoreVideo \/ SaveDraft \/ DeleteDraft
  PROVE  CatalogInv'
<1>0. CatalogTypeOK /\ RowsHaveFiles /\ PublishedIsPlayable /\ DeletedWhole
  BY DEF CatalogInv
<1>1. /\ UNCHANGED <<course, below, desk>> /\ media \subseteq media'
  BY DEF StoreVideo, SaveDraft, DeleteDraft
<1>2. media' \subseteq Files /\ draft' \in {"none", "picture", "own picture"}
      /\ (draft' = "own picture" => draft' \in media')
  <2>1. CASE StoreVideo
    BY <2>1, <1>0, CourseTypes DEF StoreVideo, Files, RowsHaveFiles
  <2>2. CASE SaveDraft
    BY <2>2, <1>0, CourseTypes DEF SaveDraft, Files
  <2>3. CASE DeleteDraft
    BY <2>3, <1>0, CourseTypes DEF DeleteDraft
  <2> QED BY <2>1, <2>2, <2>3
<1>3. RowsHaveFiles' /\ PublishedIsPlayable' /\ DeletedWhole'
  BY <1>0, <1>1, <1>2 DEF RowsHaveFiles, PublishedIsPlayable, DeletedWhole, NamedBy
<1>4. ASSUME NEW d \in Desks PROVE JobFits(desk'[d], course'.exists, Playable', media')
  <2>1. JobFits(desk[d], course.exists, Playable, media) /\ course.exists \in BOOLEAN
    BY CourseTypes DEF CatalogInv
  <2>2. Playable' = Playable
    BY <1>1 DEF Playable
  <2> QED BY <2>1, <2>2, <1>1, JobStillFits
<1>5. DOMAIN desk' = Desks
  BY <1>1 DEF CatalogInv
<1> QED BY <1>0, <1>1, <1>2, <1>3, <1>4, <1>5, CourseTypes, CatalogMoves

-----------------------------------------------------------------------------
(* The deletion. *)

LEMMA ListCourseKeeps ==
  ASSUME CatalogInv, NEW d \in Desks, ListCourse(d) \/ AddLesson(d)
  PROVE  CatalogInv'
<1>0. CatalogTypeOK
  BY DEF CatalogInv
<1>1. CASE ListCourse(d)
  <2> DEFINE named == {course.picture} \union NamedBy(below)
             j == [AtEase EXCEPT !.op = "list", !.listed = below, !.files = named]
  <2>1. desk' = [desk EXCEPT ![d] = j] /\ UNCHANGED <<course, below, media, draft>>
    BY <1>1 DEF ListCourse, Takes
  <2>2. named \subseteq {"picture", "newer picture", "recorded", "evidence"}
    BY <1>0, CourseTypes DEF NamedBy
  <2> HIDE DEF named
  <2>3. DOMAIN j = JobColumns /\ j.op = "list" /\ j.set = NoChanges /\ j.listed = below /\ j.files = named
    BY AtEaseOK DEF JobColumns
  <2> HIDE DEF j
  <2>4. JobFits(j, course.exists, Playable, media)
    BY <2>2, <2>3, <1>0, AtEaseOK, CourseTypes DEF JobFits
  <2> QED BY <2>1, <2>4, <1>0, CourseTypes, DeskKeeps
<1>2. CASE AddLesson(d)
  <2> DEFINE j == [AtEase EXCEPT !.op = "lesson", !.try = 1]
  <2>1. /\ desk' = [desk EXCEPT ![d] = j] /\ UNCHANGED <<course, below, media, draft>>
        /\ "recorded" \in media
    BY <1>2 DEF AddLesson, Takes
  <2>2. /\ DOMAIN j = JobColumns /\ j.op = "lesson" /\ j.set = NoChanges /\ j.listed = {} /\ j.files = {}
        /\ j.try = 1
    BY AtEaseOK DEF JobColumns
  <2>3. 1 \in 1..Spellings
    BY CatalogAssumption
  <2> HIDE DEF j
  <2>4. JobFits(j, course.exists, Playable, media)
    BY <2>1, <2>2, <2>3, AtEaseOK DEF JobFits
  <2> QED BY <2>1, <2>4, <1>0, CourseTypes, DeskKeeps
<1> QED BY <1>1, <1>2

LEMMA DeskLeaves ==
  ASSUME CatalogInv, NEW d \in Desks, Leaves(d), UNCHANGED <<course, below, media, draft>>
  PROVE  CatalogInv'
  BY AtEaseFits, CourseTypes, DeskKeeps DEF Leaves, CatalogInv

LEMMA RemoveRowsKeeps ==
  ASSUME CatalogInv, NEW d \in Desks, RemoveRows(d)
  PROVE  CatalogInv'
<1> DEFINE j == [desk[d] EXCEPT !.op = "remove", !.listed = below]
<1>0. CatalogTypeOK /\ JobFits(desk[d], course.exists, Playable, media) /\ desk[d].op = "list"
  BY DEF CatalogInv, RemoveRows
<1>1. CASE below \subseteq Listed(d)
  <2>1. desk' = [desk EXCEPT ![d] = j] /\ UNCHANGED <<course, below, media, draft>>
    BY <1>1 DEF RemoveRows, Turns
  <2>2. /\ DOMAIN j = DOMAIN desk[d] /\ j.op = "remove" /\ j.set = desk[d].set /\ j.listed = below
        /\ j.files = desk[d].files
    BY <1>0 DEF JobFits, JobColumns
  <2> HIDE DEF j
  <2>3. JobFits(j, course.exists, Playable, media)
    BY <2>2, <1>0, CourseTypes DEF JobFits
  <2> QED BY <2>1, <2>3, <1>0, CourseTypes, DeskKeeps
<1>2. CASE ~(below \subseteq Listed(d))
  BY <1>2, DeskLeaves DEF RemoveRows
<1> QED BY <1>1, <1>2

LEMMA RemovalCommitsKeeps ==
  ASSUME CatalogInv, NEW d \in Desks, RemovalCommits(d)
  PROVE  CatalogInv'
<1> DEFINE j == [desk[d] EXCEPT !.op = "clean"]
<1>0. /\ CatalogTypeOK /\ RowsHaveFiles /\ JobFits(desk[d], course.exists, Playable, media)
      /\ desk[d].op = "remove" /\ UNCHANGED <<media, draft>>
  BY DEF CatalogInv, RemovalCommits
<1>1. CASE below \subseteq desk[d].listed
  <2>1. /\ course' = [course EXCEPT !.exists = FALSE] /\ below' = {} /\ desk' = [desk EXCEPT ![d] = j]
    BY <1>1 DEF RemovalCommits, CleansUp, Turns
  <2>2. /\ DOMAIN course' = CourseColumns /\ course'.exists = FALSE
        /\ course'.published = course.published /\ course'.intro = course.intro
        /\ course'.picture = course.picture
    BY <2>1, <1>0, CourseTypes DEF CourseColumns
  <2>3. /\ DOMAIN j = DOMAIN desk[d] /\ j.op = "clean" /\ j.set = desk[d].set
        /\ j.listed = desk[d].listed /\ j.files = desk[d].files
    BY <1>0 DEF JobFits, JobColumns
  <2> HIDE DEF j
  <2>4. JobFits(j, FALSE, Playable', media')
    BY <2>3, <1>0 DEF JobFits
  <2>5. RowsHaveFiles' /\ PublishedIsPlayable' /\ DeletedWhole'
    BY <2>1, <2>2, <1>0 DEF RowsHaveFiles, PublishedIsPlayable, DeletedWhole, NamedBy
  <2>6. /\ DOMAIN desk' = Desks /\ desk'[d] = j
        /\ \A e \in Desks \ {d} : desk'[e] = desk[e]
    BY <2>1, DeskTurns
  <2>7. ASSUME NEW e \in Desks PROVE JobFits(desk'[e], course'.exists, Playable', media')
    <3>1. CASE e = d
      BY <3>1, <2>2, <2>4, <2>6
    <3>2. CASE e # d
      <4>1. JobFits(desk[e], course.exists, Playable, media) /\ desk'[e] = desk[e]
        BY <3>2, <2>6 DEF CatalogInv
      <4>2. course.exists \in BOOLEAN /\ FALSE \in BOOLEAN
        BY <1>0, CourseTypes
      <4>3. JobFits(desk[e], FALSE, Playable', media')
        BY <4>1, <4>2, JobStillFits
      <4> QED BY <4>1, <4>3, <2>2
    <3> QED BY <3>1, <3>2
  <2>8. course'.published \in BOOLEAN /\ course'.intro \in BOOLEAN /\ course'.exists \in BOOLEAN
    BY <2>2, <1>0, CourseTypes
  <2>9. course'.picture \in {"picture", "newer picture"} /\ below' \subseteq Children
    BY <2>1, <2>2, <1>0, CourseTypes
  <2> QED BY <2>2, <2>5, <2>6, <2>7, <2>8, <2>9, <1>0, CourseTypes, CatalogMoves
<1>2. CASE ~(below \subseteq desk[d].listed)
  BY <1>0, <1>2, DeskLeaves DEF RemovalCommits, CleansUp
<1> QED BY <1>1, <1>2

LEMMA CleanUpKeeps ==
  ASSUME CatalogInv, NEW d \in Desks, CleanUp(d)
  PROVE  CatalogInv'
<1>0. /\ CatalogTypeOK /\ RowsHaveFiles /\ PublishedIsPlayable /\ DeletedWhole
      /\ JobFits(desk[d], course.exists, Playable, media)
  BY DEF CatalogInv
<1>1. PICK gone \in SUBSET desk[d].files : media' = media \ gone
  BY DEF CleanUp
<1>2. /\ desk[d].op = "clean" /\ desk' = [desk EXCEPT ![d] = AtEase] /\ UNCHANGED <<course, below, draft>>
  BY DEF CleanUp, Leaves
<1>3. ~course.exists /\ below = {} /\ "own picture" \notin gone
  BY <1>0, <1>1, <1>2 DEF JobFits, DeletedWhole
<1>4. RowsHaveFiles' /\ PublishedIsPlayable' /\ DeletedWhole'
  BY <1>0, <1>1, <1>2, <1>3 DEF RowsHaveFiles, PublishedIsPlayable, DeletedWhole, NamedBy
<1>5. /\ DOMAIN desk' = Desks /\ desk'[d] = AtEase
      /\ \A e \in Desks \ {d} : desk'[e] = desk[e]
  BY <1>2, DeskTurns
<1>6. ASSUME NEW e \in Desks PROVE JobFits(desk'[e], course'.exists, Playable', media')
  <2>1. CASE e = d
    BY <2>1, <1>5, AtEaseFits
  <2>2. CASE e # d
    <3>1. JobFits(desk[e], course.exists, Playable, media) /\ desk'[e] = desk[e]
      BY <2>2, <1>5 DEF CatalogInv
    <3>2. course.exists \in BOOLEAN /\ course'.exists \in BOOLEAN /\ ~course'.exists
      BY <1>0, <1>2, <1>3, CourseTypes
    <3> QED BY <3>1, <3>2, JobStillFits
  <2> QED BY <2>1, <2>2
<1>7. media' \subseteq Files
  BY <1>0, <1>1, CourseTypes
<1> QED BY <1>0, <1>2, <1>4, <1>5, <1>6, <1>7, CourseTypes, CatalogMoves

LEMMA CatalogStep == CatalogInv /\ CatalogNext => CatalogInv'
<1> SUFFICES ASSUME CatalogInv, CatalogNext PROVE CatalogInv'
  OBVIOUS
<1>1. ASSUME NEW d \in Desks, DeskEnds(d) PROVE CatalogInv'
  BY <1>1, DeskLeaves DEF DeskEnds
<1> QED BY <1>1, ColumnsTake, CourseCommitsKeeps, ListCourseKeeps, LessonTryKeeps, JoinsKeeps, BesideKeeps,
           RemoveRowsKeeps, RemovalCommitsKeeps, CleanUpKeeps DEF CatalogNext

LEMMA CatalogStutter == CatalogInv /\ UNCHANGED catalogVars => CatalogInv'
<1> SUFFICES ASSUME CatalogInv, UNCHANGED catalogVars PROVE CatalogInv'
  OBVIOUS
<1>1. UNCHANGED <<course, below, media, draft, desk>>
  BY DEF catalogVars
<1>2. CatalogTypeOK' /\ RowsHaveFiles' /\ PublishedIsPlayable' /\ DeletedWhole'
  BY <1>1 DEF CatalogInv, CatalogTypeOK, RowsHaveFiles, PublishedIsPlayable, DeletedWhole, NamedBy
<1>3. \A d \in Desks : JobFits(desk[d], course.exists, Playable, media)'
  BY <1>1 DEF CatalogInv, JobFits, Playable
<1> QED BY <1>1, <1>2, <1>3 DEF CatalogInv

-----------------------------------------------------------------------------
(* Comments and ratings. *)

Remark == [status : {"none", "new", "pending", "closed"}, seen : BOOLEAN, replied : BOOLEAN]
Rating == [given : BOOLEAN, seen : BOOLEAN, replied : BOOLEAN]

\* A comment that was put aside as unseen is among the new ones.
Listable(row) == row.status \in {"pending", "closed"} => row.seen

\* What a request writes of the row it has loaded.
HandFits(j) ==
    /\ DOMAIN j = {"row", "set", "late"}
    /\ j.row \in {"none", "remark", "rating", "answer"} /\ j.late \in BOOLEAN
    /\ "status" \in DOMAIN j.set => j.set["status"] \in {"new", "pending", "closed"}
    /\ "seen" \in DOMAIN j.set => j.set["seen"] \in BOOLEAN
    /\ "replied" \in DOMAIN j.set => j.set["replied"] \in BOOLEAN
    /\ j.row = "remark" =>
          /\ DOMAIN j.set \subseteq {"status", "seen", "replied"}
          /\ remark # NoRemark
          /\ ~j.late => Listable(Update(remark, j.set))
    /\ j.row = "rating" => DOMAIN j.set \subseteq {"given"}
    /\ "given" \in DOMAIN j.set => j.set["given"] = TRUE
    /\ j.row = "answer" => DOMAIN j.set \subseteq {"seen", "replied"} /\ rating.given

RemarksInv ==
    /\ remark \in Remark /\ rating \in Rating
    /\ note \in {"none", "unread", "read"} /\ crossed \subseteq {"remark", "answer"}
    /\ "remark" \in crossed \/ Listable(remark)
    /\ rating.replied => rating.given
    /\ remark # NoRemark <=> note # "none"
    /\ remark # NoRemark <=> remark.status # "none"
    /\ DOMAIN hand = Hands /\ \A h \in Hands : HandFits(hand[h])

LEMMA RemarksInvHolds == RemarksInv => RemarksTypeOK /\ CommentsListed
  BY DEF RemarksInv, RemarksTypeOK, CommentsListed, Remark, Rating, Listable

LEMMA EmptyFits == HandFits(Empty) /\ Empty.row = "none"
<1>1. /\ DOMAIN Empty = {"row", "set", "late"} /\ Empty.row = "none" /\ Empty.late = FALSE
      /\ Empty.set = NoChanges /\ DOMAIN NoChanges = {}
  BY DEF Empty, NoChanges
<1> QED BY <1>1 DEF HandFits

LEMMA RemarksStart == RemarksInit => RemarksInv
<1> SUFFICES ASSUME RemarksInit PROVE RemarksInv
  OBVIOUS
<1>1. /\ remark = NoRemark /\ rating = NoRating /\ note = "none" /\ hand = [h \in Hands |-> Empty]
      /\ crossed = {}
  BY DEF RemarksInit
<1>2. NoRemark \in Remark /\ NoRemark.status = "none" /\ NoRating \in Rating /\ ~NoRating.replied
  BY DEF NoRemark, NoRating, Remark, Rating
<1>3. DOMAIN hand = Hands /\ \A h \in Hands : HandFits(hand[h])
  BY <1>1, EmptyFits
<1> QED BY <1>1, <1>2, <1>3 DEF RemarksInv, Listable

-----------------------------------------------------------------------------
\* Columns that are written get what is written.
LEMMA UpdateOfRemark ==
  ASSUME NEW set, "status" \in DOMAIN set => set["status"] \in {"new", "pending", "closed"},
         "seen" \in DOMAIN set => set["seen"] \in BOOLEAN,
         "replied" \in DOMAIN set => set["replied"] \in BOOLEAN,
         remark \in Remark
  PROVE  /\ Update(remark, set) \in Remark
         /\ Update(remark, set).status = IF "status" \in DOMAIN set THEN set["status"] ELSE remark.status
         /\ Update(remark, set).seen = IF "seen" \in DOMAIN set THEN set["seen"] ELSE remark.seen
<1> DEFINE state == IF "status" \in DOMAIN set THEN set["status"] ELSE remark.status
           seen == IF "seen" \in DOMAIN set THEN set["seen"] ELSE remark.seen
           replied == IF "replied" \in DOMAIN set THEN set["replied"] ELSE remark.replied
           new == Update(remark, set)
<1>1. DOMAIN remark = {"status", "seen", "replied"}
  BY DEF Remark
<1>2. new = [col \in {"status", "seen", "replied"} |-> IF col \in DOMAIN set THEN set[col] ELSE remark[col]]
  BY <1>1 DEF Update
<1>3. new["status"] = state /\ new["seen"] = seen /\ new["replied"] = replied
  BY <1>2
<1>4. state \in {"none", "new", "pending", "closed"}
  BY DEF Remark
<1>5. seen \in BOOLEAN /\ replied \in BOOLEAN
  BY DEF Remark
<1>6. new = [status |-> state, seen |-> seen, replied |-> replied]
  BY <1>2, <1>3
<1> HIDE DEF state, seen, replied, new
<1>7. new \in Remark
  BY <1>4, <1>5, <1>6 DEF Remark
<1> QED BY <1>3, <1>7 DEF state, seen, new

LEMMA UpdateOfRating ==
  ASSUME NEW set, "given" \in DOMAIN set => set["given"] \in BOOLEAN,
         "seen" \in DOMAIN set => set["seen"] \in BOOLEAN,
         "replied" \in DOMAIN set => set["replied"] \in BOOLEAN,
         rating \in Rating
  PROVE  /\ Update(rating, set) \in Rating
         /\ Update(rating, set).given = IF "given" \in DOMAIN set THEN set["given"] ELSE rating.given
         /\ Update(rating, set).replied = IF "replied" \in DOMAIN set THEN set["replied"] ELSE rating.replied
<1> DEFINE given == IF "given" \in DOMAIN set THEN set["given"] ELSE rating.given
           seen == IF "seen" \in DOMAIN set THEN set["seen"] ELSE rating.seen
           replied == IF "replied" \in DOMAIN set THEN set["replied"] ELSE rating.replied
           new == Update(rating, set)
<1>1. DOMAIN rating = {"given", "seen", "replied"}
  BY DEF Rating
<1>2. new = [col \in {"given", "seen", "replied"} |-> IF col \in DOMAIN set THEN set[col] ELSE rating[col]]
  BY <1>1 DEF Update
<1>3. new["given"] = given /\ new["seen"] = seen /\ new["replied"] = replied
  BY <1>2
<1>4. given \in BOOLEAN
  BY DEF Rating
<1>5. seen \in BOOLEAN /\ replied \in BOOLEAN
  BY DEF Rating
<1>6. new = [given |-> given, seen |-> seen, replied |-> replied]
  BY <1>2, <1>3
<1> HIDE DEF given, seen, replied, new
<1>7. new \in Rating
  BY <1>4, <1>5, <1>6 DEF Rating
<1> QED BY <1>3, <1>7 DEF given, replied, new

\* A request sets those columns that differ, to what it asks for; its commit
\* makes of the row it has loaded what all of them would.
LEMMA HeldColumns ==
  ASSUME NEW row, NEW set
  PROVE  LET wrote == Changes(row, Update(row, set)) IN
         /\ DOMAIN wrote \subseteq DOMAIN set
         /\ \A col \in DOMAIN wrote : wrote[col] = set[col]
         /\ Update(row, wrote) = Update(row, set)
<1> DEFINE new == [f \in DOMAIN row |-> IF f \in DOMAIN set THEN set[f] ELSE row[f]]
           wrote == [f \in {g \in DOMAIN row : new[g] # row[g]} |-> new[f]]
<1>1. Update(row, set) = new /\ Changes(row, Update(row, set)) = wrote
  BY DEF Update, Changes
<1>2. \A f \in DOMAIN row : new[f] = IF f \in DOMAIN set THEN set[f] ELSE row[f]
  OBVIOUS
<1>3. DOMAIN new = DOMAIN row
  OBVIOUS
<1> HIDE DEF new
<1>4. DOMAIN wrote \subseteq DOMAIN set /\ \A col \in DOMAIN wrote : wrote[col] = set[col]
  BY <1>2
<1>5. \A f \in DOMAIN row : (IF f \in DOMAIN wrote THEN wrote[f] ELSE row[f]) = new[f]
  OBVIOUS
<1>6. Update(row, wrote) = [f \in DOMAIN row |-> new[f]]
  BY <1>5 DEF Update
<1>7. new = [f \in DOMAIN row |-> new[f]]
  BY DEF new
<1> HIDE DEF wrote
<1> QED BY <1>1, <1>4, <1>6, <1>7

LEMMA HandTurns ==
  ASSUME RemarksInv, NEW h \in Hands, NEW j, HandFits(j), hand' = [hand EXCEPT ![h] = j],
         UNCHANGED <<remark, rating, note, crossed>>
  PROVE  RemarksInv'
<1>1. /\ DOMAIN hand' = Hands /\ hand'[h] = j
      /\ \A g \in Hands \ {h} : hand'[g] = hand[g]
  BY DEF RemarksInv
<1>2. ASSUME NEW g \in Hands PROVE HandFits(hand[g])'
  <2>1. HandFits(hand'[g])
    BY <1>1 DEF RemarksInv
  <2> QED BY <2>1 DEF HandFits
<1> QED BY <1>1, <1>2 DEF RemarksInv

\* A request loads a row, and the columns it asks for fit that row.
LEMMA HoldsKeeps ==
  ASSUME RemarksInv, NEW h \in Hands, NEW name \in {"remark", "rating", "answer"}, NEW row, NEW set,
         Holds(h, name, row, set), UNCHANGED <<remark, rating, note, crossed>>,
         DOMAIN set \subseteq {"status", "seen", "replied", "given"},
         "status" \in DOMAIN set => set["status"] \in {"new", "pending", "closed"},
         "seen" \in DOMAIN set => set["seen"] \in BOOLEAN,
         "replied" \in DOMAIN set => set["replied"] \in BOOLEAN,
         "given" \in DOMAIN set => set["given"] = TRUE,
         name = "remark" => /\ row = remark /\ DOMAIN set \subseteq {"status", "seen", "replied"}
                            /\ remark # NoRemark /\ Listable(Update(remark, set)),
         name = "rating" => DOMAIN set \subseteq {"given"},
         name = "answer" => DOMAIN set \subseteq {"seen", "replied"} /\ rating.given
  PROVE  RemarksInv'
<1> DEFINE wrote == Changes(row, Update(row, set))
           j == [row |-> name, set |-> wrote, late |-> FALSE]
<1>1. hand' = [hand EXCEPT ![h] = j]
  BY DEF Holds
<1>2. /\ DOMAIN wrote \subseteq DOMAIN set
      /\ \A col \in DOMAIN wrote : wrote[col] = set[col]
      /\ Update(row, wrote) = Update(row, set)
  BY HeldColumns
<1> HIDE DEF wrote
<1>3. DOMAIN j = {"row", "set", "late"} /\ j.row = name /\ j.set = wrote /\ j.late = FALSE
  OBVIOUS
<1> HIDE DEF j
<1>4. /\ "status" \in DOMAIN wrote => wrote["status"] \in {"new", "pending", "closed"}
      /\ "seen" \in DOMAIN wrote => wrote["seen"] \in BOOLEAN
      /\ "replied" \in DOMAIN wrote => wrote["replied"] \in BOOLEAN
      /\ "given" \in DOMAIN wrote => wrote["given"] = TRUE
  BY <1>2
<1>5. name = "remark" => /\ DOMAIN wrote \subseteq {"status", "seen", "replied"}
                         /\ remark # NoRemark /\ Listable(Update(remark, wrote))
  BY <1>2
<1>6. /\ name = "rating" => DOMAIN wrote \subseteq {"given"}
      /\ name = "answer" => DOMAIN wrote \subseteq {"seen", "replied"} /\ rating.given
  BY <1>2
<1>7. HandFits(j)
  BY <1>3, <1>4, <1>5, <1>6 DEF HandFits
<1> QED BY <1>1, <1>7, HandTurns

LEMMA HandleCommentKeeps ==
  ASSUME RemarksInv, NEW h \in Hands, HandleComment(h)
  PROVE  RemarksInv'
<1>0. /\ remark # NoRemark /\ UNCHANGED <<remark, rating, note, crossed>> /\ remark \in Remark
      /\ remark.status \in {"new", "pending", "closed"}
  BY DEF HandleComment, RemarksInv, Remark
<1>1. ASSUME NEW set, Holds(h, "remark", remark, set), DOMAIN set \subseteq {"status", "seen", "replied"},
             "status" \in DOMAIN set => set["status"] \in {"new", "pending", "closed"},
             "seen" \in DOMAIN set => set["seen"] \in BOOLEAN,
             "replied" \in DOMAIN set => set["replied"] \in BOOLEAN,
             \/ "seen" \in DOMAIN set /\ set["seen"] = TRUE
             \/ "status" \in DOMAIN set /\ set["status"] = "new"
      PROVE  RemarksInv'
  <2>1. Listable(Update(remark, set))
    BY <1>0, <1>1, UpdateOfRemark DEF Listable
  <2> QED BY <2>1, <1>0, <1>1, HoldsKeeps
<1>2. CASE Holds(h, "remark", remark, Answered(remark))
  <2> DEFINE set == Answered(remark)
  <2>1. /\ DOMAIN set = {"seen", "replied", "status"} /\ set["seen"] = TRUE /\ set["replied"] = TRUE
        /\ set["status"] \in {"new", "pending", "closed"}
    BY <1>0 DEF Answered
  <2> HIDE DEF set
  <2> QED BY <2>1, <1>1, <1>2 DEF set
<1>3. ASSUME NEW state \in {"new", "pending", "closed"},
             Holds(h, "remark", remark, [seen |-> TRUE, status |-> state])
      PROVE  RemarksInv'
  <2> DEFINE set == [seen |-> TRUE, status |-> state]
  <2>1. DOMAIN set = {"seen", "status"} /\ set["seen"] = TRUE /\ set["status"] = state
    OBVIOUS
  <2> HIDE DEF set
  <2> QED BY <2>1, <1>1, <1>3 DEF set
<1>4. CASE Holds(h, "remark", remark, [seen |-> TRUE])
  <2> DEFINE set == [seen |-> TRUE]
  <2>1. DOMAIN set = {"seen"} /\ set["seen"] = TRUE
    OBVIOUS
  <2> HIDE DEF set
  <2> QED BY <2>1, <1>1, <1>4 DEF set
<1>5. CASE Holds(h, "remark", remark, Unseen)
  <2>1. DOMAIN Unseen = {"seen", "status"} /\ Unseen["seen"] = FALSE /\ Unseen["status"] = "new"
    BY DEF Unseen
  <2> QED BY <2>1, <1>1, <1>5
<1> QED BY <1>2, <1>3, <1>4, <1>5 DEF HandleComment

LEMMA RatingsHeld ==
  ASSUME RemarksInv, NEW h \in Hands, Rate(h) \/ HandleRating(h)
  PROVE  RemarksInv'
<1>1. CASE Rate(h)
  <2> DEFINE set == IF rating.given THEN NoChanges ELSE [given |-> TRUE]
  <2>1. Holds(h, "rating", rating, set) /\ UNCHANGED <<remark, rating, note, crossed>>
    BY <1>1 DEF Rate
  <2>2. DOMAIN set \subseteq {"given"} /\ ("given" \in DOMAIN set => set["given"] = TRUE)
    BY DEF NoChanges
  <2> HIDE DEF set
  <2> QED BY <2>1, <2>2, HoldsKeeps
<1>2. CASE HandleRating(h)
  <2>0. rating.given /\ UNCHANGED <<remark, rating, note, crossed>>
    BY <1>2 DEF HandleRating
  <2>1. CASE Holds(h, "answer", rating, [seen |-> TRUE, replied |-> TRUE])
    <3> DEFINE set == [seen |-> TRUE, replied |-> TRUE]
    <3>1. DOMAIN set = {"seen", "replied"} /\ set["seen"] = TRUE /\ set["replied"] = TRUE
      OBVIOUS
    <3> HIDE DEF set
    <3>2. Holds(h, "answer", rating, set)
      BY <2>1 DEF set
    <3> QED BY <2>0, <3>1, <3>2, HoldsKeeps
  <2>2. ASSUME NEW seen \in BOOLEAN, Holds(h, "answer", rating, [seen |-> seen]) PROVE RemarksInv'
    <3> DEFINE set == [seen |-> seen]
    <3>1. DOMAIN set = {"seen"} /\ set["seen"] = seen
      OBVIOUS
    <3> HIDE DEF set
    <3>2. Holds(h, "answer", rating, set)
      BY <2>2 DEF set
    <3> QED BY <2>0, <3>1, <3>2, HoldsKeeps
  <2> QED BY <1>2, <2>1, <2>2 DEF HandleRating
<1> QED BY <1>1, <1>2

-----------------------------------------------------------------------------
\* A commit makes late those who have loaded the row.
LEMMA DoneHands ==
  ASSUME RemarksInv, NEW h \in Hands, NEW name, Done(h, name)
  PROVE  /\ DOMAIN hand' = Hands /\ hand'[h] = Empty
         /\ \A g \in Hands \ {h} :
               /\ DOMAIN hand'[g] = {"row", "set", "late"}
               /\ hand'[g].row = hand[g].row /\ hand'[g].set = hand[g].set
               /\ hand'[g].late \in BOOLEAN
               /\ ~hand'[g].late => ~hand[g].late /\ hand[g].row # name
<1>1. hand' = [g \in Hands |-> IF g = h THEN Empty
                               ELSE [hand[g] EXCEPT !.late = hand[g].late \/ hand[g].row = name]]
  BY DEF Done
<1>2. ASSUME NEW g \in Hands \ {h}
      PROVE  /\ DOMAIN hand'[g] = {"row", "set", "late"}
             /\ hand'[g].row = hand[g].row /\ hand'[g].set = hand[g].set
             /\ hand'[g].late \in BOOLEAN
             /\ ~hand'[g].late => ~hand[g].late /\ hand[g].row # name
  <2> DEFINE late == hand[g].late \/ hand[g].row = name
  <2>1. hand'[g] = [hand[g] EXCEPT !.late = late]
    BY <1>1
  <2>2. DOMAIN hand[g] = {"row", "set", "late"}
    BY DEF RemarksInv, HandFits
  <2>3. late \in BOOLEAN /\ (~late => ~hand[g].late /\ hand[g].row # name)
    OBVIOUS
  <2> HIDE DEF late
  <2>4. hand'[g].late = late
    BY <2>1, <2>2
  <2> QED BY <2>1, <2>2, <2>3, <2>4
<1> QED BY <1>1, <1>2

LEMMA CommentCommitsKeeps ==
  ASSUME RemarksInv, NEW h \in Hands, CommentCommits(h)
  PROVE  RemarksInv'
<1> DEFINE set == hand[h].set
<1>0. HandFits(hand[h]) /\ remark \in Remark
  BY DEF RemarksInv
<1>1. /\ hand[h].row = "remark" /\ remark' = Update(remark, set) /\ Done(h, "remark")
      /\ crossed' = crossed \union {n \in {"remark"} : hand[h].late} /\ UNCHANGED <<rating, note>>
  BY DEF CommentCommits
<1>2. /\ "status" \in DOMAIN set => set["status"] \in {"new", "pending", "closed"}
      /\ "seen" \in DOMAIN set => set["seen"] \in BOOLEAN
      /\ "replied" \in DOMAIN set => set["replied"] \in BOOLEAN
      /\ remark # NoRemark /\ (~hand[h].late => Listable(Update(remark, set)))
  BY <1>0, <1>1 DEF HandFits
<1> HIDE DEF set
<1>3. /\ remark' \in Remark
      /\ remark'.status = IF "status" \in DOMAIN set THEN set["status"] ELSE remark.status
  BY <1>0, <1>1, <1>2, UpdateOfRemark
<1>4. remark'.status # "none" /\ remark' # NoRemark /\ note # "none"
  BY <1>2, <1>3 DEF RemarksInv, NoRemark
<1>5. crossed' \subseteq {"remark", "answer"} /\ ("remark" \in crossed' \/ Listable(remark'))
  BY <1>1, <1>2 DEF RemarksInv
<1>6. /\ DOMAIN hand' = Hands /\ hand'[h] = Empty
      /\ \A g \in Hands \ {h} :
            /\ DOMAIN hand'[g] = {"row", "set", "late"}
            /\ hand'[g].row = hand[g].row /\ hand'[g].set = hand[g].set
            /\ hand'[g].late \in BOOLEAN
            /\ ~hand'[g].late => ~hand[g].late /\ hand[g].row # "remark"
  BY <1>1, DoneHands
<1>7. ASSUME NEW g \in Hands PROVE HandFits(hand[g])'
  <2>1. CASE g = h
    BY <2>1, <1>6, EmptyFits DEF HandFits
  <2>2. CASE g # h
    <3>1. HandFits(hand[g])
      BY DEF RemarksInv
    <3> QED BY <3>1, <2>2, <1>1, <1>4, <1>6 DEF HandFits
  <2> QED BY <2>1, <2>2
<1> QED BY <1>1, <1>3, <1>4, <1>5, <1>6, <1>7 DEF RemarksInv, Listable

LEMMA RatingCommitsKeep ==
  ASSUME RemarksInv, NEW h \in Hands, RatingCommits(h) \/ AnswerCommits(h)
  PROVE  RemarksInv'
<1> DEFINE set == hand[h].set
<1>0. HandFits(hand[h]) /\ rating \in Rating /\ hand[h].row \in {"rating", "answer"}
  BY DEF RemarksInv, RatingCommits, AnswerCommits
<1>1. /\ rating' = Update(rating, set) /\ Done(h, hand[h].row) /\ UNCHANGED <<remark, note>>
      /\ crossed \subseteq crossed' /\ crossed' \subseteq {"remark", "answer"}
  BY DEF RatingCommits, AnswerCommits, RemarksInv
<1>2. /\ "given" \in DOMAIN set => set["given"] = TRUE
      /\ "seen" \in DOMAIN set => set["seen"] \in BOOLEAN
      /\ "replied" \in DOMAIN set => set["replied"] \in BOOLEAN
      /\ "replied" \in DOMAIN set => rating.given
  BY <1>0 DEF HandFits
<1> HIDE DEF set
<1>3. /\ rating' \in Rating
      /\ rating'.given = IF "given" \in DOMAIN set THEN set["given"] ELSE rating.given
      /\ rating'.replied = IF "replied" \in DOMAIN set THEN set["replied"] ELSE rating.replied
  BY <1>0, <1>1, <1>2, UpdateOfRating
<1>4. rating.given => rating'.given
  BY <1>2, <1>3
<1>5. rating'.replied => rating'.given
  BY <1>2, <1>3, <1>4 DEF RemarksInv
<1>6. /\ DOMAIN hand' = Hands /\ hand'[h] = Empty
      /\ \A g \in Hands \ {h} :
            /\ DOMAIN hand'[g] = {"row", "set", "late"}
            /\ hand'[g].row = hand[g].row /\ hand'[g].set = hand[g].set
            /\ hand'[g].late \in BOOLEAN
            /\ ~hand'[g].late => ~hand[g].late
  BY <1>1, DoneHands
<1>7. ASSUME NEW g \in Hands PROVE HandFits(hand[g])'
  <2>1. CASE g = h
    BY <2>1, <1>6, EmptyFits DEF HandFits
  <2>2. CASE g # h
    <3>1. HandFits(hand[g])
      BY DEF RemarksInv
    <3> QED BY <3>1, <2>2, <1>1, <1>4, <1>6 DEF HandFits
  <2> QED BY <2>1, <2>2
<1>8. "remark" \in crossed' \/ Listable(remark)
  BY <1>1 DEF RemarksInv
<1> QED BY <1>1, <1>3, <1>5, <1>6, <1>7, <1>8 DEF RemarksInv, Listable

\* The comment with its notification, and the notification that is read.
LEMMA CommentMade ==
  ASSUME RemarksInv, AddComment \/ MarkNotificationRead
  PROVE  RemarksInv'
<1>1. CASE AddComment
  <2>1. /\ remark = NoRemark /\ remark' = [NoRemark EXCEPT !.status = "new"] /\ note' = "unread"
        /\ UNCHANGED <<rating, hand, crossed>>
    BY <1>1 DEF AddComment
  <2>2. remark' \in Remark /\ remark'.status = "new" /\ remark' # NoRemark
    BY <2>1 DEF NoRemark, Remark
  <2>3. ASSUME NEW g \in Hands PROVE HandFits(hand[g])'
    <3>1. HandFits(hand[g]) /\ hand[g].row # "remark"
      BY <2>1 DEF RemarksInv, HandFits
    <3> QED BY <3>1, <2>1 DEF HandFits
  <2> QED BY <2>1, <2>2, <2>3 DEF RemarksInv, Listable
<1>2. CASE MarkNotificationRead
  <2>1. note = "unread" /\ note' = "read" /\ UNCHANGED <<remark, rating, hand, crossed>>
    BY <1>2 DEF MarkNotificationRead
  <2>2. \A g \in Hands : HandFits(hand[g])'
    BY <2>1 DEF RemarksInv, HandFits
  <2> QED BY <2>1, <2>2 DEF RemarksInv
<1> QED BY <1>1, <1>2

LEMMA RemarksStep == RemarksInv /\ RemarksNext => RemarksInv'
<1> SUFFICES ASSUME RemarksInv, RemarksNext PROVE RemarksInv'
  OBVIOUS
<1>1. ASSUME NEW h \in Hands, HandFails(h) PROVE RemarksInv'
  BY <1>1, EmptyFits, HandTurns DEF HandFails
<1> QED BY <1>1, HandleCommentKeeps, RatingsHeld, CommentCommitsKeeps, RatingCommitsKeep, CommentMade
        DEF RemarksNext

LEMMA RemarksStutter == RemarksInv /\ UNCHANGED remarkVars => RemarksInv'
<1> SUFFICES ASSUME RemarksInv, UNCHANGED remarkVars PROVE RemarksInv'
  OBVIOUS
<1>1. UNCHANGED <<remark, rating, note, hand, crossed>>
  BY DEF remarkVars
<1>2. \A g \in Hands : HandFits(hand[g])'
  BY <1>1 DEF RemarksInv, HandFits
<1> QED BY <1>1, <1>2 DEF RemarksInv

-----------------------------------------------------------------------------
(* The parts together: a behaviour is about one of them. *)

AdministrationInv ==
    DataInv /\ AccountsInv /\ UploadInv /\ RecordingInv /\ CatalogInv /\ RemarksInv

LEMMA AdministrationStart == AdministrationInit => AdministrationInv
<1> SUFFICES ASSUME AdministrationInit PROVE AdministrationInv
  OBVIOUS
<1>1. /\ DataInit /\ AccountsInit /\ UploadInit /\ RecordingInit /\ CatalogInit /\ RemarksInit
  BY DEF AdministrationInit
<1> QED BY <1>1, DataStart, AccountsStart, UploadStart, RecordingStart, CatalogStart, RemarksStart
        DEF AdministrationInv

LEMMA CoursesRest ==
  ASSUME UploadInv, RecordingInv, CatalogInv, RemarksInv, UNCHANGED courseParts
  PROVE  UploadInv' /\ RecordingInv' /\ CatalogInv' /\ RemarksInv'
<1>1. UNCHANGED uploadVars /\ UNCHANGED recordingVars /\ UNCHANGED catalogVars /\ UNCHANGED remarkVars
  BY DEF courseParts
<1> QED BY <1>1, UploadStutter, RecordingStutter, CatalogStutter, RemarksStutter

LEMMA AdministrationStep ==
  ASSUME AdministrationInv, AdministrationNext
  PROVE  AdministrationInv'
<1>0. DataInv /\ AccountsInv /\ UploadInv /\ RecordingInv /\ CatalogInv /\ RemarksInv
  BY DEF AdministrationInv
<1>1. CASE part = "settings" /\ SettingsNext /\ UNCHANGED <<dataRows, job, due, overlaps, otherThanData>>
  <2>1. /\ UNCHANGED accountVars /\ UNCHANGED courseParts
        /\ UNCHANGED <<dataRows, job, due, overlaps>>
    BY <1>1 DEF otherThanData
  <2>2. SettingsInv
    BY <1>0, DataTypes
  <2>3. SettingsInv' /\ (lost => lost')
    BY <1>1, <2>2, SettingsStep, LostStays
  <2>4. DataInv'
    BY <1>0, <2>1, <2>3, DataUnderSettings
  <2>5. AccountsInv'
    BY <1>0, <2>1, AccountsStutter
  <2> QED BY <1>0, <2>1, <2>4, <2>5, CoursesRest DEF AdministrationInv
<1>2. CASE part = "data" /\ DataNext /\ UNCHANGED otherThanData
  <2>1. UNCHANGED accountVars /\ UNCHANGED courseParts
    BY <1>2 DEF otherThanData
  <2>2. DataInv'
    BY <1>0, <1>2, DataStep
  <2>3. AccountsInv'
    BY <1>0, <2>1, AccountsStutter
  <2> QED BY <1>0, <2>1, <2>2, <2>3, CoursesRest DEF AdministrationInv
<1>3. CASE part = "accounts" /\ AccountsNext /\ UNCHANGED <<dataVars, courseParts, part>>
  <2>1. UNCHANGED dataVars /\ UNCHANGED courseParts
    BY <1>3
  <2>2. AccountsInv'
    BY <1>0, <1>3, AccountsStep
  <2>3. DataInv'
    BY <1>0, <2>1, DataStutter
  <2> QED BY <1>0, <2>1, <2>2, <2>3, CoursesRest DEF AdministrationInv
<1>4. ASSUME UNCHANGED dataVars, UNCHANGED accountVars PROVE DataInv' /\ AccountsInv'
  BY <1>0, <1>4, DataStutter, AccountsStutter
<1>5. CASE /\ part = "upload" /\ UploadNext
           /\ UNCHANGED <<dataVars, accountVars, recordingVars, catalogVars, remarkVars, part>>
  <2>1. /\ UNCHANGED dataVars /\ UNCHANGED accountVars /\ UNCHANGED recordingVars
        /\ UNCHANGED catalogVars /\ UNCHANGED remarkVars
    BY <1>5
  <2> QED BY <1>0, <1>4, <1>5, <2>1, UploadStep, RecordingStutter, CatalogStutter, RemarksStutter
          DEF AdministrationInv
<1>6. CASE /\ part = "recording" /\ RecordingNext
           /\ UNCHANGED <<dataVars, accountVars, uploadVars, catalogVars, remarkVars, part>>
  <2>1. /\ UNCHANGED dataVars /\ UNCHANGED accountVars /\ UNCHANGED uploadVars
        /\ UNCHANGED catalogVars /\ UNCHANGED remarkVars
    BY <1>6
  <2> QED BY <1>0, <1>4, <1>6, <2>1, RecordingStep, UploadStutter, CatalogStutter, RemarksStutter
          DEF AdministrationInv
<1>7. CASE /\ part = "catalog" /\ CatalogNext
           /\ UNCHANGED <<dataVars, accountVars, uploadVars, recordingVars, remarkVars, part>>
  <2>1. /\ UNCHANGED dataVars /\ UNCHANGED accountVars /\ UNCHANGED uploadVars
        /\ UNCHANGED recordingVars /\ UNCHANGED remarkVars
    BY <1>7
  <2> QED BY <1>0, <1>4, <1>7, <2>1, CatalogStep, UploadStutter, RecordingStutter, RemarksStutter
          DEF AdministrationInv
<1>8. CASE /\ part = "remarks" /\ RemarksNext
           /\ UNCHANGED <<dataVars, accountVars, uploadVars, recordingVars, catalogVars, part>>
  <2>1. /\ UNCHANGED dataVars /\ UNCHANGED accountVars /\ UNCHANGED uploadVars
        /\ UNCHANGED recordingVars /\ UNCHANGED catalogVars
    BY <1>8
  <2> QED BY <1>0, <1>4, <1>8, <2>1, RemarksStep, UploadStutter, RecordingStutter, CatalogStutter
          DEF AdministrationInv
<1> QED BY <1>1, <1>2, <1>3, <1>5, <1>6, <1>7, <1>8 DEF AdministrationNext

LEMMA AdministrationStutter ==
  ASSUME AdministrationInv, UNCHANGED administrationVars
  PROVE  AdministrationInv'
<1>1. UNCHANGED dataVars /\ UNCHANGED accountVars /\ UNCHANGED courseParts
  BY DEF administrationVars, otherThanData
<1>2. DataInv' /\ AccountsInv'
  BY <1>1, DataStutter, AccountsStutter DEF AdministrationInv
<1> QED BY <1>1, <1>2, CoursesRest DEF AdministrationInv

\* The inductive invariant of the settings, the erasures, the accounts, the
\* videos and the courses.
THEOREM AdministrationInvariant == AdministrationSpec => []AdministrationInv
<1>1. AdministrationInv /\ [AdministrationNext]_administrationVars => AdministrationInv'
  BY AdministrationStep, AdministrationStutter
<1> QED BY <1>1, AdministrationStart, PTL DEF AdministrationSpec

LEMMA AdministrationParts ==
  AdministrationInv =>
    /\ DataTypeOK /\ ErasedForGood /\ EnforcedIsProven /\ HoldStands
    /\ AccountsTypeOK /\ OneAccount /\ BannedStaysOut /\ DeletedIsNameless
    /\ UploadTypeOK /\ UploadWhole /\ RecordingTypeOK /\ RecordingKept
    /\ CatalogTypeOK /\ RowsHaveFiles /\ PublishedIsPlayable /\ DeletedWhole
    /\ RemarksTypeOK /\ CommentsListed
<1> SUFFICES ASSUME AdministrationInv
             PROVE  /\ DataTypeOK /\ ErasedForGood /\ EnforcedIsProven /\ HoldStands
                    /\ AccountsTypeOK /\ OneAccount /\ BannedStaysOut /\ DeletedIsNameless
                    /\ UploadTypeOK /\ UploadWhole /\ RecordingTypeOK /\ RecordingKept
                    /\ CatalogTypeOK /\ RowsHaveFiles /\ PublishedIsPlayable /\ DeletedWhole
                    /\ RemarksTypeOK /\ CommentsListed
  OBVIOUS
<1>1. DataTypeOK /\ ErasedForGood /\ EnforcedIsProven /\ HoldStands
  BY DataInvHolds, DataTypes, SettingsInvHolds DEF AdministrationInv
<1>2. AccountsTypeOK /\ OneAccount /\ BannedStaysOut /\ DeletedIsNameless
  BY AccountsInvHolds DEF AdministrationInv
<1>3. UploadTypeOK /\ UploadWhole /\ RecordingTypeOK /\ RecordingKept
  BY UploadInvHolds, RecordingInvHolds DEF AdministrationInv
<1>4. CatalogTypeOK /\ RowsHaveFiles /\ PublishedIsPlayable /\ DeletedWhole
  BY DEF AdministrationInv, CatalogInv
<1>5. RemarksTypeOK /\ CommentsListed
  BY RemarksInvHolds DEF AdministrationInv
<1> QED BY <1>1, <1>2, <1>3, <1>4, <1>5

\* The settings, the rows of candidates and accounts, the files of videos and
\* courses and the comments hold values of their types.
THEOREM AdministrationTypeCorrect == AdministrationSpec => []AdministrationTypeOK
<1>1. AdministrationInv => AdministrationTypeOK
  BY AdministrationParts DEF AdministrationTypeOK
<1> QED BY <1>1, AdministrationInvariant, PTL

\* The legal hold stands as it was last acknowledged and an enforced connection
\* is a proven one; an erasure is for good; one row has the person's address, a
\* ban outlives the row, and a deleted row is nameless.
THEOREM RecordsCorrect == AdministrationSpec => []RecordsHold
<1>1. AdministrationInv => RecordsHold
  BY AdministrationParts DEF RecordsHold, SettingsHold, AccountsHold
<1> QED BY <1>1, AdministrationInvariant, PTL

\* An acknowledged video or recording is whole; a course has its files, can be
\* played when it is published and leaves nothing when it is deleted; the list
\* of comments shows what is new.
THEOREM CoursesCorrect == AdministrationSpec => []CoursesHold
<1>1. AdministrationInv => CoursesHold
  BY AdministrationParts DEF CoursesHold, UploadsHold, CatalogHolds
<1> QED BY <1>1, AdministrationInvariant, PTL

\* Only the part of the data requests writes the rows of candidates.
LEMMA DataRowsChange ==
  ASSUME AdministrationNext, dataRows' # dataRows
  PROVE  DataNext
<1>1. ASSUME UNCHANGED dataVars PROVE FALSE
  BY <1>1 DEF dataVars
<1>2. ASSUME UNCHANGED <<dataRows, job, due, overlaps, otherThanData>> PROVE FALSE
  BY <1>2
<1> QED BY <1>1, <1>2 DEF AdministrationNext

\* Data are erased by no job that knew of a legal hold, and a deletion request
\* is taken through its steps in turn.
THEOREM ErasureCorrect == AdministrationSpec => ErasureInTurn
<1>1. AdministrationInv /\ [AdministrationNext]_administrationVars =>
        [\A t \in Threads :
            (job[t].op \in {"execute", "retain"} /\ dataRows' # dataRows /\ job'[t] = NoJob)
            => job[t].freely \/ lost]_dataVars
  BY HoldProtectsStep DEF AdministrationInv
<1>2. AdministrationInv /\ [AdministrationNext]_administrationVars =>
        [\A r \in Requests : (requests'[r].status # requests[r].status /\ "update" \notin overlaps') =>
            /\ ~Closed(requests[r])
            /\ requests'[r].status = "completed" =>
                 requests[r].status = "approved" /\ requests[r].verified]_dataVars
  <2> SUFFICES ASSUME AdministrationInv, [AdministrationNext]_administrationVars,
                      NEW r \in Requests, requests'[r].status # requests[r].status,
                      "update" \notin overlaps'
               PROVE  /\ ~Closed(requests[r])
                      /\ requests'[r].status = "completed" =>
                           requests[r].status = "approved" /\ requests[r].verified
    OBVIOUS
  <2>1. dataRows' # dataRows
    BY DEF dataRows
  <2>2. ~(UNCHANGED administrationVars)
    <3>1. UNCHANGED administrationVars => UNCHANGED dataVars
      BY DEF administrationVars
    <3>2. UNCHANGED dataVars => UNCHANGED dataRows
      BY DEF dataVars
    <3> QED BY <3>1, <3>2, <2>1
  <2>3. DataNext
    BY <2>1, <2>2, DataRowsChange
  <2> QED BY <2>3, RequestsStep DEF AdministrationInv
<1>3. AdministrationSpec => HoldProtects
  BY <1>1, AdministrationInvariant, PTL DEF AdministrationSpec, HoldProtects
<1>4. AdministrationSpec => RequestsInTurn
  BY <1>2, AdministrationInvariant, PTL DEF AdministrationSpec, RequestsInTurn
<1> QED BY <1>3, <1>4 DEF ErasureInTurn
============================================================================
