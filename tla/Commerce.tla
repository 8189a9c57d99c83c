------------------------------ MODULE Commerce ------------------------------
(***************************************************************************)
(* What a payment is for: invoices (routers/invoices.py and the same        *)
(* operations of merchant_portal.py), payment links (services and router    *)
(* payment_links.py, pay_by_link.py), the attempts to pay one by push, QR    *)
(* or hosted page, and what a settled or reversed payment does to its link   *)
(* and invoice (collections.py).                                            *)
(*                                                                         *)
(* Handlers are the `async` routes and the reconciliation of one replica:   *)
(* each keeps the event loop except while it awaits Selcom.  Threads serve  *)
(* the `def` routes, between whose statements anything may happen.  How the *)
(* collection, its transaction and the ledger agree is module Collections;  *)
(* here that is one step, and the answer of Selcom is as fresh as its use.   *)
(***************************************************************************)
EXTENDS Integers, Sequences, FiniteSets, FiniteSetsExt

CONSTANTS
  Handlers, \* slots for requests on the event loop
  Threads,  \* slots for requests in the thread pool
  Nobody,   \* what holds a free event loop
  MaxAmount,\* bound: the largest amount a link or an invoice asks
  MaxAttempts, \* the number of attempts that the budgets allow
  Starts,   \* situations to begin with, each with its budget of requests
  Faults    \* subset of {"order", "email"} that can occur

Requests == Handlers \cup Threads

ASSUME CommerceAssumption ==
  Handlers \cap Threads = {} /\ Nobody \notin Requests /\ MaxAmount \in Nat \ {0}

VARIABLES
  links,    \* Seq(Link)        payment_links
  invoices, \* Seq(Invoice)     invoices
  orders,   \* Seq(Order)       checkout_orders
  colls,    \* Seq(Attempt)     collections
  page,     \* the merchant's Pay by Link page: "none", "on" or "off"
  work,     \* [Requests -> Work]
  busy,     \* the handler that keeps the event loop, or Nobody
  left      \* what is left of the budget

tables == <<links, invoices, orders, colls, page>>
commerceVars == <<tables, work, busy, left>>

Amounts == 1 .. MaxAmount
Pushed == {"STK_PUSH", "SELCOM_PESA_PUSH"}
Methods == Pushed \cup {"DYNAMIC_QR", "HOSTED_CHECKOUT"}
Settled == {"successful", "reversed"}

\* over: its expires_at has passed.
Link == [amount : Amounts, status : {"ACTIVE", "PAID", "CANCELLED", "EXPIRED"}, over : BOOLEAN]
\* link: the payment link made for it last, 0 if none.
Invoice == [status : {"DRAFT", "SENT", "PARTIALLY_PAID", "PAID", "CANCELLED"},
            total : Amounts, paid : Nat, link : Nat]
\* truth: what became of the order at Selcom.
Order == [link : Nat, amount : Amounts, status : {"created", "failed", "completed"},
          truth : {"unpaid", "paid", "returned"}]
Attempt == [link : Nat, invoice : Nat, order : Nat, method : Methods, amount : Amounts,
            status : {"processing", "failed", "pending_review"} \cup Settled]

\* A request: where it is, what it serves, the rows it is about, and what it
\* read of them.
NoWork == [at |-> "idle", op |-> "", link |-> 0, inv |-> 0, order |-> 0, coll |-> 0,
           method |-> "", amount |-> 0, total |-> 0, paid |-> 0]
-----------------------------------------------------------------------------
LoopFree == busy = Nobody
Begins(r) == work[r] = NoWork /\ (r \in Handlers => LoopFree)
GoesOn(r, p) == work[r].at = p /\ (r \in Handlers => busy = r)
Resumes(r, p) == work[r].at = p /\ LoopFree

Keep(r, q) ==
  /\ work' = [work EXCEPT ![r] = q]
  /\ busy' = IF r \in Handlers THEN r ELSE busy
Await(r, q) ==
  /\ work' = [work EXCEPT ![r] = q]
  /\ busy' = IF r \in Handlers THEN Nobody ELSE busy
Done(r) == Await(r, NoWork)
To(r, p) == [work[r] EXCEPT !.at = p]

Spend(k) == left[k] > 0 /\ left' = [left EXCEPT ![k] = @ - 1]

\* A link a thread has made but not returned yet is known to nobody.
Shown(l) == \A t \in Threads : ~(work[t].at = "attach" /\ work[t].link = l)
Lapsed(l) == links[l].status = "ACTIVE" /\ links[l].over
NewLink(a) == [amount |-> a, status |-> "ACTIVE", over |-> FALSE]
\* resolve_invoice_id_for_payment_link: the invoice the link is the latest of.
InvoiceOf(l) == IF \E i \in DOMAIN invoices : invoices[i].link = l /\ l # 0
                THEN Max({i \in DOMAIN invoices : invoices[i].link = l}) ELSE 0
-----------------------------------------------------------------------------
(***************************************************************************)
(* Payment links and the Pay by Link page.                                 *)
(***************************************************************************)
CreatePaymentLink(r, a) ==
  /\ r \in Handlers /\ Begins(r) /\ Spend("links")
  /\ links' = Append(links, NewLink(a))
  /\ UNCHANGED <<invoices, orders, colls, page, work, busy>>

CreatePayByLink(t) ==
  /\ t \in Threads /\ Begins(t) /\ Spend("pages") /\ page = "none"
  /\ page' = "on"
  /\ UNCHANGED <<links, invoices, orders, colls, work, busy>>

UpdatePayByLink(t) ==
  /\ t \in Threads /\ Begins(t) /\ Spend("pages") /\ page # "none"
  /\ page' = IF page = "on" THEN "off" ELSE "on"
  /\ UNCHANGED <<links, invoices, orders, colls, work, busy>>

\* The customer chooses the amount; every checkout is a link of its own.
CheckoutPayByLink(r, a) ==
  /\ r \in Handlers /\ Begins(r) /\ Spend("links") /\ page = "on"
  /\ links' = Append(links, NewLink(a))
  /\ UNCHANGED <<invoices, orders, colls, page, work, busy>>

\* Every route reads a link through with_effective_status.  In a thread the read
\* and the write that lets an old link expire are two statements.
ReadLink(t, op, l) ==
  /\ t \in Threads /\ Begins(t) /\ Spend("changes")
  /\ op \in {"view", "cancel", "edit"}
  /\ IF Lapsed(l) THEN Keep(t, [NoWork EXCEPT !.at = "lapse", !.op = op, !.link = l])
     ELSE /\ \/ op = "cancel" /\ links[l].status \notin {"PAID", "CANCELLED"}
             \/ op = "edit" /\ links[l].status = "ACTIVE"
          /\ Keep(t, [NoWork EXCEPT !.at = op, !.link = l])
  /\ UNCHANGED tables

Expire(t) ==
  /\ GoesOn(t, "lapse")
  /\ links' = [links EXCEPT ![work[t].link].status = "EXPIRED"]
  /\ CASE work[t].op = "cancel"   -> Keep(t, To(t, "cancel"))
       [] work[t].op = "generate" -> Keep(t, To(t, "insert"))
       [] OTHER                   -> Done(t)
  /\ UNCHANGED <<invoices, orders, colls, page, left>>

CancelLink(t) ==
  /\ GoesOn(t, "cancel")
  /\ links' = [links EXCEPT ![work[t].link].status = "CANCELLED"]
  /\ Done(t)
  /\ UNCHANGED <<invoices, orders, colls, page, left>>

\* update_my_payment_link: the terms of an ACTIVE link may change.
UpdateLink(t, a) ==
  /\ GoesOn(t, "edit")
  /\ links' = [links EXCEPT ![work[t].link].amount = a]
  /\ Done(t)
  /\ UNCHANGED <<invoices, orders, colls, page, left>>

PassExpiry(l) ==
  /\ Spend("expiries") /\ ~links[l].over
  /\ links' = [links EXCEPT ![l].over = TRUE]
  /\ UNCHANGED <<invoices, orders, colls, page, work, busy>>
-----------------------------------------------------------------------------
(***************************************************************************)
(* Invoices.                                                               *)
(***************************************************************************)
CreateInvoice(t, a) ==
  /\ t \in Threads /\ Begins(t) /\ Spend("invoices")
  /\ invoices' = Append(invoices, [status |-> "DRAFT", total |-> a, paid |-> 0, link |-> 0])
  /\ UNCHANGED <<links, orders, colls, page, work, busy>>

\* What each operation asks of the invoice it reads.
Permits(op, i) ==
  CASE op \in {"revise", "send"} -> invoices[i].status = "DRAFT"
    [] op = "generate" -> invoices[i].status \in {"SENT", "PARTIALLY_PAID"}
    [] op = "void"     -> invoices[i].status \notin {"PAID", "CANCELLED"}

ReadInvoice(t, op, i) ==
  /\ t \in Threads /\ Begins(t) /\ Spend("papers") /\ Permits(op, i)
  /\ Keep(t, [NoWork EXCEPT !.at = IF op \in {"send", "generate"} THEN "due" ELSE op,
                !.op = op, !.inv = i, !.link = invoices[i].link,
                !.total = invoices[i].total, !.paid = invoices[i].paid])
  /\ UNCHANGED tables

UpdateInvoice(t, a) ==
  /\ GoesOn(t, "revise")
  /\ invoices' = [invoices EXCEPT ![work[t].inv].total = a]
  /\ Done(t)
  /\ UNCHANGED <<links, orders, colls, page, left>>

CancelInvoice(t) ==
  /\ GoesOn(t, "void")
  /\ invoices' = [invoices EXCEPT ![work[t].inv].status = "CANCELLED"]
  /\ Done(t)
  /\ UNCHANGED <<links, orders, colls, page, left>>

\* After the link: send_invoice goes on to the email, the other route is done.
Linked(t) == IF work[t].op = "send" THEN Keep(t, To(t, "email")) ELSE Done(t)

\* generate_or_reuse_invoice_payment_link, on the invoice as it was read.
ReuseLink(t) ==
  /\ GoesOn(t, "due")
  /\ LET q == work[t]
         stands == q.link # 0 /\ links[q.link].status = "ACTIVE" IN
     CASE q.total <= q.paid             -> Done(t)
       [] q.total > q.paid /\ ~stands    -> Keep(t, To(t, "insert"))
       [] OTHER -> IF Lapsed(q.link) THEN Keep(t, [To(t, "lapse") EXCEPT !.op = "generate"])
                   ELSE Linked(t)
  /\ UNCHANGED <<tables, left>>

InsertLink(t) ==
  /\ GoesOn(t, "insert")
  /\ links' = Append(links, NewLink(work[t].total - work[t].paid))
  /\ Keep(t, [To(t, "attach") EXCEPT !.link = Len(links) + 1])
  /\ UNCHANGED <<invoices, orders, colls, page, left>>

AttachLink(t) ==
  /\ GoesOn(t, "attach")
  /\ invoices' = [invoices EXCEPT ![work[t].inv].link = work[t].link]
  /\ Linked(t)
  /\ UNCHANGED <<links, orders, colls, page, left>>

\* An email that does not leave raises, and the invoice stays as it was.
EmailInvoice(t, sent) ==
  /\ GoesOn(t, "email")
  /\ sent \in {TRUE} \cup {"email" \notin Faults}
  /\ IF sent THEN Keep(t, To(t, "sent")) ELSE Done(t)
  /\ UNCHANGED <<tables, left>>

MarkSent(t) ==
  /\ GoesOn(t, "sent")
  /\ invoices' = [invoices EXCEPT ![work[t].inv].status = "SENT"]
  /\ Done(t)
  /\ UNCHANGED <<links, orders, colls, page, left>>
-----------------------------------------------------------------------------
(***************************************************************************)
(* Attempts to pay.                                                        *)
(***************************************************************************)
Attempts(l) == {c \in DOMAIN colls : colls[c].link = l}
InFlight(c) == colls[c].status \in {"processing", "successful"}

\* The newest order of the link that is still open is used again.
OpenOrders(l) == {o \in DOMAIN orders : orders[o].link = l /\ orders[o].status = "created"}

Row(q, status) == [link |-> q.link, invoice |-> q.inv, order |-> q.order, method |-> q.method,
                   amount |-> q.amount, status |-> status]

\* Once there is an order a push goes out, and its row waits for the answer; a
\* page is its order, and its row is written at once.
Present(r, q) ==
  /\ IF q.method \in Pushed THEN Await(r, [q EXCEPT !.at = "pushing"])
                            ELSE Done(r)
  /\ colls' = IF q.method \in Pushed THEN colls ELSE Append(colls, Row(q, "processing"))

\* A public page is asked to take payment of a link.
Pay(r, l, m, others) ==
  /\ r \in Handlers /\ Begins(r) /\ Spend("pays") /\ m \in left.how /\ Shown(l)
  /\ links[l].status = "ACTIVE"
  /\ IF links[l].over
     THEN /\ links' = [links EXCEPT ![l].status = "EXPIRED"]
          /\ UNCHANGED <<colls, work, busy>>
     ELSE /\ \A c \in Attempts(l) : InFlight(c) => colls[c].method \notin others
          /\ LET q == [NoWork EXCEPT !.link = l, !.method = m, !.amount = links[l].amount] IN
             IF OpenOrders(l) = {}
             THEN Await(r, [q EXCEPT !.at = "ordering"]) /\ UNCHANGED colls
             ELSE Present(r, [q EXCEPT !.order = Max(OpenOrders(l)), !.inv = InvoiceOf(l)])
          /\ UNCHANGED links
  /\ UNCHANGED <<invoices, orders, page>>

\* A push is refused while any attempt lives; a page while one of its own does.
WalletPush(r, l)     == Pay(r, l, "STK_PUSH", Methods)
SelcomPesaPush(r, l) == Pay(r, l, "SELCOM_PESA_PUSH", Methods)
DynamicQr(r, l)      == Pay(r, l, "DYNAMIC_QR", {"DYNAMIC_QR"})
HostedCheckout(r, l) == Pay(r, l, "HOSTED_CHECKOUT", {"HOSTED_CHECKOUT"})

\* The dashboard and the API ask without a link, for an invoice or for none,
\* whatever amount they like; an order of its own is made.
Direct(r, m, i, a) ==
  /\ r \in Handlers /\ Begins(r) /\ Spend("directs") /\ m \in left.how
  /\ Await(r, [NoWork EXCEPT !.at = "ordering", !.inv = i, !.method = m, !.amount = a])
  /\ UNCHANGED tables

DirectWalletPush(r, i, a) == Direct(r, "STK_PUSH", i, a)
DirectSelcomPesa(r, i, a) == Direct(r, "SELCOM_PESA_PUSH", i, a)
DirectQr(r, i, a)         == Direct(r, "DYNAMIC_QR", i, a)
DirectHosted(r, i, a)     == Direct(r, "HOSTED_CHECKOUT", i, a)

\* create_checkout_order_minimal answers; the row is built from here on, the
\* invoice of the link looked up last.
OrderAnswer(r, s) ==
  /\ Resumes(r, "ordering")
  /\ s = "created" \/ (s = "failed" /\ "order" \in Faults)
  /\ orders' = Append(orders, [link |-> work[r].link, amount |-> work[r].amount,
                               status |-> s, truth |-> "unpaid"])
  /\ LET q == [work[r] EXCEPT !.order = Len(orders) + 1,
                 !.inv = IF work[r].link = 0 THEN @ ELSE InvoiceOf(work[r].link)] IN
     IF s = "created" THEN Present(r, q)
     ELSE colls' = Append(colls, Row(q, "failed")) /\ Done(r)
  /\ UNCHANGED <<links, invoices, page, left>>

PushAnswer(r, s) ==
  /\ Resumes(r, "pushing")
  /\ s = "processing" \/ (s = "failed" /\ "order" \in Faults)
  /\ colls' = Append(colls, Row(work[r], s))
  /\ Done(r)
  /\ UNCHANGED <<links, invoices, orders, page, left>>
-----------------------------------------------------------------------------
(***************************************************************************)
(* Settlement: a sweep, a callback or a refresh asks what became of the      *)
(* order of a collection.                                                   *)
(***************************************************************************)
\* A slip: only what was pushed is asked about.
OpenToAskPushed(c) == InFlight(c) /\ colls[c].order # 0 /\ colls[c].method \in Pushed
OpenToAsk(c) == InFlight(c) /\ colls[c].order # 0

Ask(r, c) ==
  /\ r \in Handlers /\ Begins(r) /\ OpenToAsk(c)
  /\ Await(r, [NoWork EXCEPT !.at = "asking", !.coll = c, !.link = colls[c].link])
  /\ UNCHANGED <<tables, left>>

\* _amount_and_currency_agree: what Selcom was asked for and what the row says.
AmountAgrees(c) == orders[colls[c].order].amount = colls[c].amount

Truth(c) == orders[colls[c].order].truth

\* complete_checkout_collection_once, and resolve_collection or
\* reverse_successful_collection up to the link (module Collections).
Complete(r) ==
  /\ Resumes(r, "asking")
  /\ LET c == work[r].coll
         pays == Truth(c) = "paid" /\ colls[c].status = "processing"
         returns == Truth(c) = "returned" /\ colls[c].status = "successful"
         fails == Truth(c) = "returned" /\ colls[c].status = "processing" IN
     IF ~AmountAgrees(c) \/ ~(pays \/ returns \/ fails) THEN Done(r) /\ UNCHANGED colls
     ELSE /\ colls' = [colls EXCEPT ![c].status = CASE pays    -> "successful"
                                                    [] returns -> "reversed"
                                                    [] fails   -> "failed"]
          /\ CASE pays    -> Keep(r, To(r, "settle"))
               [] returns -> Keep(r, To(r, "unsettle"))
               [] fails   -> Done(r)
  /\ UNCHANGED <<links, invoices, orders, page, left>>

\* An administrator clears the alert that held a collection, in a thread.
Review(t, c) ==
  /\ t \in Threads /\ Begins(t) /\ Spend("reviews") /\ colls[c].status = "pending_review"
  /\ Keep(t, [NoWork EXCEPT !.at = "clear", !.coll = c, !.link = colls[c].link])
  /\ UNCHANGED tables

Clear(t) ==
  /\ GoesOn(t, "clear")
  /\ colls' = [colls EXCEPT ![work[t].coll].status = "successful"]
  /\ Keep(t, To(t, "settle"))
  /\ UNCHANGED <<links, invoices, orders, page, left>>

\* _apply_collection_success and _apply_collection_reversal: the link ...
SettleLink(r) ==
  /\ GoesOn(r, "settle")
  /\ links' = IF work[r].link = 0 THEN links
              ELSE [links EXCEPT ![work[r].link].status = "PAID"]
  /\ Keep(r, To(r, "book"))
  /\ UNCHANGED <<invoices, orders, colls, page, left>>

ReopenLink(r) ==
  /\ GoesOn(r, "unsettle")
  /\ links' = IF work[r].link # 0 /\ links[work[r].link].status = "PAID"
              THEN [links EXCEPT ![work[r].link].status = "ACTIVE"] ELSE links
  /\ Keep(r, To(r, "unbook"))
  /\ UNCHANGED <<invoices, orders, colls, page, left>>

\* ... the invoice, read and then written ...
BookedTo(c) == IF colls[c].invoice # 0 THEN colls[c].invoice ELSE InvoiceOf(colls[c].link)

ReadBooked(r) ==
  /\ GoesOn(r, "book") \/ GoesOn(r, "unbook")
  /\ LET i == BookedTo(work[r].coll)
         next == IF work[r].at = "book" THEN "write" ELSE "unwrite" IN
     IF i # 0 THEN Keep(r, [To(r, next) EXCEPT !.inv = i, !.total = invoices[i].total,
                                               !.paid = invoices[i].paid])
     ELSE IF work[r].at = "book" THEN Keep(r, To(r, "close")) ELSE Done(r)
  /\ UNCHANGED <<tables, left>>

\* A slip: the payment replaces what was paid before.
ApplyPaymentAlone(r) ==
  LET q == work[r]  paid == colls[q.coll].amount IN
  /\ GoesOn(r, "write")
  /\ invoices' = [invoices EXCEPT ![q.inv].paid = paid,
                    ![q.inv].status = IF paid >= q.total THEN "PAID" ELSE "PARTIALLY_PAID"]
  /\ Keep(r, To(r, "close"))
  /\ UNCHANGED <<links, orders, colls, page, left>>

ApplyPayment(r) ==
  LET q == work[r]  paid == q.paid + colls[q.coll].amount IN
  /\ GoesOn(r, "write")
  /\ invoices' = [invoices EXCEPT ![q.inv].paid = paid,
                    ![q.inv].status = IF paid >= q.total THEN "PAID" ELSE "PARTIALLY_PAID"]
  /\ Keep(r, To(r, "close"))
  /\ UNCHANGED <<links, orders, colls, page, left>>

ReversePayment(r) ==
  LET q == work[r]  paid == Max({0, q.paid - colls[q.coll].amount}) IN
  /\ GoesOn(r, "unwrite")
  /\ invoices' = [invoices EXCEPT ![q.inv].paid = paid,
                    ![q.inv].status = CASE paid = 0       -> "SENT"
                                        [] paid >= q.total /\ paid > 0 -> "PAID"
                                        [] OTHER          -> "PARTIALLY_PAID"]
  /\ Done(r)
  /\ UNCHANGED <<links, orders, colls, page, left>>

\* ... and the order, which only the reconciliation closes.
CloseOrder(r) ==
  /\ GoesOn(r, "close")
  /\ orders' = IF r \in Handlers
               THEN [orders EXCEPT ![colls[work[r].coll].order].status = "completed"] ELSE orders
  /\ Done(r)
  /\ UNCHANGED <<links, invoices, colls, page, left>>

\* The customer pays an order that was presented; Selcom may give it back.
CustomerPays(o) ==
  /\ orders[o].status # "failed" /\ orders[o].truth = "unpaid"
  /\ \A r \in Handlers : work[r].order # o
  /\ \E c \in DOMAIN colls : colls[c].order = o /\ colls[c].status # "failed"
  /\ orders' = [orders EXCEPT ![o].truth = "paid"]
  /\ UNCHANGED <<links, invoices, colls, page, work, busy, left>>

GiveBack(o) ==
  /\ Spend("returns") /\ orders[o].truth = "paid"
  /\ orders' = [orders EXCEPT ![o].truth = "returned"]
  /\ UNCHANGED <<links, invoices, colls, page, work, busy>>
-----------------------------------------------------------------------------
\* left: the budget; how: the methods the page offers; owes: an invoice sent
\* before; held: a collection of it that was held for review.
Owed == [status |-> "SENT", total |-> MaxAmount, paid |-> 0, link |-> 0]
HeldFor(i) == [link |-> 0, invoice |-> i, order |-> 0, method |-> "STK_PUSH", amount |-> 1,
               status |-> "pending_review"]

CommerceInit ==
  /\ left \in Starts
  /\ links = IF left.open THEN <<NewLink(1)>> ELSE <<>>
  /\ invoices = IF left.owes THEN <<Owed>> ELSE <<>>
  /\ colls = IF left.held THEN <<HeldFor(1)>> ELSE <<>>
  /\ orders = <<>> /\ page = "none"
  /\ work = [r \in Requests |-> NoWork] /\ busy = Nobody

LinkRequest(r) ==
  \/ \E a \in Amounts : CreatePaymentLink(r, a) \/ CheckoutPayByLink(r, a)
  \/ CreatePayByLink(r) \/ UpdatePayByLink(r)
  \/ \E l \in DOMAIN links, op \in {"view", "cancel", "edit"} : ReadLink(r, op, l)

InvoiceRequest(t) ==
  \/ \E a \in Amounts : CreateInvoice(t, a)
  \/ \E i \in DOMAIN invoices, op \in {"revise", "send", "generate", "void"} : ReadInvoice(t, op, i)
  \/ \E c \in DOMAIN colls : Review(t, c)

PayRequest(r) ==
  \/ \E l \in DOMAIN links :
       WalletPush(r, l) \/ SelcomPesaPush(r, l) \/ DynamicQr(r, l) \/ HostedCheckout(r, l)
  \/ \E i \in {0} \cup DOMAIN invoices, a \in Amounts :
       \/ DirectWalletPush(r, i, a) \/ DirectSelcomPesa(r, i, a)
       \/ DirectQr(r, i, a) \/ DirectHosted(r, i, a)

\* Statements that wait for nothing but the loop.
Statement(r) ==
  \/ Expire(r) \/ CancelLink(r) \/ CancelInvoice(r)
  \/ \E a \in Amounts : UpdateLink(r, a) \/ UpdateInvoice(r, a)
  \/ ReuseLink(r) \/ InsertLink(r) \/ AttachLink(r)
  \/ \E sent \in BOOLEAN : EmailInvoice(r, sent)
  \/ MarkSent(r) \/ Clear(r)
  \/ SettleLink(r) \/ ReopenLink(r) \/ ReadBooked(r)
  \/ ApplyPayment(r) \/ ReversePayment(r) \/ CloseOrder(r)

Answered(r) ==
  \/ \E s \in {"created", "failed"} : OrderAnswer(r, s)
  \/ \E s \in {"processing", "failed"} : PushAnswer(r, s)
  \/ Complete(r)

CommerceNext ==
  \/ \E r \in Requests :
       \/ LinkRequest(r) \/ InvoiceRequest(r) \/ PayRequest(r)
       \/ Statement(r) \/ Answered(r)
       \/ \E c \in DOMAIN colls : Ask(r, c)
  \/ \E l \in DOMAIN links : PassExpiry(l)
  \/ \E o \in DOMAIN orders : CustomerPays(o) \/ GiveBack(o)

\* A request on the loop runs on; one whose await ended gets the loop in turn,
\* and every await ends.  The sweep comes round to every collection that is
\* processing.
CommerceSpec ==
  /\ CommerceInit /\ [][CommerceNext]_commerceVars
  /\ \A r \in Requests : WF_commerceVars(Statement(r))
  /\ \A r \in Handlers : SF_commerceVars(Answered(r))
  /\ \A c \in 1 .. MaxAttempts :
       SF_commerceVars(c \in DOMAIN colls /\ colls[c].status = "processing" /\ \E r \in Handlers : Ask(r, c))
-----------------------------------------------------------------------------
Settling(i) == \E r \in Requests :
  work[r].at \in {"settle", "unsettle", "book", "unbook", "write", "unwrite"}
    /\ BookedTo(work[r].coll) = i

\* The payments of an invoice, and what they come to: one shilling counted after another.
PaymentsOf(i) == {c \in DOMAIN colls : colls[c].status = "successful" /\ BookedTo(c) = i}
Shillings(payments) == UNION {{c} \X (1 .. colls[c].amount) : c \in payments}

\* An invoice counts the payments made of it: whenever none is being booked,
\* amount_paid is the sum of its successful collections ("Resolving the
\* underlying collection is what actually marks the invoice PAID").
InvoiceBooksPayments == \A i \in DOMAIN invoices : ~Settling(i) =>
  invoices[i].paid = Cardinality(Shillings(PaymentsOf(i)))

\* A payment Selcom took is credited to an attempt it was made for, unless it
\* is given back.
Took(o) == o \in DOMAIN orders /\ orders[o].truth = "paid"
Credited(o) ==
  {c \in DOMAIN colls : colls[c].order = o /\ colls[c].status = "successful"}
PaidIsBooked == \A o \in 1 .. MaxAttempts : Took(o) ~> ~Took(o) \/ Credited(o) # {}

\* "Do not allow duplicate credits": one payment of one order is credited to
\* one collection.
OneCreditPerPayment == \A o \in DOMAIN orders : Cardinality(Credited(o)) <= 1

\* "Calling it again while the previously generated link is still ACTIVE just
\* returns that same link": an invoice has one link that can be paid.
OneLinkToPay ==
  Cardinality({l \in DOMAIN links : links[l].status = "ACTIVE"}) <= Cardinality(DOMAIN invoices)

\* "A paid payment link cannot be cancelled."
PaidIsNotCancelled == [][\A l \in DOMAIN links :
  links[l].status = "PAID" => links'[l].status # "CANCELLED"]_commerceVars

\* "A paid invoice cannot be cancelled."
PaidInvoiceIsNotCancelled == [][\A i \in DOMAIN invoices :
  invoices[i].status = "PAID" => invoices'[i].status # "CANCELLED"]_commerceVars
=============================================================================
