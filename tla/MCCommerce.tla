----------------------------- MODULE MCCommerce -----------------------------
(* One or two requests on the loop, one or two threads, amounts 1 and 2.     *)
EXTENDS Commerce
CONSTANTS h1, h2, t1, t2
TwoHandlers == {h1, h2}
OneThread == {t1}
TwoThreads == {t1, t2}
Nothing == [open |-> FALSE, owes |-> FALSE, held |-> FALSE, how |-> {}, links |-> 0, pages |-> 0,
            changes |-> 0, expiries |-> 0, invoices |-> 0, papers |-> 0, pays |-> 0,
            directs |-> 0, reviews |-> 0, returns |-> 0]
\* A link paid twice over or given back; an invoice paid by its link and by
\* hand; papers; the page; a held collection.
AllStarts == {
  [Nothing EXCEPT !.open = TRUE, !.how = {"STK_PUSH", "DYNAMIC_QR"}, !.pays = 2, !.returns = 1],
  [Nothing EXCEPT !.open = TRUE, !.how = {"SELCOM_PESA_PUSH", "HOSTED_CHECKOUT"}, !.pays = 2,
                  !.expiries = 1, !.changes = 0],
  [Nothing EXCEPT !.owes = TRUE, !.how = {"STK_PUSH"}, !.papers = 2, !.pays = 1,
                  !.directs = 1, !.returns = 1],
  [Nothing EXCEPT !.how = {"STK_PUSH"}, !.invoices = 1, !.papers = 3, !.pays = 1],
  [Nothing EXCEPT !.owes = TRUE, !.how = Methods, !.directs = 2],
  [Nothing EXCEPT !.how = {"DYNAMIC_QR"}, !.links = 2, !.pages = 2, !.pays = 1],
  [Nothing EXCEPT !.open = TRUE, !.how = {"DYNAMIC_QR"}, !.changes = 2, !.expiries = 1],
  [Nothing EXCEPT !.owes = TRUE, !.held = TRUE, !.reviews = 1, !.papers = 1]}
\* Situations in which the routers' promises fail, one at a time.
MethodStarts == {[Nothing EXCEPT !.open = TRUE, !.how = {"STK_PUSH", "DYNAMIC_QR"}, !.pays = 2]}
RepriceStarts == {[Nothing EXCEPT !.open = TRUE, !.how = {"STK_PUSH"}, !.pays = 2,
                                  !.changes = 1]}
ChangeStarts == {[Nothing EXCEPT !.open = TRUE, !.how = {"DYNAMIC_QR"}, !.pays = 1, !.changes = 1]}
VoidStarts == {[Nothing EXCEPT !.owes = TRUE, !.how = {"DYNAMIC_QR"}, !.directs = 1, !.papers = 1]}
PaperStarts == {[Nothing EXCEPT !.owes = TRUE, !.papers = 2]}
ReviewStarts == {[Nothing EXCEPT !.owes = TRUE, !.held = TRUE, !.how = {"DYNAMIC_QR"},
                                 !.directs = 1, !.reviews = 1]}
=============================================================================
