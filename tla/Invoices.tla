------------------------------ MODULE Invoices ------------------------------
(***************************************************************************)
(* Invoice numbers: InvoiceService.generate_invoice and                    *)
(* generate_invoice_from_stripe over InvoiceRepository.                    *)
(*                                                                         *)
(* The next number is one more than the rows of the month, counted under   *)
(* an advisory lock of the transaction whose id is salted per process: two *)
(* processes count at the same time.  The unique index                     *)
(* ix_invoices_tenant_number makes the second of two equal numbers wait,   *)
(* and fail if the first commits.  The PDF is written before the row.      *)
(***************************************************************************)
EXTENDS Integers, FiniteSets

CONSTANTS
    Requests, Processes, Months,   \* months are numbered
    StripeIds, NoStripe,
    MaxInvoices                    \* bound

\* What the constants must be.
InvoicesAssumption ==
    /\ 0 \in Months /\ Months \subseteq Nat /\ MaxInvoices \in Nat
    /\ NoStripe \notin StripeIds /\ IsFiniteSet(Requests)

VARIABLES
    month,      \* of the clock
    invoices,   \* committed rows: [month, number, stripe, request number]
    pdfs,       \* how many PDF files were written
    making      \* [Requests -> locals of a request]

invoicesVars == <<month, invoices, pdfs, making>>

Idle == [pc |-> "idle"]

Init ==
    /\ month = 0
    /\ invoices = {} /\ pdfs = 0
    /\ making = [r \in Requests |-> Idle]

Step(r, locals) == making' = [making EXCEPT ![r] = locals]

\* generate_invoice_from_stripe looks for the Stripe invoice first, generate_invoice
\* looks for nothing.
Begin(r, p, s) ==
    /\ making[r] = Idle /\ pdfs < MaxInvoices
    /\ s # NoStripe => \A i \in invoices : i.stripe # s
    /\ Step(r, [pc |-> "begun", process |-> p, stripe |-> s])
    /\ UNCHANGED <<month, invoices, pdfs>>

\* The advisory lock, for the requests of the same process.
Holds(r) == making[r].pc \in {"numbered", "inserted"}

LockFree(r) ==
    \A q \in Requests \ {r} : Holds(q) => making[q].process # making[r].process

\* Mutant: the number of the last invoice of any month, not the count of this one.
AnyMonth == Cardinality(invoices) + 1

\* get_next_invoice_number
NextNumber == Cardinality({i \in invoices : i.month = month}) + 1

Number(r) ==
    /\ making[r].pc = "begun" /\ LockFree(r)
    /\ Step(r, [pc |-> "numbered", process |-> making[r].process, stripe |-> making[r].stripe,
                month |-> month, number |-> NextNumber])
    /\ UNCHANGED <<month, invoices, pdfs>>

Same(i, j) == i.month = j.month /\ i.number = j.number

\* _store_pdf, and the INSERT once no other transaction holds the number.  If it is
\* committed by then the request fails, and leaves its PDF.
Insert(r) ==
    /\ making[r].pc = "numbered"
    /\ \A q \in Requests \ {r} : making[q].pc = "inserted" => ~Same(making[q], making[r])
    /\ pdfs < MaxInvoices /\ pdfs' = pdfs + 1
    /\ IF \E i \in invoices : Same(i, making[r]) THEN Step(r, Idle)
       ELSE Step(r, [making[r] EXCEPT !.pc = "inserted"])
    /\ UNCHANGED <<month, invoices>>

Commit(r) ==
    /\ making[r].pc = "inserted"
    /\ invoices' = invoices \cup {[month |-> making[r].month, number |-> making[r].number,
                                   stripe |-> making[r].stripe]}
    /\ Step(r, Idle)
    /\ UNCHANGED <<month, pdfs>>

Abort(r) ==
    /\ making[r] # Idle
    /\ Step(r, Idle)
    /\ UNCHANGED <<month, invoices, pdfs>>

NextMonth ==
    /\ month + 1 \in Months
    /\ month' = month + 1
    /\ UNCHANGED <<invoices, pdfs, making>>

Next ==
    \/ \E r \in Requests : \/ \E p \in Processes, s \in StripeIds \cup {NoStripe} : Begin(r, p, s)
                           \/ Number(r) \/ Insert(r) \/ Commit(r) \/ Abort(r)
    \/ NextMonth

Spec == Init /\ [][Next]_invoicesVars

-----------------------------------------------------------------------------
(* Properties.                                                             *)

TypeOK ==
    /\ month \in Months /\ pdfs \in 0 .. MaxInvoices
    /\ invoices \subseteq [month : Months, number : 1 .. MaxInvoices,
                           stripe : StripeIds \cup {NoStripe}]

\* The invoices of a month are numbered 1, 2, 3 ... without a gap and without a
\* repetition, whichever processes count at once, fail, or cross the end of a month;
\* and each has its PDF.
NumbersAreDense ==
    /\ \A m \in Months :
          LET ofMonth == {i \in invoices : i.month = m}
          IN  {i.number : i \in ofMonth} = 1 .. Cardinality(ofMonth)
    /\ Cardinality(invoices) <= pdfs

\* "Returns None if the invoice already exists" (api/api/services/invoice_service.py):
\* a Stripe invoice has one invoice here.
OneInvoicePerStripe ==
    \A i, j \in invoices : i.stripe = j.stripe /\ i.stripe # NoStripe => i = j
=============================================================================
