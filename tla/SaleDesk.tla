------------------------------ MODULE SaleDesk ------------------------------
(***************************************************************************)
(* The core loop of the API: a register's invoice is captured, a card is   *)
(* scanned against it, a discount voucher is issued and later settled; and *)
(* a sale refused by a read-only licence is held on the manager PC and     *)
(* applied once recording is allowed again.                                *)
(*                                                                         *)
(* Every request runs in one Node process and gives up control at each     *)
(* await, so a request is a process of several steps and anything read in  *)
(* one step may be stale in the next.  What is atomic is one SQL statement *)
(* or one writeTransaction.  A scan, a capture or a voucher request is     *)
(* named by a member of Scans, Sends or Cashiers and is used once: a retry *)
(* is another member.  Pass is the single in-process run of applyHeldSales.*)
(***************************************************************************)
EXTENDS Naturals, Sequences, FiniteSets

CONSTANTS
    Invoices,    \* invoice numbers, ordered by the time they were captured
    Customers, Cards,
    Holder,      \* Holder[c]: the customer a card was issued to
    Ladders,     \* the discount settings that may be published
    Earned,      \* Earned[l][i]: the discount ladder l gives invoice i
    Scans, Sends, Cashiers,
    Requested,   \* the scan requests a till may send
    Pass,        \* the run of applyHeldSales
    None,
    Env,         \* which disturbances a run admits
    MaxFaults    \* bound: failed statements and crashes

ASSUME SaleDeskAssumption ==
    /\ Invoices \subseteq Nat /\ None \notin Nat
    /\ None \notin Customers /\ None \notin Cards
    /\ Holder \in [Cards -> Customers]
    /\ Earned \in [Ladders -> [Invoices -> Nat]]
    /\ Pass \notin Scans
    /\ Requested \subseteq [card : Cards, invoice : Invoices \cup {None}, mode : {"live", "replay"}]
    /\ MaxFaults \in Nat

VARIABLES
    captured, customer, discount, voucher,   \* the ledger (see Ledger)
    heldLog,     \* the audit log's held-sale rows, in createdAt order
    horizon,     \* captures numbered below it are more than 30 minutes old
    live,        \* the cards that scan as ASSIGNED
    ladder,      \* the discount settings in force
    readOnly,    \* the licence's verdict
    send,        \* capture requests
    stage, ask, found, gain,   \* scan requests, and the pass's current scan
    todo,        \* rows of heldLog the running pass has still to try
    till,        \* voucher requests
    faults

ledgerVars == <<captured, customer, discount, voucher>>
worldVars == <<horizon, live, ladder, readOnly>>
scanVars == <<stage, ask, found, gain>>
vars == <<ledgerVars, heldLog, worldVars, send, scanVars, todo, till, faults>>

(***************************************************************************)
(* States.  A request that has been answered stays in its answer.          *)
(***************************************************************************)
Books == INSTANCE Ledger WITH Due <- [i \in Invoices |-> {Earned[l][i] : l \in Ladders}]

InFlight == {"gate", "hold", "holdWrite", "lookup", "find", "price", "claim"}
Refusals == {"HELD", "NOT_HELD"}
Answers == Refusals \cup
    {"CARD_REJECTED", "NO_PENDING_INVOICE", "ORIGINAL", "ATTRIBUTED", "ERROR"}

\* How a scan was sent: by the till, by its offline replay, or by the pass.
\* Only the first may give a discount; the other two carry occurredAt.
Modes == {"live", "replay", "held"}

Asks == [card : Cards \cup {None}, invoice : Invoices \cup {None}, mode : Modes]
Nothing == [card |-> None, invoice |-> None, mode |-> "live"]

HeldEvents == {"HELD", "APPLIED", "CARD_REFUSED", "LINKED_ELSEWHERE"}
HeldRows == [event : HeldEvents, invoice : Invoices, card : Cards]

SendStages == {"new", "insert", "CREATED", "DUPLICATE", "ERROR"}
TillStages == {"new", "redeem", "void", "REDEEMED", "VOIDED", "NOT_REDEEMABLE", "ERROR"}

TypeOK ==
    /\ captured \in SUBSET Invoices
    /\ customer \in [Invoices -> Customers \cup {None}]
    /\ discount \in [Invoices -> Nat]
    /\ voucher \in [Invoices -> [status : Books!VoucherStatus, value : Nat]]
    /\ heldLog \in Seq(HeldRows)
    /\ horizon \in Nat
    /\ live \in SUBSET Cards
    /\ ladder \in Ladders
    /\ readOnly \in BOOLEAN
    /\ send \in [Sends -> [stage : SendStages, invoice : Invoices \cup {None}]]
    /\ stage \in [Scans \cup {Pass} -> {"new"} \cup InFlight \cup Answers]
    /\ ask \in [Scans \cup {Pass} -> Asks]
    /\ found \in [Scans \cup {Pass} -> Invoices \cup {None}]
    /\ gain \in [Scans \cup {Pass} -> Nat]
    /\ todo \in SUBSET Nat
    /\ till \in [Cashiers -> [stage : TillStages, invoice : Invoices \cup {None}]]
    /\ faults \in Nat

Init ==
    /\ Books!Init
    /\ heldLog = <<>>
    /\ horizon = 0
    /\ live = Cards
    /\ ladder \in Ladders
    /\ readOnly \in BOOLEAN
    /\ send = [s \in Sends |-> [stage |-> "new", invoice |-> None]]
    /\ stage = [r \in Scans \cup {Pass} |-> "new"]
    /\ ask = [r \in Scans \cup {Pass} |-> Nothing]
    /\ found = [r \in Scans \cup {Pass} |-> None]
    /\ gain = [r \in Scans \cup {Pass} |-> 0]
    /\ todo = {}
    /\ till = [c \in Cashiers |-> [stage |-> "new", invoice |-> None]]
    /\ faults = 0

(***************************************************************************)
(* Capture: ingestInvoice looks for the invoice, then inserts it, and lets *)
(* the unique constraint decide between two sends of the same one.         *)
(***************************************************************************)
CheckCaptured(s, i) ==
    /\ send[s].stage = "new"
    /\ send' = [send EXCEPT ![s] =
                  [stage |-> IF i \in captured THEN "DUPLICATE" ELSE "insert", invoice |-> i]]
    /\ UNCHANGED <<ledgerVars, heldLog, worldVars, scanVars, todo, till, faults>>

\* A slip the model must not survive: an upsert, which never says duplicate.
UpsertCapture(s) ==
    /\ send[s].stage = "insert"
    /\ send' = [send EXCEPT ![s].stage = "CREATED"]
    /\ captured' = captured \cup {send[s].invoice}
    /\ UNCHANGED <<customer, discount, voucher, heldLog, worldVars, scanVars, todo, till, faults>>

InsertCapture(s) ==
    LET i == send[s].invoice IN
    /\ send[s].stage = "insert"
    /\ send' = [send EXCEPT ![s].stage = IF i \in captured THEN "DUPLICATE" ELSE "CREATED"]
    /\ captured' = captured \cup {i}
    /\ UNCHANGED <<customer, discount, voucher, heldLog, worldVars, scanVars, todo, till, faults>>

(***************************************************************************)
(* Scanning.                                                               *)
(***************************************************************************)
Goto(r, place) == stage' = [stage EXCEPT ![r] = place]

ScanFrame == UNCHANGED <<worldVars, send, todo, till, faults>>

Arrive(r, a) ==
    /\ stage[r] = "new"
    /\ Goto(r, "gate")
    /\ ask' = [ask EXCEPT ![r] = a]
    /\ UNCHANGED <<ledgerVars, heldLog, found, gain>> /\ ScanFrame

\* assertCanRecord: a replay may pass a read-only licence by when it happened.
GatePasses(r) ==
    /\ stage[r] = "gate"
    /\ readOnly => ask[r].mode # "live"
    /\ Goto(r, "lookup")
    /\ UNCHANGED <<ledgerVars, heldLog, ask, found, gain>> /\ ScanFrame

\* A refused sale that names its invoice goes on to holdForActivation.
GateRefuses(r) ==
    /\ stage[r] = "gate"
    /\ readOnly
    /\ Goto(r, IF ask[r].invoice = None THEN "NOT_HELD" ELSE "hold")
    /\ UNCHANGED <<ledgerVars, heldLog, ask, found, gain>> /\ ScanFrame

\* The rows of heldLog that still wait: held, and nothing recorded since for
\* the same invoice.
IsHeld(i) == \E n \in DOMAIN heldLog : heldLog[n].event = "HELD" /\ heldLog[n].invoice = i
IsSettled(i) == \E n \in DOMAIN heldLog : heldLog[n].event # "HELD" /\ heldLog[n].invoice = i
Waiting == {n \in DOMAIN heldLog : heldLog[n].event = "HELD" /\ ~IsSettled(heldLog[n].invoice)}

\* The card is looked up, then the log is searched for ANY hold of the invoice:
\* one by another card, or one already closed, also answers HELD.
LookForHold(r) ==
    /\ stage[r] = "hold"
    /\ Goto(r, IF ask[r].card \notin live THEN "NOT_HELD"
               ELSE IF IsHeld(ask[r].invoice) THEN "HELD" ELSE "holdWrite")
    /\ UNCHANGED <<ledgerVars, heldLog, ask, found, gain>> /\ ScanFrame

WriteHold(r) ==
    /\ stage[r] = "holdWrite"
    /\ Goto(r, "HELD")
    /\ heldLog' = Append(heldLog,
                    [event |-> "HELD", invoice |-> ask[r].invoice, card |-> ask[r].card])
    /\ UNCHANGED <<ledgerVars, ask, found, gain>> /\ ScanFrame

LookupCard(r) ==
    /\ stage[r] = "lookup"
    /\ Goto(r, IF ask[r].card \in live THEN "find" ELSE "CARD_REJECTED")
    /\ UNCHANGED <<ledgerVars, heldLog, ask, found, gain>> /\ ScanFrame

(***************************************************************************)
(* findPendingInvoice: the invoice the request names, or else the newest   *)
(* unclaimed capture of the last half hour.                                *)
(***************************************************************************)
Unclaimed == {i \in captured : customer[i] = None}

Pending(r) ==
    IF ask[r].invoice # None
    THEN Unclaimed \cap {ask[r].invoice}
    ELSE {i \in Unclaimed : i >= horizon /\ \A j \in Unclaimed : j <= i}

FindPending(r) ==
    /\ stage[r] = "find"
    /\ \E i \in Pending(r) : found' = [found EXCEPT ![r] = i]
    /\ Goto(r, "price")
    /\ UNCHANGED <<ledgerVars, heldLog, ask, gain>> /\ ScanFrame

\* A slip: the retry is recognised by its invoice and not by its customer.
OriginalForAnyone(r) ==
    LET i == ask[r].invoice IN
    /\ stage[r] = "find"
    /\ Pending(r) = {}
    /\ Goto(r, IF i # None /\ customer[i] # None THEN "ORIGINAL" ELSE "NO_PENDING_INVOICE")
    /\ UNCHANGED <<ledgerVars, heldLog, ask, found, gain>> /\ ScanFrame

\* Nothing to claim: a retry is told the original outcome of its own sale.
NothingPending(r) ==
    LET i == ask[r].invoice IN
    /\ stage[r] = "find"
    /\ Pending(r) = {}
    /\ Goto(r, IF i # None /\ customer[i] = Holder[ask[r].card]
               THEN "ORIGINAL" ELSE "NO_PENDING_INVOICE")
    /\ UNCHANGED <<ledgerVars, heldLog, ask, found, gain>> /\ ScanFrame

\* A slip: a replayed scan is priced like a live one.
PriceEveryMode(r) ==
    /\ stage[r] = "price"
    /\ gain' = [gain EXCEPT ![r] = Earned[ladder][found[r]]]
    /\ Goto(r, "claim")
    /\ UNCHANGED <<ledgerVars, heldLog, ask, found>> /\ ScanFrame

\* The settings and rules are read, and the discount worked out, before the
\* transaction opens.
Price(r) ==
    /\ stage[r] = "price"
    /\ gain' = [gain EXCEPT ![r] = IF ask[r].mode = "live" THEN Earned[ladder][found[r]] ELSE 0]
    /\ Goto(r, "claim")
    /\ UNCHANGED <<ledgerVars, heldLog, ask, found>> /\ ScanFrame

\* Slips: the row is claimed by its id alone; the slip is not written with the discount.
ClaimByIdAlone(r) ==
    LET i == found[r] IN
    /\ stage[r] = "claim"
    /\ customer' = [customer EXCEPT ![i] = Holder[ask[r].card]]
    /\ discount' = [discount EXCEPT ![i] = gain[r]]
    /\ voucher' = [voucher EXCEPT ![i] = Books!Issued(gain[r])]
    /\ Goto(r, "ATTRIBUTED")
    /\ UNCHANGED <<captured, heldLog, ask, found, gain>> /\ ScanFrame

ClaimWithoutSlip(r) ==
    LET i == found[r] IN
    /\ stage[r] = "claim"
    /\ customer[i] = None
    /\ customer' = [customer EXCEPT ![i] = Holder[ask[r].card]]
    /\ discount' = [discount EXCEPT ![i] = gain[r]]
    /\ Goto(r, "ATTRIBUTED")
    /\ UNCHANGED <<captured, voucher, heldLog, ask, found, gain>> /\ ScanFrame

\* One transaction: claim the row if nobody has, write the discount and its slip.
Claim(r) ==
    LET i == found[r] IN
    /\ stage[r] = "claim"
    /\ customer[i] = None
    /\ customer' = [customer EXCEPT ![i] = Holder[ask[r].card]]
    /\ discount' = [discount EXCEPT ![i] = gain[r]]
    /\ voucher' = [voucher EXCEPT ![i] = Books!Issued(gain[r])]
    /\ Goto(r, "ATTRIBUTED")
    /\ UNCHANGED <<captured, heldLog, ask, found, gain>> /\ ScanFrame

LoseClaim(r) ==
    /\ stage[r] = "claim"
    /\ customer[found[r]] # None
    /\ Goto(r, "NO_PENDING_INVOICE")
    /\ UNCHANGED <<ledgerVars, heldLog, ask, found, gain>> /\ ScanFrame

ScanStep(r) ==
    \/ GatePasses(r) \/ GateRefuses(r)
    \/ LookForHold(r) \/ WriteHold(r)
    \/ LookupCard(r)
    \/ FindPending(r) \/ NothingPending(r)
    \/ Price(r)
    \/ Claim(r) \/ LoseClaim(r)

(***************************************************************************)
(* applyHeldSales: one pass over the waiting rows, oldest first, each      *)
(* through the same steps as a till's scan, then a row saying how it went. *)
(***************************************************************************)
PassFrame == UNCHANGED <<ledgerVars, worldVars, send, till>>

\* Take up the oldest of the rows left, or end the pass.
TakeUp(rows) ==
    /\ found' = [found EXCEPT ![Pass] = None]
    /\ gain' = [gain EXCEPT ![Pass] = 0]
    /\ \/ /\ rows = {}
          /\ Goto(Pass, "new")
          /\ ask' = [ask EXCEPT ![Pass] = Nothing]
          /\ todo' = {}
       \/ \E n \in rows :
             /\ \A m \in rows : n <= m
             /\ Goto(Pass, "gate")
             /\ ask' = [ask EXCEPT ![Pass] = [card    |-> heldLog[n].card,
                                              invoice |-> heldLog[n].invoice,
                                              mode    |-> "held"]]
             /\ todo' = rows \ {n}

StartPass ==
    /\ stage[Pass] = "new"
    /\ ~readOnly
    /\ Waiting # {}
    /\ TakeUp(Waiting)
    /\ UNCHANGED <<heldLog, faults>> /\ PassFrame

\* A slip: a sale credited before the crash is not recognised on the next pass.
VerdictForNewOnly ==
    CASE stage[Pass] = "ATTRIBUTED" -> {"APPLIED"}
      [] stage[Pass] = "CARD_REJECTED" -> {"CARD_REFUSED"}
      [] stage[Pass] = "NO_PENDING_INVOICE" /\ customer[ask[Pass].invoice] # None
             -> {"LINKED_ELSEWHERE"}
      [] OTHER -> {}

\* How the scan of a held row settles it; a capture that has not arrived, and
\* any failure, leaves it waiting.
Verdict ==
    CASE stage[Pass] \in {"ATTRIBUTED", "ORIGINAL"} -> {"APPLIED"}
      [] stage[Pass] = "CARD_REJECTED" -> {"CARD_REFUSED"}
      [] stage[Pass] = "NO_PENDING_INVOICE" /\ customer[ask[Pass].invoice] # None
             -> {"LINKED_ELSEWHERE"}
      [] OTHER -> {}

SettleHold ==
    /\ stage[Pass] \in Answers
    /\ \E event \in Verdict :
           heldLog' = Append(heldLog, [event   |-> event,
                                       invoice |-> ask[Pass].invoice,
                                       card    |-> ask[Pass].card])
    /\ TakeUp(todo)
    /\ UNCHANGED faults /\ PassFrame

\* Read-only again ends the pass; anything else goes on to the next row.
LeaveWaiting ==
    /\ stage[Pass] \in Answers
    /\ Verdict = {}
    /\ TakeUp(IF stage[Pass] \in Refusals THEN {} ELSE todo)
    /\ UNCHANGED <<heldLog, faults>> /\ PassFrame

(***************************************************************************)
(* Vouchers: redeemVoucher asks the licence first (a queued one may pass  *)
(* by when it happened), voidVoucher does not; both change the row only    *)
(* while it is ISSUED.                                                     *)
(***************************************************************************)
TillFrame == UNCHANGED <<captured, customer, discount, heldLog, worldVars, send, scanVars, todo, faults>>

AskTill(c, i, deed, queued) ==
    /\ till[c].stage = "new"
    /\ voucher[i].status # "NONE"
    /\ deed = "redeem" /\ ~queued => ~readOnly
    /\ till' = [till EXCEPT ![c] = [stage |-> deed, invoice |-> i]]
    /\ UNCHANGED voucher /\ TillFrame

\* A slip: the row is read first and then written by its id alone.
CloseUnguarded(c, deed, status, answer) ==
    /\ till[c].stage = deed
    /\ voucher' = [voucher EXCEPT ![till[c].invoice].status = status]
    /\ till' = [till EXCEPT ![c].stage = answer]
    /\ TillFrame

CloseVoucher(c, deed, status, answer) ==
    LET i == till[c].invoice IN
    /\ till[c].stage = deed
    /\ IF voucher[i].status = "ISSUED"
       THEN /\ voucher' = [voucher EXCEPT ![i].status = status]
            /\ till' = [till EXCEPT ![c].stage = answer]
       ELSE /\ till' = [till EXCEPT ![c].stage = "NOT_REDEEMABLE"]
            /\ UNCHANGED voucher
    /\ TillFrame

RedeemVoucher(c) == CloseVoucher(c, "redeem", "REDEEMED", "REDEEMED")
VoidVoucher(c) == CloseVoucher(c, "void", "VOID", "VOIDED")

(***************************************************************************)
(* The world: the licence lapses and is renewed, cards are lost and        *)
(* restored, settings are published, captures age, statements fail, and    *)
(* the process dies and starts again with nothing in memory.               *)
(***************************************************************************)
Outside == UNCHANGED <<ledgerVars, heldLog, send, scanVars, todo, till, faults>>

LicenceChanges ==
    /\ "licence" \in Env
    /\ readOnly' = ~readOnly
    /\ UNCHANGED <<horizon, live, ladder>> /\ Outside

CardChanges(c) ==
    /\ "cards" \in Env
    /\ live' = IF c \in live THEN live \ {c} ELSE live \cup {c}
    /\ UNCHANGED <<horizon, ladder, readOnly>> /\ Outside

PublishLadder(l) ==
    /\ "rules" \in Env
    /\ l # ladder
    /\ ladder' = l
    /\ UNCHANGED <<horizon, live, readOnly>> /\ Outside

TimePasses ==
    /\ "clock" \in Env
    /\ \E i \in Invoices : i >= horizon
    /\ horizon' = horizon + 1
    /\ UNCHANGED <<live, ladder, readOnly>> /\ Outside

Fault == faults < MaxFaults /\ faults' = faults + 1

\* A slip: the catch in holdForActivation says held.
FailureSaysHeld(r) ==
    /\ Fault
    /\ stage[r] \in InFlight
    /\ Goto(r, IF stage[r] \in {"hold", "holdWrite"} THEN "HELD" ELSE "ERROR")
    /\ UNCHANGED <<ledgerVars, heldLog, worldVars, send, ask, found, gain, todo, till>>

\* A statement throws.  holdForActivation catches its own.
ScanFails(r) ==
    /\ Fault
    /\ stage[r] \in InFlight
    /\ Goto(r, IF stage[r] \in {"hold", "holdWrite"} THEN "NOT_HELD" ELSE "ERROR")
    /\ UNCHANGED <<ledgerVars, heldLog, worldVars, send, ask, found, gain, todo, till>>

\* The settling row cannot be written: the hold waits for a later pass.
SettleFails ==
    /\ Fault
    /\ stage[Pass] \in Answers
    /\ Verdict # {}
    /\ TakeUp(todo)
    /\ UNCHANGED heldLog /\ PassFrame

Crash ==
    /\ Fault
    /\ stage' = [r \in Scans \cup {Pass} |->
                    IF r = Pass THEN "new"
                    ELSE IF stage[r] \in InFlight THEN "ERROR" ELSE stage[r]]
    /\ ask' = [ask EXCEPT ![Pass] = Nothing]
    /\ found' = [found EXCEPT ![Pass] = None]
    /\ gain' = [gain EXCEPT ![Pass] = 0]
    /\ todo' = {}
    /\ send' = [s \in Sends |-> IF send[s].stage = "insert"
                                THEN [send[s] EXCEPT !.stage = "ERROR"] ELSE send[s]]
    /\ till' = [c \in Cashiers |-> IF till[c].stage \in {"redeem", "void"}
                                   THEN [till[c] EXCEPT !.stage = "ERROR"] ELSE till[c]]
    /\ UNCHANGED <<ledgerVars, heldLog, worldVars>>

Next ==
    \/ \E s \in Sends : (\E i \in Invoices : CheckCaptured(s, i)) \/ InsertCapture(s)
    \/ \E r \in Scans, a \in Requested : Arrive(r, a)
    \/ \E r \in Scans \cup {Pass} : ScanStep(r) \/ ScanFails(r)
    \/ StartPass \/ SettleHold \/ LeaveWaiting \/ SettleFails
    \/ \E c \in Cashiers :
          \/ \E i \in Invoices, deed \in {"redeem", "void"}, queued \in BOOLEAN :
                 AskTill(c, i, deed, queued)
          \/ RedeemVoucher(c) \/ VoidVoucher(c)
    \/ LicenceChanges \/ TimePasses \/ Crash
    \/ \E c \in Cards : CardChanges(c)
    \/ \E l \in Ladders : PublishLadder(l)

Spec == Init /\ [][Next]_vars

\* Every await resolves, and applyHeldSales runs on activation, at start-up and
\* every ten minutes.  No till, register, card or licence is under an obligation.
FairSpec ==
    /\ Spec
    /\ \A r \in Scans \cup {Pass} : WF_vars(ScanStep(r))
    /\ WF_vars(StartPass)
    /\ WF_vars(SettleHold \/ LeaveWaiting)

(***************************************************************************)
(* Safety.                                                                 *)
(***************************************************************************)
Requests == Scans \cup {Pass}
Attributed(r) == stage[r] = "ATTRIBUTED"

\* A discount and the slip that accounts for it are in the books together, for
\* the same amount, on a captured sale somebody is credited with: there is no
\* state where a customer paid less than the register recorded with nothing to
\* explain it (scanCard's single transaction).
BooksBalance ==
    \A i \in Invoices :
        /\ voucher[i].status # "NONE" <=> discount[i] > 0
        /\ voucher[i].value = discount[i]
        /\ discount[i] > 0 => customer[i] # None
        /\ customer[i] # None => i \in captured

\* Two stations never both win one sale, however their reads interleave.
OneWinner ==
    \A r, q \in Requests : Attributed(r) /\ Attributed(q) /\ r # q => found[r] # found[q]

\* What a scan is told is what the books say: its invoice is credited to the
\* holder of its card for the discount it was shown, a retry told ORIGINAL is
\* credited already, and a replay or a held sale is credited at full price.
AnswersMatchLedger ==
    \A r \in Requests :
        /\ Attributed(r) => /\ customer[found[r]] = Holder[ask[r].card]
                            /\ discount[found[r]] = gain[r]
                            /\ ask[r].mode # "live" => voucher[found[r]].status = "NONE"
                            /\ ask[r].invoice \in {None, found[r]}
        /\ stage[r] = "ORIGINAL" => customer[ask[r].invoice] = Holder[ask[r].card]

\* A captured invoice was created by exactly one send; every other send of it
\* that was answered is told it is a duplicate.
CreatedOnce ==
    LET creators(i) == {s \in Sends : send[s].stage = "CREATED" /\ send[s].invoice = i}
    IN \A i \in Invoices : Cardinality(creators(i)) = IF i \in captured THEN 1 ELSE 0

\* A slip leaves ISSUED exactly once, by the one request that was told so: two
\* cashiers cannot both settle it, and a void cannot follow a redemption.
SlipSettledOnce ==
    LET by(i, answer) == {c \in Cashiers : till[c].stage = answer /\ till[c].invoice = i}
    IN \A i \in Invoices :
           /\ Cardinality(by(i, "REDEEMED")) = IF voucher[i].status = "REDEEMED" THEN 1 ELSE 0
           /\ Cardinality(by(i, "VOIDED")) = IF voucher[i].status = "VOID" THEN 1 ELSE 0

\* The hold of this request's own card against its own invoice is in the log.
LinkOnFile(r) ==
    \E n \in DOMAIN heldLog :
        heldLog[n] = [event |-> "HELD", invoice |-> ask[r].invoice, card |-> ask[r].card]

\* A till told HELD forgets the sale, so the link it scanned, card and invoice, is
\* on file.  The one way it may not be is that another card's scan of the same
\* invoice was told HELD and that link is on file: holdForActivation answers HELD
\* for any hold of the invoice and then writes nothing.
HeldIsOnFile ==
    \A r \in Scans : stage[r] = "HELD" =>
        \/ LinkOnFile(r)
        \/ \E q \in Scans : /\ stage[q] = "HELD" /\ ask[q].invoice = ask[r].invoice
                           /\ ask[q].card # ask[r].card /\ LinkOnFile(q)

\* A hold is recorded as applied only when its card's holder is credited, and
\* as linked elsewhere only when somebody is.
SettlementIsTrue ==
    \A n \in DOMAIN heldLog :
        LET row == heldLog[n] IN
        /\ row.event = "APPLIED" => customer[row.invoice] = Holder[row.card]
        /\ row.event = "LINKED_ELSEWHERE" => customer[row.invoice] # None

\* No hold is settled twice, across passes, crashes and duplicate rows.
SettledOnce ==
    LET rows(i, held) == {n \in DOMAIN heldLog :
                             heldLog[n].invoice = i /\ (heldLog[n].event = "HELD" <=> held)}
    IN \A i \in Invoices : Cardinality(rows(i, FALSE)) <= Cardinality(rows(i, TRUE))

\* What may be settled once is settled once, however often it is asked.
NothingTwice == SlipSettledOnce /\ SettledOnce

\* The desk keeps the promise the Ledger states.
LedgerKept == Books!Spec

(***************************************************************************)
(* Liveness.                                                               *)
(***************************************************************************)
\* If the licence at last stays active, a held sale whose capture has arrived
\* is eventually settled, whatever failed on the way (applyHeldSales).
HeldSalesAreSettled ==
    <>[](~readOnly) => \A i \in Invoices : (IsHeld(i) /\ i \in captured) ~> IsSettled(i)
=============================================================================
