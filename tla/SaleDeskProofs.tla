--------------------------- MODULE SaleDeskProofs ---------------------------
(***************************************************************************)
(* Proofs about SaleDesk, for any number of invoices, cards, stations,     *)
(* registers and cashiers, any ladders, any disturbances.                  *)
(*                                                                         *)
(* Shape says what a request's stage implies about the values it carries;  *)
(* it is the strengthening that makes TypeOK inductive.                    *)
(***************************************************************************)
EXTENDS SaleDesk, FiniteSetTheorems, TLAPS

RequestShape ==
    /\ \A r \in Requests :
          /\ stage[r] # "new" => ask[r].card \in Cards
          /\ stage[r] \in {"hold", "holdWrite"} => ask[r].invoice \in Invoices
          /\ stage[r] \in {"price", "claim", "ATTRIBUTED"} => found[r] \in Invoices
    /\ stage[Pass] # "new" => ask[Pass].invoice \in Invoices

Shape ==
    /\ RequestShape
    /\ \A s \in Sends : send[s].stage = "insert" => send[s].invoice \in Invoices
    /\ \A c \in Cashiers : till[c].stage # "new" => till[c].invoice \in Invoices
    /\ todo \subseteq DOMAIN heldLog

Typed == TypeOK /\ Shape

\* The types of what a scan request carries, apart from the rest.
ScanTypes ==
    /\ stage \in [Requests -> {"new"} \cup InFlight \cup Answers]
    /\ ask \in [Requests -> Asks]
    /\ found \in [Requests -> Invoices \cup {None}]
    /\ gain \in [Requests -> Nat]

\* The program starts in a well-typed, well-shaped state.
LEMMA InitTyped == Init => Typed
  BY SaleDeskAssumption
  DEF Init, Typed, TypeOK, Shape, RequestShape, Requests, Nothing, Asks, Modes, SendStages,
      TillStages, Books!Init, Books!NoVoucher, Books!VoucherStatus

\* Taking up the next row leaves the pass well shaped.
LEMMA TakeUpShape ==
    ASSUME Typed, NEW rows \in SUBSET (DOMAIN heldLog), TakeUp(rows)
    PROVE  /\ ScanTypes' /\ RequestShape'
           /\ todo' \in SUBSET Nat /\ todo' \subseteq DOMAIN heldLog
  <1> DOMAIN heldLog \subseteq Nat /\ \A n \in DOMAIN heldLog : heldLog[n] \in HeldRows
      BY DEF Typed, TypeOK
  <1>1. CASE rows = {} /\ Goto(Pass, "new") /\ ask' = [ask EXCEPT ![Pass] = Nothing] /\ todo' = {}
      BY <1>1, SaleDeskAssumption
      DEF TakeUp, Goto, Typed, TypeOK, Shape, RequestShape, ScanTypes, Requests, Nothing, Asks, Modes
  <1>2. ASSUME NEW n \in rows, Goto(Pass, "gate"),
               ask' = [ask EXCEPT ![Pass] = [card    |-> heldLog[n].card,
                                             invoice |-> heldLog[n].invoice,
                                             mode    |-> "held"]],
               todo' = rows \ {n}
        PROVE  /\ ScanTypes' /\ RequestShape'
               /\ todo' \in SUBSET Nat /\ todo' \subseteq DOMAIN heldLog
      BY <1>2, SaleDeskAssumption
      DEF TakeUp, Goto, Typed, TypeOK, Shape, RequestShape, ScanTypes, Requests, Asks, Modes,
          HeldRows, InFlight
  <1> QED BY <1>1, <1>2 DEF TakeUp

\* Every step of every request, till, pass and disturbance keeps the types and
\* keeps each request carrying what its stage says it has read.
LEMMA TypedStep == Typed /\ [Next]_vars => Typed'
<1> SUFFICES ASSUME Typed, [Next]_vars PROVE Typed'
    OBVIOUS
<1> USE SaleDeskAssumption
<1>1. ASSUME NEW s \in Sends, NEW i \in Invoices, CheckCaptured(s, i) PROVE Typed'
    BY <1>1 DEF CheckCaptured, ledgerVars, worldVars, scanVars,
       Typed, TypeOK, Shape, RequestShape, SendStages
<1>2. ASSUME NEW s \in Sends, InsertCapture(s) PROVE Typed'
  <2>1. send[s] \in [stage : SendStages, invoice : Invoices \cup {None}] /\ send[s].invoice \in Invoices
      BY <1>2 DEF InsertCapture, Typed, TypeOK, Shape
  <2>2. send' \in [Sends -> [stage : SendStages, invoice : Invoices \cup {None}]]
      BY <1>2, <2>1 DEF InsertCapture, Typed, TypeOK, SendStages
  <2>3. \A t \in Sends : send'[t].stage = "insert" => send'[t].invoice \in Invoices
      BY <1>2, <2>1 DEF InsertCapture, Typed, TypeOK, Shape
  <2> QED BY <1>2, <2>1, <2>2, <2>3
          DEF InsertCapture, worldVars, scanVars, Typed, TypeOK, Shape, RequestShape
<1>3. ASSUME NEW r \in Scans, NEW a \in Requested, Arrive(r, a) PROVE Typed'
    BY <1>3 DEF Arrive, Goto, ScanFrame, ledgerVars, worldVars,
       Typed, TypeOK, Shape, RequestShape, Requests, Asks, Modes, InFlight
<1>4. ASSUME NEW r \in Requests, ScanStep(r) PROVE Typed'
  <2> USE DEF Goto, ScanFrame, ledgerVars, worldVars, Typed, TypeOK, Shape, RequestShape,
          Requests, InFlight, Answers, Refusals, Asks
  <2>1. CASE GatePasses(r) BY <2>1 DEF GatePasses
  <2>2. CASE GateRefuses(r) BY <2>2 DEF GateRefuses
  <2>3. CASE LookForHold(r) BY <2>3 DEF LookForHold
  <2>4. CASE WriteHold(r) BY <2>4 DEF WriteHold, HeldRows, HeldEvents
  <2>5. CASE LookupCard(r) BY <2>5 DEF LookupCard
  <2>6. CASE FindPending(r) BY <2>6, SMTT(30) DEF FindPending, Pending, Unclaimed
  <2>7. CASE NothingPending(r) BY <2>7 DEF NothingPending
  <2>8. CASE Price(r)
    <3>1. Earned[ladder] \in [Invoices -> Nat] /\ found[r] \in Invoices
        BY <2>8 DEF Price
    <3> QED BY <2>8, <3>1 DEF Price
  <2>9. CASE Claim(r) BY <2>9 DEF Claim, Books!Issued, Books!NoVoucher, Books!VoucherStatus
  <2>10. CASE LoseClaim(r) BY <2>10 DEF LoseClaim
  <2> QED BY <1>4, <2>1, <2>2, <2>3, <2>4, <2>5, <2>6, <2>7, <2>8, <2>9, <2>10 DEF ScanStep
<1>5. ASSUME NEW r \in Requests, ScanFails(r) PROVE Typed'
    BY <1>5 DEF ScanFails, Fault, Goto, ledgerVars, worldVars,
       Typed, TypeOK, Shape, RequestShape, Requests, InFlight, Answers, Refusals
<1>6. StartPass => Typed'
  <2> SUFFICES ASSUME StartPass PROVE Typed'
      OBVIOUS
  <2>1. /\ ScanTypes' /\ RequestShape'
        /\ todo' \in SUBSET Nat /\ todo' \subseteq DOMAIN heldLog
      BY TakeUpShape DEF StartPass, Waiting, Typed, Shape
  <2> QED BY <2>1 DEF StartPass, Fault, PassFrame, ledgerVars, worldVars,
             Typed, TypeOK, Shape, ScanTypes, Requests
<1>7. SettleHold => Typed'
  <2> SUFFICES ASSUME SettleHold PROVE Typed'
      OBVIOUS
  <2>1. /\ ScanTypes' /\ RequestShape'
        /\ todo' \in SUBSET Nat /\ todo' \subseteq DOMAIN heldLog
      BY TakeUpShape DEF SettleHold, Waiting, Typed, Shape
  <2>2. Verdict \subseteq HeldEvents
      BY DEF Verdict, HeldEvents
  <2>3. heldLog' \in Seq(HeldRows) /\ DOMAIN heldLog \subseteq DOMAIN heldLog'
      BY <2>2 DEF SettleHold, HeldRows, Typed, TypeOK, Shape, RequestShape, Requests, Answers, Refusals
  <2> QED BY <2>1, <2>3 DEF SettleHold, PassFrame, ledgerVars, worldVars,
             Typed, TypeOK, Shape, ScanTypes, Requests
<1>8. LeaveWaiting => Typed'
  <2> SUFFICES ASSUME LeaveWaiting PROVE Typed'
      OBVIOUS
  <2>1. /\ ScanTypes' /\ RequestShape'
        /\ todo' \in SUBSET Nat /\ todo' \subseteq DOMAIN heldLog
      BY TakeUpShape DEF LeaveWaiting, Waiting, Typed, Shape
  <2> QED BY <2>1 DEF LeaveWaiting, Fault, PassFrame, ledgerVars, worldVars,
             Typed, TypeOK, Shape, ScanTypes, Requests
<1>9. SettleFails => Typed'
  <2> SUFFICES ASSUME SettleFails PROVE Typed'
      OBVIOUS
  <2>1. /\ ScanTypes' /\ RequestShape'
        /\ todo' \in SUBSET Nat /\ todo' \subseteq DOMAIN heldLog
      BY TakeUpShape DEF SettleFails, Waiting, Typed, Shape
  <2> QED BY <2>1 DEF SettleFails, Fault, PassFrame, ledgerVars, worldVars,
             Typed, TypeOK, Shape, ScanTypes, Requests
<1>10. ASSUME NEW c \in Cashiers, NEW i \in Invoices, NEW deed \in {"redeem", "void"},
              NEW queued \in BOOLEAN, AskTill(c, i, deed, queued)
       PROVE Typed'
    BY <1>10 DEF AskTill, TillFrame, worldVars, scanVars,
       Typed, TypeOK, Shape, RequestShape, TillStages
<1>11. ASSUME NEW c \in Cashiers, RedeemVoucher(c) \/ VoidVoucher(c) PROVE Typed'
  <2>1. till[c].invoice \in Invoices
      BY <1>11 DEF RedeemVoucher, VoidVoucher, CloseVoucher, Typed, Shape
  <2>2. ASSUME NEW status \in {"REDEEMED", "VOID"}
        PROVE  [voucher EXCEPT ![till[c].invoice].status = status]
                  \in [Invoices -> [status : Books!VoucherStatus, value : Nat]]
      BY <2>1, ZenonT(60) DEF Typed, TypeOK, Books!VoucherStatus
  <2>3. voucher' \in [Invoices -> [status : Books!VoucherStatus, value : Nat]]
      BY <1>11, <2>2 DEF RedeemVoucher, VoidVoucher, CloseVoucher, Typed, TypeOK
  <2>4. /\ till' \in [Cashiers -> [stage : TillStages, invoice : Invoices \cup {None}]]
        /\ \A t \in Cashiers : till'[t].stage # "new" => till'[t].invoice \in Invoices
    <3>1. PICK answer \in TillStages : till' = [till EXCEPT ![c].stage = answer]
        BY <1>11 DEF RedeemVoucher, VoidVoucher, CloseVoucher, TillStages
    <3>2. till[c] \in [stage : TillStages, invoice : Invoices \cup {None}]
        BY DEF Typed, TypeOK
    <3>3. \A t \in Cashiers : till'[t] = IF t = c THEN [till[c] EXCEPT !.stage = answer] ELSE till[t]
        BY <3>1 DEF Typed, TypeOK
    <3>4. [till[c] EXCEPT !.stage = answer] \in [stage : TillStages, invoice : Invoices \cup {None}]
        BY <3>1, <3>2
    <3>5. till' \in [Cashiers -> [stage : TillStages, invoice : Invoices \cup {None}]]
        BY <3>1, <3>4 DEF Typed, TypeOK
    <3>6. [till[c] EXCEPT !.stage = answer].invoice = till[c].invoice
        BY <3>2
    <3> QED BY <2>1, <3>3, <3>5, <3>6 DEF Typed, TypeOK, Shape
  <2> QED BY <1>11, <2>3, <2>4 DEF RedeemVoucher, VoidVoucher, CloseVoucher, TillFrame,
             worldVars, scanVars, Typed, TypeOK, Shape, RequestShape
<1>12. LicenceChanges => Typed'
  <2>1. LicenceChanges => readOnly' \in BOOLEAN
      BY Zenon DEF LicenceChanges
  <2> QED BY <2>1 DEF LicenceChanges, Outside, ledgerVars, scanVars, Typed, TypeOK, Shape, RequestShape
<1>13. TimePasses => Typed'
    BY DEF TimePasses, Outside, ledgerVars, scanVars, Typed, TypeOK, Shape, RequestShape
<1>14. ASSUME NEW c \in Cards, CardChanges(c) PROVE Typed'
    BY <1>14 DEF CardChanges, Outside, ledgerVars, scanVars, Typed, TypeOK, Shape, RequestShape
<1>15. ASSUME NEW l \in Ladders, PublishLadder(l) PROVE Typed'
    BY <1>15 DEF PublishLadder, Outside, ledgerVars, scanVars, Typed, TypeOK, Shape, RequestShape
<1>16. Crash => Typed'
    BY DEF Crash, Fault, ledgerVars, worldVars, Typed, TypeOK, Shape, RequestShape, Requests,
       InFlight, Answers, Refusals, Nothing, Asks, Modes, SendStages, TillStages
<1>17. CASE UNCHANGED vars
    BY <1>17 DEF vars, ledgerVars, worldVars, scanVars, Typed, TypeOK, Shape, RequestShape
<1> QED
    BY <1>1, <1>2, <1>3, <1>4, <1>5, <1>6, <1>7, <1>8, <1>9, <1>10, <1>11, <1>12, <1>13, <1>14, <1>15, <1>16,
       <1>17
    DEF Next, Requests

\* A request past findPendingInvoice always carries an invoice, an arrived one
\* always its card, whatever the others do.
LEMMA AlwaysTyped == Spec => []Typed
<1>1. Init => Typed BY InitTyped
<1>2. Typed /\ [Next]_vars => Typed' BY TypedStep
<1> QED BY <1>1, <1>2, PTL DEF Spec

\* The desk is always well typed: every request is at a step of its handler,
\* and the books and the held-sale rows hold what their columns allow.
THEOREM TypeSafety == Spec => []TypeOK
<1>1. Typed => TypeOK BY DEF Typed
<1> QED BY <1>1, AlwaysTyped, PTL

(***************************************************************************)
(* The books.  What a request read before its transaction is only a hint:  *)
(* Claims states the part of it that stays true while other requests run,  *)
(* and Claim's own WHERE clause supplies the rest.                         *)
(***************************************************************************)
DueOn(i) == {0} \cup {Earned[l][i] : l \in Ladders}

ClaimOK(r) ==
    /\ stage[r] \in {"price", "claim", "ATTRIBUTED"} =>
          found[r] \in captured /\ ask[r].invoice \in {None, found[r]}
    /\ stage[r] \in {"claim", "ATTRIBUTED"} => gain[r] \in DueOn(found[r])
    /\ stage[r] \in {"claim", "ATTRIBUTED"} /\ ask[r].mode # "live" => gain[r] = 0
    /\ stage[r] = "ORIGINAL" => ask[r].invoice \in Invoices

Claims == \A r \in Requests : ClaimOK(r)

BooksInv == Typed /\ Claims /\ BooksBalance /\ OneWinner /\ AnswersMatchLedger

CloseVoucherOf(c) == RedeemVoucher(c) \/ VoidVoucher(c)

\* Only three operations write the ledger.
LEMMA LedgerWriters ==
    [Next]_vars => \/ UNCHANGED ledgerVars
                   \/ \E s \in Sends : InsertCapture(s)
                   \/ \E r \in Requests : Claim(r)
                   \/ \E c \in Cashiers : CloseVoucherOf(c)
<1> SUFFICES ASSUME [Next]_vars,
                    ~ \E s \in Sends : InsertCapture(s),
                    ~ \E r \in Requests : Claim(r),
                    ~ \E c \in Cashiers : CloseVoucherOf(c)
             PROVE  UNCHANGED ledgerVars
    OBVIOUS
<1>1. ASSUME NEW r \in Requests, ScanStep(r) PROVE UNCHANGED ledgerVars
    BY <1>1 DEF ScanStep, GatePasses, GateRefuses, LookForHold, WriteHold, LookupCard,
       FindPending, NothingPending, Price, LoseClaim
<1> QED
    BY <1>1 DEF Next, Requests, CloseVoucherOf, vars, CheckCaptured, Arrive, ScanFails, StartPass,
       SettleHold, LeaveWaiting, SettleFails, PassFrame, AskTill, TillFrame, LicenceChanges,
       TimePasses, Crash, CardChanges, PublishLadder, Outside, ledgerVars

\* The empty books satisfy the invariant.
LEMMA InitBooks == Init => BooksInv
  BY InitTyped, SaleDeskAssumption
  DEF Init, BooksInv, Claims, ClaimOK, BooksBalance, OneWinner, AnswersMatchLedger, Attributed, Requests,
      Books!Init, Books!NoVoucher

\* No step leaves a discount without its slip, or a slip without its discount.
LEMMA BooksBalanceStep == BooksInv /\ [Next]_vars => BooksBalance'
<1> SUFFICES ASSUME BooksInv, [Next]_vars PROVE BooksBalance'
    OBVIOUS
<1> USE SaleDeskAssumption
<1>1. CASE UNCHANGED ledgerVars
    BY <1>1 DEF ledgerVars, BooksInv, BooksBalance
<1>2. ASSUME NEW s \in Sends, InsertCapture(s) PROVE BooksBalance'
    BY <1>2 DEF InsertCapture, BooksInv, BooksBalance
<1>3. ASSUME NEW r \in Requests, Claim(r) PROVE BooksBalance'
  <2>1. found[r] \in Invoices /\ found[r] \in captured /\ gain[r] \in Nat
        /\ Holder[ask[r].card] # None
      BY <1>3 DEF Claim, BooksInv, Claims, ClaimOK, Typed, TypeOK, Shape, RequestShape, Requests
  <2> QED BY <1>3, <2>1 DEF Claim, BooksInv, BooksBalance, Typed, TypeOK,
             Books!Issued, Books!NoVoucher
<1>4. ASSUME NEW c \in Cashiers, CloseVoucherOf(c) PROVE BooksBalance'
  <2>1. till[c].invoice \in Invoices
      BY <1>4 DEF CloseVoucherOf, RedeemVoucher, VoidVoucher, CloseVoucher, BooksInv, Typed, Shape
  <2>2. \/ UNCHANGED voucher
        \/ \E status \in {"REDEEMED", "VOID"} :
              /\ voucher[till[c].invoice].status = "ISSUED"
              /\ voucher' = [voucher EXCEPT ![till[c].invoice].status = status]
      BY <1>4 DEF CloseVoucherOf, RedeemVoucher, VoidVoucher, CloseVoucher
  <2>3. UNCHANGED <<captured, customer, discount>>
      BY <1>4 DEF CloseVoucherOf, RedeemVoucher, VoidVoucher, CloseVoucher, TillFrame
  <2>4. \A i \in Invoices : /\ voucher'[i].value = voucher[i].value
                            /\ voucher'[i].status # "NONE" <=> voucher[i].status # "NONE"
    <3>1. ASSUME NEW status \in {"REDEEMED", "VOID"}, NEW i \in Invoices,
                 voucher[till[c].invoice].status = "ISSUED",
                 voucher' = [voucher EXCEPT ![till[c].invoice].status = status]
          PROVE  /\ voucher'[i].value = voucher[i].value
                 /\ voucher'[i].status # "NONE" <=> voucher[i].status # "NONE"
      <4>1. voucher[i] \in [status : Books!VoucherStatus, value : Nat]
          BY DEF BooksInv, Typed, TypeOK
      <4>2. voucher'[i] = IF i = till[c].invoice THEN [voucher[i] EXCEPT !.status = status] ELSE voucher[i]
          BY <3>1, <2>1 DEF BooksInv, Typed, TypeOK
      <4> QED BY <3>1, <4>1, <4>2
    <3> QED BY <2>2, <3>1
  <2> QED BY <2>3, <2>4 DEF BooksInv, BooksBalance
<1> QED BY <1>1, <1>2, <1>3, <1>4, LedgerWriters

\* A step moves at most one request, or is the crash that answers them all;
\* every other request keeps its stage and what it carries.
Kept(r) == stage'[r] = stage[r] /\ ask'[r] = ask[r] /\ found'[r] = found[r] /\ gain'[r] = gain[r]
OthersKept(q) == \A r \in Requests : r # q => Kept(r)

\* A step of one request moves no other.
LEMMA OneMoves ==
    ASSUME Typed, NEW q \in Requests
    PROVE  /\ ScanStep(q) \/ ScanFails(q) => OthersKept(q)
           /\ \A a : Arrive(q, a) => OthersKept(q)
           /\ \A rows : TakeUp(rows) => OthersKept(Pass)
<1> USE DEF Goto, OthersKept, Kept, Typed, TypeOK, Requests
<1>1. ScanStep(q) => OthersKept(q)
    BY DEF ScanStep, GatePasses, GateRefuses, LookForHold, WriteHold, LookupCard, FindPending,
       NothingPending, Price, Claim, LoseClaim
<1>2. ScanFails(q) => OthersKept(q)
    BY DEF ScanFails
<1>3. \A a : Arrive(q, a) => OthersKept(q)
    BY DEF Arrive
<1>4. \A rows : TakeUp(rows) => OthersKept(Pass)
    BY DEF TakeUp
<1> QED BY <1>1, <1>2, <1>3, <1>4

\* The steps by which requests move.
LEMMA RequestMovers ==
    [Next]_vars => \/ UNCHANGED scanVars
                   \/ \E q \in Scans, a \in Requested : Arrive(q, a)
                   \/ \E q \in Requests : ScanStep(q) \/ ScanFails(q)
                   \/ \E rows : TakeUp(rows) /\ UNCHANGED ledgerVars
                   \/ Crash
  BY DEF Next, Requests, vars, scanVars, CheckCaptured, InsertCapture, StartPass, SettleHold,
     LeaveWaiting, SettleFails, PassFrame, AskTill, RedeemVoucher, VoidVoucher, CloseVoucher,
     TillFrame, LicenceChanges, TimePasses, CardChanges, PublishLadder, Outside

\* No operation deletes a capture.
LEMMA CapturedGrows == [Next]_vars => captured \subseteq captured'
  BY LedgerWriters
  DEF ledgerVars, InsertCapture, Claim, CloseVoucherOf, RedeemVoucher, VoidVoucher, CloseVoucher,
      TillFrame

\* What a request holds for its claim stays usable: a captured invoice, the one
\* it asked for if it named one, and no discount unless the till sent it live.
LEMMA ClaimsStep == BooksInv /\ [Next]_vars => Claims'
<1> SUFFICES ASSUME BooksInv, [Next]_vars PROVE Claims'
    OBVIOUS
<1> USE SaleDeskAssumption
<1> captured \subseteq captured'
    BY CapturedGrows
<1>1. ASSUME NEW r \in Requests, Kept(r) PROVE ClaimOK(r)'
    BY <1>1 DEF Kept, BooksInv, Claims, ClaimOK, DueOn
<1>2. ASSUME NEW q \in Requests, OthersKept(q), ClaimOK(q)' PROVE Claims'
    BY <1>1, <1>2 DEF OthersKept, Claims
<1>3. CASE UNCHANGED scanVars
    BY <1>1, <1>3 DEF scanVars, Kept, Claims
<1>4. ASSUME NEW q \in Scans, NEW a \in Requested, Arrive(q, a) PROVE Claims'
    BY <1>2, <1>4, OneMoves DEF Arrive, Goto, ClaimOK, BooksInv, Typed, TypeOK, Requests
<1>5. ASSUME NEW q \in Requests, ScanStep(q) PROVE Claims'
  <2> USE DEF Goto, BooksInv, Typed, TypeOK, Requests, Claims, ClaimOK
  <2>1. CASE FindPending(q)
    <3>1. PICK i \in Pending(q) : found' = [found EXCEPT ![q] = i]
        BY <2>1 DEF FindPending
    <3>2. i \in captured /\ ask[q].invoice \in {None, i}
        BY DEF Pending, Unclaimed
    <3> QED BY <1>2, <1>5, <2>1, <3>1, <3>2, OneMoves DEF FindPending
  <2>2. CASE Price(q)
    <3>1. gain'[q] \in DueOn(found[q]) /\ (ask[q].mode # "live" => gain'[q] = 0)
        BY <2>2 DEF Price, DueOn
    <3> QED BY <1>2, <1>5, <2>2, <3>1, OneMoves, ZenonT(60) DEF Price, DueOn
  <2>3. CASE Claim(q)
      BY <1>2, <1>5, <2>3, OneMoves DEF Claim, DueOn
  <2>4. CASE NothingPending(q)
      BY <1>2, <1>5, <2>4, OneMoves DEF NothingPending, Asks
  <2>5. CASE stage'[q] \notin {"price", "claim", "ATTRIBUTED", "ORIGINAL"}
      BY <1>2, <1>5, <2>5, OneMoves
  <2>6. \/ FindPending(q) \/ Price(q) \/ Claim(q) \/ NothingPending(q)
        \/ stage'[q] \notin {"price", "claim", "ATTRIBUTED", "ORIGINAL"}
      BY <1>5 DEF ScanStep, GatePasses, GateRefuses, LookForHold, WriteHold, LookupCard, LoseClaim
  <2> QED BY <2>1, <2>2, <2>3, <2>4, <2>5, <2>6
<1>6. ASSUME NEW q \in Requests, ScanFails(q) PROVE Claims'
    BY <1>2, <1>6, OneMoves DEF ScanFails, Goto, ClaimOK, BooksInv, Typed, TypeOK, Requests
<1>7. ASSUME NEW rows, TakeUp(rows) PROVE Claims'
    BY <1>2, <1>7, OneMoves DEF TakeUp, Goto, ClaimOK, BooksInv, Typed, TypeOK, Requests
<1>8. CASE Crash
  <2>1. \A r \in Requests : \/ Kept(r)
                           \/ stage'[r] \in {"new", "ERROR"}
      BY <1>8 DEF Crash, Kept, BooksInv, Typed, TypeOK, Requests
  <2> QED BY <1>1, <2>1 DEF Claims, ClaimOK
<1> QED
    BY <1>3, <1>4, <1>5, <1>6, <1>7, <1>8, RequestMovers

\* A credit, and the discount given with it, are never changed again.
LEMMA CreditIsFinal ==
    BooksInv /\ [Next]_vars =>
        \A i \in Invoices : customer[i] # None => customer'[i] = customer[i] /\ discount'[i] = discount[i]
<1> SUFFICES ASSUME BooksInv, [Next]_vars
             PROVE  \A i \in Invoices : customer[i] # None =>
                        customer'[i] = customer[i] /\ discount'[i] = discount[i]
    OBVIOUS
<1>1. ASSUME NEW r \in Requests, Claim(r)
      PROVE  \A i \in Invoices : customer[i] # None =>
                        customer'[i] = customer[i] /\ discount'[i] = discount[i]
    BY <1>1 DEF Claim, BooksInv, Typed, TypeOK
<1> QED BY <1>1, LedgerWriters
        DEF ledgerVars, InsertCapture, CloseVoucherOf, RedeemVoucher, VoidVoucher, CloseVoucher, TillFrame

\* Only Claim attributes, and only NothingPending answers with the original.
LEMMA NewAnswers ==
    ASSUME Typed, [Next]_vars, NEW r \in Requests
    PROVE  /\ Attributed(r)' => Kept(r) \/ Claim(r)
           /\ (stage[r] = "ORIGINAL")' => Kept(r) \/ NothingPending(r)
<1> USE DEF Attributed
<1>1. CASE UNCHANGED scanVars
    BY <1>1 DEF scanVars, Kept
<1>2. ASSUME NEW q \in Scans, NEW a \in Requested, Arrive(q, a)
      PROVE  Kept(r) \/ stage'[r] = "gate"
    BY <1>2, OneMoves DEF Arrive, Goto, OthersKept, Typed, TypeOK, Requests
<1>3. ASSUME NEW q \in Requests, ScanStep(q)
      PROVE  \/ Kept(r) \/ Claim(r) \/ NothingPending(r) \/ stage'[r] \notin {"ATTRIBUTED", "ORIGINAL"}
    BY <1>3, OneMoves
    DEF ScanStep, GatePasses, GateRefuses, LookForHold, WriteHold, LookupCard, FindPending, Price,
        LoseClaim, Goto, OthersKept, Typed, TypeOK, Requests
<1>4. ASSUME NEW q \in Requests, ScanFails(q)
      PROVE  Kept(r) \/ stage'[r] \notin {"ATTRIBUTED", "ORIGINAL"}
    BY <1>4, OneMoves DEF ScanFails, Goto, OthersKept, Typed, TypeOK, Requests
<1>5. ASSUME NEW rows, TakeUp(rows) PROVE Kept(r) \/ stage'[r] \in {"new", "gate"}
    BY <1>5, OneMoves DEF TakeUp, Goto, OthersKept, Typed, TypeOK, Requests
<1>6. CASE Crash
    BY <1>6 DEF Crash, Kept, Typed, TypeOK, Requests
<1>7. Claim(r) => stage'[r] = "ATTRIBUTED"
    BY DEF Claim, Goto, Typed, TypeOK, Requests
<1>8. NothingPending(r) => stage'[r] # "ATTRIBUTED"
    BY DEF NothingPending, Goto, Typed, TypeOK, Requests
<1> QED BY <1>1, <1>2, <1>3, <1>4, <1>5, <1>6, <1>7, <1>8, RequestMovers

\* A claim that commits finds the row unclaimed, so no earlier winner has it.
LEMMA OneWinnerStep == BooksInv /\ [Next]_vars => OneWinner'
<1> SUFFICES ASSUME BooksInv, [Next]_vars, NEW r \in Requests, NEW q \in Requests,
                    Attributed(r)', Attributed(q)', r # q
             PROVE  found'[r] # found'[q]
    BY DEF OneWinner
<1> USE SaleDeskAssumption DEF BooksInv
<1>1. ASSUME NEW x \in Requests, NEW y \in Requests, Attributed(x), Kept(x), Claim(y)
      PROVE  found'[x] # found'[y]
  <2>1. customer[found[x]] # None
      BY <1>1 DEF AnswersMatchLedger, Typed, Shape, RequestShape, TypeOK, Attributed
  <2> QED BY <1>1, <2>1 DEF Claim, Kept
<1>2. Claim(r) => Kept(q)
    BY OneMoves DEF ScanStep, OthersKept
<1>3. Claim(q) => Kept(r)
    BY OneMoves DEF ScanStep, OthersKept
<1>4. Kept(r) /\ Kept(q) => found'[r] # found'[q]
    BY DEF Kept, OneWinner, Attributed
<1> QED BY <1>1, <1>2, <1>3, <1>4, NewAnswers DEF Kept, Attributed

\* An answer given stays true, because credits are final.
LEMMA AnswersStep == BooksInv /\ [Next]_vars => AnswersMatchLedger'
<1> SUFFICES ASSUME BooksInv, [Next]_vars, NEW r \in Requests
             PROVE  /\ Attributed(r)' => /\ customer'[found'[r]] = Holder[ask'[r].card]
                                         /\ discount'[found'[r]] = gain'[r]
                                         /\ ask'[r].mode # "live" => voucher'[found'[r]].status = "NONE"
                                         /\ ask'[r].invoice \in {None, found'[r]}
                    /\ stage'[r] = "ORIGINAL" => customer'[ask'[r].invoice] = Holder[ask'[r].card]
    BY DEF AnswersMatchLedger, Requests
<1> USE SaleDeskAssumption
<1>0. Typed /\ Claims /\ BooksBalance /\ AnswersMatchLedger
    BY DEF BooksInv
<1>5. \A i \in Invoices : customer[i] # None => customer'[i] = customer[i] /\ discount'[i] = discount[i]
    BY CreditIsFinal
<1>1. BooksBalance' /\ Claims' /\ Typed'
    BY <1>0, BooksBalanceStep, ClaimsStep, TypedStep
<1>2. ASSUME Attributed(r)'
      PROVE  customer'[found'[r]] = Holder[ask'[r].card] /\ discount'[found'[r]] = gain'[r]
  <2>1. CASE Kept(r)
    <3>1. /\ found[r] \in Invoices /\ Holder[ask[r].card] # None
          /\ customer[found[r]] = Holder[ask[r].card] /\ discount[found[r]] = gain[r]
        BY <1>0, <1>2, <2>1 DEF Kept, Attributed, AnswersMatchLedger, Typed, Shape, RequestShape
    <3> QED BY <1>5, <2>1, <3>1 DEF Kept
  <2>2. CASE Claim(r)
      BY <1>0, <2>2 DEF Claim, Typed, TypeOK, Shape, RequestShape
  <2> QED BY <1>0, <1>2, <2>1, <2>2, NewAnswers
<1>3. ASSUME Attributed(r)'
      PROVE  /\ ask'[r].mode # "live" => voucher'[found'[r]].status = "NONE"
             /\ ask'[r].invoice \in {None, found'[r]}
  <2>1. found'[r] \in Invoices
      BY <1>1, <1>3 DEF Attributed, Typed, Shape, RequestShape, Requests
  <2>2. stage'[r] = "ATTRIBUTED" /\ discount'[found'[r]] = gain'[r]
      BY <1>2, <1>3 DEF Attributed
  <2>3. (ask'[r].mode # "live" => gain'[r] = 0) /\ ask'[r].invoice \in {None, found'[r]}
      BY <1>1, <2>2 DEF Claims, ClaimOK, Requests
  <2>4. gain'[r] = 0 => voucher'[found'[r]].status = "NONE"
      BY <1>1, <2>1, <2>2 DEF BooksBalance
  <2> QED BY <2>3, <2>4
<1>4. ASSUME stage'[r] = "ORIGINAL" PROVE customer'[ask'[r].invoice] = Holder[ask'[r].card]
  <2>1. CASE Kept(r)
    <3>1. ask[r].invoice \in Invoices /\ customer[ask[r].invoice] = Holder[ask[r].card]
        BY <1>0, <1>4, <2>1 DEF Kept, AnswersMatchLedger, Claims, ClaimOK
    <3>2. Holder[ask[r].card] # None
        BY <1>0, <1>4, <2>1 DEF Kept, Typed, Shape, RequestShape
    <3> QED BY <1>5, <2>1, <3>1, <3>2 DEF Kept
  <2>2. CASE NothingPending(r)
      BY <1>0, <1>4, <2>2 DEF NothingPending, Goto, ledgerVars, Typed, TypeOK, Requests
  <2> QED BY <1>0, <1>4, <2>1, <2>2, NewAnswers
<1> QED BY <1>2, <1>3, <1>4

\* The invariant behind the three safety theorems below holds for ever.
LEMMA BooksInvariant == Spec => []BooksInv
<1>1. Init => BooksInv
    BY InitBooks
<1>2. BooksInv /\ [Next]_vars => BooksInv'
    BY TypedStep, ClaimsStep, BooksBalanceStep, OneWinnerStep, AnswersStep DEF BooksInv
<1> QED BY <1>1, <1>2, PTL DEF Spec

\* The discount and the slip that accounts for it are always in the books together.
THEOREM DiscountsAreAccountedFor == Spec => []BooksBalance
<1>1. BooksInv => BooksBalance BY DEF BooksInv
<1> QED BY <1>1, BooksInvariant, PTL

\* However many stations scan at once, one sale has one winner.
THEOREM SaleHasOneWinner == Spec => []OneWinner
<1>1. BooksInv => OneWinner BY DEF BooksInv
<1> QED BY <1>1, BooksInvariant, PTL

\* What every scan was told stays what the books say.
THEOREM ScansAreToldTheTruth == Spec => []AnswersMatchLedger
<1>1. BooksInv => AnswersMatchLedger BY DEF BooksInv
<1> QED BY <1>1, BooksInvariant, PTL

(***************************************************************************)
(* The desk implements the Ledger.                                         *)
(***************************************************************************)
\* Every step of the desk is a step of the Ledger or leaves the books alone.
LEMMA StepRefines == BooksInv /\ [Next]_vars => [Books!Next]_(Books!ledgerVars)
<1> SUFFICES ASSUME BooksInv, [Next]_vars PROVE Books!Next \/ UNCHANGED ledgerVars
    BY DEF ledgerVars, Books!ledgerVars
<1> USE SaleDeskAssumption
<1>1. ASSUME NEW s \in Sends, InsertCapture(s) PROVE Books!Next \/ UNCHANGED ledgerVars
  <2>1. send[s].invoice \in Invoices
      BY <1>1 DEF InsertCapture, BooksInv, Typed, Shape
  <2>2. CASE send[s].invoice \in captured
      BY <1>1, <2>2 DEF InsertCapture, ledgerVars
  <2>3. CASE send[s].invoice \notin captured
    <3>1. Books!Capture(send[s].invoice)
        BY <1>1, <2>3 DEF InsertCapture, Books!Capture
    <3> QED BY <2>1, <3>1 DEF Books!Next
  <2> QED BY <2>2, <2>3
<1>2. ASSUME NEW r \in Requests, Claim(r) PROVE Books!Next
  <2>1. /\ found[r] \in Invoices /\ found[r] \in captured
        /\ Holder[ask[r].card] \in Customers
        /\ gain[r] \in DueOn(found[r])
      BY <1>2 DEF Claim, BooksInv, Claims, ClaimOK, Typed, Shape, RequestShape
  <2>2. Books!Credit(found[r], Holder[ask[r].card], gain[r])
      BY <1>2, <2>1 DEF Claim, Books!Credit
  <2>3. DueOn(found[r]) = {0} \cup [i \in Invoices |-> {Earned[l][i] : l \in Ladders}][found[r]]
      BY <2>1 DEF DueOn
  <2> QED BY <2>1, <2>2, <2>3 DEF Books!Next
<1>3. ASSUME NEW c \in Cashiers, CloseVoucherOf(c) PROVE Books!Next \/ UNCHANGED ledgerVars
  <2>1. till[c].invoice \in Invoices
      BY <1>3 DEF CloseVoucherOf, RedeemVoucher, VoidVoucher, CloseVoucher, BooksInv, Typed, Shape
  <2>2. \/ UNCHANGED ledgerVars
        \/ \E status \in {"REDEEMED", "VOID"} : Books!Close(till[c].invoice, status)
      BY <1>3 DEF CloseVoucherOf, RedeemVoucher, VoidVoucher, CloseVoucher, TillFrame, ledgerVars,
         Books!Close
  <2> QED BY <2>1, <2>2 DEF Books!Next
<1> QED BY <1>1, <1>2, <1>3, LedgerWriters

\* Every behaviour of the desk, read on the books alone, is one the Ledger allows.
THEOREM DeskImplementsLedger == Spec => LedgerKept
<1>1. Init => Books!Init
    BY DEF Init
<1>2. BooksInv /\ [Next]_vars => [Books!Next]_(Books!ledgerVars)
    BY StepRefines
<1> QED BY <1>1, <1>2, BooksInvariant, PTL DEF Spec, LedgerKept, Books!Spec

(***************************************************************************)
(* The held sales.                                                         *)
(***************************************************************************)
\* Every hold in the log was written by a scan that was told HELD, and the pass
\* only tries rows that hold their sale, so it never writes a hold of its own.
Authored(n) ==
    \E q \in Scans : /\ stage[q] = "HELD"
                    /\ ask[q].invoice = heldLog[n].invoice /\ ask[q].card = heldLog[n].card

HoldsAreAuthored == \A n \in DOMAIN heldLog : heldLog[n].event = "HELD" => Authored(n)

PassTriesHolds ==
    /\ \A n \in todo : heldLog[n].event = "HELD"
    /\ stage[Pass] # "new" => IsHeld(ask[Pass].invoice)
    /\ stage[Pass] # "holdWrite"

FileInv == HoldsAreAuthored /\ PassTriesHolds

HeldInv == BooksInv /\ FileInv /\ HeldIsOnFile /\ SettlementIsTrue

\* Only a hold and its settlement write the audit log.
LEMMA LogWriters ==
    [Next]_vars => \/ UNCHANGED heldLog
                   \/ \E r \in Requests : WriteHold(r)
                   \/ SettleHold
<1>1. ASSUME NEW r \in Requests, ScanStep(r) PROVE UNCHANGED heldLog \/ WriteHold(r)
    BY <1>1 DEF ScanStep, GatePasses, GateRefuses, LookForHold, LookupCard, FindPending,
       NothingPending, Price, Claim, LoseClaim
<1> QED
    BY <1>1 DEF Next, Requests, vars, CheckCaptured, InsertCapture, Arrive, ScanFails, StartPass,
       LeaveWaiting, SettleFails, AskTill, RedeemVoucher, VoidVoucher, CloseVoucher, TillFrame,
       LicenceChanges, TimePasses, Crash, CardChanges, PublishLadder, Outside

\* The log is append-only: a hold once written is there for good.
LEMMA RowsStay ==
    ASSUME Typed, [Next]_vars
    PROVE  \A n \in DOMAIN heldLog : n \in DOMAIN heldLog' /\ heldLog'[n] = heldLog[n]
<1> heldLog \in Seq(HeldRows)
    BY DEF Typed, TypeOK
<1>1. ASSUME NEW row, heldLog' = Append(heldLog, row)
      PROVE  \A n \in DOMAIN heldLog : n \in DOMAIN heldLog' /\ heldLog'[n] = heldLog[n]
    BY <1>1
<1> QED BY <1>1, LogWriters DEF WriteHold, SettleHold

\* A till's request that was told HELD stays so, with the card and the invoice it named.
LEMMA ToldStays ==
    ASSUME Typed, [Next]_vars, NEW q \in Scans, stage[q] = "HELD"
    PROVE  stage'[q] = "HELD" /\ ask'[q] = ask[q]
<1> q \in Requests /\ q # Pass
    BY SaleDeskAssumption DEF Requests
<1>1. CASE UNCHANGED scanVars
    BY <1>1 DEF scanVars
<1>2. ASSUME NEW r \in Scans, NEW a \in Requested, Arrive(r, a) PROVE Kept(q)
    BY <1>2, OneMoves DEF Arrive, OthersKept, Requests
<1>3. ASSUME NEW r \in Requests, ScanStep(r) \/ ScanFails(r) PROVE Kept(q)
  <2>1. stage[r] # "HELD"
      BY <1>3 DEF ScanStep, GatePasses, GateRefuses, LookForHold, WriteHold, LookupCard, FindPending,
         NothingPending, Price, Claim, LoseClaim, ScanFails, InFlight
  <2> QED BY <1>3, <2>1, OneMoves DEF OthersKept
<1>4. ASSUME NEW rows, TakeUp(rows) PROVE Kept(q)
    BY <1>4, OneMoves DEF OthersKept, Requests
<1>5. CASE Crash
    BY <1>5 DEF Crash, InFlight, Typed, TypeOK, Requests
<1> QED BY <1>1, <1>2, <1>3, <1>4, <1>5, RequestMovers DEF Kept

\* A request comes to be told HELD only by finding a hold or by writing one.
LEMMA NewlyHeld ==
    ASSUME Typed, [Next]_vars, NEW r \in Requests, stage'[r] = "HELD"
    PROVE  Kept(r) \/ LookForHold(r) \/ WriteHold(r)
<1>1. CASE UNCHANGED scanVars
    BY <1>1 DEF scanVars, Kept
<1>2. ASSUME NEW q \in Scans, NEW a \in Requested, Arrive(q, a)
      PROVE  Kept(r) \/ stage'[r] = "gate"
    BY <1>2, OneMoves DEF Arrive, Goto, OthersKept, Typed, TypeOK, Requests
<1>3. ASSUME NEW q \in Requests, ScanStep(q)
      PROVE  Kept(r) \/ LookForHold(r) \/ WriteHold(r) \/ stage'[r] # "HELD"
    BY <1>3, OneMoves
    DEF ScanStep, GatePasses, GateRefuses, LookupCard, FindPending, NothingPending, Price, Claim,
        LoseClaim, Goto, OthersKept, Typed, TypeOK, Requests
<1>4. ASSUME NEW q \in Requests, ScanFails(q) PROVE Kept(r) \/ stage'[r] # "HELD"
    BY <1>4, OneMoves DEF ScanFails, Goto, OthersKept, Typed, TypeOK, Requests
<1>5. ASSUME NEW rows, TakeUp(rows) PROVE Kept(r) \/ stage'[r] \in {"new", "gate"}
    BY <1>5, OneMoves DEF TakeUp, Goto, OthersKept, Typed, TypeOK, Requests
<1>6. CASE Crash
    BY <1>6 DEF Crash, Kept, Typed, TypeOK, Requests
<1> QED BY <1>1, <1>2, <1>3, <1>4, <1>5, <1>6, RequestMovers

\* Taking up a row that holds its sale leaves the pass on such a row.
LEMMA TakeUpTries ==
    ASSUME Typed, [Next]_vars, NEW rows \in SUBSET DOMAIN heldLog, TakeUp(rows),
           \A n \in rows : heldLog[n].event = "HELD"
    PROVE  PassTriesHolds'
<1> Pass \in Requests /\ heldLog \in Seq(HeldRows)
    BY DEF Typed, TypeOK, Requests
<1>1. CASE Goto(Pass, "new") /\ todo' = {}
    BY <1>1 DEF Goto, PassTriesHolds, Typed, TypeOK, Requests
<1>2. ASSUME NEW n \in rows, Goto(Pass, "gate"), todo' = rows \ {n},
             ask' = [ask EXCEPT ![Pass] = [card    |-> heldLog[n].card,
                                           invoice |-> heldLog[n].invoice,
                                           mode    |-> "held"]]
      PROVE  PassTriesHolds'
  <2>1. stage'[Pass] = "gate" /\ ask'[Pass].invoice = heldLog[n].invoice
      BY <1>2 DEF Goto, Typed, TypeOK, Requests
  <2>2. n \in DOMAIN heldLog' /\ heldLog'[n] = heldLog[n] /\ heldLog[n].event = "HELD"
      BY RowsStay
  <2>3. \A m \in todo' : heldLog'[m].event = "HELD"
      BY <1>2, RowsStay
  <2> QED BY <2>1, <2>2, <2>3 DEF PassTriesHolds, IsHeld
<1> QED BY <1>1, <1>2 DEF TakeUp

\* The pass keeps to rows that hold their sale.
LEMMA TriesStep == Typed /\ PassTriesHolds /\ [Next]_vars => PassTriesHolds'
<1> SUFFICES ASSUME Typed, PassTriesHolds, [Next]_vars PROVE PassTriesHolds'
    OBVIOUS
<1> Pass \in Requests /\ todo \subseteq DOMAIN heldLog
    BY DEF Requests, Typed, Shape
<1>1. ASSUME UNCHANGED todo, (stage'[Pass] = stage[Pass] /\ ask'[Pass] = ask[Pass]) \/ stage'[Pass] = "new"
      PROVE  PassTriesHolds'
    BY <1>1, RowsStay DEF PassTriesHolds, IsHeld
<1>2. ASSUME NEW q \in Requests, ScanStep(q) PROVE PassTriesHolds'
  <2>1. UNCHANGED todo
      BY <1>2 DEF ScanStep, GatePasses, GateRefuses, LookForHold, WriteHold, LookupCard, FindPending,
         NothingPending, Price, Claim, LoseClaim, ScanFrame
  <2>2. CASE q # Pass
      BY <1>1, <1>2, <2>1, <2>2, OneMoves DEF OthersKept, Kept
  <2>3. CASE q = Pass
    <3>1. /\ ask' = ask /\ stage[Pass] # "new"
          /\ stage'[Pass] # "holdWrite"
        BY <1>2, <2>3 DEF ScanStep, GatePasses, GateRefuses, LookForHold, WriteHold, LookupCard,
           FindPending, NothingPending, Price, Claim, LoseClaim, Goto, PassTriesHolds, Typed, TypeOK,
           Requests
    <3> QED BY <2>1, <3>1, RowsStay DEF PassTriesHolds, IsHeld
  <2> QED BY <2>2, <2>3
<1>3. ASSUME NEW q \in Requests, ScanFails(q) PROVE PassTriesHolds'
  <2>1. UNCHANGED <<todo, ask>> /\ stage[q] # "new" /\ stage'[q] # "holdWrite"
      BY <1>3 DEF ScanFails, Goto, InFlight, Typed, TypeOK, Requests
  <2>2. stage'[Pass] = stage[Pass] \/ (stage[Pass] # "new" /\ stage'[Pass] # "holdWrite")
      BY <1>3, <2>1, OneMoves DEF OthersKept, Kept
  <2> QED BY <2>1, <2>2, RowsStay DEF PassTriesHolds, IsHeld
<1>4. ASSUME NEW q \in Scans, NEW a \in Requested, Arrive(q, a) PROVE PassTriesHolds'
  <2>1. q # Pass /\ q \in Requests /\ UNCHANGED todo
      BY <1>4, SaleDeskAssumption DEF Requests, Arrive, ScanFrame
  <2> QED BY <1>1, <1>4, <2>1, OneMoves DEF OthersKept, Kept
<1>5. CASE StartPass
    BY <1>5, TakeUpTries DEF StartPass, Waiting
<1>6. CASE SettleHold \/ SettleFails
    BY <1>6, TakeUpTries DEF SettleHold, SettleFails, PassTriesHolds
<1>7. CASE LeaveWaiting
    BY <1>7, TakeUpTries DEF LeaveWaiting, PassTriesHolds
<1>8. CASE Crash
  <2>1. stage'[Pass] = "new" /\ todo' = {}
      BY <1>8 DEF Crash, Requests
  <2> QED BY <2>1 DEF PassTriesHolds
<1>9. CASE UNCHANGED <<stage, ask, todo>>
    BY <1>1, <1>9
<1> QED
    BY <1>2, <1>3, <1>4, <1>5, <1>6, <1>7, <1>8, <1>9
    DEF Next, Requests, vars, scanVars, CheckCaptured, InsertCapture, AskTill, RedeemVoucher, VoidVoucher,
        CloseVoucher, TillFrame, LicenceChanges, TimePasses, CardChanges, PublishLadder, Outside

\* A new hold in the log is the one its own scan is told of.
LEMMA NewHolds ==
    ASSUME Typed, PassTriesHolds, [Next]_vars, NEW n \in DOMAIN heldLog', n \notin DOMAIN heldLog,
           heldLog'[n].event = "HELD"
    PROVE  Authored(n)'
<1> heldLog \in Seq(HeldRows)
    BY DEF Typed, TypeOK
<1>1. ASSUME NEW r \in Requests, WriteHold(r) PROVE Authored(n)'
  <2>1. r \in Scans
      BY <1>1 DEF WriteHold, PassTriesHolds, Requests
  <2>2. /\ heldLog' = Append(heldLog, [event |-> "HELD", invoice |-> ask[r].invoice, card |-> ask[r].card])
        /\ ask' = ask /\ stage'[r] = "HELD"
      BY <1>1 DEF WriteHold, Goto, Typed, TypeOK, Requests
  <2>3. heldLog'[n] = [event |-> "HELD", invoice |-> ask[r].invoice, card |-> ask[r].card]
      BY <2>2
  <2> QED BY <2>1, <2>2, <2>3 DEF Authored
<1>2. ~SettleHold
  <2> SUFFICES ASSUME SettleHold PROVE FALSE
      OBVIOUS
  <2>1. PICK event \in Verdict : heldLog' = Append(heldLog, [event   |-> event,
                                                           invoice |-> ask[Pass].invoice,
                                                           card    |-> ask[Pass].card])
      BY DEF SettleHold
  <2>2. heldLog'[n].event = event
      BY <2>1
  <2> QED BY <2>1, <2>2 DEF Verdict
<1> QED BY <1>1, <1>2, LogWriters

\* What the log holds, a scan was told.
LEMMA FileStep == HeldInv /\ [Next]_vars => FileInv'
<1> SUFFICES ASSUME HeldInv, [Next]_vars PROVE FileInv'
    OBVIOUS
<1>0. Typed /\ FileInv
    BY DEF HeldInv, BooksInv
<1>1. ASSUME NEW n \in DOMAIN heldLog', heldLog'[n].event = "HELD", n \in DOMAIN heldLog
      PROVE  Authored(n)'
  <2>1. heldLog'[n] = heldLog[n]
      BY <1>0, <1>1, RowsStay
  <2>2. PICK q \in Scans : /\ stage[q] = "HELD"
                          /\ ask[q].invoice = heldLog[n].invoice /\ ask[q].card = heldLog[n].card
      BY <1>0, <1>1, <2>1 DEF FileInv, HoldsAreAuthored, Authored
  <2> QED BY <1>0, <2>1, <2>2, ToldStays DEF Authored
<1> QED BY <1>0, <1>1, NewHolds, TriesStep DEF FileInv, HoldsAreAuthored

\* A scan comes to be told HELD only with its own link on file or another card's.
LEMMA OnFileStep == HeldInv /\ [Next]_vars => HeldIsOnFile'
<1> SUFFICES ASSUME HeldInv, [Next]_vars, NEW r \in Scans, stage'[r] = "HELD"
             PROVE  (\/ LinkOnFile(r)
                     \/ \E q \in Scans : /\ stage[q] = "HELD" /\ ask[q].invoice = ask[r].invoice
                                        /\ ask[q].card # ask[r].card /\ LinkOnFile(q))'
    BY DEF HeldIsOnFile
<1>0. Typed /\ FileInv' /\ r \in Requests /\ heldLog \in Seq(HeldRows)
    BY FileStep DEF HeldInv, BooksInv, Requests, Typed, TypeOK
<1>1. ASSUME NEW q \in Scans, stage[q] = "HELD", LinkOnFile(q)
      PROVE  stage'[q] = "HELD" /\ ask'[q] = ask[q] /\ LinkOnFile(q)'
    BY <1>0, <1>1, ToldStays, RowsStay DEF LinkOnFile
<1>2. CASE Kept(r)
  <2>1. stage[r] = "HELD"
      BY <1>2 DEF Kept
  <2>2. CASE LinkOnFile(r)
      BY <1>1, <2>1, <2>2
  <2>3. ASSUME NEW q \in Scans, stage[q] = "HELD", ask[q].invoice = ask[r].invoice,
               ask[q].card # ask[r].card, LinkOnFile(q)
        PROVE  /\ stage'[q] = "HELD" /\ ask'[q].invoice = ask'[r].invoice
               /\ ask'[q].card # ask'[r].card /\ LinkOnFile(q)'
      BY <1>1, <1>2, <2>3 DEF Kept
  <2> QED BY <2>1, <2>2, <2>3 DEF HeldInv, HeldIsOnFile
<1>3. CASE LookForHold(r)
  <2>1. ask' = ask /\ IsHeld(ask[r].invoice) /\ UNCHANGED heldLog
      BY <1>0, <1>3 DEF LookForHold, Goto, Typed, TypeOK, Requests
  <2>2. PICK n \in DOMAIN heldLog : heldLog[n].event = "HELD" /\ heldLog[n].invoice = ask[r].invoice
      BY <2>1 DEF IsHeld
  <2>3. PICK q \in Scans : /\ stage[q] = "HELD"
                          /\ ask[q].invoice = heldLog[n].invoice /\ ask[q].card = heldLog[n].card
      BY <2>2 DEF HeldInv, FileInv, HoldsAreAuthored, Authored
  <2>4. heldLog[n] = [event |-> "HELD", invoice |-> ask[q].invoice, card |-> ask[q].card]
    <3>1. heldLog[n] \in HeldRows
        BY <1>0
    <3> QED BY <2>2, <2>3, <3>1 DEF HeldRows
  <2>5. LinkOnFile(q)
      BY <2>4 DEF LinkOnFile
  <2>6. ask[q].card = ask[r].card => LinkOnFile(r)'
      BY <2>1, <2>2, <2>3, <2>4 DEF LinkOnFile
  <2> QED BY <1>1, <2>1, <2>2, <2>3, <2>5, <2>6
<1>4. CASE WriteHold(r)
  <2>1. heldLog' = Append(heldLog, [event |-> "HELD", invoice |-> ask[r].invoice, card |-> ask[r].card])
        /\ ask' = ask
      BY <1>4 DEF WriteHold
  <2>2. /\ Len(heldLog) + 1 \in DOMAIN heldLog'
        /\ heldLog'[Len(heldLog) + 1] =
               [event |-> "HELD", invoice |-> ask[r].invoice, card |-> ask[r].card]
      BY <1>0, <2>1
  <2> QED BY <2>1, <2>2 DEF LinkOnFile
<1> QED BY <1>0, <1>2, <1>3, <1>4, NewlyHeld

\* No step records an outcome the books contradict.
LEMMA SettlementStep == HeldInv /\ [Next]_vars => SettlementIsTrue'
<1> SUFFICES ASSUME HeldInv, [Next]_vars, NEW n \in DOMAIN heldLog'
             PROVE  /\ heldLog'[n].event = "APPLIED" =>
                          customer'[heldLog'[n].invoice] = Holder[heldLog'[n].card]
                    /\ heldLog'[n].event = "LINKED_ELSEWHERE" => customer'[heldLog'[n].invoice] # None
    BY DEF SettlementIsTrue
<1> USE SaleDeskAssumption
<1> DEFINE row == heldLog'[n]
<1>0. BooksInv /\ Typed /\ heldLog \in Seq(HeldRows)
    BY DEF HeldInv, BooksInv, Typed, TypeOK
<1>1. CASE n \in DOMAIN heldLog /\ heldLog'[n] = heldLog[n]
  <2>0. heldLog[n] \in HeldRows
      BY <1>0, <1>1
  <2>1. row.invoice \in Invoices /\ Holder[row.card] # None
      BY <1>1, <2>0 DEF HeldRows
  <2> QED BY <1>0, <1>1, <2>1, CreditIsFinal DEF HeldInv, SettlementIsTrue
<1>2. ASSUME NEW r \in Requests, WriteHold(r), ~(n \in DOMAIN heldLog /\ heldLog'[n] = heldLog[n])
      PROVE  row.event = "HELD"
    BY <1>0, <1>2 DEF WriteHold
<1>3. ASSUME SettleHold, ~(n \in DOMAIN heldLog /\ heldLog'[n] = heldLog[n])
      PROVE  /\ row.event = "APPLIED" => customer'[row.invoice] = Holder[row.card]
             /\ row.event = "LINKED_ELSEWHERE" => customer'[row.invoice] # None
  <2>1. PICK event \in Verdict : heldLog' = Append(heldLog, [event   |-> event,
                                                           invoice |-> ask[Pass].invoice,
                                                           card    |-> ask[Pass].card])
      BY <1>3 DEF SettleHold
  <2>2. row.event = event /\ row.invoice = ask[Pass].invoice /\ row.card = ask[Pass].card
      BY <1>0, <1>3, <2>1
  <2>3. customer' = customer /\ Pass \in Requests
      BY <1>3 DEF SettleHold, PassFrame, ledgerVars, Requests
  <2>4. ask[Pass].invoice \in Invoices
      BY <1>0, <1>3 DEF SettleHold, Answers, Refusals, Typed, Shape, RequestShape
  <2>5. event = "APPLIED" => stage[Pass] \in {"ATTRIBUTED", "ORIGINAL"}
      BY <2>1 DEF Verdict
  <2>6. event = "LINKED_ELSEWHERE" => customer[ask[Pass].invoice] # None
      BY <2>1 DEF Verdict
  <2>7. stage[Pass] \in {"ATTRIBUTED", "ORIGINAL"} =>
            customer[ask[Pass].invoice] = Holder[ask[Pass].card]
      BY <1>0, <2>3, <2>4 DEF BooksInv, AnswersMatchLedger, Attributed
  <2> QED BY <2>2, <2>3, <2>5, <2>6, <2>7
<1> QED BY <1>0, <1>1, <1>2, <1>3, LogWriters

\* The books and the held-sale log agree for ever.
LEMMA HeldInvariant == Spec => []HeldInv
<1>1. Init => HeldInv
    BY InitBooks DEF Init, HeldInv, HeldIsOnFile, SettlementIsTrue, Requests,
       FileInv, HoldsAreAuthored, PassTriesHolds
<1>2. HeldInv /\ [Next]_vars => HeldInv'
  <2> SUFFICES ASSUME HeldInv, [Next]_vars PROVE HeldInv'
      OBVIOUS
  <2>1. BooksInv'
      BY TypedStep, ClaimsStep, BooksBalanceStep, OneWinnerStep, AnswersStep DEF HeldInv, BooksInv
  <2> QED BY <2>1, FileStep, OnFileStep, SettlementStep DEF HeldInv
<1> QED BY <1>1, <1>2, PTL DEF Spec

\* A till told HELD finds the link it scanned, card and invoice, on file, unless
\* another card's scan of that invoice was told HELD and that link is on file.
THEOREM HeldSalesAreOnFile == Spec => []HeldIsOnFile
<1>1. HeldInv => HeldIsOnFile BY DEF HeldInv
<1> QED BY <1>1, HeldInvariant, PTL

\* The log never says a held sale was applied, or linked, when it was not.
THEOREM SettlementsAreTrue == Spec => []SettlementIsTrue
<1>1. HeldInv => SettlementIsTrue BY DEF HeldInv
<1> QED BY <1>1, HeldInvariant, PTL

(***************************************************************************)
(* What is settled once.  Counting is put off to the last step: while the  *)
(* requests run the invariant only says that there is one, and no other.   *)
(***************************************************************************)
Created(s, i) == send[s].stage = "CREATED" /\ send[s].invoice = i
Settled(c, i, answer) == till[c].stage = answer /\ till[c].invoice = i

OneCreator ==
    \A i \in Invoices :
        /\ i \in captured <=> \E s \in Sends : Created(s, i)
        /\ \A s, t \in Sends : Created(s, i) /\ Created(t, i) => s = t

Deeds == {[answer |-> "REDEEMED", status |-> "REDEEMED"], [answer |-> "VOIDED", status |-> "VOID"]}

OneCloser ==
    \A i \in Invoices, deed \in Deeds :
        /\ voucher[i].status = deed.status <=> \E c \in Cashiers : Settled(c, i, deed.answer)
        /\ \A c, d \in Cashiers : Settled(c, i, deed.answer) /\ Settled(d, i, deed.answer) => c = d

\* A set whose members are one and the same counts one if it has any.
LEMMA CountsAsOne ==
    ASSUME NEW S, NEW P, P <=> S # {}, \A x, y \in S : x = y
    PROVE  Cardinality(S) = IF P THEN 1 ELSE 0
<1>1. CASE S = {}
    BY <1>1, FS_EmptySet
<1>2. CASE S # {}
  <2>1. PICK x \in S : S = {x}
      BY <1>2
  <2> QED BY <1>2, <2>1, FS_Singleton
<1> QED BY <1>1, <1>2

\* Only the insert that finds no row of its invoice is told it created one.
LEMMA CreatorStep == BooksInv /\ OneCreator /\ [Next]_vars => OneCreator'
<1> SUFFICES ASSUME BooksInv, OneCreator, [Next]_vars PROVE OneCreator'
    OBVIOUS
<1> DEFINE ST == [stage : SendStages, invoice : Invoices \cup {None}]
<1>0. send \in [Sends -> ST]
    BY DEF BooksInv, Typed, TypeOK
<1> USE DEF OneCreator
<1>1. CASE UNCHANGED <<captured, send>>
    BY <1>1 DEF Created
<1>2. ASSUME NEW s \in Sends, NEW i \in Invoices, CheckCaptured(s, i) PROVE OneCreator'
  <2>1. \A i0 \in Invoices, t \in Sends : Created(t, i0)' <=> Created(t, i0)
      BY <1>0, <1>2 DEF CheckCaptured, Created
  <2> QED BY <1>2, <2>1 DEF CheckCaptured, ledgerVars
<1>3. ASSUME NEW s \in Sends, InsertCapture(s) PROVE OneCreator'
  <2>1. send[s].stage = "insert" /\ send[s].invoice \in Invoices
      BY <1>3 DEF InsertCapture, BooksInv, Typed, Shape
  <2>2. \A t \in Sends : t # s => send'[t] = send[t]
      BY <1>0, <1>3 DEF InsertCapture
  <2>3. /\ send'[s].invoice = send[s].invoice
        /\ send'[s].stage = IF send[s].invoice \in captured THEN "DUPLICATE" ELSE "CREATED"
        /\ captured' = captured \cup {send[s].invoice}
      BY <1>0, <1>3 DEF InsertCapture
  <2>4. \A i \in Invoices, t \in Sends :
            Created(t, i)' <=> (Created(t, i) \/ (t = s /\ i = send[s].invoice /\ i \notin captured))
      BY <2>1, <2>2, <2>3 DEF Created
  <2> QED BY <2>1, <2>3, <2>4
<1>4. CASE Crash
  <2>1. \A i \in Invoices, s \in Sends : Created(s, i)' <=> Created(s, i)
      BY <1>0, <1>4 DEF Crash, Created
  <2> QED BY <1>4, <2>1 DEF Crash, ledgerVars
<1>5. \/ UNCHANGED <<captured, send>> \/ Crash
      \/ \E s \in Sends, i \in Invoices : CheckCaptured(s, i)
      \/ \E s \in Sends : InsertCapture(s)
  <2>1. ASSUME NEW r \in Requests, ScanStep(r) PROVE UNCHANGED <<captured, send>>
      BY <2>1 DEF ScanStep, GatePasses, GateRefuses, LookForHold, WriteHold, LookupCard,
         FindPending, NothingPending, Price, Claim, LoseClaim, ScanFrame, ledgerVars
  <2> QED BY <2>1
      DEF Next, Requests, vars, ledgerVars, Arrive, ScanFails, StartPass, SettleHold, LeaveWaiting,
          SettleFails, PassFrame, ScanFrame, AskTill, RedeemVoucher, VoidVoucher, CloseVoucher,
          TillFrame, LicenceChanges, TimePasses, CardChanges, PublishLadder, Outside
<1> QED BY <1>1, <1>2, <1>3, <1>4, <1>5

\* However many sends carry one invoice, one of them is told it created it.
THEOREM InvoicesAreCreatedOnce == Spec => []CreatedOnce
<1>1. Init => BooksInv /\ OneCreator
    BY InitBooks DEF Init, OneCreator, Created, Books!Init
<1>2. BooksInv /\ OneCreator /\ [Next]_vars => (BooksInv /\ OneCreator)'
    BY CreatorStep, TypedStep, ClaimsStep, BooksBalanceStep, OneWinnerStep, AnswersStep DEF BooksInv
<1>3. OneCreator => CreatedOnce
  <2> SUFFICES ASSUME OneCreator, NEW i \in Invoices
               PROVE  Cardinality({s \in Sends : send[s].stage = "CREATED" /\ send[s].invoice = i})
                         = IF i \in captured THEN 1 ELSE 0
      BY DEF CreatedOnce
  <2> DEFINE S == {s \in Sends : send[s].stage = "CREATED" /\ send[s].invoice = i}
  <2>1. (i \in captured <=> S # {}) /\ \A s, t \in S : s = t
      BY DEF OneCreator, Created
  <2> HIDE DEF S
  <2> QED BY <2>1, CountsAsOne DEF S
<1> QED BY <1>1, <1>2, <1>3, PTL DEF Spec

\* A voucher request is told its deed only by the update that found the slip
\* ISSUED, and a slip once settled is never written again.
LEMMA CloserStep == BooksInv /\ OneCloser /\ [Next]_vars => OneCloser'
<1> SUFFICES ASSUME BooksInv, OneCloser, [Next]_vars, NEW i \in Invoices, NEW deed \in Deeds
             PROVE  (/\ voucher[i].status = deed.status <=> \E c \in Cashiers : Settled(c, i, deed.answer)
                     /\ \A c, d \in Cashiers :
                           Settled(c, i, deed.answer) /\ Settled(d, i, deed.answer) => c = d)'
    BY DEF OneCloser
<1> DEFINE TT == [stage : TillStages, invoice : Invoices \cup {None}]
           VT == [status : Books!VoucherStatus, value : Nat]
<1>0. /\ till \in [Cashiers -> TT] /\ voucher \in [Invoices -> VT]
      /\ deed.status \in {"REDEEMED", "VOID"} /\ deed.answer \in {"REDEEMED", "VOIDED"}
      /\ deed.status = "REDEEMED" <=> deed.answer = "REDEEMED"
    BY DEF BooksInv, Typed, TypeOK, Deeds
<1>1. ASSUME \A c \in Cashiers : Settled(c, i, deed.answer)' <=> Settled(c, i, deed.answer),
             (voucher[i].status = deed.status)' <=> voucher[i].status = deed.status
      PROVE  (/\ voucher[i].status = deed.status <=> \E c \in Cashiers : Settled(c, i, deed.answer)
              /\ \A c, d \in Cashiers :
                    Settled(c, i, deed.answer) /\ Settled(d, i, deed.answer) => c = d)'
    BY <1>1 DEF OneCloser
<1>2. CASE UNCHANGED <<voucher, till>>
    BY <1>1, <1>2 DEF Settled
<1>3. ASSUME NEW r \in Requests, Claim(r) PROVE (voucher[i].status = deed.status)' <=> voucher[i].status = deed.status
  <2>1. found[r] \in Invoices /\ gain[r] \in Nat
      BY <1>3, SaleDeskAssumption DEF Claim, BooksInv, Typed, TypeOK, Shape, RequestShape, Requests
  <2>2. voucher[found[r]].status = "NONE"
      BY <1>3, <2>1 DEF Claim, BooksInv, BooksBalance, Typed, TypeOK
  <2>3. voucher'[i] = IF i = found[r] THEN Books!Issued(gain[r]) ELSE voucher[i]
      BY <1>0, <1>3, <2>1 DEF Claim
  <2> QED BY <1>0, <2>2, <2>3 DEF Books!Issued, Books!NoVoucher
<1>4. ASSUME NEW c \in Cashiers, NEW j \in Invoices, NEW how \in {"redeem", "void"},
             NEW queued \in BOOLEAN, AskTill(c, j, how, queued)
      PROVE  \A d \in Cashiers : Settled(d, i, deed.answer)' <=> Settled(d, i, deed.answer)
    BY <1>0, <1>4 DEF AskTill, Settled
<1>5. CASE Crash
  <2>1. \A d \in Cashiers : Settled(d, i, deed.answer)' <=> Settled(d, i, deed.answer)
      BY <1>0, <1>5 DEF Crash, Settled
  <2> QED BY <1>1, <1>5, <2>1 DEF Crash, ledgerVars
<1>6. ASSUME NEW c \in Cashiers, NEW how, NEW other \in Deeds,
             CloseVoucher(c, how, other.status, other.answer), how \in {"redeem", "void"}
      PROVE  (/\ voucher[i].status = deed.status <=> \E d \in Cashiers : Settled(d, i, deed.answer)
              /\ \A d, e \in Cashiers :
                    Settled(d, i, deed.answer) /\ Settled(e, i, deed.answer) => d = e)'
  <2> DEFINE k == till[c].invoice
  <2>1. k \in Invoices /\ till[c].stage = how
      BY <1>6 DEF CloseVoucher, BooksInv, Typed, Shape
  <2>2. CASE voucher[k].status # "ISSUED"
    <3>1. till' = [till EXCEPT ![c].stage = "NOT_REDEEMABLE"] /\ UNCHANGED voucher
        BY <1>6, <2>2 DEF CloseVoucher
    <3>2. \A d \in Cashiers : Settled(d, i, deed.answer)' <=> Settled(d, i, deed.answer)
        BY <1>0, <1>6, <2>1, <3>1 DEF Settled
    <3> QED BY <1>1, <3>1, <3>2
  <2>3. CASE voucher[k].status = "ISSUED"
    <3>1. /\ voucher' = [voucher EXCEPT ![k].status = other.status]
          /\ till' = [till EXCEPT ![c].stage = other.answer]
        BY <1>6, <2>3 DEF CloseVoucher
    <3>2. other.answer = deed.answer <=> other = deed
        BY DEF Deeds
    <3>3. /\ voucher'[i].status = IF i = k THEN other.status ELSE voucher[i].status
          /\ \A d \in Cashiers : Settled(d, i, deed.answer)' <=>
                (Settled(d, i, deed.answer) \/ (d = c /\ i = k /\ other = deed))
      <4>1. voucher'[i].status = IF i = k THEN other.status ELSE voucher[i].status
          BY <1>0, <2>1, <3>1
      <4>2. \A d \in Cashiers : d # c => till'[d] = till[d]
          BY <1>0, <3>1
      <4>3. till'[c].stage = other.answer /\ till'[c].invoice = k
          BY <1>0, <3>1
      <4> QED BY <1>0, <1>6, <2>1, <3>2, <4>1, <4>2, <4>3 DEF Settled
    <3>4. ~ \E d \in Cashiers : i = k /\ Settled(d, i, deed.answer)
        BY <1>0, <2>3 DEF OneCloser
    <3>5. other.status = deed.status <=> other = deed
        BY DEF Deeds
    <3>6. /\ voucher[i].status = deed.status <=> \E d \in Cashiers : Settled(d, i, deed.answer)
          /\ \A d, e \in Cashiers : Settled(d, i, deed.answer) /\ Settled(e, i, deed.answer) => d = e
        BY DEF OneCloser
    <3> HIDE DEF k
    <3> QED BY <1>0, <3>3, <3>4, <3>5, <3>6, <2>3
  <2> QED BY <2>2, <2>3
<1>7. \/ UNCHANGED <<voucher, till>> \/ Crash
      \/ \E r \in Requests : Claim(r) /\ UNCHANGED till
      \/ \E c \in Cashiers, j \in Invoices, how \in {"redeem", "void"}, queued \in BOOLEAN :
             AskTill(c, j, how, queued)
      \/ \E c \in Cashiers : CloseVoucherOf(c)
  <2>1. ASSUME NEW r \in Requests, ScanStep(r)
        PROVE  UNCHANGED till /\ (UNCHANGED voucher \/ Claim(r))
      BY <2>1 DEF ScanStep, GatePasses, GateRefuses, LookForHold, WriteHold, LookupCard,
         FindPending, NothingPending, Price, Claim, LoseClaim, ScanFrame, ledgerVars
  <2> QED BY <2>1
      DEF Next, Requests, vars, ledgerVars, CheckCaptured, InsertCapture, Arrive, ScanFails, StartPass,
          SettleHold, LeaveWaiting, SettleFails, PassFrame, ScanFrame, CloseVoucherOf,
          LicenceChanges, TimePasses, CardChanges, PublishLadder, Outside
<1>8. ASSUME NEW c \in Cashiers, CloseVoucherOf(c)
      PROVE  \E how \in {"redeem", "void"}, other \in Deeds :
                 CloseVoucher(c, how, other.status, other.answer)
    BY <1>8 DEF CloseVoucherOf, RedeemVoucher, VoidVoucher, Deeds
<1> QED BY <1>1, <1>2, <1>3, <1>4, <1>5, <1>6, <1>7, <1>8 DEF Settled, AskTill

\* With one closer at most, a slip's closers count as its status says.
LEMMA CloserCounts == OneCloser => SlipSettledOnce
<1> SUFFICES ASSUME OneCloser, NEW i \in Invoices
             PROVE  \A deed \in Deeds :
                       Cardinality({c \in Cashiers : till[c].stage = deed.answer /\ till[c].invoice = i})
                          = IF voucher[i].status = deed.status THEN 1 ELSE 0
    BY DEF SlipSettledOnce, Deeds
<1> TAKE deed \in Deeds
<1> DEFINE S == {c \in Cashiers : till[c].stage = deed.answer /\ till[c].invoice = i}
<1>1. (voucher[i].status = deed.status <=> S # {}) /\ \A c, d \in S : c = d
    BY DEF OneCloser, Settled
<1> HIDE DEF S
<1> QED BY <1>1, CountsAsOne DEF S

(***************************************************************************)
(* A hold is settled by one row at most: between the holds of an invoice   *)
(* and the rows that settle them stand those the pass still has to try and *)
(* the one it is trying.                                                   *)
(***************************************************************************)
Closings(i) == {n \in DOMAIN heldLog : heldLog[n].invoice = i /\ heldLog[n].event # "HELD"}
Holds(i) == {n \in DOMAIN heldLog : heldLog[n].invoice = i /\ heldLog[n].event = "HELD"}
Of(rows, i) == {n \in rows : heldLog[n].invoice = i}
InHand(i) == IF stage[Pass] # "new" /\ ask[Pass].invoice = i THEN 1 ELSE 0

HoldsCover ==
    /\ \A n \in todo : heldLog[n].event = "HELD"
    /\ \A i \in Invoices :
          Cardinality(Closings(i)) + Cardinality(Of(todo, i)) + InHand(i) <= Cardinality(Holds(i))

\* Rows of the log are finitely many, and those of a part no more than of the whole.
LEMMA RowsAreFinite ==
    ASSUME Typed, NEW i
    PROVE  /\ IsFiniteSet(Closings(i)) /\ IsFiniteSet(Holds(i))
           /\ \A rows \in SUBSET (DOMAIN heldLog) : IsFiniteSet(rows) /\ IsFiniteSet(Of(rows, i))
<1>1. IsFiniteSet(DOMAIN heldLog)
  <2>1. heldLog \in Seq(HeldRows)
      BY DEF Typed, TypeOK
  <2>2. DOMAIN heldLog = 1 .. Len(heldLog) /\ Len(heldLog) \in Int /\ 1 \in Int
      BY <2>1
  <2> QED BY <2>2, FS_Interval
<1>2. Closings(i) \in SUBSET (DOMAIN heldLog) /\ Holds(i) \in SUBSET (DOMAIN heldLog)
    BY DEF Closings, Holds
<1>3. \A rows \in SUBSET (DOMAIN heldLog) : IsFiniteSet(rows)
    BY <1>1, FS_Subset
<1>4. \A rows \in SUBSET (DOMAIN heldLog) : Of(rows, i) \in SUBSET (DOMAIN heldLog)
    BY DEF Of
<1> QED BY <1>2, <1>3, <1>4

\* What the pass takes up it takes from the rows it had.
LEMMA TakeUpCounts ==
    ASSUME Typed, NEW rows \in SUBSET (DOMAIN heldLog), TakeUp(rows), NEW i \in Invoices
    PROVE  Cardinality(Of(todo', i)) + InHand(i)' = Cardinality(Of(rows, i))
<1> Pass \in Requests /\ stage \in [Requests -> {"new"} \cup InFlight \cup Answers]
    /\ ask \in [Requests -> Asks]
    BY DEF Typed, TypeOK, Requests
<1>0. IsFiniteSet(Of(rows, i)) /\ Cardinality(Of(rows, i)) \in Nat
    BY RowsAreFinite, FS_CardinalityType
<1>1. CASE rows = {} /\ stage'[Pass] = "new" /\ todo' = {}
  <2>1. Of(todo', i) = {} /\ Of(rows, i) = {} /\ InHand(i)' = 0
      BY <1>1 DEF Of, InHand
  <2> QED BY <2>1, FS_EmptySet
<1>2. ASSUME NEW n \in rows, stage'[Pass] = "gate", ask'[Pass].invoice = heldLog[n].invoice,
             todo' = rows \ {n}
      PROVE  Cardinality(Of(todo', i)) + InHand(i)' = Cardinality(Of(rows, i))
  <2>1. Of(todo', i) = Of(rows, i) \ {n} /\ (n \in Of(rows, i) <=> heldLog[n].invoice = i)
      BY <1>2 DEF Of
  <2>2. InHand(i)' = IF heldLog[n].invoice = i THEN 1 ELSE 0
      BY <1>2 DEF InHand
  <2>3. Cardinality(Of(rows, i) \ {n}) = IF n \in Of(rows, i) THEN Cardinality(Of(rows, i)) - 1
                                                             ELSE Cardinality(Of(rows, i))
      BY <1>0, FS_RemoveElement
  <2> QED BY <1>0, <2>1, <2>2, <2>3
<1>3. \/ rows = {} /\ stage'[Pass] = "new" /\ todo' = {}
      \/ \E n \in rows : /\ stage'[Pass] = "gate" /\ ask'[Pass].invoice = heldLog[n].invoice
                         /\ todo' = rows \ {n}
    BY DEF TakeUp, Goto
<1> QED BY <1>1, <1>2, <1>3

\* A row appended is one more hold of its invoice, or one more closing.
LEMMA AppendCounts ==
    ASSUME Typed, NEW row \in HeldRows, heldLog' = Append(heldLog, row), NEW i \in Invoices
    PROVE  /\ Cardinality(Closings(i)') = Cardinality(Closings(i)) +
                 (IF row.invoice = i /\ row.event # "HELD" THEN 1 ELSE 0)
           /\ Cardinality(Holds(i)') = Cardinality(Holds(i)) +
                 (IF row.invoice = i /\ row.event = "HELD" THEN 1 ELSE 0)
           /\ \A n \in DOMAIN heldLog : heldLog'[n] = heldLog[n]
<1> DEFINE new == Len(heldLog) + 1
<1>1. /\ DOMAIN heldLog' = DOMAIN heldLog \cup {new} /\ new \notin DOMAIN heldLog
      /\ heldLog'[new] = row /\ \A n \in DOMAIN heldLog : heldLog'[n] = heldLog[n]
  <2>1. heldLog \in Seq(HeldRows)
      BY DEF Typed, TypeOK
  <2> QED BY <2>1
<1>2. IsFiniteSet(Closings(i)) /\ IsFiniteSet(Holds(i))
      /\ Cardinality(Closings(i)) \in Nat /\ Cardinality(Holds(i)) \in Nat
    BY RowsAreFinite, FS_CardinalityType
<1> HIDE DEF new
<1>3. /\ Closings(i)' = IF row.invoice = i /\ row.event # "HELD" THEN Closings(i) \cup {new} ELSE Closings(i)
      /\ Holds(i)' = IF row.invoice = i /\ row.event = "HELD" THEN Holds(i) \cup {new} ELSE Holds(i)
      /\ new \notin Closings(i) /\ new \notin Holds(i)
    BY <1>1 DEF Closings, Holds
<1>4. /\ Cardinality(Closings(i) \cup {new}) = Cardinality(Closings(i)) + 1
      /\ Cardinality(Holds(i) \cup {new}) = Cardinality(Holds(i)) + 1
    BY <1>2, <1>3, FS_AddElement
<1> QED BY <1>1, <1>2, <1>3, <1>4

PassStays == /\ stage[Pass] = "new" <=> stage'[Pass] = "new"
             /\ ask'[Pass] = ask[Pass] /\ todo' = todo

\* Who moves the pass, and who writes the log while it stays.
LEMMA PassMovers ==
    ASSUME Typed, [Next]_vars
    PROVE  \/ UNCHANGED heldLog /\ PassStays
           \/ PassStays /\ \E r \in Requests : WriteHold(r)
           \/ StartPass \/ SettleHold \/ LeaveWaiting \/ SettleFails \/ Crash
<1> USE SaleDeskAssumption
<1>1. ASSUME NEW r \in Requests, ScanStep(r) PROVE PassStays /\ (UNCHANGED heldLog \/ WriteHold(r))
  <2> USE DEF PassStays, Goto, ScanFrame, Typed, TypeOK, Requests, InFlight, Answers, Refusals
  <2>1. CASE GatePasses(r) \/ GateRefuses(r) BY <2>1 DEF GatePasses, GateRefuses
  <2>2. CASE LookForHold(r) \/ WriteHold(r) BY <2>2 DEF LookForHold, WriteHold
  <2>3. CASE LookupCard(r) \/ FindPending(r) BY <2>3 DEF LookupCard, FindPending
  <2>4. CASE NothingPending(r) \/ Price(r) BY <2>4 DEF NothingPending, Price
  <2>5. CASE Claim(r) \/ LoseClaim(r) BY <2>5 DEF Claim, LoseClaim
  <2> QED BY <1>1, <2>1, <2>2, <2>3, <2>4, <2>5 DEF ScanStep
<1>2. ASSUME NEW r \in Requests, ScanFails(r) PROVE PassStays /\ UNCHANGED heldLog
    BY <1>2 DEF PassStays, ScanFails, Goto, Typed, TypeOK, Requests, InFlight
<1>3. ASSUME NEW r \in Scans, NEW a \in Requested, Arrive(r, a) PROVE PassStays /\ UNCHANGED heldLog
    BY <1>3 DEF PassStays, Arrive, Goto, ScanFrame, Typed, TypeOK, Requests
<1> QED BY <1>1, <1>2, <1>3
    DEF PassStays, Next, Requests, vars, scanVars, CheckCaptured, InsertCapture, AskTill, RedeemVoucher,
        VoidVoucher, CloseVoucher, TillFrame, LicenceChanges, TimePasses, CardChanges, PublishLadder,
        Outside

\* No step closes more than was held.
LEMMA HoldsCoverStep == Typed /\ HoldsCover /\ [Next]_vars => HoldsCover'
<1> SUFFICES ASSUME Typed, HoldsCover, [Next]_vars PROVE HoldsCover'
    OBVIOUS
<1>0. /\ todo \in SUBSET (DOMAIN heldLog)
      /\ \A n \in DOMAIN heldLog : heldLog[n] \in HeldRows
    BY DEF Typed, TypeOK, Shape
<1>c. ASSUME NEW i \in Invoices
      PROVE  /\ Cardinality(Closings(i)) \in Nat /\ Cardinality(Holds(i)) \in Nat
             /\ \A rows \in SUBSET (DOMAIN heldLog) :
                   IsFiniteSet(Of(rows, i)) /\ Cardinality(Of(rows, i)) \in Nat
             /\ InHand(i) \in {0, 1}
    BY RowsAreFinite, FS_CardinalityType DEF InHand
<1>1. CASE UNCHANGED heldLog /\ PassStays
  <2>1. \A i \in Invoices : Closings(i)' = Closings(i) /\ Holds(i)' = Holds(i)
                            /\ Of(todo, i)' = Of(todo, i) /\ InHand(i)' = InHand(i)
      BY <1>1 DEF PassStays, Closings, Holds, Of, InHand
  <2> QED BY <1>1, <2>1 DEF HoldsCover, PassStays
<1>2. ASSUME PassStays, NEW r \in Requests, WriteHold(r) PROVE HoldsCover'
  <2> DEFINE row == [event |-> "HELD", invoice |-> ask[r].invoice, card |-> ask[r].card]
  <2>1. row \in HeldRows /\ heldLog' = Append(heldLog, row)
      BY <1>2 DEF WriteHold, HeldRows, HeldEvents, Typed, Shape, RequestShape
  <2>2. ASSUME NEW i \in Invoices
        PROVE  /\ Cardinality(Closings(i)') = Cardinality(Closings(i))
               /\ Cardinality(Holds(i)') \in {Cardinality(Holds(i)), Cardinality(Holds(i)) + 1}
               /\ Of(todo, i)' = Of(todo, i) /\ InHand(i)' = InHand(i)
    <3>1. \A n \in DOMAIN heldLog : heldLog'[n] = heldLog[n]
        BY <2>1, AppendCounts
    <3>2. Of(todo, i)' = Of(todo, i) /\ InHand(i)' = InHand(i)
        BY <1>0, <1>2, <3>1 DEF PassStays, Of, InHand
    <3>3. row.event = "HELD"
        OBVIOUS
    <3> HIDE DEF row
    <3> QED BY <1>c, <2>1, <3>2, <3>3, AppendCounts
  <2>3. \A n \in todo' : heldLog'[n].event = "HELD"
      BY <1>0, <1>2, <2>1, AppendCounts DEF HoldsCover, PassStays
  <2> QED BY <1>0, <1>c, <2>2, <2>3 DEF HoldsCover
<1>3. ASSUME NEW rows \in SUBSET (DOMAIN heldLog), TakeUp(rows), UNCHANGED heldLog,
             \A n \in rows : heldLog[n].event = "HELD",
             \A i \in Invoices :
                Cardinality(Closings(i)) + Cardinality(Of(rows, i)) <= Cardinality(Holds(i))
      PROVE  HoldsCover'
  <2>1. \A n \in todo' : heldLog'[n].event = "HELD"
      BY <1>3 DEF TakeUp
  <2>2. ASSUME NEW i \in Invoices
        PROVE  (Cardinality(Closings(i)) + Cardinality(Of(todo, i)) + InHand(i) <= Cardinality(Holds(i)))'
    <3>1. Closings(i)' = Closings(i) /\ Holds(i)' = Holds(i) /\ Of(todo, i)' = Of(todo', i)
        BY <1>3 DEF Closings, Holds, Of
    <3>2. Cardinality(Of(todo', i)) + InHand(i)' = Cardinality(Of(rows, i))
        BY <1>3, TakeUpCounts
    <3>3. todo' \in SUBSET (DOMAIN heldLog) /\ InHand(i)' \in {0, 1}
        BY <1>3 DEF TakeUp, InHand
    <3> QED BY <1>3, <1>c, <3>1, <3>2, <3>3
  <2> QED BY <2>1, <2>2 DEF HoldsCover
<1>4. CASE StartPass
  <2>1. Waiting \in SUBSET (DOMAIN heldLog) /\ TakeUp(Waiting) /\ UNCHANGED heldLog
        /\ \A n \in Waiting : heldLog[n].event = "HELD"
      BY <1>4 DEF StartPass, Waiting
  <2>2. ASSUME NEW i \in Invoices
        PROVE  Cardinality(Closings(i)) + Cardinality(Of(Waiting, i)) <= Cardinality(Holds(i))
    <3>1. CASE Of(Waiting, i) = {}
        BY <1>0, <1>c, <3>1, FS_EmptySet DEF HoldsCover
    <3>2. CASE Of(Waiting, i) # {}
      <4>1. Closings(i) = {}
          BY <3>2 DEF Of, Waiting, IsSettled, Closings
      <4>2. Of(Waiting, i) \in SUBSET Holds(i) /\ IsFiniteSet(Holds(i))
          BY RowsAreFinite DEF Of, Waiting, Holds
      <4>3. Cardinality(Of(Waiting, i)) <= Cardinality(Holds(i))
          BY <4>2, FS_Subset
      <4> QED BY <1>c, <2>1, <4>1, <4>3, FS_EmptySet
    <3> QED BY <3>1, <3>2
  <2> QED BY <1>3, <2>1, <2>2
<1>5. ASSUME NEW rows \in {{}, todo}, TakeUp(rows), UNCHANGED heldLog PROVE HoldsCover'
  <2>1. rows \in SUBSET (DOMAIN heldLog) /\ \A n \in rows : heldLog[n].event = "HELD"
      BY <1>0, <1>5 DEF HoldsCover
  <2>2. ASSUME NEW i \in Invoices
        PROVE  Cardinality(Closings(i)) + Cardinality(Of(rows, i)) <= Cardinality(Holds(i))
    <3>1. Cardinality(Of(rows, i)) \in {0, Cardinality(Of(todo, i))}
        BY <1>5, FS_EmptySet DEF Of
    <3> QED BY <1>0, <1>c, <2>1, <3>1 DEF HoldsCover
  <2> QED BY <1>3, <1>5, <2>1, <2>2
<1>6. CASE SettleHold
  <2>1. PICK event \in Verdict : heldLog' = Append(heldLog, [event   |-> event,
                                                             invoice |-> ask[Pass].invoice,
                                                             card    |-> ask[Pass].card])
      BY <1>6 DEF SettleHold
  <2> DEFINE row == [event |-> event, invoice |-> ask[Pass].invoice, card |-> ask[Pass].card]
  <2>2. row \in HeldRows /\ row.event # "HELD" /\ row.invoice = ask[Pass].invoice
        /\ stage[Pass] # "new" /\ heldLog' = Append(heldLog, row)
      BY <1>6, <2>1
      DEF SettleHold, Verdict, Answers, Refusals, HeldRows, HeldEvents, Typed, Shape, RequestShape, Requests
  <2>3. TakeUp(todo)
      BY <1>6 DEF SettleHold
  <2> HIDE DEF row
  <2>4. \A n \in todo' : n \in DOMAIN heldLog /\ heldLog'[n] = heldLog[n] /\ heldLog[n].event = "HELD"
      BY <1>0, <2>2, <2>3, AppendCounts DEF TakeUp, HoldsCover
  <2>5. ASSUME NEW i \in Invoices
        PROVE  (Cardinality(Closings(i)) + Cardinality(Of(todo, i)) + InHand(i) <= Cardinality(Holds(i)))'
    <3>1. Of(todo, i)' = Of(todo', i)
        BY <2>4 DEF Of
    <3>2. Cardinality(Of(todo', i)) + InHand(i)' = Cardinality(Of(todo, i))
        BY <1>0, <2>3, TakeUpCounts
    <3>3. InHand(i) = IF row.invoice = i THEN 1 ELSE 0
        BY <2>2 DEF InHand
    <3>4. /\ Cardinality(Closings(i)') = Cardinality(Closings(i)) + InHand(i)
          /\ Cardinality(Holds(i)') = Cardinality(Holds(i))
        BY <1>c, <2>2, <3>3, AppendCounts
    <3>5. todo' \in SUBSET (DOMAIN heldLog) /\ InHand(i)' \in {0, 1}
        BY <2>4 DEF InHand
    <3> QED BY <1>0, <1>c, <3>1, <3>2, <3>4, <3>5 DEF HoldsCover
  <2> QED BY <2>4, <2>5 DEF HoldsCover
<1>7. CASE Crash
  <2>1. todo' = {} /\ UNCHANGED heldLog /\ stage'[Pass] = "new"
      BY <1>7 DEF Crash, Requests
  <2>2. ASSUME NEW i \in Invoices
        PROVE  (Cardinality(Closings(i)) + Cardinality(Of(todo, i)) + InHand(i) <= Cardinality(Holds(i)))'
    <3>1. Closings(i)' = Closings(i) /\ Holds(i)' = Holds(i) /\ Of(todo, i)' = {} /\ InHand(i)' = 0
        BY <2>1 DEF Closings, Holds, Of, InHand
    <3> QED BY <1>0, <1>c, <3>1, FS_EmptySet DEF HoldsCover
  <2> QED BY <2>1, <2>2 DEF HoldsCover
<1>8. LeaveWaiting \/ SettleFails => UNCHANGED heldLog /\ \E rows \in {{}, todo} : TakeUp(rows)
    BY DEF LeaveWaiting, SettleFails
<1> QED BY <1>1, <1>2, <1>4, <1>5, <1>6, <1>7, <1>8, PassMovers

\* Two cashiers never both settle one slip, nor a void follow a redemption, and
\* no hold is closed twice over: across passes, crashes and duplicate rows.
THEOREM OnceIsEnough == Spec => []NothingTwice
<1> DEFINE IInv == BooksInv /\ OneCloser /\ HoldsCover
<1>1. Init => IInv
  <2> SUFFICES ASSUME Init PROVE OneCloser /\ HoldsCover
      BY InitBooks
  <2>1. OneCloser
      BY DEF Init, OneCloser, Settled, Deeds, Books!Init, Books!NoVoucher
  <2>2. ASSUME NEW i \in Invoices
        PROVE  Closings(i) = {} /\ Holds(i) = {} /\ Of(todo, i) = {} /\ InHand(i) = 0
      BY DEF Init, Closings, Holds, Of, InHand
  <2>3. \A i \in Invoices :
            Cardinality(Closings(i)) + Cardinality(Of(todo, i)) + InHand(i) <= Cardinality(Holds(i))
    <3> SUFFICES ASSUME NEW i \in Invoices
                 PROVE  Cardinality(Closings(i)) + Cardinality(Of(todo, i)) + InHand(i)
                           <= Cardinality(Holds(i))
        OBVIOUS
    <3>1. /\ Cardinality(Closings(i)) = 0 /\ Cardinality(Of(todo, i)) = 0
          /\ Cardinality(Holds(i)) = 0 /\ InHand(i) = 0
        BY <2>2, FS_EmptySet
    <3> QED BY <3>1
  <2> QED BY <2>1, <2>3 DEF HoldsCover, Init
<1>2. IInv /\ [Next]_vars => IInv'
    BY CloserStep, HoldsCoverStep, TypedStep, ClaimsStep, BooksBalanceStep, OneWinnerStep, AnswersStep
    DEF BooksInv
<1>3. IInv => NothingTwice
  <2> SUFFICES ASSUME IInv PROVE SettledOnce
      BY CloserCounts DEF NothingTwice
  <2>1. ASSUME NEW i \in Invoices
        PROVE  Cardinality({n \in DOMAIN heldLog :
                              heldLog[n].invoice = i /\ (heldLog[n].event = "HELD" <=> FALSE)})
                 <= Cardinality({n \in DOMAIN heldLog :
                              heldLog[n].invoice = i /\ (heldLog[n].event = "HELD" <=> TRUE)})
    <3>1. /\ {n \in DOMAIN heldLog : heldLog[n].invoice = i /\ (heldLog[n].event = "HELD" <=> FALSE)}
                = Closings(i)
          /\ {n \in DOMAIN heldLog : heldLog[n].invoice = i /\ (heldLog[n].event = "HELD" <=> TRUE)}
                = Holds(i)
        BY DEF Closings, Holds
    <3>2. Typed /\ todo \in SUBSET (DOMAIN heldLog)
        BY DEF BooksInv, Typed, Shape
    <3>3. /\ Cardinality(Closings(i)) \in Nat /\ Cardinality(Holds(i)) \in Nat
          /\ Cardinality(Of(todo, i)) \in Nat /\ InHand(i) \in {0, 1}
        BY <3>2, RowsAreFinite, FS_CardinalityType DEF InHand
    <3>4. Cardinality(Closings(i)) <= Cardinality(Holds(i))
        BY <3>3 DEF HoldsCover
    <3> QED BY <3>1, <3>4
  <2> QED BY <2>1 DEF SettledOnce
<1> QED BY <1>1, <1>2, <1>3, PTL DEF Spec
=============================================================================
