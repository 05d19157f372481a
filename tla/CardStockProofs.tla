-------------------------- MODULE CardStockProofs --------------------------
(***************************************************************************)
(* Proofs about CardStock, for any number of serials, thermal cards,       *)
(* customers and operators.                                                *)
(*                                                                         *)
(* What a desk read before its transaction may be stale when it commits.   *)
(* DeskOK is the part of it that cannot become false, because of three     *)
(* things no step undoes (Progress): an owner, a batch's range, and a      *)
(* card's having left the stock.                                           *)
(***************************************************************************)
EXTENDS CardStock, TLAPS

InStock == {"NONE", "PRINTED"}

DeskOK(r) ==
    /\ r.op \in CardOps => r.what \in Cards
    /\ r.op \in CardOps \ {"void"} => owner[r.what] \in Customers
    /\ r.op \in CardOps => r.seen \in Acceptable(r.op)
    /\ r.op \in ExportOps => r.what \in DOMAIN batches /\ r.seen \in BatchStatus

OwnerOK == \A c \in Cards : status[c] \in {"ASSIGNED", "LOST", "REPLACED"} <=> owner[c] # None
StockOK == \A b \in DOMAIN batches : \A s \in Printed(b) : s \in Serials /\ status[s] # "NONE"
VoidedOK == retired \subseteq DOMAIN batches /\ \A b \in retired : \A s \in Printed(b) : status[s] # "PRINTED"

Inv ==
    /\ TypeOK
    /\ OwnerOK
    /\ StockOK
    /\ VoidedOK
    /\ \A d \in Desks : DeskOK(desk[d])

\* A row of card_batch.
BatchRow == [first : Serials, last : Serials, status : BatchStatus]

\* Marking a batch changes its status and nothing else.
LEMMA MarkBatch ==
    ASSUME batches \in Seq(BatchRow), NEW b \in DOMAIN batches, NEW s \in BatchStatus,
           batches' = [batches EXCEPT ![b].status = s]
    PROVE  /\ batches' \in Seq(BatchRow)
           /\ DOMAIN batches' = DOMAIN batches
           /\ \A a \in DOMAIN batches : /\ batches'[a].first = batches[a].first
                                        /\ batches'[a].last = batches[a].last
                                        /\ batches'[a].status = IF a = b THEN s ELSE batches[a].status
<1>1. batches[b] \in BatchRow
    OBVIOUS
<1>2. [batches[b] EXCEPT !.status = s] \in BatchRow
    BY <1>1 DEF BatchRow
<1>3. batches' = [batches EXCEPT ![b] = [batches[b] EXCEPT !.status = s]]
    OBVIOUS
<1>4. batches' \in Seq(BatchRow) /\ DOMAIN batches' = DOMAIN batches
    BY <1>2, <1>3
<1>5. ASSUME NEW a \in DOMAIN batches
      PROVE  batches'[a] = IF a = b THEN [batches[b] EXCEPT !.status = s] ELSE batches[a]
    BY <1>3
<1> QED BY <1>1, <1>4, <1>5 DEF BatchRow

\* An empty shop satisfies the invariant.
LEMMA InitInv == Init => Inv
  BY CardStockAssumption
  DEF Init, Inv, TypeOK, OwnerOK, StockOK, VoidedOK, DeskOK, Idle, CardOps, ExportOps,
      CardStatus, BatchStatus

\* What every step keeps of the cards and the batches.
Progress ==
    /\ \A c \in Cards : owner[c] # None => owner'[c] = owner[c]
    /\ \A c \in Cards : status[c] # "NONE" => status'[c] # "NONE"
    /\ \A c \in Cards : status[c] \notin InStock => status'[c] \notin InStock
    /\ \A c \in Cards : status[c] = "VOID" => status'[c] = "VOID"
    /\ DOMAIN batches \subseteq DOMAIN batches'
    /\ \A b \in DOMAIN batches : /\ batches'[b].first = batches[b].first
                                 /\ batches'[b].last = batches[b].last

\* The types of the cards and the batches.
CardTypes ==
    /\ status \in [Cards -> CardStatus]
    /\ owner \in [Cards -> Customers \cup {None}]
    /\ replacedBy \in [Cards -> Cards \cup {None}]
    /\ batches \in Seq(BatchRow)
    /\ retired \in SUBSET Nat

DeskTypes ==
    desk \in [Desks -> [op   : {"idle"} \cup CardOps \cup ExportOps,
                        what : Cards \cup Nat \cup {None},
                        seen : CardStatus \cup BatchStatus]]

CardStep == CardTypes' /\ OwnerOK' /\ Progress

\* Printing a batch takes serials nobody uses.
LEMMA GenerateStep ==
    ASSUME Inv, NEW quantity \in Quantities, GenerateBatch(quantity)
    PROVE  CardStep /\ VoidedOK' /\ StockOK'
<1>1. PICK first \in Serials :
          /\ NextSerial(first)
          /\ first + quantity - 1 <= MaxSerial
          /\ status' = [c \in Cards |->
                          IF c \in first .. first + quantity - 1 THEN "PRINTED" ELSE status[c]]
          /\ batches' = Append(batches, [first  |-> first,
                                         last   |-> first + quantity - 1,
                                         status |-> "GENERATED"])
          /\ UNCHANGED <<owner, replacedBy, retired, desk>>
    BY DEF GenerateBatch
<1> DEFINE New == first .. first + quantity - 1
           last == first + quantity - 1
<1>2. /\ quantity \in Nat \ {0} /\ MaxSerial \in Nat
      /\ New \subseteq Serials /\ last \in Serials
      /\ \A c \in Cards : c \in New => status[c] = "NONE"
    BY <1>1, CardStockAssumption DEF Serials, NextSerial, InUse, Cards
<1>3. CardTypes'
  <2>1. status' \in [Cards -> CardStatus]
      BY <1>1 DEF Inv, TypeOK, CardStatus
  <2>2. [first |-> first, last |-> last, status |-> "GENERATED"] \in BatchRow
      BY <1>1, <1>2 DEF BatchRow, BatchStatus
  <2> QED BY <1>1, <2>1, <2>2 DEF CardTypes, Inv, TypeOK, BatchRow
<1>4. OwnerOK'
    BY <1>1, <1>2 DEF OwnerOK, Inv
<1>5. /\ DOMAIN batches' = DOMAIN batches \cup {Len(batches) + 1}
      /\ \A b \in DOMAIN batches : b # Len(batches) + 1 /\ batches'[b] = batches[b]
      /\ batches'[Len(batches) + 1] = [first |-> first, last |-> last, status |-> "GENERATED"]
    BY <1>1 DEF Inv, TypeOK
<1>6. Progress
    BY <1>1, <1>2, <1>5 DEF Progress, InStock, Inv, TypeOK
<1>7. StockOK'
  <2> SUFFICES ASSUME NEW b \in DOMAIN batches', NEW s \in Printed(b)'
               PROVE  s \in Serials /\ status'[s] # "NONE"
      BY DEF StockOK
  <2>1. CASE b \in DOMAIN batches
      BY <1>1, <1>5, <2>1 DEF Printed, StockOK, Inv, Cards
  <2>2. CASE b = Len(batches) + 1
      BY <1>1, <1>2, <1>5, <2>2 DEF Printed, Cards
  <2> QED BY <1>5, <2>1, <2>2
<1>8. VoidedOK'
  <2> SUFFICES ASSUME NEW b \in retired, NEW s \in Printed(b)'
               PROVE  status'[s] # "PRINTED"
    <3>1. retired' = retired /\ retired \subseteq DOMAIN batches'
        BY <1>1, <1>5 DEF Inv, VoidedOK
    <3> QED BY <3>1 DEF VoidedOK
  <2>1. b \in DOMAIN batches /\ s \in Printed(b)
      BY <1>5 DEF Printed, Inv, VoidedOK
  <2>2. s \in Serials /\ status[s] # "NONE" /\ status[s] # "PRINTED"
      BY <1>5, <2>1 DEF Inv, StockOK, VoidedOK
  <2> QED BY <1>1, <1>2, <1>5, <2>1, <2>2 DEF Cards
<1> QED BY <1>3, <1>4, <1>6, <1>7, <1>8 DEF CardStep

\* Voiding a batch takes its blanks, and only those, out of the stock.
LEMMA VoidBatchStep ==
    ASSUME Inv, NEW b \in DOMAIN batches, VoidBatch(b)
    PROVE  CardStep /\ VoidedOK' /\ StockOK'
<1>1. status' \in [Cards -> CardStatus]
    BY DEF VoidBatch, Inv, TypeOK, CardStatus
<1>2. /\ batches' \in Seq(BatchRow)
      /\ DOMAIN batches' = DOMAIN batches
      /\ \A a \in DOMAIN batches :
            /\ batches'[a].first = batches[a].first
            /\ batches'[a].last = batches[a].last
            /\ batches'[a].status = IF a = b THEN "RETIRED" ELSE batches[a].status
  <2>1. batches \in Seq(BatchRow) /\ "RETIRED" \in BatchStatus
      BY DEF Inv, TypeOK, BatchRow, BatchStatus
  <2> QED BY <2>1, MarkBatch DEF VoidBatch
<1>3. \A c \in Cards : status'[c] = status[c] \/ (status[c] = "PRINTED" /\ status'[c] = "VOID")
    BY DEF VoidBatch
<1>4. \A c \in Printed(b) : c \in Cards => status'[c] # "PRINTED"
    BY DEF VoidBatch
<1>5. OwnerOK'
    BY <1>3 DEF OwnerOK, Inv, VoidBatch
<1>6. Progress
    BY <1>2, <1>3 DEF Progress, InStock, VoidBatch
<1>7. StockOK'
    BY <1>2, <1>3 DEF StockOK, Inv, Printed, Cards
<1>8. VoidedOK'
    BY <1>2, <1>3, <1>4 DEF VoidBatch, VoidedOK, StockOK, Inv, Printed, Cards
<1>9. retired' \in SUBSET Nat
    BY DEF VoidBatch, Inv, TypeOK
<1> QED BY <1>1, <1>2, <1>9, <1>5, <1>6, <1>7, <1>8 DEF CardStep, CardTypes, VoidBatch, Inv, TypeOK

\* An operation on cards that leaves the batches and the stock's numbers alone
\* leaves every batch as dead as it was, if it puts no card back in the stock.
LEMMA BatchesRest ==
    ASSUME Inv, CardStep, UNCHANGED batchVars,
           \A c \in Cards : status'[c] = "PRINTED" => status[c] = "PRINTED"
    PROVE  VoidedOK' /\ StockOK'
  BY DEF Inv, CardStep, Progress, VoidedOK, StockOK, Printed, Cards, batchVars

\* Handing out a card takes it from nobody.
LEMMA RegisterStep ==
    ASSUME Inv, NEW k \in Customers, NEW c \in Cards, Register(k, c)
    PROVE  CardStep /\ VoidedOK' /\ StockOK'
<1>1. /\ status[c] \in InStock /\ owner[c] = None
      /\ \A e \in Cards : e # c => status'[e] = status[e] /\ owner'[e] = owner[e]
      /\ status'[c] = "ASSIGNED" /\ owner'[c] = k
      /\ UNCHANGED <<replacedBy, batchVars>>
    BY DEF Register, Blank, Mintable, InStock, Inv, TypeOK, OwnerOK
<1>2. CardTypes'
    BY <1>1 DEF Register, batchVars, CardTypes, Inv, TypeOK, CardStatus, BatchRow
<1>3. OwnerOK'
    BY <1>1, CardStockAssumption DEF OwnerOK, Inv
<1>4. Progress
    BY <1>1 DEF Progress, InStock, batchVars
<1>5. CardStep
    BY <1>2, <1>3, <1>4 DEF CardStep
<1> QED BY <1>1, <1>5, BatchesRest

\* The conditional moves and the unconditional restore: a card out of the stock
\* stays out of it and keeps its owner.
LEMMA OneCardStep ==
    ASSUME Inv, NEW c \in Cards, NEW new \in {"LOST", "VOID", "ASSIGNED"},
           status' = [status EXCEPT ![c] = new],
           IF new = "VOID" THEN status[c] = "PRINTED" ELSE owner[c] # None,
           UNCHANGED <<owner, replacedBy, batchVars>>
    PROVE  CardStep /\ VoidedOK' /\ StockOK'
<1>1. /\ \A e \in Cards : e # c => status'[e] = status[e]
      /\ status'[c] = new
    BY DEF Inv, TypeOK
<1>2. CardTypes'
    BY DEF CardTypes, Inv, TypeOK, CardStatus, BatchRow, batchVars
<1>3. OwnerOK'
    BY <1>1 DEF OwnerOK, Inv
<1>4. Progress
    BY <1>1 DEF Progress, InStock, Inv, OwnerOK, batchVars
<1>5. CardStep
    BY <1>2, <1>3, <1>4 DEF CardStep
<1> QED BY <1>1, <1>5, BatchesRest

\* Replacing hands n over in c's place.
LEMMA ReplaceShape ==
    ASSUME Inv, NEW d \in Desks, NEW n \in Cards, Replace(d, n)
    PROVE  /\ desk[d].what \in Cards /\ desk[d].what # n
           /\ status[desk[d].what] \in {"ASSIGNED", "LOST"}
           /\ owner[desk[d].what] \in Customers
           /\ status[n] \in InStock /\ owner[n] = None
           /\ status'[desk[d].what] = "REPLACED" /\ status'[n] = "ASSIGNED"
           /\ owner'[n] = owner[desk[d].what]
           /\ replacedBy'[desk[d].what] = n
           /\ \A e \in Cards \ {n} : owner'[e] = owner[e]
           /\ \A e \in Cards \ {n, desk[d].what} : status'[e] = status[e]
           /\ \A e \in Cards \ {desk[d].what} : replacedBy'[e] = replacedBy[e]
           /\ UNCHANGED batchVars
<1>1. /\ desk[d].what \in Cards /\ owner[desk[d].what] \in Customers
      /\ status[desk[d].what] \in {"ASSIGNED", "LOST"}
    BY DEF Replace, Inv, DeskOK, CardOps, Acceptable
<1>2. status[n] \in InStock /\ owner[n] = None
    BY DEF Replace, Blank, Mintable, InStock, Inv, TypeOK, OwnerOK
<1>3. desk[d].what # n
    BY <1>1, <1>2 DEF InStock
<1> QED BY <1>1, <1>2, <1>3 DEF Replace, Inv, TypeOK

\* A replacement retires one card and hands out a blank one.
LEMMA ReplaceStep ==
    ASSUME Inv, NEW d \in Desks, NEW n \in Cards, Replace(d, n)
    PROVE  CardStep /\ VoidedOK' /\ StockOK'
<1>1. CardTypes'
    BY ReplaceShape DEF Replace, CardTypes, Inv, TypeOK, CardStatus, BatchRow, batchVars
<1>2. OwnerOK'
    BY ReplaceShape, CardStockAssumption DEF OwnerOK, Inv
<1>3. Progress
    BY ReplaceShape DEF Progress, InStock, batchVars
<1>4. CardStep
    BY <1>1, <1>2, <1>3 DEF CardStep
<1> QED BY <1>4, ReplaceShape, BatchesRest

\* An export writes back a status the batch had, or marks a new one exported: the
\* cards, and what was voided, it leaves alone.
LEMMA ExportStep ==
    ASSUME Inv, NEW d \in Desks, Export(d)
    PROVE  CardStep /\ VoidedOK' /\ StockOK'
<1> DEFINE b == desk[d].what
           s == IF desk[d].op = "export" /\ desk[d].seen = "GENERATED"
                THEN "EXPORTED" ELSE desk[d].seen
<1>1. /\ b \in DOMAIN batches /\ s \in BatchStatus
      /\ batches' = [batches EXCEPT ![b].status = s]
      /\ UNCHANGED <<cardVars, retired>>
    BY DEF Export, Inv, DeskOK, BatchStatus
<1>2. /\ batches' \in Seq(BatchRow)
      /\ DOMAIN batches' = DOMAIN batches
      /\ \A a \in DOMAIN batches : /\ batches'[a].first = batches[a].first
                                   /\ batches'[a].last = batches[a].last
                                   /\ batches'[a].status = IF a = b THEN s ELSE batches[a].status
  <2>1. batches \in Seq(BatchRow)
      BY DEF Inv, TypeOK, BatchRow
  <2> HIDE DEF b, s
  <2> QED BY <1>1, <2>1, MarkBatch
<1> HIDE DEF b, s
<1>3. CardStep
    BY <1>1, <1>2 DEF CardStep, CardTypes, Progress, OwnerOK, Inv, TypeOK, cardVars
<1>4. StockOK'
    BY <1>1, <1>2 DEF StockOK, Printed, Inv, cardVars
<1>5. VoidedOK'
    BY <1>1, <1>2 DEF VoidedOK, Printed, Inv, cardVars
<1> QED BY <1>3, <1>4, <1>5

\* A step that touches neither cards nor batches.
LEMMA QuietStep ==
    ASSUME Inv, UNCHANGED <<cardVars, batchVars>>
    PROVE  CardStep /\ VoidedOK' /\ StockOK'
  BY DEF CardStep, CardTypes, Progress, OwnerOK, VoidedOK, StockOK, Printed, Inv, TypeOK,
         BatchRow, cardVars, batchVars

\* Every step makes the card table and the batches progress.
LEMMA EveryCardStep == Inv /\ [Next]_vars => CardStep /\ VoidedOK' /\ StockOK'
<1> SUFFICES ASSUME Inv, [Next]_vars PROVE CardStep /\ VoidedOK' /\ StockOK'
    OBVIOUS
<1>1. CASE UNCHANGED vars
    BY <1>1, QuietStep DEF vars
<1>2. ASSUME NEW d \in Desks, AtOnce(d)
      PROVE  CardStep /\ VoidedOK' /\ StockOK'
    BY <1>2, GenerateStep, VoidBatchStep, RegisterStep DEF AtOnce
<1>3. ASSUME NEW d \in Desks, Lifecycle(d)
      PROVE  CardStep /\ VoidedOK' /\ StockOK'
  <2>1. CASE ReportLost(d)
    <3>1. desk[d].what \in Cards /\ owner[desk[d].what] # None
        BY <2>1, CardStockAssumption DEF ReportLost, Move, Inv, DeskOK, CardOps
    <3> QED BY <2>1, <3>1, OneCardStep DEF ReportLost, Move
  <2>2. CASE VoidCard(d)
    <3>1. desk[d].what \in Cards /\ status[desk[d].what] = "PRINTED"
        BY <2>2 DEF VoidCard, Move, Inv, DeskOK, CardOps, Acceptable
    <3> QED BY <2>2, <3>1, OneCardStep DEF VoidCard, Move
  <2>3. CASE Restore(d)
    <3>1. desk[d].what \in Cards /\ owner[desk[d].what] # None
        BY <2>3, CardStockAssumption DEF Restore, Inv, DeskOK, CardOps
    <3> QED BY <2>3, <3>1, OneCardStep DEF Restore
  <2>4. CASE Export(d)
      BY <2>4, ExportStep
  <2>5. ASSUME NEW n \in Cards, Replace(d, n)
        PROVE  CardStep /\ VoidedOK' /\ StockOK'
      BY <2>5, ReplaceStep
  <2>6. CASE UNCHANGED <<cardVars, batchVars>>
      BY <2>6, QuietStep
  <2> QED BY <1>3, <2>1, <2>2, <2>3, <2>4, <2>5, <2>6
          DEF Lifecycle, Begin, BeginExport, GiveUp
<1> QED BY <1>1, <1>2, <1>3 DEF Next

\* What a desk has read stays as true as DeskOK says while others act.
LEMMA DeskKept ==
    ASSUME Inv, CardStep, VoidedOK', NEW d \in Desks
    PROVE  DeskOK(desk[d])'  \/ desk'[d] # desk[d]
<1> SUFFICES ASSUME desk'[d] = desk[d] PROVE DeskOK(desk[d])'
    OBVIOUS
<1>1. desk[d].op \in CardOps \ {"void"} => owner'[desk[d].what] = owner[desk[d].what]
    BY CardStockAssumption DEF Inv, DeskOK, CardStep, Progress
<1> QED BY <1>1 DEF Inv, DeskOK, CardStep, Progress, Acceptable

\* What every desk has read stays usable through every step.
LEMMA DeskStep ==
    Inv /\ [Next]_vars /\ CardStep /\ VoidedOK' =>
        DeskTypes' /\ \A d \in Desks : DeskOK(desk[d])'
<1> SUFFICES ASSUME Inv, [Next]_vars, CardStep, VoidedOK'
             PROVE  DeskTypes' /\ \A d \in Desks : DeskOK(desk[d])'
    OBVIOUS
<1>0. DeskTypes
    BY DEF DeskTypes, Inv, TypeOK
<1>1. CASE UNCHANGED desk
    BY <1>0, <1>1, DeskKept DEF DeskTypes
<1>2. ASSUME NEW d \in Desks, Done(d)
      PROVE  DeskTypes' /\ \A e \in Desks : DeskOK(desk[e])'
  <2>1. DeskTypes'
      BY <1>0, <1>2 DEF DeskTypes, Done, Idle, CardStatus
  <2>2. DeskOK(desk[d])'
      BY <1>0, <1>2 DEF DeskTypes, DeskOK, Done, Idle, CardOps, ExportOps
  <2>3. \A e \in Desks : e # d => desk'[e] = desk[e]
      BY <1>0, <1>2 DEF DeskTypes, Done
  <2> QED BY <2>1, <2>2, <2>3, DeskKept
<1>3. ASSUME NEW d \in Desks, NEW op \in CardOps, NEW c \in Cards, Begin(d, op, c)
      PROVE  DeskTypes' /\ \A e \in Desks : DeskOK(desk[e])'
  <2>1. status[c] \in CardStatus /\ status[c] \in Acceptable(op)
      BY <1>3 DEF Begin, Inv, TypeOK
  <2>2. /\ DeskTypes'
        /\ desk'[d] = [op |-> op, what |-> c, seen |-> status[c]]
        /\ \A e \in Desks : e # d => desk'[e] = desk[e]
      BY <1>0, <1>3, <2>1 DEF DeskTypes, Begin
  <2>3. op # "void" => owner'[c] \in Customers
      BY <1>3, <2>1 DEF Begin, Acceptable, CardOps, Inv, OwnerOK, TypeOK, cardVars
  <2>4. DeskOK(desk[d])'
      BY <2>1, <2>2, <2>3 DEF DeskOK, CardOps, ExportOps, Acceptable
  <2> QED BY <2>2, <2>4, DeskKept
<1>4. ASSUME NEW d \in Desks, NEW op \in ExportOps, NEW b \in DOMAIN batches, BeginExport(d, op, b)
      PROVE  DeskTypes' /\ \A e \in Desks : DeskOK(desk[e])'
  <2>1. b \in Nat /\ batches[b].status \in BatchStatus
    <3>1. batches \in Seq(BatchRow)
        BY DEF Inv, TypeOK, BatchRow
    <3>2. b \in Nat /\ batches[b] \in BatchRow
        BY <1>4, <3>1
    <3> QED BY <3>2 DEF BatchRow
  <2>2. /\ DeskTypes'
        /\ desk'[d] = [op |-> op, what |-> b, seen |-> batches[b].status]
        /\ \A e \in Desks : e # d => desk'[e] = desk[e]
      BY <1>0, <1>4, <2>1 DEF DeskTypes, BeginExport
  <2>4. DeskOK(desk[d])'
      BY <1>4, <2>1, <2>2 DEF DeskOK, BeginExport, CardOps, ExportOps, batchVars
  <2> QED BY <2>2, <2>4, DeskKept
<1> QED BY <1>1, <1>2, <1>3, <1>4
        DEF Next, AtOnce, GenerateBatch, VoidBatch, Register, Lifecycle, ReportLost, VoidCard, Move,
            Restore, Export, GiveUp, Replace, vars

\* The invariant is inductive.
LEMMA InvStep == Inv /\ [Next]_vars => Inv'
<1> SUFFICES ASSUME Inv, [Next]_vars PROVE Inv'
    OBVIOUS
<1>1. CardStep /\ VoidedOK' /\ StockOK'
    BY EveryCardStep
<1>2. DeskTypes' /\ \A d \in Desks : DeskOK(desk[d])'
    BY <1>1, DeskStep
<1>3. TypeOK'
    BY <1>1, <1>2 DEF CardStep, CardTypes, DeskTypes, TypeOK, BatchRow
<1> QED BY <1>1, <1>2, <1>3 DEF Inv, CardStep

\* The invariant holds for ever, whatever the interleaving.
LEMMA Invariant == Spec => []Inv
  BY InitInv, InvStep, PTL DEF Spec

\* Cards, batches and desks keep their types; no batch passes the ceiling.
THEOREM StockTypes == Spec => []TypeOK
<1>1. Inv => TypeOK BY DEF Inv
<1> QED BY <1>1, Invariant, PTL

\* A step gives no card of a voided batch to anybody who has none: out of the stock
\* and with no owner, it is void, and a void card stays void.
LEMMA VoidedStep ==
    ASSUME Inv, [Next]_vars, NEW b \in retired, NEW s \in Printed(b)
    PROVE  status'[s] # "PRINTED" /\ (owner[s] = None => owner'[s] = None)
<1>1. CardStep
    BY EveryCardStep
<1>2. s \in Cards /\ status[s] \notin InStock /\ status[s] \in CardStatus
    BY DEF Inv, VoidedOK, StockOK, InStock, Cards, TypeOK
<1>3. status'[s] \notin InStock
    BY <1>1, <1>2 DEF CardStep, Progress
<1>4. ASSUME owner[s] = None PROVE owner'[s] = None
  <2>1. status[s] = "VOID"
      BY <1>2, <1>4 DEF Inv, OwnerOK, InStock, CardStatus
  <2>2. status'[s] = "VOID"
      BY <1>1, <1>2, <2>1 DEF CardStep, Progress
  <2> QED BY <1>1, <1>2, <2>2 DEF CardStep, OwnerOK
<1> QED BY <1>3, <1>4 DEF InStock

\* No operator, however late, prints or hands out a card of a batch that was ever
\* voided because its numbers leaked, whatever status its row has come to show.
THEOREM RetiredStaysDead == Spec => RetiredBatchIsDead
<1>1. Inv /\ [Next]_vars =>
          [\A b \in retired : \A s \in Printed(b) :
              /\ status'[s] # "PRINTED"
              /\ owner[s] = None => owner'[s] = None]_vars
    BY VoidedStep
<1> QED BY <1>1, Invariant, PTL DEF Spec, RetiredBatchIsDead

(***************************************************************************)
(* The cards in customers' hands.                                          *)
(***************************************************************************)
\* Stock is printed and voided; nobody's card changes.
StockOnly ==
    /\ UNCHANGED <<owner, replacedBy>>
    /\ \A c \in Cards : \/ status'[c] = status[c]
                        \/ owner[c] = None /\ status[c] \in InStock /\ status'[c] \in {"PRINTED", "VOID"}

\* The steps that move a card in somebody's hand, and the rest.
LEMMA CardMoves ==
    Inv /\ [Next]_vars =>
        \/ \E d \in Desks, n \in Cards : Replace(d, n)
        \/ \E k \in Customers, c \in Cards : Register(k, c)
        \/ \E d \in Desks : Restore(d) \/ ReportLost(d)
        \/ StockOnly
<1> SUFFICES ASSUME Inv, [Next]_vars,
                    ~ \E d \in Desks, n \in Cards : Replace(d, n),
                    ~ \E k \in Customers, c \in Cards : Register(k, c),
                    ~ \E d \in Desks : Restore(d) \/ ReportLost(d)
             PROVE  StockOnly
    OBVIOUS
<1>1. ASSUME NEW quantity \in Quantities, GenerateBatch(quantity) PROVE StockOnly
  <2>1. CardStep /\ UNCHANGED <<owner, replacedBy>>
      BY <1>1, GenerateStep DEF GenerateBatch
  <2>2. \A c \in Cards : status'[c] = status[c] \/ (status[c] = "NONE" /\ status'[c] = "PRINTED")
    <3>1. PICK first \in Serials :
              /\ NextSerial(first)
              /\ status' = [c \in Cards |->
                              IF c \in first .. first + quantity - 1 THEN "PRINTED" ELSE status[c]]
              /\ first + quantity - 1 <= MaxSerial
        BY <1>1 DEF GenerateBatch
    <3>2. \A c \in Cards : c \in first .. first + quantity - 1 => status[c] = "NONE"
        BY <3>1, CardStockAssumption DEF Serials, NextSerial, InUse, Cards
    <3> QED BY <3>1, <3>2
  <2> QED BY <2>1, <2>2 DEF StockOnly, InStock, Inv, OwnerOK
<1>2. ASSUME NEW b \in DOMAIN batches, VoidBatch(b) PROVE StockOnly
    BY <1>2 DEF VoidBatch, StockOnly, InStock, Inv, OwnerOK
<1>3. ASSUME NEW d \in Desks, VoidCard(d) PROVE StockOnly
  <2>1. /\ desk[d].what \in Cards /\ status[desk[d].what] = "PRINTED"
        /\ status' = [status EXCEPT ![desk[d].what] = "VOID"]
        /\ UNCHANGED <<owner, replacedBy>>
      BY <1>3 DEF VoidCard, Move, Inv, DeskOK, CardOps, Acceptable
  <2>2. owner[desk[d].what] = None
      BY <2>1 DEF Inv, OwnerOK
  <2> QED BY <2>1, <2>2 DEF StockOnly, InStock, Inv, TypeOK
<1>4. CASE UNCHANGED cardVars
    BY <1>4 DEF StockOnly, cardVars
<1> QED BY <1>1, <1>2, <1>3, <1>4
        DEF Next, AtOnce, Lifecycle, Begin, BeginExport, Export, GiveUp, vars

OneWorks == \A c, e \in Cards :
    owner[c] = owner[e] /\ status[c] = "ASSIGNED" /\ status[e] = "ASSIGNED" => c = e

\* replacedBy points from cards somebody holds to cards handed out later.
Linked ==
    /\ \A c \in Cards : status[c] = "REPLACED" => replacedBy[c] # None
    /\ \A c \in Cards : replacedBy[c] # None =>
          /\ status[c] \notin InStock
          /\ status[replacedBy[c]] \notin InStock
          /\ owner[replacedBy[c]] = owner[c]
    /\ \A c, e \in Cards : replacedBy[c] = replacedBy[e] /\ replacedBy[c] # None => c = e

Loop(S) ==
    /\ S # {}
    /\ \A c \in S : status[c] = "REPLACED" /\ replacedBy[c] \in S \cup {None}

NoLoop == ~ \E S \in SUBSET Cards : Loop(S)

HandsInv == Inv /\ OneWorks /\ Linked /\ NoLoop /\ NobodyIsStranded

\* What Restore and ReportLost do to the card they name.
LEMMA MoveShape ==
    ASSUME Inv, NEW d \in Desks, Restore(d) \/ ReportLost(d)
    PROVE  LET c == desk[d].what IN
           /\ c \in Cards /\ owner[c] \in Customers
           /\ UNCHANGED <<owner, replacedBy>>
           /\ \A e \in Cards : e # c => status'[e] = status[e]
           /\ \/ Restore(d) /\ status'[c] = "ASSIGNED" /\ NoOtherWorks(owner[c], c)
              \/ ReportLost(d) /\ status'[c] = "LOST" /\ status[c] = "ASSIGNED"
  BY DEF Restore, ReportLost, Move, Inv, DeskOK, CardOps, Acceptable, TypeOK

\* Two working cards never come to one customer.
LEMMA OneWorksStep == HandsInv /\ [Next]_vars => OneWorks'
<1> SUFFICES ASSUME HandsInv, [Next]_vars PROVE OneWorks'
    OBVIOUS
<1>1. ASSUME NEW d \in Desks, NEW n \in Cards, Replace(d, n) PROVE OneWorks'
  <2>1. NoOtherWorks(owner[desk[d].what], desk[d].what)
      BY <1>1 DEF Replace
  <2> QED BY <1>1, <2>1, ReplaceShape DEF HandsInv, OneWorks, NoOtherWorks
<1>2. ASSUME NEW k \in Customers, NEW c \in Cards, Register(k, c) PROVE OneWorks'
    BY <1>2 DEF Register, Registered, HandsInv, OneWorks, Inv, TypeOK
<1>3. ASSUME NEW d \in Desks, Restore(d) \/ ReportLost(d) PROVE OneWorks'
    BY <1>3, MoveShape DEF HandsInv, OneWorks, NoOtherWorks
<1>4. CASE StockOnly
    BY <1>4 DEF StockOnly, HandsInv, OneWorks
<1> QED BY <1>1, <1>2, <1>3, <1>4, CardMoves DEF HandsInv

\* Only Replace draws a link, and it draws it to a card that had none.
LEMMA LinkedStep == HandsInv /\ [Next]_vars => Linked'
<1> SUFFICES ASSUME HandsInv, [Next]_vars PROVE Linked'
    OBVIOUS
<1>0. /\ \A c \in Cards : replacedBy[c] \in Cards \cup {None}
      /\ None \notin Cards
    BY CardStockAssumption DEF HandsInv, Inv, TypeOK
<1>1. ASSUME NEW d \in Desks, NEW n \in Cards, Replace(d, n) PROVE Linked'
    BY <1>0, <1>1, ReplaceShape DEF HandsInv, Linked, InStock
<1>2. ASSUME NEW k \in Customers, NEW c \in Cards, Register(k, c) PROVE Linked'
  <2>1. /\ status[c] \in InStock /\ status'[c] = "ASSIGNED"
        /\ \A e \in Cards : e # c => status'[e] = status[e] /\ owner'[e] = owner[e]
        /\ UNCHANGED replacedBy
      BY <1>2 DEF Register, Blank, Mintable, InStock, HandsInv, Inv, TypeOK
  <2> QED BY <1>0, <2>1 DEF HandsInv, Linked, InStock
<1>3. ASSUME NEW d \in Desks, Restore(d) \/ ReportLost(d) PROVE Linked'
    BY <1>0, <1>3, MoveShape DEF HandsInv, Linked, InStock
<1>4. CASE StockOnly
    BY <1>0, <1>4 DEF StockOnly, HandsInv, Linked, InStock
<1> QED BY <1>1, <1>2, <1>3, <1>4, CardMoves DEF HandsInv

\* A loop after a step was a loop before it: a card just handed out is not
\* dead, so nothing that leads to it is in a loop, and nothing else is relinked.
LEMMA NoLoopStep == HandsInv /\ [Next]_vars => NoLoop'
<1> SUFFICES ASSUME HandsInv, [Next]_vars, NEW S \in SUBSET Cards, Loop(S)' PROVE Loop(S)
    BY DEF HandsInv, NoLoop
<1>0. /\ S # {}
      /\ \A c \in S : status'[c] = "REPLACED" /\ replacedBy'[c] \in S \cup {None}
      /\ None \notin Cards
    BY CardStockAssumption DEF Loop
<1>1. ASSUME NEW d \in Desks, NEW n \in Cards, Replace(d, n) PROVE Loop(S)
  <2>1. n \notin S
      BY <1>0, <1>1, ReplaceShape DEF HandsInv
  <2>2. desk[d].what \notin S
      BY <1>0, <1>1, <2>1, ReplaceShape DEF HandsInv
  <2> QED BY <1>0, <1>1, <2>1, <2>2, ReplaceShape DEF HandsInv, Loop
<1>2. ASSUME NEW k \in Customers, NEW c \in Cards, Register(k, c) PROVE Loop(S)
    BY <1>0, <1>2 DEF Register, HandsInv, Inv, TypeOK, Loop
<1>3. ASSUME NEW d \in Desks, Restore(d) \/ ReportLost(d) PROVE Loop(S)
    BY <1>0, <1>3, MoveShape DEF HandsInv, Loop
<1>4. CASE StockOnly
    BY <1>0, <1>4 DEF StockOnly, Loop
<1> QED BY <1>1, <1>2, <1>3, <1>4, CardMoves DEF HandsInv

\* A customer's last current card is never taken without another being given.
LEMMA StrandedStep == HandsInv /\ [Next]_vars => NobodyIsStranded'
<1> SUFFICES ASSUME HandsInv, [Next]_vars, NEW k \in Customers, Registered(k)' PROVE Current(k)' # {}
    BY DEF NobodyIsStranded
<1>0. Registered(k) => \E c \in Cards : owner[c] = k /\ status[c] \in {"ASSIGNED", "LOST"}
    BY DEF HandsInv, NobodyIsStranded, Current
<1>1. ASSUME NEW d \in Desks, NEW n \in Cards, Replace(d, n) PROVE Current(k)' # {}
  <2>1. CASE owner[desk[d].what] = k
      BY <1>1, <2>1, ReplaceShape DEF HandsInv, Current
  <2>2. CASE owner[desk[d].what] # k
    <3>1. Registered(k)
        BY <1>1, <2>2, ReplaceShape DEF HandsInv, Registered
    <3> QED BY <1>0, <1>1, <2>2, <3>1, ReplaceShape, CardStockAssumption DEF HandsInv, Current
  <2> QED BY <2>1, <2>2
<1>2. ASSUME NEW j \in Customers, NEW c \in Cards, Register(j, c) PROVE Current(k)' # {}
  <2>1. /\ owner[c] = None /\ owner'[c] = j /\ status'[c] = "ASSIGNED"
        /\ \A e \in Cards : e # c => status'[e] = status[e] /\ owner'[e] = owner[e]
      BY <1>2 DEF Register, Blank, Mintable, HandsInv, Inv, TypeOK, OwnerOK
  <2> QED BY <1>0, <2>1, CardStockAssumption DEF Current, Registered
<1>3. ASSUME NEW d \in Desks, Restore(d) \/ ReportLost(d) PROVE Current(k)' # {}
  <2>1. Registered(k)
      BY <1>3, MoveShape DEF HandsInv, Registered
  <2> QED BY <1>0, <1>3, <2>1, MoveShape DEF HandsInv, Current
<1>4. CASE StockOnly
  <2>1. Registered(k)
      BY <1>4 DEF StockOnly, Registered
  <2> QED BY <1>0, <1>4, <2>1, CardStockAssumption DEF StockOnly, Current
<1> QED BY <1>1, <1>2, <1>3, <1>4, CardMoves DEF HandsInv

\* The invariant of the cards in customers' hands holds for ever.
LEMMA HandsInvariant == Spec => []HandsInv
<1>1. Init => HandsInv
    BY InitInv, CardStockAssumption
    DEF Init, HandsInv, OneWorks, Linked, NoLoop, Loop, NobodyIsStranded, Registered
<1>2. HandsInv /\ [Next]_vars => HandsInv'
    BY InvStep, OneWorksStep, LinkedStep, NoLoopStep, StrandedStep DEF HandsInv
<1> QED BY <1>1, <1>2, PTL DEF Spec

\* The table's own constraints are never what stops an operator.
THEOREM ConstraintsNeverFire == Spec => []ConstraintsHold
<1>1. HandsInv => ConstraintsHold BY DEF HandsInv, Inv, OwnerOK, Linked, ConstraintsHold
<1> QED BY <1>1, HandsInvariant, PTL

\* However operators race, every registered customer keeps a current card.
THEOREM CustomersKeepACard == Spec => []NobodyIsStranded
<1>1. HandsInv => NobodyIsStranded BY DEF HandsInv
<1> QED BY <1>1, HandsInvariant, PTL

\* A dead card leads, link by link, to a card of its customer that is not dead.
THEOREM ReplacementsLeadHome == Spec => []DeadCardsLeadHome
<1>1. HandsInv => DeadCardsLeadHome
    BY DEF HandsInv, Linked, NoLoop, Loop, DeadCardsLeadHome
<1> QED BY <1>1, HandsInvariant, PTL

(***************************************************************************)
(* The registry.                                                           *)
(***************************************************************************)
Works(k) == {c \in Cards : owner[c] = k /\ status[c] = "ASSIGNED"}

\* Every step of the service is a registry step, or invisible to it.
LEMMA RegistryStep == HandsInv /\ [Next]_vars => [Registry!Next]_(Registry!registryVars)
<1> SUFFICES ASSUME HandsInv, [Next]_vars PROVE [Registry!Next]_(Registry!registryVars)
    OBVIOUS
<1> DEFINE working == [k \in Customers |-> Works(k)]
<1>0. ASSUME NEW k \in Customers, NEW W, Works(k)' = W,
             \A j \in Customers : j # k => Works(j)' = Works(j)
      PROVE  working' = [working EXCEPT ![k] = W]
    BY <1>0
<1>1. ASSUME NEW d \in Desks, NEW n \in Cards, Replace(d, n) PROVE Registry!Next
  <2> SUFFICES ASSUME NEW c \in Cards, c = desk[d].what, NEW k \in Customers, k = owner[c]
               PROVE  Registry!Next
      BY <1>1, ReplaceShape DEF HandsInv
  <2>1. owner[n] = None /\ owner' = [owner EXCEPT ![n] = k]
      BY <1>1, ReplaceShape DEF HandsInv, Replace
  <2>2. Works(k)' = {n}
    <3>1. \A e \in Cards : e # c /\ owner[e] = k => status[e] # "ASSIGNED"
        BY <1>1 DEF Replace, NoOtherWorks
    <3>2. /\ owner'[n] = k /\ status'[n] = "ASSIGNED" /\ status'[c] = "REPLACED"
          /\ \A e \in Cards \ {n, c} : owner'[e] = owner[e] /\ status'[e] = status[e]
        BY <1>1, ReplaceShape DEF HandsInv
    <3> QED BY <3>1, <3>2 DEF Works
  <2>3. \A j \in Customers : j # k => Works(j)' = Works(j)
      BY <1>1, <2>1, ReplaceShape, CardStockAssumption DEF HandsInv, Works
  <2>4. working' = [working EXCEPT ![k] = {n}]
      BY <1>0, <2>1, <2>2, <2>3
  <2> QED BY <2>1, <2>4 DEF Registry!Next, Registry!Hand, Works
<1>2. ASSUME NEW k \in Customers, NEW c \in Cards, Register(k, c) PROVE Registry!Next
  <2>1. /\ owner[c] = None /\ owner' = [owner EXCEPT ![c] = k] /\ status'[c] = "ASSIGNED"
        /\ \A e \in Cards : owner[e] # k
        /\ \A e \in Cards : e # c => status'[e] = status[e] /\ owner'[e] = owner[e]
        /\ owner'[c] = k
      BY <1>2 DEF Register, Registered, Blank, Mintable, HandsInv, Inv, TypeOK, OwnerOK
  <2>2. Works(k)' = {c}
      BY <2>1 DEF Works
  <2>3. \A j \in Customers : j # k => Works(j)' = Works(j)
      BY <2>1, CardStockAssumption DEF Works
  <2>4. working' = [working EXCEPT ![k] = {c}]
      BY <1>0, <2>2, <2>3
  <2> QED BY <2>1, <2>4 DEF Registry!Next, Registry!Hand, Works
<1>3. ASSUME NEW d \in Desks, Restore(d) \/ ReportLost(d)
      PROVE  Registry!Next \/ UNCHANGED Registry!registryVars
  <2> SUFFICES ASSUME NEW c \in Cards, c = desk[d].what, NEW k \in Customers, k = owner[c]
               PROVE  Registry!Next \/ UNCHANGED Registry!registryVars
      BY <1>3, MoveShape DEF HandsInv
  <2>1. UNCHANGED owner /\ \A e \in Cards : e # c => status'[e] = status[e]
      BY <1>3, MoveShape DEF HandsInv
  <2>2. \A j \in Customers : j # k => Works(j)' = Works(j)
      BY <2>1 DEF Works
  <2>3. CASE status[c] = "ASSIGNED" /\ status'[c] = "ASSIGNED"
    <3>1. \A j \in Customers : Works(j)' = Works(j)
        BY <2>1, <2>3 DEF Works
    <3> QED BY <2>1, <3>1 DEF Registry!registryVars, Works
  <2>4. CASE status[c] # "ASSIGNED" /\ status'[c] = "ASSIGNED"
    <3>1. NoOtherWorks(k, c)
        BY <1>3, <2>4, MoveShape DEF HandsInv
    <3>2. Works(k) = {} /\ Works(k)' = {c}
        BY <2>1, <2>4, <3>1 DEF Works, NoOtherWorks
    <3>3. working' = [working EXCEPT ![k] = {c}] /\ working[k] = {}
        BY <1>0, <2>1, <2>2, <3>2
    <3> QED BY <2>1, <3>3 DEF Registry!Next, Registry!Resume, Works
  <2>5. CASE status[c] = "ASSIGNED" /\ status'[c] = "LOST"
    <3>1. Works(k)' = {}
        BY <2>1, <2>5 DEF Works, HandsInv, OneWorks
    <3>2. working' = [working EXCEPT ![k] = {}]
        BY <1>0, <2>1, <2>2, <3>1
    <3> QED BY <2>1, <3>2 DEF Registry!Next, Registry!Suspend, Works
  <2> QED BY <1>3, <2>3, <2>4, <2>5, MoveShape DEF HandsInv
<1>4. CASE StockOnly
  <2>1. \A k \in Customers : Works(k)' = Works(k)
      BY <1>4, CardStockAssumption DEF StockOnly, Works
  <2> QED BY <1>4, <2>1 DEF StockOnly, Registry!registryVars, Works
<1> QED BY <1>1, <1>2, <1>3, <1>4, CardMoves DEF HandsInv

\* Every behaviour of the card service, read as who holds which card and which
\* of them work, is one the registry allows.
THEOREM StockImplementsRegistry == Spec => RegistryKept
<1>1. Init => Registry!Init
  <2>1. Init => \A k \in Customers : {c \in Cards : owner[c] = k /\ status[c] = "ASSIGNED"} = {}
      BY DEF Init
  <2> QED BY <2>1 DEF Init, Registry!Init
<1>2. HandsInv /\ [Next]_vars => [Registry!Next]_(Registry!registryVars)
    BY RegistryStep
<1> QED BY <1>1, <1>2, HandsInvariant, PTL DEF Spec, RegistryKept, Registry!Spec

(***************************************************************************)
(* One operator.                                                           *)
(***************************************************************************)
AloneInv(d) == HandsInv /\ (desk[d].op \in CardOps => status[desk[d].what] = desk[d].seen)

\* A lone operator's reading is never stale.
LEMMA AloneStep ==
    ASSUME NEW d, Desks = {d}, AloneInv(d), [Next]_vars
    PROVE  AloneInv(d)' /\ \A c \in Cards : status[c] = "REPLACED" => status'[c] = "REPLACED"
<1>1. HandsInv'
    BY InvStep, OneWorksStep, LinkedStep, NoLoopStep, StrandedStep DEF HandsInv, AloneInv
<1>2. DeskTypes /\ status \in [Cards -> CardStatus]
    BY DEF AloneInv, HandsInv, Inv, TypeOK, DeskTypes
<1>3. desk'[d].op \in CardOps => status'[desk'[d].what] = desk'[d].seen
  <2>1. CASE UNCHANGED vars
      BY <2>1 DEF AloneInv, vars, cardVars
  <2>2. CASE AtOnce(d)
    <3>0. desk[d] = Idle
        BY <2>2, Zenon DEF AtOnce
    <3>1. desk[d].op = "idle"
        BY <3>0 DEF Idle
    <3>2. UNCHANGED desk
        BY <2>2, Zenon DEF AtOnce, GenerateBatch, VoidBatch, Register
    <3> QED BY <3>1, <3>2 DEF CardOps
  <2>3. CASE Done(d)
      BY <1>2, <2>3 DEF Done, Idle, CardOps, DeskTypes
  <2>4. ASSUME NEW op \in CardOps, NEW c \in Cards, Begin(d, op, c)
        PROVE  status'[desk'[d].what] = desk'[d].seen
      BY <1>2, <2>4 DEF Begin, DeskTypes, cardVars
  <2>5. ASSUME NEW op \in ExportOps, NEW b \in DOMAIN batches, BeginExport(d, op, b)
        PROVE  desk'[d].op \notin CardOps
      BY <1>2, <2>5 DEF BeginExport, DeskTypes, CardOps, ExportOps
  <2>6. UNCHANGED vars \/ AtOnce(d) \/ Lifecycle(d)
      BY DEF Next
  <2>7. CASE Lifecycle(d)
      BY <2>3, <2>4, <2>5, <2>7
      DEF Lifecycle, ReportLost, VoidCard, Move, Restore, Export, GiveUp, Replace
  <2> QED BY <2>1, <2>2, <2>6, <2>7
<1>4. ASSUME NEW c \in Cards, status[c] = "REPLACED" PROVE status'[c] = "REPLACED"
  <2>1. ASSUME NEW e \in Desks, NEW n \in Cards, Replace(e, n) PROVE status'[c] = "REPLACED"
      BY <1>4, <2>1, ReplaceShape DEF AloneInv, HandsInv, InStock
  <2>2. ASSUME NEW k \in Customers, NEW n \in Cards, Register(k, n) PROVE status'[c] = "REPLACED"
      BY <1>2, <1>4, <2>2 DEF Register, Blank, Mintable
  <2>3. ASSUME NEW e \in Desks, Restore(e) \/ ReportLost(e) PROVE status'[c] = "REPLACED"
    <3>1. desk[e].what # c
        BY <1>4, <2>3 DEF AloneInv, HandsInv, Inv, DeskOK, Restore, ReportLost, Move, CardOps, Acceptable
    <3> QED BY <1>4, <2>3, <3>1, MoveShape DEF AloneInv, HandsInv
  <2>4. CASE StockOnly
      BY <1>4, <2>4 DEF StockOnly, InStock
  <2> QED BY <2>1, <2>2, <2>3, <2>4, CardMoves DEF AloneInv, HandsInv
<1> QED BY <1>1, <1>3, <1>4 DEF AloneInv

\* With a single operator a replaced card stays replaced: the revival the runs
\* find needs two requests to overlap.
THEOREM ReplacedIsFinalAlone ==
    ASSUME NEW d, Desks = {d}
    PROVE  Spec => ReplacedIsFinal
<1>1. Init => AloneInv(d)
  <2>1. Init => HandsInv
      BY InitInv, CardStockAssumption
      DEF Init, HandsInv, OneWorks, Linked, NoLoop, Loop, NobodyIsStranded, Registered
  <2> QED BY <2>1 DEF Init, AloneInv, Idle, CardOps
<1>2. AloneInv(d) /\ [Next]_vars => AloneInv(d)'
    BY AloneStep
<1>3. AloneInv(d) /\ [Next]_vars =>
          [\A c \in Cards : status[c] = "REPLACED" => status'[c] = "REPLACED"]_status
    BY AloneStep
<1> QED BY <1>1, <1>2, <1>3, PTL DEF Spec, ReplacedIsFinal
=============================================================================
