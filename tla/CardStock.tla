----------------------------- MODULE CardStock ------------------------------
(***************************************************************************)
(* The shop's loyalty cards: batches of blanks printed in advance, thermal *)
(* cards printed on demand, and the life of a card in a customer's hand.   *)
(*                                                                         *)
(* Every lifecycle operation reads the card (or the batch) before it opens *)
(* its write transaction and acts on what it read, so it is two steps here *)
(* and any number of operators' steps interleave.  Registration, batch     *)
(* generation and voiding a batch read inside their transaction: one step. *)
(***************************************************************************)
EXTENDS Naturals, Sequences

CONSTANTS
    MaxSerial,     \* the highest serial six digits can print
    Thermal,       \* the cards that may be printed on demand
    Customers,
    Desks,         \* operators with a request in hand
    Quantities,    \* the batch sizes ordered
    None

Serials == 1 .. MaxSerial
Cards == Serials \cup Thermal

ASSUME CardStockAssumption ==
    /\ MaxSerial \in Nat
    /\ Quantities \subseteq Nat \ {0}
    /\ Thermal \cap Nat = {}
    /\ None \notin Customers /\ None \notin Cards /\ None \notin Nat

VARIABLES
    status,        \* status[c] of a card's row, "NONE" when it has none
    owner,         \* owner[c]: the row's customerId
    replacedBy,    \* replacedBy[c]: the row's replacedByCardId
    batches,       \* the card_batch rows, by batch number
    retired,       \* history: the batches that were ever voided
    desk           \* desk[d]: what d's request has read outside its transaction

cardVars == <<status, owner, replacedBy>>
batchVars == <<batches, retired>>
vars == <<cardVars, batchVars, desk>>

(***************************************************************************)
(* States.                                                                 *)
(***************************************************************************)
CardStatus == {"NONE", "PRINTED", "ASSIGNED", "LOST", "REPLACED", "VOID"}
BatchStatus == {"GENERATED", "EXPORTED", "RETIRED"}

CardOps == {"lost", "restore", "replace", "thermal", "void"}
ExportOps == {"export", "reprint"}

\* what: the card, or the batch number, the request names; seen: its status then.
Idle == [op |-> "idle", what |-> None, seen |-> "NONE"]

TypeOK ==
    /\ status \in [Cards -> CardStatus]
    /\ owner \in [Cards -> Customers \cup {None}]
    /\ replacedBy \in [Cards -> Cards \cup {None}]
    /\ batches \in Seq([first : Serials, last : Serials, status : BatchStatus])
    /\ retired \in SUBSET Nat
    /\ desk \in [Desks -> [op   : {"idle"} \cup CardOps \cup ExportOps,
                           what : Cards \cup Nat \cup {None},
                           seen : CardStatus \cup BatchStatus]]

Init ==
    /\ status = [c \in Cards |-> "NONE"]
    /\ owner = [c \in Cards |-> None]
    /\ replacedBy = [c \in Cards |-> None]
    /\ batches = <<>>
    /\ retired = {}
    /\ desk = [d \in Desks |-> Idle]

Registered(k) == \E c \in Cards : owner[c] = k

\* A slip: the index is not there.
IndexMissing(k, except) == TRUE

\* The partial unique index card_one_active_per_customer refuses a second
\* ASSIGNED card of k; except names the one about to be retired or restored.
NoOtherWorks(k, except) == \A c \in Cards \ {except} : owner[c] = k => status[c] # "ASSIGNED"

(***************************************************************************)
(* Printing.  A batch starts one above the highest serial there is and is  *)
(* refused when it would not fit.                                          *)
(***************************************************************************)
InUse(s) == s \in Serials /\ status[s] # "NONE"

NextSerial(first) ==
    /\ \A s \in Serials : InUse(s) => s < first
    /\ first = 1 \/ InUse(first - 1)

GenerateBatch(quantity) ==
    \E first \in Serials :
        /\ NextSerial(first)
        /\ first + quantity - 1 <= MaxSerial
        /\ status' = [c \in Cards |->
                        IF c \in first .. first + quantity - 1 THEN "PRINTED" ELSE status[c]]
        /\ batches' = Append(batches, [first  |-> first,
                                       last   |-> first + quantity - 1,
                                       status |-> "GENERATED"])
        /\ UNCHANGED <<owner, replacedBy, retired, desk>>

Printed(b) == batches[b].first .. batches[b].last

VoidBatch(b) ==
    /\ status' = [c \in Cards |->
                    IF c \in Printed(b) /\ status[c] = "PRINTED" THEN "VOID" ELSE status[c]]
    /\ batches' = [batches EXCEPT ![b].status = "RETIRED"]
    /\ retired' = retired \cup {b}
    /\ UNCHANGED <<owner, replacedBy, desk>>

(***************************************************************************)
(* Handing out: createCustomer claims the blank in the operator's hand, or *)
(* mints a thermal card, in the transaction that creates the customer.     *)
(***************************************************************************)
\* A slip: a card is claimed whatever its state.
AnyCard(c) == c \in Cards /\ status[c] # "NONE"

\* A slip: claimCard asks only that nobody has the card.
NotHandedOut(c) == c \in Cards /\ status[c] # "NONE" /\ owner[c] = None

Blank(c) == status[c] = "PRINTED" /\ owner[c] = None
Mintable(c) == c \in Thermal /\ status[c] = "NONE"

Register(k, c) ==
    /\ ~Registered(k)
    /\ Blank(c) \/ Mintable(c)
    /\ status' = [status EXCEPT ![c] = "ASSIGNED"]
    /\ owner' = [owner EXCEPT ![c] = k]
    /\ UNCHANGED <<replacedBy, batchVars, desk>>

(***************************************************************************)
(* The life of a card: each operation begins by reading the card.          *)
(***************************************************************************)
Acceptable(op) ==
    CASE op = "lost" -> {"ASSIGNED"}
      [] op = "restore" -> {"LOST"}
      [] op \in {"replace", "thermal"} -> {"ASSIGNED", "LOST"}
      [] op = "void" -> {"PRINTED"}

Begin(d, op, c) ==
    /\ desk[d] = Idle
    /\ status[c] \in Acceptable(op)
    /\ desk' = [desk EXCEPT ![d] = [op |-> op, what |-> c, seen |-> status[c]]]
    /\ UNCHANGED <<cardVars, batchVars>>

Done(d) == desk' = [desk EXCEPT ![d] = Idle]

\* The conditional updates: they find the card as it was read, or do nothing.
Move(d, op, new) ==
    LET c == desk[d].what IN
    /\ desk[d].op = op
    /\ status[c] = desk[d].seen
    /\ status' = [status EXCEPT ![c] = new]
    /\ Done(d) /\ UNCHANGED <<owner, replacedBy, batchVars>>

ReportLost(d) == Move(d, "lost", "LOST")
VoidCard(d) == Move(d, "void", "VOID")

\* The card is restored by its id alone, whatever it has become meanwhile.
Restore(d) ==
    LET c == desk[d].what IN
    /\ desk[d].op = "restore"
    /\ NoOtherWorks(owner[c], c)
    /\ status' = [status EXCEPT ![c] = "ASSIGNED"]
    /\ Done(d) /\ UNCHANGED <<owner, replacedBy, batchVars>>

\* A slip: the old card is retired and no replacement handed over.
RetireOnly(d, n) ==
    LET c == desk[d].what IN
    /\ desk[d].op \in {"replace", "thermal"}
    /\ n \in Cards
    /\ status[c] = desk[d].seen
    /\ status' = [status EXCEPT ![c] = "REPLACED"]
    /\ Done(d) /\ UNCHANGED <<owner, replacedBy, batchVars>>

\* Retire the old card, hand over n, point the one at the other.
Replace(d, n) ==
    LET c == desk[d].what IN
    /\ \/ desk[d].op = "replace" /\ Blank(n)
       \/ desk[d].op = "thermal" /\ Mintable(n)
    /\ status[c] = desk[d].seen
    /\ NoOtherWorks(owner[c], c)
    /\ status' = [status EXCEPT ![c] = "REPLACED", ![n] = "ASSIGNED"]
    /\ owner' = [owner EXCEPT ![n] = owner[c]]
    /\ replacedBy' = [replacedBy EXCEPT ![c] = n]
    /\ Done(d) /\ UNCHANGED batchVars

(***************************************************************************)
(* exportCardBatch writes back the status it read, or one step on from it. *)
(***************************************************************************)
BeginExport(d, op, b) ==
    /\ desk[d] = Idle
    /\ desk' = [desk EXCEPT ![d] = [op |-> op, what |-> b, seen |-> batches[b].status]]
    /\ UNCHANGED <<cardVars, batchVars>>

Export(d) ==
    /\ desk[d].op \in ExportOps
    /\ batches' = [batches EXCEPT ![desk[d].what].status =
                     IF desk[d].op = "export" /\ desk[d].seen = "GENERATED"
                     THEN "EXPORTED" ELSE desk[d].seen]
    /\ Done(d) /\ UNCHANGED <<cardVars, retired>>

\* refuseCard, a failing transaction, a crash: everything rolls back.
GiveUp(d) ==
    /\ desk[d] # Idle
    /\ Done(d) /\ UNCHANGED <<cardVars, batchVars>>

\* What one transaction reads and writes by itself, an operator does at once.
AtOnce(d) ==
    /\ desk[d] = Idle
    /\ \/ \E quantity \in Quantities : GenerateBatch(quantity)
       \/ \E b \in DOMAIN batches : VoidBatch(b)
       \/ \E k \in Customers, c \in Cards : Register(k, c)

Lifecycle(d) ==
    \/ \E op \in CardOps, c \in Cards : Begin(d, op, c)
    \/ \E op \in ExportOps, b \in DOMAIN batches : BeginExport(d, op, b)
    \/ ReportLost(d) \/ VoidCard(d) \/ Restore(d) \/ Export(d) \/ GiveUp(d)
    \/ \E n \in Cards : Replace(d, n)

Next == \E d \in Desks : AtOnce(d) \/ Lifecycle(d)

Spec == Init /\ [][Next]_vars

(***************************************************************************)
(* Safety.                                                                 *)
(***************************************************************************)
Current(k) == {c \in Cards : owner[c] = k /\ status[c] \in {"ASSIGNED", "LOST"}}

\* The CHECK and UNIQUE constraints of the card table never fire: stock has no
\* owner, a card handed out always has one, and no card replaces two.
ConstraintsHold ==
    /\ \A c \in Cards : status[c] \in {"ASSIGNED", "LOST", "REPLACED"} <=> owner[c] # None
    /\ \A c, e \in Cards : replacedBy[c] = replacedBy[e] /\ replacedBy[c] # None => c = e

\* However operators race, a registered customer has a card that works, or one
\* reported lost that can be restored or replaced.
NobodyIsStranded == \A k \in Customers : Registered(k) => Current(k) # {}

\* A dead card's replacedBy leads to a card of the same customer, and following
\* it always comes to a card that is not itself replaced: no set of dead cards
\* leads only to itself (lookupCard names the card that supersedes a dead one).
DeadCardsLeadHome ==
    /\ \A c \in Cards : replacedBy[c] # None => owner[replacedBy[c]] = owner[c]
    /\ ~ \E loop \in SUBSET Cards :
            /\ loop # {}
            /\ \A c \in loop : status[c] = "REPLACED" /\ replacedBy[c] \in loop \cup {None}

\* Voiding a leaked batch is final for its cards, whatever was in hand when it was
\* done and even when a late export writes the batch's old status back: no number of
\* a batch that was ever voided is in the stock again, and nobody who has not got
\* one of its cards already is given one (voidCardBatch, claimCard).
RetiredBatchIsDead ==
    [][\A b \in retired : \A s \in Printed(b) :
           /\ status'[s] # "PRINTED"
           /\ owner[s] = None => owner'[s] = None]_vars

\* The service keeps the registry's promise to the scanner.
Registry == INSTANCE CardRegistry WITH
    holder  <- owner,
    working <- [k \in Customers |-> {c \in Cards : owner[c] = k /\ status[c] = "ASSIGNED"}]

RegistryKept == Registry!Spec

(***************************************************************************)
(* True while one operator works at a time, and not when two do.           *)
(***************************************************************************)
\* A superseded card is refused on every future scan.
ReplacedIsFinal ==
    [][\A c \in Cards : status[c] = "REPLACED" => status'[c] = "REPLACED"]_status
=============================================================================
