---------------------------- MODULE StationQueue ----------------------------
(***************************************************************************)
(* A station's offline queue and the sync endpoint that empties it.        *)
(*                                                                         *)
(* A scan whose request did not come back is written to the browser's      *)
(* storage and replayed in batches.  The station cannot tell a request     *)
(* that never arrived from one whose answer was lost, and the manager PC   *)
(* goes on with a batch the station has given up, so a scan may be served  *)
(* more than once and beside its own replay.  Serving one scan is a single *)
(* step here: SaleDesk shows that the steps of scanCard amount to that.    *)
(* Whether a card works is decided anew each time its scan is served: it    *)
(* may be lost, restored or void by the time a kept scan is replayed.      *)
(***************************************************************************)
EXTENDS Absent, Naturals, Sequences, FiniteSets

CONSTANTS
    Sales,       \* the invoices printed, numbered by the time of the sale
    Scanned,     \* what a till reads: see Kinds
    MaxBatch,    \* operations in one request
    HeldCap,     \* scans kept for the licence on one station
    MaxScans,    \* bound: scans taken
    MaxFaults    \* bound: answers lost, reloads, failed statements

\* The invoice and the card; the card alone, when even identify was not
\* reached; or a text no card or batch request may carry.
Kinds == {"invoice", "card", "garbled"}

ASSUME StationQueueAssumption ==
    /\ Sales \subseteq Nat /\ None \notin Nat
    /\ Scanned \subseteq Kinds
    /\ MaxBatch \in Nat \ {0} /\ HeldCap \in Nat
    /\ MaxScans \in Nat /\ MaxFaults \in Nat

VARIABLES
    captured,    \* the sales the agent has delivered
    credited,    \* credited[s]: the scan sale s was credited by, or None
    holds,       \* holds[s]: the scan held for s on the manager PC, or None
    closed,      \* the sales whose hold was closed because its card is refused
    readOnly,    \* the licence's verdict
    scans,       \* every scan taken, in order
    queue,       \* localStorage: the scans waiting, oldest first
    heldIds,     \* in memory: those last refused for the licence
    flight,      \* the flush under way
    adrift,      \* scans of abandoned requests the manager PC has yet to serve
    answered,    \* history: the scans served with a settled status
    cardRefused,    \* history: those of them whose card was refused when served
    faults

bookVars == <<captured, credited, holds, closed>>
stationVars == <<scans, queue, heldIds, flight>>
historyVars == <<answered, cardRefused>>
vars == <<bookVars, readOnly, stationVars, adrift, historyVars, faults>>

(***************************************************************************)
(* States.                                                                 *)
(***************************************************************************)
Ids == 1 .. MaxScans

\* sale: what an invoice scan names; licensed: the licence was in force when it was
\* taken; printed: its sale had been captured by then; kept: the till was told its
\* scan is kept.
ScanRecords == [sale : Sales \cup {None}, kind : Kinds, licensed : BOOLEAN,
                printed : BOOLEAN, kept : BOOLEAN]

\* A scan's place in scans is its operationId and its age, so a set of them is a
\* queue in the order they were taken.
NoFlight == [batch |-> {}, rest |-> {}, settled |-> {}, refused |-> {}]

TypeOK ==
    /\ captured \in SUBSET Sales
    /\ credited \in [Sales -> Ids \cup {None}]
    /\ holds \in [Sales -> Ids \cup {None}]
    /\ readOnly \in BOOLEAN
    /\ scans \in Seq(ScanRecords) /\ Len(scans) <= MaxScans
    /\ queue \in SUBSET DOMAIN scans
    /\ heldIds \in SUBSET DOMAIN scans
    /\ flight \in [batch : SUBSET Ids, rest : SUBSET Ids, settled : SUBSET Ids, refused : SUBSET Ids]
    /\ adrift \in SUBSET DOMAIN scans
    /\ closed \in SUBSET Sales
    /\ answered \in SUBSET DOMAIN scans
    /\ cardRefused \in SUBSET answered
    /\ faults \in 0 .. MaxFaults

Init ==
    /\ captured = {}
    /\ credited = [s \in Sales |-> None]
    /\ holds = [s \in Sales |-> None]
    /\ readOnly \in BOOLEAN
    /\ scans = <<>> /\ queue = {} /\ heldIds = {}
    /\ flight = NoFlight
    /\ adrift = {} /\ closed = {}
    /\ answered = {} /\ cardRefused = {}
    /\ faults = 0

(***************************************************************************)
(* The manager PC serves one scan.                                         *)
(***************************************************************************)
\* assertCanRecord judges a queued scan by when it was taken.
Passes(scan) == ~readOnly \/ scan.licensed

Unclaimed == {s \in captured : credited[s] = None}

Target(scan) ==
    IF scan.kind = "invoice"
    THEN Unclaimed \cap {scan.sale}
    ELSE {s \in Unclaimed : \A t \in Unclaimed : t <= s}

\* A card alone finds nothing once the captures are half an hour old.
Applied(o, scan) ==
    /\ Passes(scan)
    /\ \/ \E s \in Target(scan) : credited' = [credited EXCEPT ![s] = o]
       \/ /\ scan.kind = "card" \/ Target(scan) = {}
          /\ UNCHANGED credited
    /\ UNCHANGED <<holds, faults>>

Held(o, scan) ==
    /\ ~Passes(scan)
    /\ scan.kind = "invoice"
    /\ holds' = [holds EXCEPT ![scan.sale] = IF @ = None THEN o ELSE @]
    /\ UNCHANGED <<credited, faults>>

\* Nothing is written down for a card alone, for a card that does not scan, nor
\* when the write fails.
Refused(scan) ==
    /\ ~Passes(scan)
    /\ UNCHANGED <<credited, holds, faults>>

\* The card is unknown, lost, replaced or void: the scan is answered all the same,
\* and the sale is left as it was.
CardRefused(scan) ==
    /\ Passes(scan)
    /\ UNCHANGED <<credited, holds, faults>>

Failed ==
    /\ faults < MaxFaults /\ faults' = faults + 1
    /\ UNCHANGED <<credited, holds>>

\* CARD_REFUSED reaches the station as APPLIED: applyOperation looks at nothing but
\* whether scanCard threw.
Statuses == {"APPLIED", "CARD_REFUSED", "HELD", "REFUSED", "FAILED"}
Done == {"APPLIED", "CARD_REFUSED", "HELD"}

Conclude(o, status) ==
    /\ answered' = IF status \in Done THEN answered \cup {o} ELSE answered
    /\ cardRefused' = IF status = "CARD_REFUSED" THEN cardRefused \cup {o} ELSE cardRefused

Serve(o, scan, status) ==
    /\ \/ status = "APPLIED" /\ Applied(o, scan)
       \/ status = "CARD_REFUSED" /\ CardRefused(scan)
       \/ status = "HELD" /\ Held(o, scan)
       \/ status = "REFUSED" /\ Refused(scan)
       \/ status = "FAILED" /\ Failed
    /\ UNCHANGED <<captured, closed, readOnly>>

\* A slip: a sale refused for the licence is settled whether or not it is held.
SettledWhenRefused(status) == status \in Done \cup {"REFUSED"}

\* isSyncItemSettled, after classify.
IsSettled(status) == status \in Done

(***************************************************************************)
(* A scan at the till.                                                     *)
(***************************************************************************)
Take(s, kind, kept) ==
    /\ Len(scans) < MaxScans
    /\ kind \in Scanned
    /\ s = None <=> kind # "invoice"
    /\ scans' = Append(scans, [sale |-> s, kind |-> kind, licensed |-> ~readOnly,
                               printed |-> s \in captured, kept |-> kept])

Enqueue == queue' = queue \cup {Len(scans) + 1}

\* The request does not arrive: the scan is queued.
ScanUnreached(s, kind) ==
    /\ Take(s, kind, TRUE)
    /\ Enqueue
    /\ UNCHANGED <<bookVars, readOnly, heldIds, flight, adrift, historyVars, faults>>

\* It is served and the answer is lost: queued all the same.
ScanUnanswered(s, status) ==
    /\ Take(s, "invoice", TRUE)
    /\ Enqueue
    /\ Serve(Len(scans) + 1, scans'[Len(scans) + 1], status)
    /\ Conclude(Len(scans) + 1, status)
    /\ UNCHANGED <<heldIds, flight, adrift>>

\* It is answered.  A refusal the manager PC could not write down is kept here,
\* up to HeldCap; a failure is shown and not kept.
ScanAnswered(s, status) ==
    LET o == Len(scans) + 1
        keep == status = "REFUSED" /\ Cardinality(queue) < HeldCap
    IN
    /\ Take(s, "invoice", keep \/ status = "HELD")
    /\ Serve(o, scans'[o], status)
    /\ queue' = IF keep THEN queue \cup {o} ELSE queue
    /\ Conclude(o, status)
    /\ UNCHANGED <<heldIds, flight, adrift>>

(***************************************************************************)
(* The flush: at most one at a time, held scans last.                      *)
(***************************************************************************)
\* A slip: the batch is the front of the queue.
OldestFirst(o, p) == o < p

\* o goes before p.
HeldLast(o, p) ==
    IF o \in heldIds <=> p \in heldIds THEN o < p ELSE p \in heldIds

\* The batch: the first MaxBatch of the queue.
Flush ==
    /\ flight = NoFlight
    /\ queue # {}
    /\ \E batch \in SUBSET queue :
          /\ IF batch = queue THEN Cardinality(batch) <= MaxBatch ELSE Cardinality(batch) = MaxBatch
          /\ \A o \in batch, p \in queue \ batch : HeldLast(o, p)
          /\ flight' = [NoFlight EXCEPT !.batch = batch, !.rest = batch]
    /\ UNCHANGED <<bookVars, readOnly, scans, queue, heldIds, adrift, historyVars, faults>>

\* The request's body is validated as a whole.
Valid == \A o \in flight.batch : scans[o].kind # "garbled"

ServeNext(o, status) ==
    /\ o \in flight.rest
    /\ \A p \in flight.rest \ {o} : HeldLast(o, p)
    /\ Valid
    /\ Serve(o, scans[o], status)
    /\ flight' = [flight EXCEPT
                    !.rest = @ \ {o},
                    !.settled = IF IsSettled(status) THEN @ \cup {o} ELSE @,
                    !.refused = IF status = "REFUSED" /\ ~IsSettled(status) THEN @ \cup {o} ELSE @]
    /\ Conclude(o, status)
    /\ UNCHANGED <<scans, queue, heldIds, adrift>>

\* A slip: the queue as it was when the batch was sent is written back.
AnswerFromBatch ==
    /\ flight # NoFlight /\ flight.rest = {}
    /\ queue' = flight.batch \ flight.settled
    /\ heldIds' = (heldIds \ flight.settled) \cup flight.refused
    /\ flight' = NoFlight
    /\ UNCHANGED <<bookVars, readOnly, scans, adrift, historyVars, faults>>

\* The queue is read again, so what was queued meanwhile stays.
Answer ==
    /\ flight # NoFlight /\ flight.rest = {}
    /\ queue' = queue \ flight.settled
    /\ heldIds' = (heldIds \ flight.settled) \cup flight.refused
    /\ flight' = NoFlight
    /\ UNCHANGED <<bookVars, readOnly, scans, adrift, historyVars, faults>>

\* An error status, or one bad operation: nothing is settled, all stay queued.
BadRequest ==
    /\ flight # NoFlight /\ ~Valid
    /\ flight' = NoFlight
    /\ UNCHANGED <<bookVars, readOnly, scans, queue, heldIds, adrift, historyVars, faults>>

\* The network fails, before the request or after; or the page is reloaded,
\* which also forgets heldIds.  The manager PC may go on with what is left.
Abandon ==
    /\ faults < MaxFaults /\ faults' = faults + 1
    /\ flight # NoFlight
    /\ flight' = NoFlight
    /\ adrift' = adrift \/ (Valid /\ adrift' = adrift \cup flight.rest)
    /\ heldIds' \in {heldIds, {}}
    /\ UNCHANGED <<bookVars, readOnly, scans, queue, historyVars>>

ServeAdrift(o, status) ==
    /\ o \in adrift
    /\ Serve(o, scans[o], status)
    /\ adrift' = adrift \ {o}
    /\ Conclude(o, status)
    /\ UNCHANGED stationVars

(***************************************************************************)
(* Around the station.                                                     *)
(***************************************************************************)
Capture(s) ==
    /\ s \notin captured
    /\ captured' = captured \cup {s}
    /\ UNCHANGED <<credited, holds, closed, readOnly, stationVars, adrift, historyVars, faults>>

LicenceTurns ==
    /\ readOnly' = ~readOnly
    /\ UNCHANGED <<bookVars, stationVars, adrift, historyVars, faults>>

ApplyHeld(s) ==
    /\ ~readOnly
    /\ holds[s] # None /\ s \notin closed
    /\ s \in Unclaimed
    /\ credited' = [credited EXCEPT ![s] = holds[s]]
    /\ UNCHANGED <<captured, holds, closed, readOnly, stationVars, adrift, historyVars, faults>>

\* The pass finds that the card of a hold does not scan: the hold is settled and
\* not tried again.  (That of a sale credited meanwhile is settled too, for good.)
CloseHeld(s) ==
    /\ ~readOnly
    /\ holds[s] # None /\ s \notin closed
    /\ credited[s] = None
    /\ closed' = closed \cup {s}
    /\ UNCHANGED <<captured, credited, holds, readOnly, stationVars, adrift, historyVars, faults>>

Next ==
    \/ \E s \in Sales \cup {None}, kind \in Kinds : ScanUnreached(s, kind)
    \/ \E s \in Sales :
          \/ \E status \in Statuses : ScanUnanswered(s, status) \/ ScanAnswered(s, status)
          \/ Capture(s) \/ ApplyHeld(s) \/ CloseHeld(s)
    \/ \E o \in Ids, status \in Statuses : ServeNext(o, status) \/ ServeAdrift(o, status)
    \/ Flush \/ Answer \/ BadRequest \/ Abandon
    \/ LicenceTurns

Spec == Init /\ [][Next]_vars

(***************************************************************************)
(* The timer and the reconnection keep flushing; the manager PC answers    *)
(* what reaches it, and applies its holds while it may record.             *)
(***************************************************************************)
Fairness ==
    /\ WF_vars(Flush) /\ WF_vars(Answer) /\ WF_vars(BadRequest)
    /\ WF_vars(\E o \in Ids, status \in Statuses : ServeNext(o, status))
    /\ WF_vars(\E o \in Ids, status \in Statuses : ServeAdrift(o, status))
    /\ \A s \in Sales : WF_vars(ApplyHeld(s))

FairSpec == Spec /\ Fairness

(***************************************************************************)
(* Safety.                                                                 *)
(***************************************************************************)
\* No data loss: whatever the till was told is kept waits in the station's
\* storage until the manager PC has served it, through lost answers, reloads and
\* scans queued while a batch is out.
KeptUntilAnswered ==
    \A o \in DOMAIN scans : scans[o].kept => o \in queue \/ o \in answered

Counted(s) == credited[s] # None \/ holds[s] # None

\* When the invoice was on the manager PC before the scan, the station lets the
\* scan go only once the sale is credited or written down there, or the manager PC
\* has answered that its card does not work.
LetGoIsDone ==
    \A o \in DOMAIN scans :
        scans[o].kept /\ scans[o].kind = "invoice" /\ scans[o].printed /\ o \notin queue
            => Counted(scans[o].sale) \/ o \in cardRefused

(***************************************************************************)
(* Liveness.                                                               *)
(***************************************************************************)
\* The server refuses a whole request for one malformed operation, and nothing
\* takes that operation out: everything that travels with it stays.
Stuck == \E o \in queue : scans[o].kind = "garbled"

\* A scan taken under a licence leaves the queue, however many the licence is
\* holding and whether or not it ever comes back, unless the queue is stuck.
FreshAreSent ==
    \A o \in Ids :
        (o \in DOMAIN scans /\ o \in queue /\ scans[o].licensed) ~> (o \notin queue \/ Stuck)

Concluded == {s \in Sales : credited[s] # None} \cup closed

\* Once the licence stays active, the sale of every kept scan whose invoice was
\* on the manager PC is credited, unless the queue is stuck or its card was refused:
\* when the scan was served, or when the hold of the sale was applied.
SpendIsCredited ==
    <>[]~readOnly =>
        \A o \in Ids :
            (o \in DOMAIN scans /\ scans[o].kept /\ scans[o].kind = "invoice" /\ scans[o].printed)
                ~> (Stuck \/ o \in cardRefused \/ \E s \in Concluded : o \in DOMAIN scans /\ scans[o].sale = s)
=============================================================================
