---------------------------- MODULE QueueProofs -----------------------------
(***************************************************************************)
(* The two queues of a sales station, for every value of the constants: the *)
(* till's queue of scans and the capture agent's queue of receipts.  They share *)
(* no state; each part proves one component by an invariant of its own.    *)
(***************************************************************************)
EXTENDS StationQueue, CaptureAgent, FiniteSetTheorems, WellFoundedInduction, TLAPS

(***************************************************************************)
(* The till's queue.  For any number of sales, scans and faults, any batch *)
(* size and any cap: nothing the till was told is kept is dropped before the *)
(* manager PC has served it, and a scan whose invoice was there is let go only *)
(* when its sale is credited or held, or its card was refused.             *)
(*                                                                         *)
(* IInv adds to the types that a flush settles only what was served, that an *)
(* invoice once captured stays so, and that a scan served with a settled   *)
(* status has counted, unless its card was refused.                        *)
(***************************************************************************)

BookTypes ==
    /\ captured \in SUBSET Sales
    /\ credited \in [Sales -> Ids \cup {None}]
    /\ holds \in [Sales -> Ids \cup {None}]
    /\ closed \in SUBSET Sales
    /\ readOnly \in BOOLEAN
    /\ faults \in 0 .. MaxFaults

ScanTypes == scans \in Seq(ScanRecords) /\ Len(scans) <= MaxScans

QueueTypes ==
    /\ queue \in SUBSET DOMAIN scans
    /\ heldIds \in SUBSET DOMAIN scans
    /\ flight \in [batch : SUBSET DOMAIN scans, rest : SUBSET DOMAIN scans,
                   settled : SUBSET DOMAIN scans, refused : SUBSET DOMAIN scans]
    /\ adrift \in SUBSET DOMAIN scans
    /\ answered \in SUBSET DOMAIN scans
    /\ cardRefused \in SUBSET answered

SettledIsServed == flight.settled \subseteq answered

PrintedIsCaptured == \A o \in DOMAIN scans : scans[o].printed => scans[o].sale \in captured

ServedIsCounted ==
    \A o \in answered :
        scans[o].kind = "invoice" /\ scans[o].printed
            => Counted(scans[o].sale) \/ o \in cardRefused

IInv ==
    /\ BookTypes /\ ScanTypes /\ QueueTypes
    /\ SettledIsServed /\ PrintedIsCaptured /\ ServedIsCounted
    /\ KeptUntilAnswered

\* The invariant holds initially.
LEMMA InitInv == Init => IInv
<1>1. SUFFICES ASSUME Init PROVE IInv
    OBVIOUS
<1>2. BookTypes
    BY <1>1, StationQueueAssumption DEF Init, BookTypes
<1>3. ScanTypes /\ DOMAIN scans = {}
    BY <1>1, StationQueueAssumption DEF Init, ScanTypes
<1>4. QueueTypes
  <2>1. flight \in [batch : SUBSET DOMAIN scans, rest : SUBSET DOMAIN scans,
                    settled : SUBSET DOMAIN scans, refused : SUBSET DOMAIN scans]
      BY <1>1 DEF Init, NoFlight
  <2>2. queue = {} /\ heldIds = {} /\ adrift = {} /\ answered = {} /\ cardRefused = {}
      BY <1>1 DEF Init
  <2> QED BY <2>1, <2>2 DEF QueueTypes
<1> QED BY <1>1, <1>2, <1>3, <1>4
    DEF Init, IInv, SettledIsServed, PrintedIsCaptured, ServedIsCounted, KeptUntilAnswered, NoFlight

\* The answers that leave the sale of a scan counted.
Credits == Done \ {"CARD_REFUSED"}

\* Serving a scan never takes a credit or a hold away, and a scan settled
\* against an invoice that is there has counted.
LEMMA ServeCounts ==
    ASSUME BookTypes, NEW o \in Ids, NEW scan \in ScanRecords, NEW status \in Statuses,
           Serve(o, scan, status)
    PROVE  /\ BookTypes' /\ captured' = captured
           /\ \A s \in Sales : Counted(s) => Counted(s)'
           /\ status \in Credits /\ scan.kind = "invoice" /\ scan.sale \in captured
                => Counted(scan.sale)'
<1>1. o # None
    BY StationQueueAssumption DEF Ids
<1>2. captured' = captured /\ closed' = closed /\ readOnly' = readOnly
    BY DEF Serve
<1>3. CASE status = "APPLIED" /\ Applied(o, scan)
  <2>1. CASE UNCHANGED credited
    <3>1. scan.kind = "card" \/ Target(scan) = {} \/ \E s \in Target(scan) : credited[s] = o
        BY <1>3, <2>1 DEF Applied, BookTypes, Target, Unclaimed
    <3>2. UNCHANGED <<credited, holds, faults>>
        BY <1>3, <2>1 DEF Applied
    <3>3. scan.kind = "invoice" /\ scan.sale \in captured => Counted(scan.sale)
        BY <1>1, <3>1 DEF Target, Unclaimed, Counted
    <3> QED BY <1>2, <1>3, <3>2, <3>3 DEF BookTypes, Counted, ScanRecords
  <2>2. ASSUME NEW s \in Target(scan), credited' = [credited EXCEPT ![s] = o]
        PROVE  /\ BookTypes'
               /\ \A t \in Sales : Counted(t) => Counted(t)'
               /\ scan.kind = "invoice" /\ scan.sale \in captured => Counted(scan.sale)'
    <3>1. s \in Sales /\ (scan.kind = "invoice" => s = scan.sale)
        BY <2>2 DEF Target, Unclaimed, BookTypes
    <3>2. UNCHANGED <<holds, faults>>
        BY <1>3 DEF Applied
    <3>3. BookTypes'
        BY <1>2, <2>2, <3>1, <3>2 DEF BookTypes
    <3> QED BY <1>1, <2>2, <3>1, <3>2, <3>3 DEF BookTypes, Counted
  <2>3. UNCHANGED credited \/ \E s \in Target(scan) : credited' = [credited EXCEPT ![s] = o]
      BY <1>3 DEF Applied
  <2> QED BY <1>2, <2>1, <2>2, <2>3
<1>4. CASE status = "HELD" /\ Held(o, scan)
  <2> DEFINE s == scan.sale
  <2>1. /\ holds' = [holds EXCEPT ![s] = IF @ = None THEN o ELSE @]
        /\ UNCHANGED <<credited, faults>>
      BY <1>4 DEF Held
  <2> HIDE DEF s
  <2>2. BookTypes' /\ (s \in Sales => holds'[s] # None)
        /\ \A t \in Sales : holds[t] # None => holds'[t] # None
      BY <1>1, <1>2, <2>1 DEF BookTypes
  <2>3. scan.sale \in captured => s \in Sales
      BY DEF BookTypes, s
  <2> QED BY <1>2, <2>1, <2>2, <2>3 DEF Counted, s
<1>5. CASE \/ status = "REFUSED" /\ Refused(scan)
           \/ status = "CARD_REFUSED" /\ CardRefused(scan)
  <2>1. UNCHANGED <<credited, holds, faults>> /\ status \notin Credits
      BY <1>5 DEF Refused, CardRefused, Done, Credits
  <2> QED BY <1>2, <2>1 DEF BookTypes, Counted
<1>6. CASE status = "FAILED" /\ Failed
  <2>1. UNCHANGED <<credited, holds>> /\ status \notin Credits
      BY <1>6 DEF Failed, Done, Credits
  <2>2. faults' \in 0 .. MaxFaults
      BY <1>6, StationQueueAssumption DEF Failed, BookTypes
  <2> QED BY <1>2, <2>1, <2>2 DEF BookTypes, Counted
<1> QED BY <1>3, <1>4, <1>5, <1>6 DEF Serve

\* Taking a scan numbers it next and leaves the others as they are.
LEMMA TakeNumbers ==
    ASSUME BookTypes, ScanTypes, NEW s \in Sales \cup {None}, NEW kind, NEW kept \in BOOLEAN,
           Take(s, kind, kept)
    PROVE  /\ ScanTypes'
           /\ Len(scans) + 1 \in Ids /\ Len(scans) + 1 \notin DOMAIN scans
           /\ DOMAIN scans' = DOMAIN scans \cup {Len(scans) + 1}
           /\ \A p \in DOMAIN scans : scans'[p] = scans[p]
           /\ scans'[Len(scans) + 1] \in ScanRecords
           /\ scans'[Len(scans) + 1].sale = s
           /\ scans'[Len(scans) + 1].kind = kind
           /\ scans'[Len(scans) + 1].kept = kept
           /\ scans'[Len(scans) + 1].printed => s \in captured
<1> DEFINE scan == [sale |-> s, kind |-> kind, licensed |-> ~readOnly,
                    printed |-> s \in captured, kept |-> kept]
<1>1. scan \in ScanRecords
    BY StationQueueAssumption DEF Take, ScanRecords, Kinds, BookTypes
<1>2. scans' = Append(scans, scan) /\ Len(scans) < MaxScans
    BY DEF Take
<1> HIDE DEF scan
<1>3. /\ scans' \in Seq(ScanRecords) /\ Len(scans') = Len(scans) + 1
      /\ \A p \in 1 .. Len(scans) : scans'[p] = scans[p]
      /\ scans'[Len(scans) + 1] = scan
      /\ DOMAIN scans = 1 .. Len(scans) /\ DOMAIN scans' = 1 .. Len(scans')
      /\ Len(scans) \in Nat
    BY <1>1, <1>2 DEF ScanTypes
<1>4. scan.sale = s /\ scan.kind = kind /\ scan.kept = kept /\ (scan.printed => s \in captured)
    BY DEF scan
<1> QED BY <1>1, <1>2, <1>3, <1>4, StationQueueAssumption DEF ScanTypes, Ids

\* What the answer to a scan adds to the history.
LEMMA Concluding ==
    ASSUME NEW o, NEW status, Conclude(o, status), cardRefused \in SUBSET answered
    PROVE  /\ answered \subseteq answered'
           /\ \A p \in answered' : p \in answered \/ (p = o /\ status \in Done)
           /\ status \in Done => o \in answered'
           /\ cardRefused \subseteq cardRefused' /\ cardRefused' \subseteq answered'
           /\ status = "CARD_REFUSED" => o \in cardRefused'
<1>1. /\ answered' = IF status \in Done THEN answered \cup {o} ELSE answered
      /\ cardRefused' = IF status = "CARD_REFUSED" THEN cardRefused \cup {o} ELSE cardRefused
    BY DEF Conclude
<1>2. status = "CARD_REFUSED" => status \in Done
    BY DEF Done
<1> HIDE DEF Done
<1>3. CASE status = "CARD_REFUSED"
    BY <1>1, <1>2, <1>3
<1>4. CASE status # "CARD_REFUSED"
    BY <1>1, <1>4
<1> QED BY <1>3, <1>4

\* A scan of the queue, or one adrift, is served.
LEMMA ReplayServes ==
    ASSUME IInv, NEW o \in DOMAIN scans, NEW status \in Statuses,
           Serve(o, scans[o], status), Conclude(o, status), UNCHANGED scans
    PROVE  /\ BookTypes' /\ ScanTypes' /\ PrintedIsCaptured' /\ ServedIsCounted'
           /\ answered \subseteq answered' /\ answered' \subseteq DOMAIN scans
           /\ cardRefused' \subseteq answered'
           /\ status \in Done => o \in answered'
<1>1. o \in Ids /\ scans[o] \in ScanRecords
    BY StationQueueAssumption DEF IInv, ScanTypes, Ids
<1>2. /\ BookTypes' /\ captured' = captured
      /\ \A s \in Sales : Counted(s) => Counted(s)'
      /\ status \in Credits /\ scans[o].kind = "invoice" /\ scans[o].sale \in captured
           => Counted(scans[o].sale)'
    BY <1>1, ServeCounts DEF IInv
<1>3. ScanTypes' /\ PrintedIsCaptured'
    BY <1>2 DEF IInv, ScanTypes, PrintedIsCaptured
<1>4. /\ answered \subseteq answered' /\ answered' \subseteq DOMAIN scans
      /\ status \in Done => o \in answered'
      /\ \A p \in answered' : p \in answered \/ (p = o /\ status \in Done)
      /\ cardRefused \subseteq cardRefused' /\ cardRefused' \subseteq answered'
      /\ status = "CARD_REFUSED" => o \in cardRefused'
    BY Concluding DEF IInv, QueueTypes
<1>5. ServedIsCounted'
  <2>1. SUFFICES ASSUME NEW p \in answered', scans[p].kind = "invoice", scans[p].printed,
                        p \notin cardRefused'
                 PROVE  Counted(scans[p].sale)'
      BY DEF ServedIsCounted, Counted
  <2>2. p \in DOMAIN scans /\ scans[p].sale \in captured /\ captured \subseteq Sales
      BY <1>4, <2>1 DEF IInv, PrintedIsCaptured, BookTypes
  <2>3. CASE p \in answered
      BY <1>2, <1>4, <2>1, <2>2, <2>3 DEF IInv, ServedIsCounted
  <2>4. CASE p = o /\ status \in Done
      BY <1>2, <1>4, <2>1, <2>2, <2>4 DEF Credits
  <2> QED BY <1>4, <2>3, <2>4
<1> QED BY <1>2, <1>3, <1>4, <1>5

\* A scan is taken and not served.
LEMMA UnreachedStep ==
    ASSUME IInv, NEW s \in Sales \cup {None}, NEW kind \in Kinds, ScanUnreached(s, kind)
    PROVE  IInv'
<1> DEFINE o == Len(scans) + 1
<1>1. /\ ScanTypes' /\ o \in Ids /\ o \notin DOMAIN scans
      /\ DOMAIN scans' = DOMAIN scans \cup {o}
      /\ \A p \in DOMAIN scans : scans'[p] = scans[p]
      /\ scans'[o].sale = s
      /\ scans'[o].printed => s \in captured
    BY TakeNumbers DEF IInv, ScanUnreached
<1>2. /\ queue' = queue \cup {o}
      /\ UNCHANGED <<captured, credited, holds, closed, readOnly, faults>>
      /\ UNCHANGED <<heldIds, flight, adrift, answered, cardRefused>>
    BY DEF ScanUnreached, Enqueue, bookVars, historyVars
<1> HIDE DEF o
<1>3. BookTypes' /\ PrintedIsCaptured' /\ SettledIsServed'
    BY <1>1, <1>2 DEF IInv, BookTypes, PrintedIsCaptured, SettledIsServed
<1>4. QueueTypes'
    BY <1>1, <1>2 DEF IInv, QueueTypes
<1>5. ServedIsCounted' /\ KeptUntilAnswered'
    BY <1>1, <1>2 DEF IInv, QueueTypes, ServedIsCounted, KeptUntilAnswered, Counted
<1> QED BY <1>1, <1>3, <1>4, <1>5 DEF IInv

\* A scan is taken and served in one request.
LEMMA LiveStep ==
    ASSUME IInv, NEW s \in Sales, NEW status \in Statuses, NEW kept \in BOOLEAN,
           Take(s, "invoice", kept),
           Serve(Len(scans) + 1, scans'[Len(scans) + 1], status),
           Conclude(Len(scans) + 1, status),
           UNCHANGED <<heldIds, flight, adrift>>,
           queue' \in {queue, queue \cup {Len(scans) + 1}},
           kept => Len(scans) + 1 \in queue' \/ status \in Done
    PROVE  IInv'
<1> DEFINE o == Len(scans) + 1
<1>1. /\ ScanTypes' /\ o \in Ids /\ o \notin DOMAIN scans
      /\ DOMAIN scans' = DOMAIN scans \cup {o}
      /\ \A p \in DOMAIN scans : scans'[p] = scans[p]
      /\ scans'[o] \in ScanRecords
      /\ scans'[o].sale = s /\ scans'[o].kind = "invoice" /\ scans'[o].kept = kept
      /\ scans'[o].printed => s \in captured
    BY TakeNumbers DEF IInv
<1> HIDE DEF o
<1>2. /\ BookTypes' /\ captured' = captured
      /\ \A t \in Sales : Counted(t) => Counted(t)'
      /\ status \in Credits /\ s \in captured => Counted(s)'
  <2>1. Serve(o, scans'[o], status)
      BY DEF o
  <2>2. SUFFICES ASSUME NEW scan \in ScanRecords, scan = scans'[o]
                 PROVE  /\ BookTypes' /\ captured' = captured
                        /\ \A t \in Sales : Counted(t) => Counted(t)'
                        /\ status \in Credits /\ s \in captured => Counted(s)'
      BY <1>1
  <2> QED BY <1>1, <2>1, <2>2, ServeCounts DEF IInv
<1>3. /\ answered \subseteq answered'
      /\ \A p \in answered' : p \in answered \/ (p = o /\ status \in Done)
      /\ status \in Done => o \in answered'
      /\ cardRefused \subseteq cardRefused' /\ cardRefused' \subseteq answered'
      /\ status = "CARD_REFUSED" => o \in cardRefused'
      /\ queue \subseteq queue' /\ queue' \subseteq queue \cup {o}
      /\ UNCHANGED <<heldIds, flight, adrift>>
      /\ kept => o \in queue' \/ status \in Done
    BY Concluding DEF o, IInv, QueueTypes
<1>4. QueueTypes' /\ SettledIsServed'
    BY <1>1, <1>3 DEF IInv, QueueTypes, SettledIsServed
<1>5. PrintedIsCaptured'
    BY <1>1, <1>2 DEF IInv, PrintedIsCaptured
<1>6. KeptUntilAnswered'
    BY <1>1, <1>3 DEF IInv, KeptUntilAnswered
<1>7. ServedIsCounted'
  <2>1. SUFFICES ASSUME NEW p \in answered', scans'[p].kind = "invoice", scans'[p].printed,
                        p \notin cardRefused', NEW t, t = scans'[p].sale
                 PROVE  Counted(t)'
      BY DEF ServedIsCounted, Counted
  <2>2. CASE p \in answered
    <3>1. p \in DOMAIN scans
        BY <2>2 DEF IInv, QueueTypes
    <3>2. t = scans[p].sale /\ scans[p].kind = "invoice" /\ scans[p].printed
        BY <1>1, <2>1, <3>1
    <3>3. t \in Sales
        BY <3>1, <3>2 DEF IInv, PrintedIsCaptured, BookTypes
    <3>4. Counted(t)
        BY <1>3, <2>1, <2>2, <3>2 DEF IInv, ServedIsCounted
    <3> QED BY <1>2, <3>3, <3>4
  <2>3. CASE p = o /\ status \in Done
      BY <1>1, <1>2, <1>3, <2>1, <2>3 DEF Credits
  <2> QED BY <1>3, <2>2, <2>3
<1> QED BY <1>1, <1>2, <1>4, <1>5, <1>6, <1>7 DEF IInv

\* Every step at the till.
LEMMA TillStep ==
    ASSUME IInv, NEW s \in Sales, NEW status \in Statuses,
           ScanUnanswered(s, status) \/ ScanAnswered(s, status)
    PROVE  IInv'
<1>1. CASE ScanUnanswered(s, status)
  <2>1. /\ Take(s, "invoice", TRUE)
        /\ Serve(Len(scans) + 1, scans'[Len(scans) + 1], status)
        /\ Conclude(Len(scans) + 1, status)
        /\ UNCHANGED <<heldIds, flight, adrift>>
        /\ queue' = queue \cup {Len(scans) + 1}
      BY <1>1 DEF ScanUnanswered, Enqueue
  <2> QED BY <2>1, LiveStep
<1>2. CASE ScanAnswered(s, status)
  <2> DEFINE keep == status = "REFUSED" /\ Cardinality(queue) < HeldCap
             kept == keep \/ status = "HELD"
  <2>1. /\ Take(s, "invoice", kept)
        /\ Serve(Len(scans) + 1, scans'[Len(scans) + 1], status)
        /\ Conclude(Len(scans) + 1, status)
        /\ UNCHANGED <<heldIds, flight, adrift>>
        /\ queue' = IF keep THEN queue \cup {Len(scans) + 1} ELSE queue
      BY <1>2 DEF ScanAnswered
  <2>2. queue' \in {queue, queue \cup {Len(scans) + 1}} /\ kept \in BOOLEAN
      BY <2>1
  <2>3. kept => Len(scans) + 1 \in queue' \/ status \in Done
      BY <2>1 DEF Done
  <2> HIDE DEF kept, keep
  <2> QED BY <2>1, <2>2, <2>3, LiveStep
<1> QED BY <1>1, <1>2

\* Every step of a flush, and of a request it has given up.
LEMMA FlushStep ==
    ASSUME IInv, Flush \/ Answer \/ BadRequest \/ Abandon
    PROVE  IInv'
<1>1. /\ UNCHANGED <<captured, credited, holds, closed, readOnly, scans, answered, cardRefused>>
      /\ BookTypes'
  <2>1. /\ UNCHANGED <<captured, credited, holds, closed, readOnly, scans, answered, cardRefused>>
        /\ faults' = faults \/ (faults < MaxFaults /\ faults' = faults + 1)
      BY DEF Flush, Answer, BadRequest, Abandon, bookVars, historyVars
  <2>2. faults' \in 0 .. MaxFaults
      BY <2>1, StationQueueAssumption DEF IInv, BookTypes
  <2> QED BY <2>1, <2>2 DEF IInv, BookTypes
<1>2. QueueTypes' /\ SettledIsServed'
  <2>1. CASE Flush
      BY <1>1, <2>1 DEF Flush, NoFlight, IInv, QueueTypes, SettledIsServed
  <2>2. CASE Answer
      BY <1>1, <2>2 DEF Answer, NoFlight, IInv, QueueTypes, SettledIsServed
  <2>3. CASE BadRequest
      BY <1>1, <2>3 DEF BadRequest, NoFlight, IInv, QueueTypes, SettledIsServed
  <2>4. CASE Abandon
      BY <1>1, <2>4 DEF Abandon, NoFlight, IInv, QueueTypes, SettledIsServed
  <2> QED BY <2>1, <2>2, <2>3, <2>4
<1>3. queue' = queue \/ queue' = queue \ flight.settled
    BY DEF Flush, Answer, BadRequest, Abandon
<1>4. KeptUntilAnswered'
    BY <1>1, <1>3 DEF IInv, KeptUntilAnswered, SettledIsServed
<1>5. ScanTypes' /\ PrintedIsCaptured' /\ ServedIsCounted'
    BY <1>1 DEF IInv, ScanTypes, PrintedIsCaptured, ServedIsCounted, Counted
<1> QED BY <1>1, <1>2, <1>4, <1>5 DEF IInv

\* The manager PC serves a queued scan.
LEMMA ServingStep ==
    ASSUME IInv, NEW o \in Ids, NEW status \in Statuses, ServeNext(o, status) \/ ServeAdrift(o, status)
    PROVE  IInv'
<1>1. /\ o \in DOMAIN scans
      /\ Serve(o, scans[o], status) /\ Conclude(o, status)
      /\ UNCHANGED <<scans, queue, heldIds>>
    BY DEF ServeNext, ServeAdrift, stationVars, IInv, QueueTypes
<1>2. /\ BookTypes' /\ ScanTypes' /\ PrintedIsCaptured' /\ ServedIsCounted'
      /\ answered \subseteq answered' /\ answered' \subseteq DOMAIN scans
      /\ cardRefused' \subseteq answered'
      /\ status \in Done => o \in answered'
    BY <1>1, ReplayServes
<1>3. KeptUntilAnswered'
    BY <1>1, <1>2 DEF IInv, KeptUntilAnswered
<1>4. QueueTypes' /\ SettledIsServed'
  <2>1. CASE ServeAdrift(o, status)
      BY <1>1, <1>2, <2>1 DEF ServeAdrift, stationVars, IInv, QueueTypes, SettledIsServed
  <2>2. CASE ServeNext(o, status)
    <3>1. PICK settled, refused :
             /\ flight' = [flight EXCEPT !.rest = @ \ {o}, !.settled = settled, !.refused = refused]
             /\ settled \subseteq flight.settled \cup {o} /\ refused \subseteq flight.refused \cup {o}
             /\ settled = flight.settled \/ status \in Done
        BY <2>2 DEF ServeNext, IsSettled
    <3>2. /\ flight' \in [batch : SUBSET DOMAIN scans, rest : SUBSET DOMAIN scans,
                          settled : SUBSET DOMAIN scans, refused : SUBSET DOMAIN scans]
          /\ flight'.settled = settled
        BY <1>1, <3>1 DEF IInv, QueueTypes
    <3>3. adrift' = adrift
        BY <2>2 DEF ServeNext
    <3> QED BY <1>1, <1>2, <3>1, <3>2, <3>3 DEF IInv, QueueTypes, SettledIsServed
  <2> QED BY <2>1, <2>2
<1> QED BY <1>2, <1>3, <1>4 DEF IInv

\* The rest: a capture arrives, the licence turns, a hold is applied or closed.
LEMMA AroundStep ==
    ASSUME IInv, \/ \E s \in Sales : Capture(s) \/ ApplyHeld(s) \/ CloseHeld(s)
                 \/ LicenceTurns
                 \/ UNCHANGED vars
    PROVE  IInv'
<1>1. UNCHANGED <<stationVars, adrift, answered, cardRefused>>
    BY DEF Capture, ApplyHeld, CloseHeld, LicenceTurns, vars, historyVars
<1>2. BookTypes' /\ captured \subseteq captured' /\ \A t \in Sales : Counted(t) => Counted(t)'
  <2>1. ASSUME NEW s \in Sales, Capture(s)
        PROVE  BookTypes' /\ captured \subseteq captured' /\ \A t \in Sales : Counted(t) => Counted(t)'
      BY <2>1 DEF Capture, IInv, BookTypes, Counted
  <2>2. ASSUME NEW s \in Sales, ApplyHeld(s)
        PROVE  BookTypes' /\ captured \subseteq captured' /\ \A t \in Sales : Counted(t) => Counted(t)'
      BY <2>2 DEF ApplyHeld, IInv, BookTypes, Counted
  <2>3. ASSUME NEW s \in Sales, CloseHeld(s)
        PROVE  BookTypes' /\ captured \subseteq captured' /\ \A t \in Sales : Counted(t) => Counted(t)'
      BY <2>3 DEF CloseHeld, IInv, BookTypes, Counted
  <2>4. CASE LicenceTurns
      BY <2>4 DEF LicenceTurns, bookVars, IInv, BookTypes, Counted
  <2>5. CASE UNCHANGED vars
      BY <2>5 DEF vars, bookVars, IInv, BookTypes, Counted
  <2> QED BY <2>1, <2>2, <2>3, <2>4, <2>5
<1>3. ScanTypes' /\ QueueTypes' /\ SettledIsServed' /\ KeptUntilAnswered'
    BY <1>1 DEF stationVars, IInv, ScanTypes, QueueTypes, SettledIsServed, KeptUntilAnswered
<1>4. PrintedIsCaptured'
    BY <1>1, <1>2 DEF stationVars, IInv, PrintedIsCaptured
<1>5. ServedIsCounted'
  <2>1. SUFFICES ASSUME NEW o \in answered, scans[o].kind = "invoice", scans[o].printed,
                        o \notin cardRefused, NEW t, t = scans[o].sale
                 PROVE  Counted(t)'
      BY <1>1 DEF stationVars, ServedIsCounted, Counted
  <2>2. t \in Sales /\ Counted(t)
      BY <2>1 DEF IInv, QueueTypes, ServedIsCounted, PrintedIsCaptured, BookTypes
  <2> QED BY <1>2, <2>2
<1> QED BY <1>2, <1>3, <1>4, <1>5 DEF IInv

\* IInv is inductive.
LEMMA Invariant == Spec => []IInv
<1>1. IInv /\ [Next]_vars => IInv'
    BY UnreachedStep, TillStep, FlushStep, ServingStep, AroundStep DEF Next
<1> QED BY InitInv, <1>1, PTL DEF Spec

\* Type correctness: whatever is queued, held back, in flight or adrift is a scan
\* that was taken.
THEOREM QueueIsTyped == Spec => []TypeOK
<1>1. ASSUME IInv PROVE TypeOK
  <2>1. DOMAIN scans \subseteq Ids
      BY <1>1, StationQueueAssumption DEF IInv, ScanTypes, Ids
  <2> QED BY <1>1, <2>1 DEF IInv, BookTypes, ScanTypes, QueueTypes, TypeOK
<1> QED BY Invariant, <1>1, PTL

\* No scan the till was told is kept is dropped before the manager PC served it.
THEOREM NoDataLoss == Spec => []KeptUntilAnswered
<1>1. IInv => KeptUntilAnswered
    BY DEF IInv
<1> QED BY Invariant, <1>1, PTL

\* A scan whose invoice was there is let go only when its sale is credited or held
\* on the manager PC, or its card was refused there (which the station takes for
\* done: the sale then stays as it was).
THEOREM LettingGoIsSafe == Spec => []LetGoIsDone
<1>1. IInv => LetGoIsDone
    BY DEF IInv, KeptUntilAnswered, ServedIsCounted, LetGoIsDone
<1> QED BY Invariant, <1>1, PTL

-----------------------------------------------------------------------------
(***************************************************************************)
(* The capture agent.  In every capture mode, with any number of tills,    *)
(* receipts and mishaps, any job size and any channel: a capture that reached *)
(* the queue is still in it, set aside, or known to the manager's PC.      *)
(*                                                                         *)
(* AgentInv adds to the types that a pass is at a file until it rests, and *)
(* that an answer that lets a file go means that its invoice is recorded.  *)
(***************************************************************************)

TillStates ==
    [stage : {"idle", "open", "forwarded", "ending"}, receipt : Receipts \cup {None},
     todo : Seq(Parts), chunk : Seq(Parts)]

PrintTypes ==
    /\ mode \in Modes
    /\ capturing \in BOOLEAN
    /\ left \in SUBSET Receipts /\ printed \in SUBSET Receipts
    /\ till \in [Tills -> TillStates]

SinkTypes ==
    /\ current \in Seq(Parts) /\ Len(current) <= MaxJobParts
    /\ overflowed \in BOOLEAN /\ pending \in BOOLEAN
    /\ jobs \in Seq(Seq(Parts)) /\ Len(jobs) <= JobCapacity
    /\ \A i \in DOMAIN jobs : jobs[i] # <<>>

FileTypes ==
    /\ parsed \in Captures \cup {NoCapture}
    /\ files \in Seq(Captures)
    /\ rejected \in SUBSET Captures
    /\ queued \in SUBSET Captures /\ IsFiniteSet(queued)

DeliveryTypes ==
    /\ signedIn \in BOOLEAN
    /\ pass \in [stage : {"resting", "delivering", "answered"}, todo : Seq(Captures),
                 reply : Replies \cup {None}]
    /\ ledger \in [Receipts -> Receipts \cup {None}]

\* A receipt being relayed has a part left to relay.
OpenHasMore ==
    \A t \in Tills :
        /\ till[t].stage = "open" => till[t].todo # <<>>
        /\ till[t].stage # "idle" => till[t].receipt \in Receipts

\* A pass is at a file until it rests, and an answer that lets the file go means that the
\* manager's PC has its invoice.
AnswerIsTrue ==
    /\ pass.stage \in {"delivering", "answered"} => pass.todo # <<>>
    /\ pass.stage = "answered" /\ pass.reply \in {"recorded", "duplicate"} =>
          ledger[Head(pass.todo).invoice] # None

AgentInv ==
    /\ PrintTypes /\ OpenHasMore /\ SinkTypes /\ FileTypes /\ DeliveryTypes
    /\ mishaps \in 0..MaxMishaps
    /\ AnswerIsTrue /\ KeptUntilDelivered

-----------------------------------------------------------------------------
\* The empty sequence is a sequence of anything.
LEMMA EmptySequence ==
    ASSUME NEW S
    PROVE  <<>> \in Seq(S) /\ Len(<<>>) = 0 /\ DOMAIN <<>> = {}
OBVIOUS

\* A receipt has parts to print.
LEMMA PartsOfTyped ==
    ASSUME NEW r \in Receipts
    PROVE  PartsOf(r) \in Seq(Parts) /\ PartsOf(r) # <<>>
BY DEF PartsOf, Parts

\* A step of one till leaves the others where they were.
LEMMA TillUpdate ==
    ASSUME till \in [Tills -> TillStates], NEW t \in Tills, NEW r \in TillStates,
           till' = [till EXCEPT ![t] = r]
    PROVE  /\ till' \in [Tills -> TillStates]
           /\ till'[t] = r
           /\ \A u \in Tills : u # t => till'[u] = till[u]
OBVIOUS

\* A till with no job is in one of the states of a till.
LEMMA IdleTyped == Idle \in TillStates /\ Idle.stage = "idle"
<1>1. <<>> \in Seq(Parts)
  OBVIOUS
<1>. QED
  BY <1>1 DEF Idle, TillStates

\* A fresh agent satisfies the invariant.
LEMMA AgentInitInv == AgentInit => AgentInv
<1>. SUFFICES ASSUME AgentInit PROVE AgentInv
  OBVIOUS
<1>1. PrintTypes /\ OpenHasMore
  BY IdleTyped DEF AgentInit, PrintTypes, OpenHasMore
<1>2. SinkTypes
  <2>1. MaxJobParts \in Nat /\ JobCapacity \in Nat
    BY AgentAssumption
  <2>2. <<>> \in Seq(Parts) /\ <<>> \in Seq(Seq(Parts)) /\ Len(<<>>) = 0 /\ DOMAIN <<>> = {}
    BY EmptySequence
  <2>3. current = <<>> /\ jobs = <<>> /\ overflowed = FALSE /\ pending = FALSE
    BY DEF AgentInit
  <2>4. Len(current) <= MaxJobParts /\ Len(jobs) <= JobCapacity
    BY <2>1, <2>2, <2>3
  <2>. QED
    BY <2>2, <2>3, <2>4 DEF SinkTypes
<1>3. FileTypes
  BY FS_EmptySet DEF AgentInit, FileTypes
<1>4. DeliveryTypes /\ AnswerIsTrue
  <2>1. Resting \in [stage : {"resting", "delivering", "answered"}, todo : Seq(Captures),
                      reply : Replies \cup {None}]
    BY EmptySequence DEF Resting
  <2>. QED
    BY <2>1 DEF AgentInit, DeliveryTypes, AnswerIsTrue, Resting
<1>5. mishaps \in 0..MaxMishaps /\ KeptUntilDelivered
  BY AgentAssumption DEF AgentInit, KeptUntilDelivered
<1>. QED
  BY <1>1, <1>2, <1>3, <1>4, <1>5 DEF AgentInv

-----------------------------------------------------------------------------
(* The print path and the sink: the files and the delivery loop stand still. *)
QueueStandsStill == UNCHANGED <<parsed, diskVars, deliveryVars>>

\* Printing and framing leave the queue and the delivery alone.
LEMMA StandingStill ==
    ASSUME AgentInv, QueueStandsStill
    PROVE  FileTypes' /\ DeliveryTypes' /\ AnswerIsTrue' /\ KeptUntilDelivered'
BY DEF AgentInv, QueueStandsStill, diskVars, deliveryVars, FileTypes, DeliveryTypes,
       AnswerIsTrue, KeptUntilDelivered

\* Closing a job keeps the sink of its types and the channel within its capacity.
LEMMA CompleteTyped ==
    ASSUME SinkTypes, TryCompleteJob
    PROVE  SinkTypes'
<1>1. MaxJobParts \in Nat /\ JobCapacity \in Nat
  BY AgentAssumption
<1>2. current' = <<>> /\ overflowed' = FALSE /\ pending' = FALSE
  BY DEF TryCompleteJob
<1>5. current' \in Seq(Parts) /\ Len(current') <= MaxJobParts
  BY <1>1, <1>2, EmptySequence
<1>3. CASE UNCHANGED jobs
  BY <1>2, <1>3, <1>5 DEF SinkTypes
<1>4. CASE jobs' = Append(jobs, current) /\ current # <<>> /\ Len(jobs) # JobCapacity
  <2>1. /\ jobs \in Seq(Seq(Parts)) /\ current \in Seq(Parts)
        /\ Len(jobs) <= JobCapacity /\ Len(jobs) \in Nat
    BY DEF SinkTypes
  <2>2. jobs' \in Seq(Seq(Parts)) /\ Len(jobs') = Len(jobs) + 1
    BY <1>4, <2>1
  <2>3. \A i \in DOMAIN jobs' : jobs'[i] # <<>>
    <3>. SUFFICES ASSUME NEW i \in DOMAIN jobs' PROVE jobs'[i] # <<>>
      OBVIOUS
    <3>1. i \in 1..(Len(jobs) + 1)
      BY <2>2
    <3>2. CASE i = Len(jobs) + 1
      BY <1>4, <2>1, <3>2
    <3>3. CASE i \in DOMAIN jobs
      BY <1>4, <2>1, <3>3 DEF SinkTypes
    <3>. QED
      BY <2>1, <3>1, <3>2, <3>3
  <2>4. Len(jobs') <= JobCapacity
    BY <1>1, <1>4, <2>1, <2>2
  <2>. QED
    BY <1>2, <1>5, <2>2, <2>3, <2>4 DEF SinkTypes
<1>. QED
  BY <1>3, <1>4 DEF TryCompleteJob, HandOver

\* Adding a chunk keeps the job within its size, or gives it up.
LEMMA CaptureTyped ==
    ASSUME SinkTypes, NEW chunk \in Seq(Parts), TryCapture(chunk)
    PROVE  SinkTypes'
<1>1. MaxJobParts \in Nat /\ current \in Seq(Parts) /\ Len(chunk) \in Nat
  BY AgentAssumption DEF SinkTypes
<1>2. pending' \in BOOLEAN
  BY DEF TryCapture, Framed
<1>5. (jobs \in Seq(Seq(Parts)) /\ Len(jobs) <= JobCapacity /\ \A i \in DOMAIN jobs : jobs[i] # <<>>)'
  <2>1. jobs' = jobs
    BY DEF TryCapture
  <2>. QED
    BY <2>1, Zenon DEF SinkTypes
<1>3. CASE overflowed' = TRUE /\ UNCHANGED current
  BY <1>2, <1>3, <1>5 DEF SinkTypes
<1>4. CASE /\ ~(Len(current) + Len(chunk) > MaxJobParts)
           /\ current' = current \o chunk /\ UNCHANGED overflowed
  <2>1. current' \in Seq(Parts) /\ Len(current') = Len(current) + Len(chunk)
    BY <1>1, <1>4
  <2>2. Len(current') <= MaxJobParts
    BY <1>1, <1>4, <2>1
  <2>. QED
    BY <1>2, <1>4, <1>5, <2>1, <2>2 DEF SinkTypes
<1>. QED
  BY <1>3, <1>4 DEF TryCapture

\* Steps that leave the sink alone keep its types.
LEMMA SinkStandingStill ==
    ASSUME SinkTypes, UNCHANGED sinkVars
    PROVE  SinkTypes'
<1>1. current' = current /\ overflowed' = overflowed /\ pending' = pending /\ jobs' = jobs
  BY DEF sinkVars
<1>. QED
  BY <1>1, Zenon DEF SinkTypes

\* A till in a state of its own, and the others as they were.
LEMMA TillMoves ==
    ASSUME AgentInv, NEW t \in Tills, NEW r \in TillStates,
           r.stage = "open" => r.todo # <<>>,
           r.stage # "idle" => r.receipt \in Receipts,
           till' = [till EXCEPT ![t] = r]
    PROVE  till' \in [Tills -> TillStates] /\ OpenHasMore'
<1>1. /\ till' \in [Tills -> TillStates] /\ till'[t] = r
      /\ \A u \in Tills : u # t => till'[u] = till[u]
  BY TillUpdate DEF AgentInv, PrintTypes
<1>. QED
  BY <1>1 DEF AgentInv, OpenHasMore

\* A till that starts a receipt keeps the invariant.
LEMMA StartPrintingStep ==
    ASSUME AgentInv, NEW t \in Tills, NEW r \in Receipts, StartPrinting(t, r)
    PROVE  AgentInv'
<1>. DEFINE s == [stage |-> "open", receipt |-> r, todo |-> PartsOf(r), chunk |-> <<>>]
<1>1. s \in TillStates /\ s.todo # <<>> /\ s.receipt \in Receipts
  BY PartsOfTyped, EmptySequence DEF TillStates
<1>2. till' \in [Tills -> TillStates] /\ OpenHasMore'
  BY <1>1, TillMoves DEF StartPrinting
<1>3. PrintTypes'
  BY <1>2 DEF AgentInv, PrintTypes, StartPrinting
<1>4. SinkTypes'
  BY SinkStandingStill DEF AgentInv, StartPrinting
<1>5. QueueStandsStill /\ mishaps' = mishaps
  BY DEF StartPrinting, QueueStandsStill
<1>. QED
  BY <1>2, <1>3, <1>4, <1>5, StandingStill DEF AgentInv

\* Forwarding the next chunk to the printer keeps the invariant.
LEMMA RelayStep ==
    ASSUME AgentInv, NEW t \in Tills, Relay(t)
    PROVE  AgentInv'
<1>. DEFINE n == IF Whole THEN Len(till[t].todo) ELSE 1
            rest == SubSeq(till[t].todo, n + 1, Len(till[t].todo))
            s == [till[t] EXCEPT !.stage = "forwarded",
                                 !.chunk = SubSeq(till[t].todo, 1, n), !.todo = rest]
<1>1. till[t] \in TillStates /\ till[t].todo \in Seq(Parts) /\ till[t].todo # <<>>
      /\ till[t].receipt \in Receipts
  BY DEF AgentInv, PrintTypes, OpenHasMore, Relay, TillStates
<1>2. Len(till[t].todo) \in Nat \ {0} /\ n \in 1..Len(till[t].todo)
  BY <1>1
<1>3. rest \in Seq(Parts) /\ SubSeq(till[t].todo, 1, n) \in Seq(Parts)
  BY <1>1, <1>2
<1>4. s \in TillStates /\ s.stage = "forwarded" /\ s.receipt \in Receipts
  BY <1>1, <1>3 DEF TillStates
<1>5. till' = [till EXCEPT ![t] = s]
  BY DEF Relay
<1>6. till' \in [Tills -> TillStates] /\ OpenHasMore'
  BY <1>4, <1>5, TillMoves
<1>7. printed' \in SUBSET Receipts
  BY <1>1 DEF AgentInv, PrintTypes, Relay
<1>8. PrintTypes'
  BY <1>6, <1>7 DEF AgentInv, PrintTypes, Relay
<1>9. SinkTypes'
  BY SinkStandingStill DEF AgentInv, Relay
<1>10. QueueStandsStill /\ mishaps' = mishaps
  BY DEF Relay, QueueStandsStill
<1>. QED
  BY <1>6, <1>8, <1>9, <1>10, StandingStill DEF AgentInv

\* Offering the forwarded chunk to the sink keeps the invariant.
LEMMA OfferStep ==
    ASSUME AgentInv, NEW t \in Tills, Offer(t)
    PROVE  AgentInv'
<1>1. till[t] \in TillStates /\ till[t].chunk \in Seq(Parts) /\ till[t].receipt \in Receipts
  BY DEF AgentInv, PrintTypes, TillStates, OpenHasMore, Offer
<1>2. PICK s \in TillStates :
        /\ s.stage = "open" => s.todo # <<>>
        /\ s.stage # "idle" => s.receipt \in Receipts
        /\ till' = [till EXCEPT ![t] = s]
  <2>1. CASE till[t].todo = <<>>
    <3>1. /\ [till[t] EXCEPT !.chunk = <<>>, !.stage = "ending"] \in TillStates
          /\ [till[t] EXCEPT !.chunk = <<>>, !.stage = "ending"].stage = "ending"
          /\ [till[t] EXCEPT !.chunk = <<>>, !.stage = "ending"].receipt \in Receipts
      BY <1>1, EmptySequence DEF TillStates
    <3>2. \/ till' = [till EXCEPT ![t] = Idle]
          \/ till' = [till EXCEPT ![t] = [till[t] EXCEPT !.chunk = <<>>, !.stage = "ending"]]
      BY <2>1 DEF Offer
    <3>. QED
      BY <3>1, <3>2, IdleTyped
  <2>2. CASE till[t].todo # <<>>
    <3>1. /\ [till[t] EXCEPT !.chunk = <<>>, !.stage = "open"] \in TillStates
          /\ [till[t] EXCEPT !.chunk = <<>>, !.stage = "open"].todo = till[t].todo
          /\ [till[t] EXCEPT !.chunk = <<>>, !.stage = "open"].receipt \in Receipts
      BY <1>1, EmptySequence DEF TillStates
    <3>2. till' = [till EXCEPT ![t] = [till[t] EXCEPT !.chunk = <<>>, !.stage = "open"]]
      BY <2>2 DEF Offer
    <3>. QED
      BY <2>2, <3>1, <3>2
  <2>. QED
    BY <2>1, <2>2
<1>3. till' \in [Tills -> TillStates] /\ OpenHasMore'
  BY <1>2, TillMoves
<1>4. PrintTypes'
  BY <1>3 DEF AgentInv, PrintTypes, Offer
<1>5. SinkTypes'
  BY <1>1, CaptureTyped DEF AgentInv, Offer
<1>6. QueueStandsStill /\ mishaps' = mishaps
  BY DEF Offer, QueueStandsStill
<1>. QED
  BY <1>3, <1>4, <1>5, <1>6, StandingStill DEF AgentInv

\* The end of a print job keeps the invariant.
LEMMA EndJobStep ==
    ASSUME AgentInv, NEW t \in Tills, EndJob(t)
    PROVE  AgentInv'
<1>1. till' \in [Tills -> TillStates] /\ OpenHasMore'
  BY IdleTyped, TillMoves DEF EndJob
<1>2. PrintTypes'
  BY <1>1 DEF AgentInv, PrintTypes, EndJob
<1>3. SinkTypes'
  BY CompleteTyped DEF AgentInv, EndJob
<1>4. QueueStandsStill /\ mishaps' = mishaps
  BY DEF EndJob, QueueStandsStill
<1>. QED
  BY <1>1, <1>2, <1>3, <1>4, StandingStill DEF AgentInv

\* A spool file seen twice keeps the invariant.
LEMMA SeeSpoolFileAgainStep ==
    ASSUME AgentInv, NEW t \in Tills, SeeSpoolFileAgain(t)
    PROVE  AgentInv'
<1>1. PICK r \in printed :
        till' = [till EXCEPT ![t] = [stage |-> "open", receipt |-> r, todo |-> PartsOf(r), chunk |-> <<>>]]
  BY DEF SeeSpoolFileAgain
<1>2. r \in Receipts
  BY DEF AgentInv, PrintTypes
<1>. DEFINE s == [stage |-> "open", receipt |-> r, todo |-> PartsOf(r), chunk |-> <<>>]
<1>3. s \in TillStates /\ s.todo # <<>> /\ s.receipt \in Receipts
  BY <1>2, PartsOfTyped, EmptySequence DEF TillStates
<1>4. till' \in [Tills -> TillStates] /\ OpenHasMore'
  BY <1>1, <1>3, TillMoves
<1>5. PrintTypes'
  BY <1>4 DEF AgentInv, PrintTypes, SeeSpoolFileAgain
<1>6. SinkTypes'
  BY SinkStandingStill DEF AgentInv, SeeSpoolFileAgain
<1>7. QueueStandsStill
  BY DEF SeeSpoolFileAgain, QueueStandsStill
<1>8. mishaps' \in 0..MaxMishaps
  BY AgentAssumption DEF AgentInv, SeeSpoolFileAgain
<1>. QED
  BY <1>4, <1>5, <1>6, <1>7, <1>8, StandingStill DEF AgentInv

\* The idle timer that closes a job keeps the invariant.
LEMMA OnIdleStep ==
    ASSUME AgentInv, OnIdle
    PROVE  AgentInv'
<1>1. PrintTypes' /\ OpenHasMore'
  BY DEF AgentInv, PrintTypes, OpenHasMore, OnIdle, printVars
<1>2. SinkTypes'
  BY CompleteTyped DEF AgentInv, OnIdle
<1>3. QueueStandsStill /\ mishaps' = mishaps
  BY DEF OnIdle, QueueStandsStill
<1>. QED
  BY <1>1, <1>2, <1>3, StandingStill DEF AgentInv

\* A relay cut off half way keeps the invariant.
LEMMA RelayFailsStep ==
    ASSUME AgentInv, NEW t \in Tills, RelayFails(t)
    PROVE  AgentInv'
<1>1. till' \in [Tills -> TillStates] /\ OpenHasMore'
  BY IdleTyped, TillMoves DEF RelayFails
<1>2. PrintTypes'
  BY <1>1 DEF AgentInv, PrintTypes, RelayFails
<1>3. SinkTypes'
  BY CompleteTyped, SinkStandingStill DEF AgentInv, RelayFails
<1>4. QueueStandsStill
  BY DEF RelayFails, QueueStandsStill
<1>5. mishaps' \in 0..MaxMishaps
  BY AgentAssumption DEF AgentInv, RelayFails
<1>. QED
  BY <1>1, <1>2, <1>3, <1>4, <1>5, StandingStill DEF AgentInv
-----------------------------------------------------------------------------
(* The parse loop and the queue on the disk.                               *)
LEMMA SmallestOf ==
    ASSUME NEW S \in SUBSET Nat, S # {}
    PROVE  \E n \in S : \A m \in S : n <= m
<1>1. \E n \in S : \A m \in S : <<m, n>> \notin OpToRel(<, Nat)
  BY NatLessThanWellFounded, WFMin, Zenon
<1>2. \A m, n \in Nat : <<m, n>> \notin OpToRel(<, Nat) => n <= m
  BY DEF OpToRel
<1>. QED
  BY <1>1, <1>2

\* A field parsed from a job is a receipt of the job, or nothing.
LEMMA FieldTyped ==
    ASSUME NEW job \in Seq(Parts), NEW name
    PROVE  Field(job, name) \in Receipts \cup {None}
<1>. DEFINE found == {i \in DOMAIN job : job[i][2] = name}
<1>1. CASE found = {}
  BY <1>1 DEF Field
<1>2. CASE found # {}
  <2>1. found \subseteq Nat
    OBVIOUS
  <2>2. \E n \in found : \A m \in found : n <= m
    BY <1>2, <2>1, SmallestOf, Zenon
  <2>3. (CHOOSE i \in found : \A j \in found : i <= j) \in found
    BY <2>2
  <2>4. \A i \in found : job[i][1] \in Receipts
    BY DEF Parts
  <2>5. Field(job, name) = job[CHOOSE i \in found : \A j \in found : i <= j][1]
    BY <1>2, Zenon DEF Field
  <2>. QED
    BY <2>3, <2>4, <2>5
<1>. QED
  BY <1>1, <1>2

\* Nothing on the print path or in the sink moves.
LEMMA PrintingStandsStill ==
    ASSUME AgentInv, UNCHANGED <<mode, printVars, sinkVars>>
    PROVE  PrintTypes' /\ OpenHasMore' /\ SinkTypes'
<1>1. PrintTypes' /\ OpenHasMore'
  BY DEF AgentInv, PrintTypes, OpenHasMore, printVars
<1>2. SinkTypes'
  BY SinkStandingStill DEF AgentInv
<1>. QED
  BY <1>1, <1>2

\* The rest of a sequence, element by element.
LEMMA TailTyped ==
    ASSUME NEW S, NEW s \in Seq(S), s # <<>>
    PROVE  /\ Tail(s) \in Seq(S) /\ Len(Tail(s)) = Len(s) - 1
           /\ \A i \in DOMAIN Tail(s) : i + 1 \in DOMAIN s /\ Tail(s)[i] = s[i + 1]
OBVIOUS

\* Parsing the oldest job keeps the invariant.
LEMMA ParseStep ==
    ASSUME AgentInv, Parse
    PROVE  AgentInv'
<1>. DEFINE invoice == Field(jobs[1], "number")
            amount == Field(jobs[1], "total")
<1>1. jobs \in Seq(Seq(Parts)) /\ Len(jobs) <= JobCapacity /\ jobs # <<>> /\ JobCapacity \in Nat
  BY AgentAssumption DEF AgentInv, SinkTypes, Parse
<1>2. jobs[1] \in Seq(Parts) /\ Len(jobs) \in Nat
  BY <1>1
<1>3. {invoice, amount} \subseteq Receipts \cup {None}
  BY <1>2, FieldTyped
<1>4. Cardinality(queued) + 1 \in Nat
  BY FS_CardinalityType DEF AgentInv, FileTypes
<1>5. parsed' \in Captures \cup {NoCapture}
  BY <1>3, <1>4 DEF Parse, Captures
<1>6. jobs' = Tail(jobs)
  BY DEF Parse
<1>7. /\ jobs' \in Seq(Seq(Parts)) /\ Len(jobs') = Len(jobs) - 1
      /\ \A i \in DOMAIN jobs' : i + 1 \in DOMAIN jobs /\ jobs'[i] = jobs[i + 1]
  BY <1>1, <1>6, TailTyped, Zenon
<1>8. Len(jobs') <= JobCapacity
  BY <1>1, <1>2, <1>7
<1>9. \A i \in DOMAIN jobs' : jobs'[i] # <<>>
  BY <1>7 DEF AgentInv, SinkTypes
<1>10. current' = current /\ overflowed' = overflowed /\ pending' = pending
  BY DEF Parse
<1>11. SinkTypes'
  BY <1>7, <1>8, <1>9, <1>10, Zenon DEF AgentInv, SinkTypes
<1>12. FileTypes' /\ KeptUntilDelivered'
  BY <1>5 DEF AgentInv, Parse, diskVars, deliveryVars, FileTypes, KeptUntilDelivered
<1>13. PrintTypes' /\ OpenHasMore' /\ DeliveryTypes' /\ AnswerIsTrue' /\ mishaps' = mishaps
  BY DEF AgentInv, Parse, printVars, deliveryVars, PrintTypes, OpenHasMore, DeliveryTypes, AnswerIsTrue
<1>. QED
  BY <1>11, <1>12, <1>13 DEF AgentInv

\* What a sequence held it still holds after an append.
LEMMA AppendKeeps ==
    ASSUME NEW S, NEW s \in Seq(S), NEW e \in S
    PROVE  /\ Append(s, e) \in Seq(S)
           /\ Len(s) + 1 \in DOMAIN Append(s, e) /\ Append(s, e)[Len(s) + 1] = e
           /\ \A i \in DOMAIN s : i \in DOMAIN Append(s, e) /\ Append(s, e)[i] = s[i]
OBVIOUS

\* A capture moved into the queue is in it.
LEMMA MoveIntoQueueStep ==
    ASSUME AgentInv, MoveIntoQueue
    PROVE  AgentInv'
<1>1. /\ files' = Append(files, parsed) /\ queued' = queued \cup {parsed}
      /\ parsed \in Captures /\ files \in Seq(Captures)
      /\ rejected' = rejected /\ ledger' = ledger /\ parsed' = NoCapture
  <2>1. parsed \in Captures /\ files \in Seq(Captures)
    BY DEF AgentInv, FileTypes, MoveIntoQueue
  <2>. QED
    BY <2>1 DEF MoveIntoQueue, deliveryVars
<1>2. /\ files' \in Seq(Captures)
      /\ Len(files) + 1 \in DOMAIN files' /\ files'[Len(files) + 1] = parsed
      /\ \A i \in DOMAIN files : i \in DOMAIN files' /\ files'[i] = files[i]
  <2>1. /\ Append(files, parsed) \in Seq(Captures)
        /\ Len(files) + 1 \in DOMAIN Append(files, parsed)
        /\ Append(files, parsed)[Len(files) + 1] = parsed
        /\ \A i \in DOMAIN files :
              i \in DOMAIN Append(files, parsed) /\ Append(files, parsed)[i] = files[i]
    BY <1>1, AppendKeeps
  <2>2. files' = Append(files, parsed)
    BY <1>1
  <2>. QED
    BY <2>1, <2>2, Zenon
<1>3. queued' \in SUBSET Captures /\ IsFiniteSet(queued')
  BY <1>1, FS_AddElement DEF AgentInv, FileTypes
<1>4. FileTypes'
  BY <1>1, <1>2, <1>3 DEF AgentInv, FileTypes
<1>5. KeptUntilDelivered'
  <2>. SUFFICES ASSUME NEW c \in queued'
       PROVE  (c \in rejected \/ ledger[c.invoice] # None \/ \E i \in DOMAIN files' : files'[i] = c)
    BY <1>1 DEF KeptUntilDelivered
  <2>1. CASE c = parsed
    BY <1>2, <2>1
  <2>2. CASE c \in queued
    BY <1>2, <2>2, Zenon DEF AgentInv, KeptUntilDelivered
  <2>. QED
    BY <1>1, <2>1, <2>2
<1>6. PrintTypes' /\ OpenHasMore' /\ SinkTypes'
  BY PrintingStandsStill DEF MoveIntoQueue
<1>7. DeliveryTypes' /\ AnswerIsTrue' /\ mishaps' = mishaps
  BY DEF AgentInv, MoveIntoQueue, deliveryVars, DeliveryTypes, AnswerIsTrue
<1>. QED
  BY <1>4, <1>5, <1>6, <1>7 DEF AgentInv

\* A move that fails puts nothing into the queue that was promised.
LEMMA MoveFailsStep ==
    ASSUME AgentInv, MoveFails
    PROVE  AgentInv'
<1>1. PrintTypes' /\ OpenHasMore' /\ SinkTypes'
  BY PrintingStandsStill DEF MoveFails
<1>2. FileTypes' /\ KeptUntilDelivered' /\ DeliveryTypes' /\ AnswerIsTrue'
  BY DEF AgentInv, MoveFails, diskVars, deliveryVars, FileTypes, KeptUntilDelivered, DeliveryTypes,
         AnswerIsTrue
<1>3. mishaps' \in 0..MaxMishaps
  BY AgentAssumption DEF AgentInv, MoveFails
<1>. QED
  BY <1>1, <1>2, <1>3 DEF AgentInv

-----------------------------------------------------------------------------
(* The delivery loop.                                                      *)
LEMMA SignInStep ==
    ASSUME AgentInv, SignIn
    PROVE  AgentInv'
<1>1. PrintTypes' /\ OpenHasMore' /\ SinkTypes'
  BY PrintingStandsStill DEF SignIn
<1>2. FileTypes' /\ KeptUntilDelivered' /\ DeliveryTypes' /\ AnswerIsTrue' /\ mishaps' = mishaps
  BY DEF AgentInv, SignIn, diskVars, FileTypes, KeptUntilDelivered, DeliveryTypes, AnswerIsTrue
<1>. QED
  BY <1>1, <1>2 DEF AgentInv

\* A delivery pass that begins keeps the invariant.
LEMMA BeginPassStep ==
    ASSUME AgentInv, BeginPass
    PROVE  AgentInv'
<1>1. PrintTypes' /\ OpenHasMore' /\ SinkTypes'
  BY PrintingStandsStill DEF BeginPass
<1>2. FileTypes' /\ KeptUntilDelivered' /\ mishaps' = mishaps
  BY DEF AgentInv, BeginPass, diskVars, FileTypes, KeptUntilDelivered
<1>3. pass' \in [stage : {"resting", "delivering", "answered"}, todo : Seq(Captures),
                 reply : Replies \cup {None}]
  BY DEF AgentInv, BeginPass, FileTypes
<1>4. DeliveryTypes' /\ AnswerIsTrue'
  BY <1>3 DEF AgentInv, BeginPass, DeliveryTypes, AnswerIsTrue
<1>. QED
  BY <1>1, <1>2, <1>4 DEF AgentInv

\* What the manager's PC recorded stays recorded.
LEMMA RecordedKeeps ==
    ASSUME ledger \in [Receipts -> Receipts \cup {None}], NEW c \in Captures
    PROVE  /\ Recorded(c) \in [Receipts -> Receipts \cup {None}]
           /\ Recorded(c)[c.invoice] # None
           /\ \A r \in Receipts : ledger[r] # None => Recorded(c)[r] # None
<1>1. c.invoice \in Receipts /\ c.amount \in Receipts /\ c.amount # None
  BY AgentAssumption DEF Captures
<1>. QED
  BY <1>1 DEF Recorded

\* Captures stay accounted for when the manager's PC only learns invoices.
LEMMA LedgerGrows ==
    ASSUME AgentInv, UNCHANGED diskVars,
           \A r \in Receipts : ledger[r] # None => ledger'[r] # None
    PROVE  KeptUntilDelivered'
<1>. SUFFICES ASSUME NEW c \in queued
     PROVE  c \in rejected \/ ledger'[c.invoice] # None \/ \E i \in DOMAIN files : files[i] = c
  BY DEF KeptUntilDelivered, diskVars
<1>1. c.invoice \in Receipts
  BY DEF AgentInv, FileTypes, Captures
<1>. QED
  BY <1>1 DEF AgentInv, KeptUntilDelivered

\* A pass that is not resting is at a capture.
LEMMA HeadOfPass ==
    ASSUME AgentInv, pass.stage \in {"delivering", "answered"}
    PROVE  /\ pass.todo \in Seq(Captures) /\ pass.todo # <<>>
           /\ Head(pass.todo) \in Captures /\ Head(pass.todo).invoice \in Receipts
<1>1. pass.todo \in Seq(Captures) /\ pass.todo # <<>>
  BY DEF AgentInv, DeliveryTypes, AnswerIsTrue
<1>2. Head(pass.todo) \in Captures
  BY <1>1
<1>. QED
  BY <1>1, <1>2 DEF Captures

\* A delivered capture is answered by what the ledger then says of it.
LEMMA DeliverStep ==
    ASSUME AgentInv, Deliver
    PROVE  AgentInv'
<1>. DEFINE c == Head(pass.todo)
<1>1. /\ pass.todo \in Seq(Captures) /\ pass.todo # <<>> /\ c \in Captures /\ c.invoice \in Receipts
      /\ ledger \in [Receipts -> Receipts \cup {None}]
  BY HeadOfPass DEF Deliver, AgentInv, DeliveryTypes
<1>2. PrintTypes' /\ OpenHasMore' /\ SinkTypes'
  BY PrintingStandsStill DEF Deliver
<1>3. ledger' = IF c.invoice \in RefusedReceipts THEN ledger ELSE Recorded(c)
  BY DEF Deliver
<1>4. /\ ledger' \in [Receipts -> Receipts \cup {None}]
      /\ \A r \in Receipts : ledger[r] # None => ledger'[r] # None
  BY <1>1, <1>3, RecordedKeeps
<1>5. KeptUntilDelivered'
  BY <1>4, LedgerGrows DEF Deliver
<1>6. FileTypes' /\ mishaps' = mishaps
  BY DEF AgentInv, Deliver, diskVars, FileTypes
<1>7. pass' = [pass EXCEPT !.stage = "answered", !.reply = ReplyTo(c)]
  BY DEF Deliver
<1>8. ReplyTo(c) \in Replies
  BY DEF ReplyTo, Replies
<1>9. pass' \in [stage : {"resting", "delivering", "answered"}, todo : Seq(Captures),
                 reply : Replies \cup {None}]
  BY <1>7, <1>8 DEF AgentInv, DeliveryTypes
<1>10. pass'.todo = pass.todo /\ pass'.reply = ReplyTo(c)
  BY <1>7 DEF AgentInv, DeliveryTypes
<1>11. ReplyTo(c) \in {"recorded", "duplicate"} => ledger'[c.invoice] # None
  BY <1>1, <1>3, RecordedKeeps DEF ReplyTo
<1>12. DeliveryTypes'
  BY <1>4, <1>9 DEF AgentInv, Deliver, DeliveryTypes
<1>13. AnswerIsTrue'
  BY <1>1, <1>10, <1>11 DEF AnswerIsTrue
<1>. QED
  BY <1>2, <1>5, <1>6, <1>12, <1>13 DEF AgentInv

\* Two answers that are none: the pass is answered, with a reply that lets no file go.
LEMMA FailedCall ==
    ASSUME AgentInv, pass.stage = "delivering", NEW why \in {"unreachable", "expired"},
           pass' = [pass EXCEPT !.stage = "answered", !.reply = why],
           ledger' \in [Receipts -> Receipts \cup {None}],
           \A r \in Receipts : ledger[r] # None => ledger'[r] # None,
           mishaps < MaxMishaps, mishaps' = mishaps + 1,
           UNCHANGED <<mode, printVars, sinkVars, parsed, diskVars, signedIn>>
    PROVE  AgentInv'
<1>1. pass.todo # <<>>
  BY HeadOfPass
<1>2. PrintTypes' /\ OpenHasMore' /\ SinkTypes'
  BY PrintingStandsStill
<1>3. FileTypes'
  BY DEF AgentInv, diskVars, FileTypes
<1>4. KeptUntilDelivered'
  BY LedgerGrows
<1>5. pass' \in [stage : {"resting", "delivering", "answered"}, todo : Seq(Captures),
                 reply : Replies \cup {None}]
  BY DEF AgentInv, DeliveryTypes, Replies
<1>6. pass'.todo = pass.todo /\ pass'.reply = why
  BY DEF AgentInv, DeliveryTypes
<1>7. DeliveryTypes' /\ AnswerIsTrue'
  BY <1>1, <1>5, <1>6 DEF AgentInv, DeliveryTypes, AnswerIsTrue
<1>8. mishaps' \in 0..MaxMishaps
  BY AgentAssumption DEF AgentInv
<1>. QED
  BY <1>2, <1>3, <1>4, <1>7, <1>8 DEF AgentInv

\* A call whose answer is lost keeps the invariant: the file stays.
LEMMA NoAnswerStep ==
    ASSUME AgentInv, NoAnswer
    PROVE  AgentInv'
<1>1. Head(pass.todo) \in Captures /\ ledger \in [Receipts -> Receipts \cup {None}]
  BY HeadOfPass DEF NoAnswer, AgentInv, DeliveryTypes
<1>2. ledger' = ledger \/ ledger' = Recorded(Head(pass.todo))
  BY DEF NoAnswer
<1>3. /\ ledger' \in [Receipts -> Receipts \cup {None}]
      /\ \A r \in Receipts : ledger[r] # None => ledger'[r] # None
  BY <1>1, <1>2, RecordedKeeps
<1>. QED
  BY <1>3, FailedCall DEF NoAnswer

\* A call refused for its token keeps the invariant: the file stays.
LEMMA TokenExpiredStep ==
    ASSUME AgentInv, TokenExpired
    PROVE  AgentInv'
<1>1. ledger' = ledger /\ ledger \in [Receipts -> Receipts \cup {None}]
  BY DEF TokenExpired, AgentInv, DeliveryTypes
<1>. QED
  BY <1>1, FailedCall DEF TokenExpired
\* The queue without a file keeps every other file.
LEMMA WithoutKeeps ==
    ASSUME NEW S, files \in Seq(S), NEW c
    PROVE  /\ Without(c) \in Seq(S)
           /\ \A i \in DOMAIN files :
                 files[i] # c => \E j \in DOMAIN Without(c) : Without(c)[j] = files[i]
<1>. DEFINE at == {i \in DOMAIN files : files[i] = c}
            n == CHOOSE i \in at : TRUE
            before == SubSeq(files, 1, n - 1)
            after == SubSeq(files, n + 1, Len(files))
<1>1. CASE at = {}
  <2>1. Without(c) = files
    BY <1>1 DEF Without
  <2>. QED
    BY <2>1, Zenon
<1>2. CASE at # {}
  <2>1. n \in at
    BY <1>2
  <2>2. n \in 1..Len(files) /\ files[n] = c /\ Len(files) \in Nat
    BY <2>1
  <2>3. Without(c) = before \o after
    BY <1>2, Zenon DEF Without
  <2>4. /\ before \in Seq(S) /\ Len(before) = n - 1
        /\ \A i \in 1..(n - 1) : before[i] = files[i]
    BY <2>2
  <2>5. /\ after \in Seq(S) /\ Len(after) = Len(files) - n
        /\ \A i \in 1..(Len(files) - n) : after[i] = files[n + i]
    BY <2>2
  <2>6. /\ Without(c) \in Seq(S) /\ DOMAIN Without(c) = 1..(Len(files) - 1)
        /\ \A i \in 1..(n - 1) : Without(c)[i] = before[i]
        /\ \A i \in 1..(Len(files) - n) : Without(c)[n - 1 + i] = after[i]
    <3>. HIDE DEF before, after, n
    <3>. QED
      BY <2>2, <2>3, <2>4, <2>5
  <2>7. ASSUME NEW i \in DOMAIN files, files[i] # c
        PROVE  \E j \in DOMAIN Without(c) : Without(c)[j] = files[i]
    <3>1. i \in 1..Len(files) /\ i # n
      BY <2>2, <2>7
    <3>2. CASE i < n
      <4>1. i \in 1..(n - 1) /\ i \in DOMAIN Without(c)
        BY <2>2, <2>6, <3>1, <3>2
      <4>2. Without(c)[i] = files[i]
        BY <2>4, <2>6, <4>1
      <4>. QED
        BY <4>1, <4>2
    <3>3. CASE i > n
      <4>1. i - n \in 1..(Len(files) - n) /\ n - 1 + (i - n) = i - 1 /\ n + (i - n) = i
            /\ i - 1 \in DOMAIN Without(c)
        BY <2>2, <2>6, <3>1, <3>3
      <4>2. Without(c)[i - 1] = after[i - n] /\ after[i - n] = files[i]
        BY <2>5, <2>6, <4>1
      <4>. QED
        BY <4>1, <4>2
    <3>. QED
      BY <2>2, <3>1, <3>2, <3>3
  <2>. QED
    BY <2>6, <2>7
<1>. QED
  BY <1>1, <1>2

\* After a reply the pass is at the next file, or rests.
LEMMA AfterReplyTyped ==
    ASSUME AgentInv, pass.stage = "answered"
    PROVE  /\ AfterReply \in [stage : {"resting", "delivering", "answered"}, todo : Seq(Captures),
                             reply : Replies \cup {None}]
           /\ AfterReply.stage = "delivering" => AfterReply.todo # <<>>
           /\ AfterReply.stage # "answered"
<1>1. pass.todo \in Seq(Captures) /\ pass.todo # <<>>
  BY HeadOfPass
<1>2. Tail(pass.todo) \in Seq(Captures) /\ (Len(pass.todo) > 1 => Tail(pass.todo) # <<>>)
  <2>1. Tail(pass.todo) \in Seq(Captures) /\ Len(Tail(pass.todo)) = Len(pass.todo) - 1
    BY <1>1, TailTyped
  <2>2. ASSUME Len(pass.todo) > 1, Tail(pass.todo) = <<>>
        PROVE  FALSE
    <3>1. Len(Tail(pass.todo)) = 0
      BY <2>2, EmptySequence, Zenon
    <3>2. Len(pass.todo) \in Nat
      BY <1>1
    <3>. QED
      BY <2>1, <2>2, <3>1, <3>2
  <2>. QED
    BY <2>1, <2>2
<1>3. Resting.stage = "resting" /\ Resting.todo \in Seq(Captures) /\
      Resting \in [stage : {"resting", "delivering", "answered"}, todo : Seq(Captures),
                   reply : Replies \cup {None}]
  BY EmptySequence DEF Resting
<1>. QED
  BY <1>2, <1>3 DEF AfterReply

\* Acting on a reply lets a file go only when the ledger has its invoice or it is set aside.
LEMMA ActOnReplyStep ==
    ASSUME AgentInv, ActOnReply
    PROVE  AgentInv'
<1>. DEFINE c == Head(pass.todo)
<1>1. c \in Captures /\ c.invoice \in Receipts
  BY HeadOfPass DEF ActOnReply
<1>2. /\ files' = IF pass.reply \in Final THEN Without(c) ELSE files
      /\ rejected' = SetAside(c) /\ queued' = queued /\ ledger' = ledger
      /\ parsed' = parsed /\ pass' = AfterReply /\ mishaps' = mishaps
      /\ signedIn' \in BOOLEAN
  BY DEF ActOnReply
<1>3. files \in Seq(Captures)
  BY DEF AgentInv, FileTypes
<1>4. /\ Without(c) \in Seq(Captures)
      /\ \A i \in DOMAIN files :
            files[i] # c => \E j \in DOMAIN Without(c) : Without(c)[j] = files[i]
  BY <1>3, WithoutKeeps, Zenon
<1>5. FileTypes'
  <2>1. files' \in Seq(Captures)
    BY <1>2, <1>3, <1>4, Zenon
  <2>2. rejected' \in SUBSET Captures
    BY <1>1, <1>2 DEF SetAside, AgentInv, FileTypes
  <2>. QED
    BY <1>2, <2>1, <2>2 DEF AgentInv, FileTypes
<1>6. KeptUntilDelivered'
  <2>. SUFFICES ASSUME NEW d \in queued
       PROVE  d \in rejected' \/ ledger[d.invoice] # None \/ \E i \in DOMAIN files' : files'[i] = d
    BY <1>2 DEF KeptUntilDelivered
  <2>1. CASE d \in rejected \/ ledger[d.invoice] # None
    BY <1>2, <2>1 DEF SetAside
  <2>2. ASSUME NEW i \in DOMAIN files, files[i] = d
        PROVE  d \in rejected' \/ ledger[d.invoice] # None \/ \E j \in DOMAIN files' : files'[j] = d
    <3>1. CASE pass.reply \notin Final
      BY <1>2, <2>2, <3>1, Zenon
    <3>2. CASE pass.reply \in Final /\ d # c
      BY <1>2, <1>4, <2>2, <3>2, Zenon
    <3>3. CASE pass.reply \in {"recorded", "duplicate"} /\ d = c
      BY <3>3 DEF AgentInv, AnswerIsTrue, ActOnReply
    <3>4. CASE pass.reply = "refused" /\ d = c
      BY <1>2, <3>4 DEF SetAside
    <3>. QED
      BY <3>1, <3>2, <3>3, <3>4 DEF Final
  <2>. QED
    BY <2>1, <2>2 DEF AgentInv, KeptUntilDelivered
<1>7. DeliveryTypes' /\ AnswerIsTrue'
  <2>1. /\ pass' \in [stage : {"resting", "delivering", "answered"}, todo : Seq(Captures),
                      reply : Replies \cup {None}]
        /\ pass'.stage = "delivering" => pass'.todo # <<>>
        /\ pass'.stage # "answered"
    BY <1>2, AfterReplyTyped DEF ActOnReply
  <2>. QED
    BY <1>2, <2>1 DEF AgentInv, DeliveryTypes, AnswerIsTrue
<1>8. PrintTypes' /\ OpenHasMore' /\ SinkTypes'
  BY PrintingStandsStill DEF ActOnReply
<1>. QED
  BY <1>2, <1>5, <1>6, <1>7, <1>8 DEF AgentInv

\* A file that could not be deleted or set aside is still in the queue.
LEMMA ActOnReplyFailsStep ==
    ASSUME AgentInv, ActOnReplyFails
    PROVE  AgentInv'
<1>1. /\ pass' \in [stage : {"resting", "delivering", "answered"}, todo : Seq(Captures),
                    reply : Replies \cup {None}]
      /\ pass'.stage = "delivering" => pass'.todo # <<>>
      /\ pass'.stage # "answered"
  BY AfterReplyTyped DEF ActOnReplyFails
<1>2. DeliveryTypes' /\ AnswerIsTrue'
  BY <1>1 DEF AgentInv, ActOnReplyFails, DeliveryTypes, AnswerIsTrue
<1>3. FileTypes' /\ KeptUntilDelivered'
  BY DEF AgentInv, ActOnReplyFails, diskVars, FileTypes, KeptUntilDelivered
<1>4. PrintTypes' /\ OpenHasMore' /\ SinkTypes'
  BY PrintingStandsStill DEF ActOnReplyFails
<1>5. mishaps' \in 0..MaxMishaps
  BY AgentAssumption DEF AgentInv, ActOnReplyFails
<1>. QED
  BY <1>2, <1>3, <1>4, <1>5 DEF AgentInv

\* A restart loses the channel and keeps the files.
LEMMA RestartStep ==
    ASSUME AgentInv, Restart
    PROVE  AgentInv'
<1>1. PrintTypes' /\ OpenHasMore'
  BY IdleTyped DEF AgentInv, Restart, PrintTypes, OpenHasMore
<1>2. MaxJobParts \in Nat /\ JobCapacity \in Nat
  BY AgentAssumption
<1>3. <<>> \in Seq(Parts) /\ <<>> \in Seq(Seq(Parts)) /\ Len(<<>>) = 0 /\ DOMAIN <<>> = {}
  BY EmptySequence
<1>4. current' = <<>> /\ jobs' = <<>> /\ overflowed' = FALSE /\ pending' = FALSE
  BY DEF Restart
<1>5. Len(current') <= MaxJobParts /\ Len(jobs') <= JobCapacity
  BY <1>2, <1>3, <1>4
<1>6. SinkTypes'
  BY <1>3, <1>4, <1>5 DEF SinkTypes
<1>7. FileTypes' /\ KeptUntilDelivered'
  BY DEF AgentInv, Restart, diskVars, FileTypes, KeptUntilDelivered
<1>8. pass' \in [stage : {"resting", "delivering", "answered"}, todo : Seq(Captures),
                 reply : Replies \cup {None}] /\ pass'.stage = "resting"
  BY EmptySequence DEF Restart, Resting
<1>9. DeliveryTypes' /\ AnswerIsTrue'
  BY <1>8 DEF AgentInv, Restart, DeliveryTypes, AnswerIsTrue
<1>10. mishaps' \in 0..MaxMishaps
  BY AgentAssumption DEF AgentInv, Restart
<1>. QED
  BY <1>1, <1>6, <1>7, <1>9, <1>10 DEF AgentInv

\* A step that changes nothing keeps the invariant.
LEMMA AgentStutter ==
    ASSUME AgentInv, UNCHANGED agentVars
    PROVE  AgentInv'
<1>1. UNCHANGED <<mode, printVars, sinkVars, parsed, diskVars, deliveryVars, mishaps>>
  BY DEF agentVars
<1>2. PrintTypes' /\ OpenHasMore' /\ SinkTypes'
  BY <1>1, PrintingStandsStill
<1>3. FileTypes' /\ KeptUntilDelivered' /\ DeliveryTypes' /\ AnswerIsTrue'
  BY <1>1, StandingStill DEF QueueStandsStill
<1>. QED
  BY <1>1, <1>2, <1>3 DEF AgentInv

\* The strengthening implies what the run checks.

\* The invariant implies what the run checks.
LEMMA AgentInvImplies == AgentInv => Inv
<1>. SUFFICES ASSUME AgentInv PROVE Inv
  OBVIOUS
<1>1. mode \in Modes /\ {capturing, overflowed, pending, signedIn} \subseteq BOOLEAN
      /\ left \subseteq Receipts /\ printed \subseteq Receipts
  BY DEF AgentInv, PrintTypes, SinkTypes, DeliveryTypes
<1>2. ASSUME NEW t \in Tills
      PROVE  /\ till[t].stage \in {"idle", "open", "forwarded", "ending"}
             /\ till[t].receipt \in Receipts \cup {None}
             /\ AllIn(till[t].todo \o till[t].chunk, Parts)
  <2>1. till[t] \in TillStates
    BY DEF AgentInv, PrintTypes
  <2>2. till[t].todo \o till[t].chunk \in Seq(Parts)
    BY <2>1 DEF TillStates
  <2>3. AllIn(till[t].todo \o till[t].chunk, Parts)
    <3>. DEFINE both == till[t].todo \o till[t].chunk
    <3>1. both \in Seq(Parts)
      BY <2>2
    <3>2. AllIn(both, Parts)
      <4>. HIDE DEF both
      <4>. QED
        BY <3>1 DEF AllIn
    <3>. QED
      BY <3>2
  <2>. QED
    BY <2>1, <2>3 DEF TillStates
<1>3. AllIn(current, Parts) /\ Len(current) <= MaxJobParts /\ Len(jobs) <= JobCapacity
  BY DEF AgentInv, SinkTypes, AllIn
<1>4. \A i \in DOMAIN jobs : jobs[i] # <<>> /\ AllIn(jobs[i], Parts)
  <2>1. \A i \in DOMAIN jobs : jobs[i] \in Seq(Parts) /\ jobs[i] # <<>>
    BY DEF AgentInv, SinkTypes
  <2>. QED
    BY <2>1 DEF AllIn
<1>5. (parsed = NoCapture \/ parsed \in Captures) /\ AllIn(files, Captures)
      /\ rejected \subseteq Captures /\ queued \subseteq Captures
  BY DEF AgentInv, FileTypes, AllIn
<1>6. /\ pass.stage \in {"resting", "delivering", "answered"}
      /\ AllIn(pass.todo, Captures)
      /\ pass.reply \in Replies \cup {None}
      /\ ledger \in [Receipts -> Receipts \cup {None}]
  <2>1. pass.todo \in Seq(Captures)
    BY DEF AgentInv, DeliveryTypes
  <2>. QED
    BY <2>1 DEF AgentInv, DeliveryTypes, AllIn
<1>. QED
  BY <1>1, <1>2, <1>3, <1>4, <1>5, <1>6 DEF AgentInv, Inv, AgentTypeOK

(* In every capture mode, with any number of tills and receipts and any    *)
(* number of failures, the agent keeps its types and a capture that        *)
(* reached the queue is still in it, set aside, or known to the manager's  *)
(* PC: CaptureQueue.cs, DeliveryWorker.cs, ChannelCaptureSink.cs.          *)
THEOREM NoCaptureIsLost == AgentSpec => []Inv
<1>1. AgentInit => AgentInv
  BY AgentInitInv
<1>2. AgentInv /\ [AgentNext]_agentVars => AgentInv'
  <2>. SUFFICES ASSUME AgentInv, [AgentNext]_agentVars PROVE AgentInv'
    OBVIOUS
  <2>1. ASSUME NEW t \in Tills, NEW r \in Receipts, StartPrinting(t, r)
        PROVE  AgentInv'
    BY <2>1, StartPrintingStep
  <2>2. ASSUME NEW t \in Tills,
               Relay(t) \/ Offer(t) \/ EndJob(t) \/ SeeSpoolFileAgain(t) \/ RelayFails(t)
        PROVE  AgentInv'
    BY <2>2, RelayStep, OfferStep, EndJobStep, SeeSpoolFileAgainStep, RelayFailsStep
  <2>3. CASE OnIdle
    BY <2>3, OnIdleStep
  <2>4. CASE Parse \/ MoveIntoQueue \/ MoveFails
    BY <2>4, ParseStep, MoveIntoQueueStep, MoveFailsStep
  <2>5. CASE SignIn \/ BeginPass \/ Deliver \/ NoAnswer \/ TokenExpired
    BY <2>5, SignInStep, BeginPassStep, DeliverStep, NoAnswerStep, TokenExpiredStep
  <2>6. CASE ActOnReply \/ ActOnReplyFails \/ Restart
    BY <2>6, ActOnReplyStep, ActOnReplyFailsStep, RestartStep
  <2>7. CASE UNCHANGED agentVars
    BY <2>7, AgentStutter
  <2>. QED
    BY <2>1, <2>2, <2>3, <2>4, <2>5, <2>6, <2>7 DEF AgentNext
<1>. QED
  BY <1>1, <1>2, AgentInvImplies, PTL DEF AgentSpec
=============================================================================
