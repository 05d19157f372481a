---------------------------- MODULE CaptureAgent ----------------------------
(***************************************************************************)
(* The capture agent on the cashier PC: a receipt is relayed to the        *)
(* printer, offered to an in-memory sink, parsed into an invoice, written  *)
(* to a queue on the disk and delivered to the manager's PC until that PC  *)
(* has it.                                                                 *)
(*                                                                         *)
(* A receipt is two parts, its number and its total, in that order.  The   *)
(* print path, the parse loop and the delivery loop run side by side; a    *)
(* crash forgets everything but the files.  The manager's PC is external.  *)
(***************************************************************************)
EXTENDS Absent, Integers, Sequences, FiniteSets

CONSTANTS
    Tills,        \* connections, spool files or lines that may print at once
    Receipts,     \* receipts, each printed once
    Modes,        \* the capture modes a run admits
    RefusedReceipts, \* invoices the manager's PC answers 400 or 422
    JobCapacity,  \* ChannelCaptureSink.JobCapacity
    MaxJobParts,  \* ChannelCaptureSink.MaxJobBytes, in parts
    MaxMishaps    \* bound on failures of a connection, a disk, a network, a process

ASSUME AgentAssumption ==
    /\ Modes \subseteq {"SPOOL_WATCH", "VIRTUAL_PRINTER", "SERIAL_BRIDGE", "NETWORK_PROXY"}
    /\ RefusedReceipts \subseteq Receipts
    /\ None \notin Receipts
    /\ {JobCapacity, MaxJobParts} \subseteq Nat \ {0}
    /\ MaxMishaps \in Nat

VARIABLES
    mode,        \* the configured capture mode
    capturing,   \* it could be started, and its relay still runs
    left,        \* receipts not printed yet
    till,        \* what each connection, file or line is in the middle of
    printed,     \* receipts the printer was given whole
    current,     \* ChannelCaptureSink._current, one buffer for all
    overflowed,  \* ChannelCaptureSink._overflowed
    pending,     \* IdleJobSink._pending
    jobs,        \* the bounded channel of complete jobs
    parsed,      \* what the parse loop is about to write to the disk
    files,       \* the queue directory, oldest first
    rejected,    \* the rejected/ directory
    signedIn,    \* the delivery loop holds a token
    pass,        \* the delivery loop
    ledger,      \* the manager's PC: the amount it recorded for an invoice
    queued,      \* every capture ever moved into the queue
    mishaps

printVars == <<capturing, left, till, printed>>
sinkVars == <<current, overflowed, pending, jobs>>
diskVars == <<files, rejected, queued>>
deliveryVars == <<signedIn, pass, ledger>>
agentVars == <<mode, printVars, sinkVars, parsed, diskVars, deliveryVars, mishaps>>

Parts == Receipts \X {"number", "total"}
PartsOf(r) == <<<<r, "number">>, <<r, "total">>>>
Captures == [key : Nat, invoice : Receipts, amount : Receipts]
NoCapture == [key |-> 0, invoice |-> None, amount |-> None]
Replies == {"recorded", "duplicate", "refused", "expired", "unreachable"}
Idle == [stage |-> "idle", receipt |-> None, todo |-> <<>>, chunk |-> <<>>]
Resting == [stage |-> "resting", todo |-> <<>>, reply |-> None]

AllIn(seq, S) == \A i \in DOMAIN seq : seq[i] \in S

AgentTypeOK ==
    /\ mode \in Modes
    /\ {capturing, overflowed, pending, signedIn} \subseteq BOOLEAN
    /\ left \subseteq Receipts /\ printed \subseteq Receipts
    /\ \A t \in Tills :
        /\ till[t].stage \in {"idle", "open", "forwarded", "ending"}
        /\ till[t].receipt \in Receipts \cup {None}
        /\ AllIn(till[t].todo \o till[t].chunk, Parts)
    /\ AllIn(current, Parts) /\ Len(current) <= MaxJobParts
    /\ Len(jobs) <= JobCapacity
    /\ \A i \in DOMAIN jobs : jobs[i] # <<>> /\ AllIn(jobs[i], Parts)
    /\ parsed = NoCapture \/ parsed \in Captures
    /\ AllIn(files, Captures)
    /\ rejected \subseteq Captures /\ queued \subseteq Captures
    /\ pass.stage \in {"resting", "delivering", "answered"}
    /\ AllIn(pass.todo, Captures)
    /\ pass.reply \in Replies \cup {None}
    /\ ledger \in [Receipts -> Receipts \cup {None}]
    /\ mishaps \in 0..MaxMishaps

AgentInit ==
    /\ mode \in Modes
    /\ capturing = TRUE
    /\ left = Receipts
    /\ till = [t \in Tills |-> Idle]
    /\ printed = {}
    /\ current = <<>> /\ overflowed = FALSE /\ pending = FALSE
    /\ jobs = <<>>
    /\ parsed = NoCapture
    /\ files = <<>> /\ rejected = {} /\ queued = {}
    /\ signedIn = FALSE
    /\ pass = Resting
    /\ ledger = [r \in Receipts |-> None]
    /\ mishaps = 0

-----------------------------------------------------------------------------
(* The sink.  TryCapture and TryCompleteJob each hold the gate; neither    *)
(* waits for anybody.                                                      *)
Framed == mode # "SERIAL_BRIDGE"   \* a line has no end-of-job mark
Whole == mode \in {"SPOOL_WATCH", "VIRTUAL_PRINTER"}   \* a file is read at once

TryCapture(chunk) ==
    /\ IF Len(current) + Len(chunk) > MaxJobParts
         THEN overflowed' = TRUE /\ UNCHANGED current
         ELSE current' = current \o chunk /\ UNCHANGED overflowed
    /\ pending' = ~Framed
    /\ UNCHANGED jobs

\* A slip: WriteAsync, which waits for room, in place of TryWrite.
HandOverWaiting ==
    /\ Len(jobs) < JobCapacity
    /\ jobs' = IF current = <<>> \/ overflowed THEN jobs ELSE Append(jobs, current)

HandOver ==
    jobs' = IF current = <<>> \/ overflowed \/ Len(jobs) = JobCapacity
              THEN jobs ELSE Append(jobs, current)

TryCompleteJob ==
    /\ HandOver
    /\ current' = <<>>
    /\ overflowed' = FALSE
    /\ pending' = FALSE

-----------------------------------------------------------------------------
(* The print path.  A chunk is forwarded first and offered afterwards.     *)
StartPrinting(t, r) ==
    /\ capturing
    /\ till[t].stage = "idle" /\ r \in left
    /\ mode = "SERIAL_BRIDGE" => \A u \in Tills : till[u].stage = "idle"
    /\ left' = left \ {r}
    /\ till' = [till EXCEPT ![t] = [stage |-> "open", receipt |-> r, todo |-> PartsOf(r), chunk |-> <<>>]]
    /\ UNCHANGED <<mode, capturing, printed, sinkVars, parsed, diskVars, deliveryVars, mishaps>>

Relay(t) ==
    /\ till[t].stage = "open"
    /\ LET n == IF Whole THEN Len(till[t].todo) ELSE 1
           rest == SubSeq(till[t].todo, n + 1, Len(till[t].todo))
       IN  /\ till' = [till EXCEPT ![t].stage = "forwarded",
                                   ![t].chunk = SubSeq(till[t].todo, 1, n), ![t].todo = rest]
           /\ printed' = IF rest = <<>> THEN printed \cup {till[t].receipt} ELSE printed
    /\ UNCHANGED <<mode, capturing, left, sinkVars, parsed, diskVars, deliveryVars, mishaps>>

Offer(t) ==
    /\ till[t].stage = "forwarded"
    /\ TryCapture(till[t].chunk)
    /\ till' = IF till[t].todo = <<>> /\ ~Framed
                 THEN [till EXCEPT ![t] = Idle]
                 ELSE [till EXCEPT ![t].chunk = <<>>,
                         ![t].stage = IF till[t].todo = <<>> THEN "ending" ELSE "open"]
    /\ UNCHANGED <<mode, capturing, left, printed, parsed, diskVars, deliveryVars, mishaps>>

EndJob(t) ==
    /\ till[t].stage = "ending"
    /\ TryCompleteJob
    /\ till' = [till EXCEPT ![t] = Idle]
    /\ UNCHANGED <<mode, capturing, left, printed, parsed, diskVars, deliveryVars, mishaps>>

\* A Changed event once the first reading has forgotten the path.
SeeSpoolFileAgain(t) ==
    /\ mode = "SPOOL_WATCH" /\ mishaps < MaxMishaps
    /\ till[t].stage = "idle"
    /\ \E r \in printed :
        /\ \A u \in Tills : till[u].receipt # r
        /\ till' = [till EXCEPT ![t] = [stage |-> "open", receipt |-> r, todo |-> PartsOf(r), chunk |-> <<>>]]
    /\ mishaps' = mishaps + 1
    /\ UNCHANGED <<mode, capturing, left, printed, sinkVars, parsed, diskVars, deliveryVars>>

\* The line is quiet: two seconds without a chunk, which a pause inside a
\* receipt may be too.
OnIdle ==
    /\ pending
    /\ TryCompleteJob
    /\ UNCHANGED <<mode, printVars, parsed, diskVars, deliveryVars, mishaps>>

\* The source or the printer fails under the relay.  RelayAsync throws, so the
\* job is not completed; a serial bridge ends its job, and relays no more.
RelayFails(t) ==
    /\ mishaps < MaxMishaps
    /\ till[t].stage = "open"
    /\ till' = [till EXCEPT ![t] = Idle]
    /\ mishaps' = mishaps + 1
    /\ \/ Framed /\ UNCHANGED <<sinkVars, capturing>>
       \/ /\ ~Framed
          /\ capturing' = FALSE
          /\ IF pending THEN TryCompleteJob ELSE UNCHANGED sinkVars
    /\ UNCHANGED <<mode, left, printed, parsed, diskVars, deliveryVars>>

-----------------------------------------------------------------------------
(* The parse loop.  The first number and the first total a job holds make  *)
(* its invoice; a job that lacks one is logged and let go.                 *)
Field(job, name) ==
    LET found == {i \in DOMAIN job : job[i][2] = name}
    IN  IF found = {} THEN None ELSE job[CHOOSE i \in found : \A j \in found : i <= j][1]

Parse ==
    /\ parsed = NoCapture /\ jobs # <<>>
    /\ LET invoice == Field(jobs[1], "number")
           amount == Field(jobs[1], "total")
       IN  parsed' = IF None \in {invoice, amount} THEN NoCapture
                     ELSE [key |-> Cardinality(queued) + 1, invoice |-> invoice, amount |-> amount]
    /\ jobs' = Tail(jobs)
    /\ UNCHANGED <<mode, printVars, current, overflowed, pending, diskVars, deliveryVars, mishaps>>

\* EnqueueAsync: a temporary file moved into place.
MoveIntoQueue ==
    /\ parsed # NoCapture
    /\ files' = Append(files, parsed)
    /\ queued' = queued \cup {parsed}
    /\ parsed' = NoCapture
    /\ UNCHANGED <<mode, printVars, sinkVars, rejected, deliveryVars, mishaps>>

MoveFails ==
    /\ parsed # NoCapture /\ mishaps < MaxMishaps
    /\ parsed' = NoCapture
    /\ mishaps' = mishaps + 1
    /\ UNCHANGED <<mode, printVars, sinkVars, diskVars, deliveryVars>>

-----------------------------------------------------------------------------
(* The delivery loop: sign in, then a pass over the files, oldest first.   *)
SignIn ==
    /\ pass.stage = "resting" /\ ~signedIn
    /\ signedIn' = TRUE
    /\ UNCHANGED <<mode, printVars, sinkVars, parsed, diskVars, pass, ledger, mishaps>>

BeginPass ==
    /\ pass.stage = "resting" /\ signedIn /\ files # <<>>
    /\ pass' = [stage |-> "delivering", todo |-> files, reply |-> None]
    /\ UNCHANGED <<mode, printVars, sinkVars, parsed, diskVars, signedIn, ledger, mishaps>>

\* POST /ingest/invoice, as the manager's PC answers it.
Recorded(c) == IF ledger[c.invoice] = None THEN [ledger EXCEPT ![c.invoice] = c.amount] ELSE ledger
ReplyTo(c) ==
    IF c.invoice \in RefusedReceipts THEN "refused"
    ELSE IF ledger[c.invoice] = None THEN "recorded" ELSE "duplicate"

Deliver ==
    /\ pass.stage = "delivering"
    /\ LET c == Head(pass.todo)
       IN  /\ pass' = [pass EXCEPT !.stage = "answered", !.reply = ReplyTo(c)]
           /\ ledger' = IF c.invoice \in RefusedReceipts THEN ledger ELSE Recorded(c)
    /\ UNCHANGED <<mode, printVars, sinkVars, parsed, diskVars, signedIn, mishaps>>

\* No answer, whether or not the request arrived.
NoAnswer ==
    /\ pass.stage = "delivering" /\ mishaps < MaxMishaps
    /\ pass' = [pass EXCEPT !.stage = "answered", !.reply = "unreachable"]
    /\ ledger' \in {ledger} \cup
         {Recorded(c) : c \in {d \in {Head(pass.todo)} : d.invoice \notin RefusedReceipts}}
    /\ mishaps' = mishaps + 1
    /\ UNCHANGED <<mode, printVars, sinkVars, parsed, diskVars, signedIn>>

TokenExpired ==
    /\ pass.stage = "delivering" /\ mishaps < MaxMishaps
    /\ pass' = [pass EXCEPT !.stage = "answered", !.reply = "expired"]
    /\ mishaps' = mishaps + 1
    /\ UNCHANGED <<mode, printVars, sinkVars, parsed, diskVars, signedIn, ledger>>

\* A slip: a refused capture is deleted, as a recorded one is.
Deleted(c) == rejected

SetAside(c) == IF pass.reply = "refused" THEN rejected \cup {c} ELSE rejected

\* A slip: a refused capture is left where it is, and ends the pass.
OnlySettled == {"recorded", "duplicate"}

\* The replies after which a capture leaves the queue and the pass goes on.
Final == {"recorded", "duplicate", "refused"}

AfterReply ==
    IF pass.reply \in Final /\ Len(pass.todo) > 1
      THEN [stage |-> "delivering", todo |-> Tail(pass.todo), reply |-> None]
      ELSE Resting

\* The queue without a file; deleting one that is gone does nothing.
Without(c) ==
    LET at == {i \in DOMAIN files : files[i] = c}
        n == CHOOSE i \in at : TRUE
    IN  IF at = {} THEN files ELSE SubSeq(files, 1, n - 1) \o SubSeq(files, n + 1, Len(files))

ActOnReply ==
    /\ pass.stage = "answered"
    /\ LET c == Head(pass.todo)
       IN  /\ files' = IF pass.reply \in Final THEN Without(c) ELSE files
           /\ rejected' = SetAside(c)
    /\ signedIn' = (pass.reply # "expired")
    /\ pass' = AfterReply
    /\ UNCHANGED <<mode, printVars, sinkVars, parsed, queued, ledger, mishaps>>

\* File.Delete or File.Move is refused: logged, and the pass goes on.
ActOnReplyFails ==
    /\ pass.stage = "answered" /\ pass.reply \in Final /\ mishaps < MaxMishaps
    /\ pass' = AfterReply
    /\ mishaps' = mishaps + 1
    /\ UNCHANGED <<mode, printVars, sinkVars, parsed, diskVars, signedIn, ledger>>

\* The process dies; the watchdog starts it again, with or without its capture mode.
Restart ==
    /\ mishaps < MaxMishaps
    /\ capturing' \in BOOLEAN
    /\ till' = [t \in Tills |-> Idle]
    /\ current' = <<>> /\ overflowed' = FALSE /\ pending' = FALSE
    /\ jobs' = <<>>
    /\ parsed' = NoCapture
    /\ signedIn' = FALSE /\ pass' = Resting
    /\ mishaps' = mishaps + 1
    /\ UNCHANGED <<mode, left, printed, diskVars, ledger>>

Printing(t) == Relay(t) \/ Offer(t) \/ EndJob(t)
Delivering == BeginPass \/ ActOnReply

AgentNext ==
    \/ \E t \in Tills :
        \/ \E r \in Receipts : StartPrinting(t, r)
        \/ Relay(t) \/ Offer(t) \/ EndJob(t)
        \/ SeeSpoolFileAgain(t) \/ RelayFails(t)
    \/ OnIdle
    \/ Parse \/ MoveIntoQueue \/ MoveFails
    \/ SignIn \/ BeginPass \/ Deliver \/ NoAnswer \/ TokenExpired
    \/ ActOnReply \/ ActOnReplyFails
    \/ Restart

(***************************************************************************)
(* The print path's own steps are taken when they can be: nothing but the  *)
(* source and the printer is awaited there.  The delivery loop repeats     *)
(* every fifteen seconds, and the manager's PC answers it again and again. *)
(* Nothing is asked of the parse loop: a disk may hold it up for ever.     *)
(***************************************************************************)
AgentSpec ==
    /\ AgentInit /\ [][AgentNext]_agentVars
    /\ \A t \in Tills : WF_agentVars(Printing(t))
    /\ WF_agentVars(Delivering)
    /\ SF_agentVars(SignIn) /\ SF_agentVars(Deliver)

-----------------------------------------------------------------------------
(* A capture that reached the queue is in the queue, set aside, or known   *)
(* to the manager's PC: neither a lost answer, a refusal, an expired       *)
(* token, a failed deletion nor a crash loses one.                         *)
KeptUntilDelivered ==
    \A c \in queued :
        \/ c \in rejected
        \/ ledger[c.invoice] # None
        \/ \E i \in DOMAIN files : files[i] = c

(* Both hold in each capture mode, and across restarts in the middle.      *)
Inv == AgentTypeOK /\ KeptUntilDelivered

(* A receipt never waits for the parse loop, the disk or the manager's PC: *)
(* whatever they do, its relay comes to an end.                            *)
PrintingNeverWaits ==
    \A t \in Tills : (till[t].stage # "idle") ~> (till[t].stage = "idle")

(* A capture does not stay in the queue for ever, behind a refused one or  *)
(* after an expired token either: it is delivered or set aside.            *)
EventuallyDelivered ==
    \A r \in Receipts :
        (\E i \in DOMAIN files : files[i].invoice = r)
            ~> (ledger[r] # None \/ \E c \in rejected : c.invoice = r)
=============================================================================
