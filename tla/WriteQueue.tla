----------------------------- MODULE WriteQueue -----------------------------
(***************************************************************************)
(* writeTransaction: the one queue every many-statement write of the API   *)
(* passes through, in front of a database that admits one writer.          *)
(*                                                                         *)
(* A caller's body is a few statements; a nested caller reaches            *)
(* writeTransaction again from inside its body.  Statements that bypass    *)
(* the queue, and the database's own limits, make an attempt fail; a body  *)
(* whose attempt timed out is not cancelled and goes on beside its retry.  *)
(***************************************************************************)
EXTENDS Integers, Sequences, FiniteSets

CONSTANTS
    Callers,
    Nested,        \* callers whose body reaches writeTransaction again
    Doomed,        \* callers whose body throws a failure of its own
    MaxAttempts,   \* MAX_ATTEMPTS
    MaxTrouble,    \* bound on contention
    None

ASSUME WriteAssumption ==
    /\ Nested \subseteq Callers /\ Doomed \subseteq Callers
    /\ None \notin Callers \cup {"done", "failed"}
    /\ MaxAttempts \in Nat \ {0} /\ MaxTrouble \in Nat

VARIABLES
    chain,      \* the promise chain behind tail: who was called and not settled yet
    asked,      \* the order in which callers joined it
    body,       \* [stage, attempt, done]: each caller's run
    stray,      \* bodies still running after their attempt was closed
    busy,       \* a statement from outside the queue holds the writer
    landed,     \* statements of each caller that are in the database
    committed,  \* callers whose transaction committed, in order
    told,       \* what each caller was answered
    trouble

vars == <<chain, asked, body, stray, busy, landed, committed, told, trouble>>

\* A nested body has the inner call's statement beside its own.
Size(c) == IF c \in Nested THEN 2 ELSE 1
Unasked == [stage |-> "unasked", attempt |-> 0, done |-> 0]

TypeOK ==
    /\ \A i \in DOMAIN chain : chain[i] \in Callers
    /\ \A i \in DOMAIN asked : asked[i] \in Callers
    /\ body \in [Callers -> [stage : {"unasked", "waiting", "open", "backoff", "settled"},
                             attempt : 0..MaxAttempts, done : 0..2]]
    /\ stray \subseteq Callers
    /\ busy \in BOOLEAN
    /\ landed \in [Callers -> 0..4]
    /\ \A i \in DOMAIN committed : committed[i] \in Callers
    /\ told \in [Callers -> {"done", "failed", None}]
    /\ trouble \in 0..MaxTrouble

Init ==
    /\ chain = <<>> /\ asked = <<>> /\ committed = <<>>
    /\ body = [c \in Callers |-> Unasked]
    /\ stray = {} /\ busy = FALSE
    /\ landed = [c \in Callers |-> 0]
    /\ told = [c \in Callers |-> None]
    /\ trouble = 0

-----------------------------------------------------------------------------
Call(c) ==
    /\ body[c].stage = "unasked"
    /\ body' = [body EXCEPT ![c].stage = "waiting"]
    /\ chain' = Append(chain, c)
    /\ asked' = Append(asked, c)
    /\ UNCHANGED <<stray, busy, landed, committed, told, trouble>>

Turn(c) == chain # <<>> /\ Head(chain) = c

\* $transaction opens: the first attempt, or one after a backoff.
Open(c) ==
    /\ body[c].stage \in {"waiting", "backoff"}
    /\ Turn(c)
    /\ ~busy /\ \A d \in Callers : body[d].stage # "open"
    /\ body' = [body EXCEPT ![c].stage = "open", ![c].attempt = @ + 1, ![c].done = 0]
    /\ UNCHANGED <<chain, asked, stray, busy, landed, committed, told, trouble>>

\* A slip: a nested call queues behind the transaction it is inside.
JoinsTail(c) == Len(chain) = 1 /\ body[c].done = 2

\* A nested call runs at once, with the outer transaction's client.
Joins(c) == c \in Callers

Statement(c) ==
    /\ body[c].stage = "open" /\ body[c].done < Size(c)
    /\ body[c].done = 1 => Joins(c)
    /\ body' = [body EXCEPT ![c].done = @ + 1]
    /\ UNCHANGED <<chain, asked, stray, busy, landed, committed, told, trouble>>

Settle(c, answer) ==
    /\ body' = [body EXCEPT ![c].stage = "settled"]
    /\ told' = [told EXCEPT ![c] = answer]
    /\ chain' = Tail(chain)

Commit(c) ==
    /\ body[c].stage = "open" /\ body[c].done = Size(c) /\ c \notin Doomed
    /\ landed' = [landed EXCEPT ![c] = @ + body[c].done]
    /\ committed' = Append(committed, c)
    /\ Settle(c, "done")
    /\ UNCHANGED <<asked, stray, busy, trouble>>

\* A failure of the body's own: rolled back, thrown at once, never retried.
Throw(c) ==
    /\ body[c].stage = "open" /\ body[c].done = Size(c) /\ c \in Doomed
    /\ Settle(c, "failed")
    /\ UNCHANGED <<asked, stray, busy, landed, committed, trouble>>

GiveUp(c) == Settle(c, "failed")

MayRetry(c) == body[c].attempt < MaxAttempts

\* The attempt could not start, was refused the writer, or ran out of time:
\* rolled back, and tried again after a while.  On a timeout the body goes on.
Contention(c) ==
    /\ body[c].stage = "open" /\ trouble < MaxTrouble
    /\ trouble' = trouble + 1
    /\ stray' \in {stray, stray \cup {c}}
    /\ IF MayRetry(c)
         THEN /\ body' = [body EXCEPT ![c].stage = "backoff"]
              /\ UNCHANGED <<chain, told>>
         ELSE GiveUp(c)
    /\ UNCHANGED <<asked, busy, landed, committed>>

\* A slip: a stray body writes through the global client.
Landing(c) == [landed EXCEPT ![c] = @ + 1]

\* Its client is closed: a stray body's next statement fails, and it ends.
Refusal(c) == landed

StrayStatement(c) ==
    /\ c \in stray
    /\ stray' = stray \ {c}
    /\ landed' = Refusal(c)
    /\ UNCHANGED <<chain, asked, body, busy, committed, told, trouble>>

\* A single statement from outside the queue: a session, a notice, an audit row.
OutsideBegins ==
    /\ ~busy /\ trouble < MaxTrouble
    /\ \A c \in Callers : body[c].stage # "open"
    /\ busy' = TRUE /\ trouble' = trouble + 1
    /\ UNCHANGED <<chain, asked, body, stray, landed, committed, told>>

OutsideEnds ==
    /\ busy /\ busy' = FALSE
    /\ UNCHANGED <<chain, asked, body, stray, landed, committed, told, trouble>>

\* Open while the writer is held elsewhere: the wait runs out.
OpenFails(c) ==
    /\ body[c].stage \in {"waiting", "backoff"}
    /\ Turn(c) /\ busy /\ trouble < MaxTrouble
    /\ trouble' = trouble + 1
    /\ IF body[c].attempt + 1 < MaxAttempts
         THEN /\ body' = [body EXCEPT ![c].stage = "backoff", ![c].attempt = @ + 1]
              /\ UNCHANGED <<chain, told>>
         ELSE GiveUp(c)
    /\ UNCHANGED <<asked, stray, busy, landed, committed>>

Run(c) == Open(c) \/ Statement(c) \/ Commit(c) \/ Throw(c)

Next ==
    \/ \E c \in Callers :
        \/ Call(c) \/ Open(c) \/ OpenFails(c)
        \/ Statement(c) \/ Commit(c) \/ Throw(c)
        \/ Contention(c) \/ StrayStatement(c)
    \/ OutsideBegins \/ OutsideEnds

\* Promises that can settle do, and an outside statement ends.
Spec ==
    /\ Init /\ [][Next]_vars
    /\ \A c \in Callers : WF_vars(Run(c))
    /\ WF_vars(OutsideEnds)

-----------------------------------------------------------------------------
(* Transactions commit in the order they were asked for: nobody at the     *)
(* back is starved by those who come after.                                *)
Place(c) == CHOOSE i \in DOMAIN asked : asked[i] = c
InTurn ==
    \A i, j \in DOMAIN committed : i < j => Place(committed[i]) < Place(committed[j])

(* Whoever is told a write was done finds all of it once, the nested part  *)
(* too; whoever is told it failed finds none: retries, timeouts and bodies *)
(* that outlive their attempt never apply a part or apply one twice.       *)
AppliedOnce ==
    \A c \in Callers :
        landed[c] = IF told[c] = "done" THEN Size(c) ELSE 0

(* The three together, through contention, timeouts and nested calls.      *)
Inv == TypeOK /\ InTurn /\ AppliedOnce

(* Every call is answered: a nested call does not wait for itself, and a   *)
(* failure does not stop those behind it.                                  *)
EverybodyIsAnswered ==
    \A c \in Callers : (body[c].stage = "waiting") ~> (told[c] # None)
=============================================================================
