--------------------------- MODULE WriteQueueProofs ---------------------------
(***************************************************************************)
(* For any number of callers, attempts and contention: everybody is served *)
(* in the order of their calls, and what is applied is applied once.       *)
(*                                                                         *)
(* The chain is what is left of the order of asking once those served are  *)
(* taken off its front.  Only its head can be open, so who commits comes   *)
(* right after those served, and before everybody else who asked.          *)
(***************************************************************************)
EXTENDS WriteQueue, TLAPS

\* What the state holds beside its three sequences.
Values ==
    /\ body \in [Callers -> [stage : {"unasked", "waiting", "open", "backoff", "settled"},
                             attempt : 0..MaxAttempts, done : 0..2]]
    /\ stray \subseteq Callers /\ busy \in BOOLEAN
    /\ landed \in [Callers -> 0..4] /\ told \in [Callers -> {"done", "failed", None}]
    /\ trouble \in 0..MaxTrouble

Served == Len(asked) - Len(chain)

Places ==
    /\ chain \in Seq(Callers) /\ asked \in Seq(Callers) /\ committed \in Seq(Callers)
    /\ Served >= 0
    /\ \A i \in 1..Len(chain) : chain[i] = asked[Served + i]
    /\ \A i, j \in 1..Len(asked) : asked[i] = asked[j] => i = j

\* Where each caller's run is, and where its caller stands in the queue.
Stages ==
    \A c \in Callers :
        /\ body[c].stage = "unasked" =>
              body[c].attempt = 0 /\ \A i \in 1..Len(asked) : asked[i] # c
        /\ body[c].stage = "waiting" => body[c].attempt = 0
        /\ body[c].stage = "backoff" => body[c].attempt < MaxAttempts
        /\ body[c].stage = "open" => Turn(c)
        /\ told[c] = "done" => body[c].stage = "settled"

\* Who committed was served, and they committed in the order they were.
AmongServed == \A k \in 1..Len(committed) : \E i \in 1..Served : asked[i] = committed[k]
Ascending ==
    \A k, l \in 1..Len(committed) : \A i, j \in 1..Len(asked) :
        k < l /\ asked[i] = committed[k] /\ asked[j] = committed[l] => i < j
InOrder == AmongServed /\ Ascending

IInv == Values /\ Places /\ Stages /\ InOrder /\ AppliedOnce

\* Nobody has asked yet.
LEMMA Opens == Init => IInv
<1>. SUFFICES ASSUME Init PROVE IInv
  OBVIOUS
<1>1. /\ chain = <<>> /\ asked = <<>> /\ committed = <<>>
      /\ Len(chain) = 0 /\ Len(asked) = 0 /\ Len(committed) = 0
  BY DEF Init
<1>2. Values
  <2>1. MaxAttempts \in Nat /\ 0 \in 0..MaxAttempts /\ 0 \in 0..MaxTrouble
    BY WriteAssumption
  <2>2. Unasked \in [stage : {"unasked", "waiting", "open", "backoff", "settled"},
                     attempt : 0..MaxAttempts, done : 0..2]
    BY <2>1 DEF Unasked
  <2>3. body \in [Callers -> [stage : {"unasked", "waiting", "open", "backoff", "settled"},
                             attempt : 0..MaxAttempts, done : 0..2]]
    BY <2>2 DEF Init
  <2>4. landed \in [Callers -> 0..4] /\ told \in [Callers -> {"done", "failed", None}]
    BY DEF Init
  <2>. QED
    BY <2>1, <2>3, <2>4 DEF Init, Values
<1>3. Places /\ InOrder
  BY <1>1 DEF Init, Places, InOrder, AmongServed, Ascending, Served
<1>4. Stages /\ AppliedOnce
  BY <1>1, WriteAssumption DEF Init, Stages, AppliedOnce, Unasked
<1>. QED
  BY <1>2, <1>3, <1>4 DEF IInv

(***************************************************************************)
(* The two ways the queue moves.                                           *)
(***************************************************************************)
\* A call goes to the back, and nobody else's place changes.
LEMMA Joined ==
    ASSUME Places, NEW c \in Callers, \A i \in 1..Len(asked) : asked[i] # c,
           chain' = Append(chain, c), asked' = Append(asked, c), committed' = committed
    PROVE  /\ Places' /\ Served' = Served
           /\ Len(asked') = Len(asked) + 1 /\ asked'[Len(asked) + 1] = c
           /\ \A i \in 1..Len(asked) : asked'[i] = asked[i]
           /\ chain # <<>> => chain' # <<>> /\ Head(chain') = Head(chain)
<1>1. /\ chain \in Seq(Callers) /\ asked \in Seq(Callers)
      /\ Len(chain) \in Nat /\ Len(asked) \in Nat /\ Served \in Nat
  BY DEF Places, Served
<1>2. /\ chain' \in Seq(Callers) /\ asked' \in Seq(Callers)
      /\ Len(chain') = Len(chain) + 1 /\ chain'[Len(chain) + 1] = c
      /\ \A i \in 1..Len(chain) : chain'[i] = chain[i]
      /\ Len(asked') = Len(asked) + 1 /\ asked'[Len(asked) + 1] = c
      /\ \A i \in 1..Len(asked) : asked'[i] = asked[i]
  BY <1>1
<1>3. Served' = Served
  BY <1>1, <1>2 DEF Served
<1>4. ASSUME NEW i \in 1..Len(chain')
      PROVE  chain'[i] = asked'[Served' + i]
  <2>1. CASE i \in 1..Len(chain)
    <3>1. Served + i \in 1..Len(asked) /\ chain[i] = asked[Served + i]
      BY <1>1, <2>1 DEF Places, Served
    <3>. QED
      BY <1>2, <1>3, <2>1, <3>1
  <2>2. CASE i = Len(chain) + 1
    <3>1. Served + i = Len(asked) + 1
      BY <1>1, <2>2 DEF Served
    <3>. QED
      BY <1>2, <1>3, <2>2, <3>1
  <2>3. i \in 1..Len(chain) \/ i = Len(chain) + 1
    <3>. HIDE <1>2
    <3>1. Len(chain') = Len(chain) + 1 /\ Len(chain) \in Nat /\ i \in 1..Len(chain')
      BY <1>1, <1>2
    <3>. QED
      BY ONLY <3>1
  <2>. QED
    BY <2>1, <2>2, <2>3
<1>5. \A i, j \in 1..Len(asked') : asked'[i] = asked'[j] => i = j
  BY <1>1, <1>2 DEF Places
<1>6. chain # <<>> => chain' # <<>> /\ Head(chain') = Head(chain)
  BY <1>1, <1>2
<1>. QED
  BY <1>1, <1>2, <1>3, <1>4, <1>5, <1>6 DEF Places

\* The head leaves: it was next in the order of asking, and is served.
LEMMA Left ==
    ASSUME Places, NEW c \in Callers, Turn(c), chain' = Tail(chain), asked' = asked,
           committed' \in Seq(Callers)
    PROVE  /\ Places' /\ Served' = Served + 1
           /\ Served' \in 1..Len(asked) /\ asked[Served'] = c
<1>1. /\ chain \in Seq(Callers) /\ asked \in Seq(Callers) /\ chain # <<>>
      /\ Len(chain) \in Nat \ {0} /\ Len(asked) \in Nat /\ Served \in Nat
  BY DEF Places, Served, Turn
<1>2. /\ chain' \in Seq(Callers) /\ Len(chain') = Len(chain) - 1
      /\ \A i \in 1..Len(chain') : chain'[i] = chain[i + 1]
  BY <1>1
<1>3. Served' = Served + 1
  BY <1>1, <1>2 DEF Served
<1>4. chain[1] = c /\ chain[1] = asked[Served + 1]
  BY <1>1 DEF Turn, Places
<1>5. \A i \in 1..Len(chain') : chain'[i] = asked'[Served' + i]
  BY <1>1, <1>2, <1>3 DEF Places
<1>6. Served' \in 1..Len(asked)
  BY <1>1, <1>3 DEF Served
<1>. QED
  BY <1>1, <1>2, <1>3, <1>4, <1>5, <1>6 DEF Places

\* Who leaves after a commit is the last of the committed, and the last served.
LEMMA CommitInOrder ==
    ASSUME Places, InOrder, NEW c \in Callers, Turn(c), chain' = Tail(chain), asked' = asked,
           committed' = Append(committed, c)
    PROVE  InOrder'
<1>1. /\ committed \in Seq(Callers) /\ committed' \in Seq(Callers)
      /\ Len(committed) \in Nat /\ Len(committed') = Len(committed) + 1
      /\ committed'[Len(committed) + 1] = c
      /\ \A k \in 1..Len(committed) : committed'[k] = committed[k]
  BY DEF Places
<1>2. /\ Places' /\ Served' = Served + 1 /\ Served \in Nat /\ Len(asked) \in Nat
      /\ Served' \in 1..Len(asked) /\ asked[Served'] = c
  <2>1. Served \in Nat /\ Len(asked) \in Nat
    BY DEF Places, Served
  <2>2. committed' \in Seq(Callers)
    BY <1>1
  <2>. QED
    BY <2>1, <2>2, Left
<1>3. ASSUME NEW k \in 1..Len(committed')
      PROVE  \E i \in 1..Served' : asked'[i] = committed'[k]
  <2>1. CASE k = Len(committed) + 1
    BY <1>1, <1>2, <2>1
  <2>2. CASE k # Len(committed) + 1
    <3>1. k \in 1..Len(committed) /\ committed'[k] = committed[k]
      BY <1>1, <2>2
    <3>2. PICK i \in 1..Served : asked[i] = committed[k]
      BY <3>1 DEF InOrder, AmongServed
    <3>3. i \in 1..Served'
      BY <1>2, <3>2
    <3>. QED
      BY <3>1, <3>2, <3>3
  <2>. QED
    BY <2>1, <2>2
<1>4. Ascending'
  <2>. SUFFICES ASSUME NEW k \in 1..Len(committed'), NEW l \in 1..Len(committed'),
                       NEW i \in 1..Len(asked'), NEW j \in 1..Len(asked'),
                       k < l, asked'[i] = committed'[k], asked'[j] = committed'[l]
                PROVE  i < j
    BY SMTT(30) DEF Ascending
  <2>1. k \in 1..Len(committed) /\ asked[i] = committed[k]
    BY <1>1
  <2>2. PICK p \in 1..Served : asked[p] = committed[k]
    BY <2>1 DEF InOrder, AmongServed
  <2>3. p \in 1..Len(asked) /\ i = p
    BY <1>2, <2>1, <2>2, SMTT(30) DEF Places
  <2>4. CASE l = Len(committed) + 1
    <3>1. asked[j] = c /\ j = Served'
      BY <1>1, <1>2, <2>4 DEF Places
    <3>. QED
      BY <1>2, <2>2, <2>3, <3>1
  <2>5. CASE l # Len(committed) + 1
    <3>1. l \in 1..Len(committed) /\ asked[j] = committed[l]
      BY <1>1, <2>5, SMTT(30)
    <3>. QED
      BY <2>1, <3>1 DEF InOrder, Ascending
  <2>. QED
    BY <2>4, <2>5
<1>5. AmongServed'
  BY <1>3 DEF AmongServed
<1>. QED
  BY <1>4, <1>5 DEF InOrder

\* Others who leave change nothing in the order of the commits.
LEMMA LeaveInOrder ==
    ASSUME Places, InOrder, NEW c \in Callers, Turn(c), chain' = Tail(chain), asked' = asked,
           committed' = committed
    PROVE  InOrder'
<1>1. committed' \in Seq(Callers) /\ Served \in Nat
  BY DEF Places, Served
<1>2. Served' = Served + 1
  BY <1>1, Left
<1>3. AmongServed'
  BY <1>1, <1>2 DEF InOrder, AmongServed
<1>4. Ascending'
  BY DEF InOrder, Ascending
<1>. QED
  BY <1>3, <1>4 DEF InOrder

(***************************************************************************)
(* The steps.                                                              *)
(***************************************************************************)
\* The sequences' elements are callers' names by their places.
LEMMA Typing == Values /\ Places => TypeOK
  BY DEF TypeOK, Values, Places

\* Every step has the value of each caller's run within its bounds.
LEMMA ValuesStep ==
    ASSUME Values, Stages, AppliedOnce, [Next]_vars
    PROVE  Values'
<1>. USE DEF Values
<1>1. /\ MaxAttempts \in Nat \ {0} /\ MaxTrouble \in Nat
      /\ \A c \in Callers : Size(c) \in 1..2
  BY WriteAssumption DEF Size
<1>2. ASSUME NEW c \in Callers, Call(c)
      PROVE  Values'
  BY <1>2 DEF Call
<1>3. ASSUME NEW c \in Callers, Open(c)
      PROVE  Values'
  <2>1. body[c].attempt + 1 \in 0..MaxAttempts
    BY <1>1, <1>3 DEF Open, Stages
  <2>. QED
    BY <1>3, <2>1 DEF Open
<1>4. ASSUME NEW c \in Callers, OpenFails(c)
      PROVE  Values'
  <2>1. trouble' \in 0..MaxTrouble
    BY <1>1, <1>4 DEF OpenFails
  <2>2. \/ body' = [body EXCEPT ![c].stage = "settled"] /\ told' = [told EXCEPT ![c] = "failed"]
        \/ /\ body' = [body EXCEPT ![c].stage = "backoff", ![c].attempt = @ + 1] /\ told' = told
           /\ body[c].attempt + 1 \in 0..MaxAttempts
    BY <1>1, <1>4 DEF OpenFails, GiveUp, Settle
  <2>. QED
    BY <1>4, <2>1, <2>2, SMTT(30) DEF OpenFails
<1>5. ASSUME NEW c \in Callers, Statement(c)
      PROVE  Values'
  <2>1. body[c].done + 1 \in 0..2
    BY <1>1, <1>5 DEF Statement
  <2>. QED
    BY <1>5, <2>1 DEF Statement
<1>6. ASSUME NEW c \in Callers, Commit(c)
      PROVE  Values'
  <2>1. landed[c] = 0 /\ landed[c] + body[c].done \in 0..4
    BY <1>1, <1>6 DEF Commit, Stages, AppliedOnce
  <2>2. landed' \in [Callers -> 0..4]
    BY <1>6, <2>1 DEF Commit
  <2>3. body' = [body EXCEPT ![c].stage = "settled"] /\ told' = [told EXCEPT ![c] = "done"]
        /\ UNCHANGED <<stray, busy, trouble>>
    BY <1>6 DEF Commit, Settle
  <2>. QED
    BY <2>2, <2>3
<1>7. ASSUME NEW c \in Callers, Throw(c)
      PROVE  Values'
  BY <1>7 DEF Throw, Settle
<1>8. ASSUME NEW c \in Callers, Contention(c)
      PROVE  Values'
  <2>1. trouble' \in 0..MaxTrouble /\ stray' \subseteq Callers
    BY <1>1, <1>8 DEF Contention
  <2>2. \/ body' = [body EXCEPT ![c].stage = "settled"] /\ told' = [told EXCEPT ![c] = "failed"]
        \/ body' = [body EXCEPT ![c].stage = "backoff"] /\ told' = told
    BY <1>8 DEF Contention, GiveUp, Settle
  <2>. QED
    BY <1>8, <2>1, <2>2 DEF Contention
<1>9. ASSUME NEW c \in Callers, StrayStatement(c)
      PROVE  Values'
  BY <1>9 DEF StrayStatement, Refusal
<1>10. CASE OutsideBegins \/ OutsideEnds
  <2>1. trouble' = trouble \/ (trouble < MaxTrouble /\ trouble' = trouble + 1)
    BY <1>10, Zenon DEF OutsideBegins, OutsideEnds
  <2>2. trouble' \in 0..MaxTrouble
    BY <1>1, <2>1
  <2>3. busy' \in BOOLEAN /\ UNCHANGED <<body, stray, landed, told>>
    BY <1>10, Zenon DEF OutsideBegins, OutsideEnds
  <2>. QED
    BY <2>2, <2>3
<1>11. CASE UNCHANGED vars
  BY <1>11 DEF vars
<1>. QED
  BY <1>2, <1>3, <1>4, <1>5, <1>6, <1>7, <1>8, <1>9, <1>10, <1>11 DEF Next

\* The queue only ever gains a caller at its back or loses its head.
LEMMA QueueMoves ==
    ASSUME Values, Stages, [Next]_vars
    PROVE  \/ \E c \in Callers : Call(c)
           \/ UNCHANGED <<chain, asked, committed>>
           \/ \E c \in Callers :
                 /\ Turn(c) /\ chain' = Tail(chain) /\ asked' = asked
                 /\ committed' \in {committed, Append(committed, c)}
<1>1. ASSUME NEW c \in Callers, OpenFails(c) \/ Commit(c) \/ Throw(c) \/ Contention(c)
      PROVE  \/ UNCHANGED <<chain, asked, committed>>
             \/ /\ Turn(c) /\ chain' = Tail(chain) /\ asked' = asked
                /\ committed' \in {committed, Append(committed, c)}
  BY <1>1 DEF OpenFails, Commit, Throw, Contention, GiveUp, Settle, Stages
<1>2. ASSUME NEW c \in Callers, Open(c) \/ Statement(c) \/ StrayStatement(c)
      PROVE  UNCHANGED <<chain, asked, committed>>
  BY <1>2 DEF Open, Statement, StrayStatement
<1>3. CASE OutsideBegins \/ OutsideEnds \/ UNCHANGED vars
  BY <1>3 DEF OutsideBegins, OutsideEnds, vars
<1>. QED
  BY <1>1, <1>2, <1>3 DEF Next

\* Places in the chain, and the order of what was asked and committed.
LEMMA QueueStep ==
    ASSUME Values, Places, Stages, InOrder, [Next]_vars
    PROVE  Places' /\ InOrder'
<1>1. ASSUME NEW c \in Callers, Call(c)
      PROVE  Places' /\ InOrder'
  <2>1. /\ Places' /\ Served' = Served /\ committed' = committed
        /\ Len(asked') = Len(asked) + 1 /\ asked'[Len(asked) + 1] = c
        /\ \A i \in 1..Len(asked) : asked'[i] = asked[i] /\ asked[i] # c
    BY <1>1, Joined DEF Call, Stages
  <2>2. Served \in 0..Len(asked) /\ Len(asked) \in Nat
    BY DEF Places, Served
  <2>3. \A k \in 1..Len(committed) : committed[k] # c
    BY <2>1, <2>2 DEF InOrder, AmongServed
  <2>4. \A k \in 1..Len(committed) : \E i \in 1..Served' : asked'[i] = committed'[k]
    BY <2>1, <2>2 DEF InOrder, AmongServed
  <2>5. \A k \in 1..Len(committed), i \in 1..Len(asked') :
           asked'[i] = committed[k] => i \in 1..Len(asked) /\ asked[i] = committed[k]
    BY <2>1, <2>2, <2>3
  <2>6. \A k, l \in 1..Len(committed') : \A i, j \in 1..Len(asked') :
           k < l /\ asked'[i] = committed'[k] /\ asked'[j] = committed'[l] => i < j
    BY <2>1, <2>5, SMTT(30) DEF InOrder, Ascending
  <2>. QED
    BY <2>1, <2>4, <2>6 DEF InOrder, AmongServed, Ascending
<1>2. CASE UNCHANGED <<chain, asked, committed>>
  <2>1. Served' = Served /\ Len(committed') = Len(committed) /\ Len(asked') = Len(asked)
    BY <1>2 DEF Served
  <2>2. Places'
    BY <1>2, <2>1 DEF Places
  <2>3. AmongServed'
    BY <1>2, <2>1 DEF InOrder, AmongServed
  <2>4. Ascending'
    BY <1>2 DEF InOrder, Ascending
  <2>. QED
    BY <2>2, <2>3, <2>4 DEF InOrder
<1>3. ASSUME NEW c \in Callers, Turn(c), chain' = Tail(chain), asked' = asked,
             committed' \in {committed, Append(committed, c)}
      PROVE  Places' /\ InOrder'
  <2>0. committed \in Seq(Callers) /\ Append(committed, c) \in Seq(Callers)
    BY DEF Places
  <2>1. committed' \in Seq(Callers)
    BY <1>3, <2>0, Zenon
  <2>2. Places'
    BY <1>3, <2>1, Left
  <2>3. CASE committed' = committed
    BY <1>3, <2>2, <2>3, LeaveInOrder
  <2>4. CASE committed' = Append(committed, c)
    BY <1>3, <2>2, <2>4, CommitInOrder
  <2>. QED
    BY <1>3, <2>3, <2>4
<1>. QED
  BY <1>1, <1>2, <1>3, QueueMoves

\* A step of one caller's run leaves the runs of the others where they were.
LEMMA StagesStep ==
    ASSUME Values, Places, Stages, [Next]_vars
    PROVE  Stages'
<1>1. ASSUME NEW c \in Callers, Call(c)
      PROVE  Stages'
  <2>1. /\ Len(asked') = Len(asked) + 1 /\ asked'[Len(asked) + 1] = c
        /\ \A i \in 1..Len(asked) : asked'[i] = asked[i]
        /\ chain # <<>> => chain' # <<>> /\ Head(chain') = Head(chain)
    BY <1>1, Joined DEF Call, Stages
  <2>2. Len(asked) \in Nat
    BY DEF Places
  <2>. QED
    BY <1>1, <2>1, <2>2 DEF Call, Stages, Turn, Values
<1>2. ASSUME NEW c \in Callers, Turn(c), chain' = Tail(chain), asked' = asked,
             body' = [body EXCEPT ![c].stage = "settled"], NEW answer,
             told' = [told EXCEPT ![c] = answer],
             \A d \in Callers \ {c} : body[d].stage # "open"
      PROVE  Stages'
  BY <1>2 DEF Stages, Turn, Values
<1>3. ASSUME NEW c \in Callers, Turn(c), UNCHANGED <<chain, asked, told>>,
             body' = [body EXCEPT ![c].stage = "backoff"], body[c].stage = "open",
             body[c].attempt < MaxAttempts
      PROVE  Stages'
  BY <1>3 DEF Stages, Turn, Values
<1>4. \A c \in Callers : Turn(c) => \A d \in Callers \ {c} : body[d].stage # "open"
  BY DEF Stages, Turn
<1>5. ASSUME NEW c \in Callers, Open(c)
      PROVE  Stages'
  BY <1>5 DEF Open, Stages, Turn, Values
<1>6. ASSUME NEW c \in Callers, OpenFails(c)
      PROVE  Stages'
  <2>1. CASE body[c].attempt + 1 < MaxAttempts
    BY <1>6, <2>1 DEF OpenFails, Stages, Turn, Values
  <2>2. CASE ~(body[c].attempt + 1 < MaxAttempts)
    BY <1>2, <1>4, <1>6, <2>2 DEF OpenFails, GiveUp, Settle
  <2>. QED
    BY <2>1, <2>2
<1>7. ASSUME NEW c \in Callers, Statement(c)
      PROVE  Stages'
  BY <1>7 DEF Statement, Stages, Turn, Values
<1>8. ASSUME NEW c \in Callers, Commit(c) \/ Throw(c)
      PROVE  Stages'
  BY <1>2, <1>4, <1>8, SMTT(30) DEF Commit, Throw, Settle, Stages
<1>9. ASSUME NEW c \in Callers, Contention(c)
      PROVE  Stages'
  BY <1>2, <1>3, <1>4, <1>9 DEF Contention, MayRetry, GiveUp, Settle, Stages
<1>10. ASSUME NEW c \in Callers, StrayStatement(c)
       PROVE  Stages'
  BY <1>10 DEF StrayStatement, Stages, Turn
<1>11. CASE OutsideBegins \/ OutsideEnds \/ UNCHANGED vars
  BY <1>11 DEF OutsideBegins, OutsideEnds, vars, Stages, Turn
<1>. QED
  BY <1>1, <1>5, <1>6, <1>7, <1>8, <1>9, <1>10, <1>11 DEF Next

\* Only a commit applies anything, and it applies the whole body, whose caller
\* was told nothing until then.
LEMMA AppliedStep ==
    ASSUME Values, Stages, AppliedOnce, [Next]_vars
    PROVE  AppliedOnce'
<1>1. \A c \in Callers : told[c] = "done" => body[c].stage = "settled"
  BY DEF Stages
<1>2. ASSUME NEW c \in Callers, Commit(c)
      PROVE  AppliedOnce'
  <2>1. landed[c] = 0 /\ body[c].done = Size(c) /\ landed[c] + body[c].done = Size(c)
    BY <1>1, <1>2 DEF Commit, AppliedOnce, Size
  <2>2. landed' = [landed EXCEPT ![c] = landed[c] + body[c].done]
    BY <1>2 DEF Commit
  <2>3. landed' = [landed EXCEPT ![c] = Size(c)]
    BY <2>1, <2>2, Zenon
  <2>4. told' = [told EXCEPT ![c] = "done"]
    BY <1>2 DEF Commit, Settle
  <2>. QED
    BY <2>3, <2>4 DEF AppliedOnce, Size, Values
<1>3. ASSUME NEW c \in Callers, landed' = landed, body[c].stage # "settled",
             told' \in {told, [told EXCEPT ![c] = "failed"]}
      PROVE  AppliedOnce'
  BY <1>1, <1>3 DEF AppliedOnce, Size, Values
<1>4. ASSUME NEW c \in Callers, Throw(c) \/ Contention(c) \/ OpenFails(c)
      PROVE  AppliedOnce'
  BY <1>3, <1>4 DEF Throw, Contention, OpenFails, GiveUp, Settle
<1>5. CASE UNCHANGED <<landed, told>>
  BY <1>5 DEF AppliedOnce, Size
<1>6. ASSUME NEW c \in Callers, Call(c) \/ Open(c) \/ Statement(c) \/ StrayStatement(c)
      PROVE  UNCHANGED <<landed, told>>
  BY <1>6 DEF Call, Open, Statement, StrayStatement, Refusal
<1>7. CASE OutsideBegins \/ OutsideEnds \/ UNCHANGED vars
  BY <1>5, <1>7 DEF OutsideBegins, OutsideEnds, vars
<1>. QED
  BY <1>2, <1>4, <1>5, <1>6, <1>7 DEF Next

\* What the order of the commits says of the places CHOOSE finds.
LEMMA PlacesAscend == Places /\ InOrder => InTurn
<1>. SUFFICES ASSUME Places, InOrder, NEW k \in DOMAIN committed, NEW l \in DOMAIN committed, k < l
              PROVE  Place(committed[k]) < Place(committed[l])
  BY DEF InTurn
<1>1. /\ DOMAIN asked = 1..Len(asked) /\ Len(asked) \in Nat /\ Served \in 0..Len(asked)
      /\ k \in 1..Len(committed) /\ l \in 1..Len(committed)
  BY DEF Places, Served
<1>2. ASSUME NEW m \in 1..Len(committed)
      PROVE  Place(committed[m]) \in 1..Len(asked) /\ asked[Place(committed[m])] = committed[m]
  <2>1. PICK i \in 1..Served : asked[i] = committed[m]
    BY DEF InOrder, AmongServed
  <2>2. i \in DOMAIN asked
    BY <1>1, <2>1
  <2>. QED
    BY <1>1, <2>1, <2>2 DEF Place
<1>. QED
  BY <1>1, <1>2 DEF InOrder, Ascending

\* For every number of callers, attempts and mishaps: transactions commit in
\* the order they were asked for, and each is applied once or not at all.
THEOREM WritesAreInTurn == Spec => []Inv
<1>1. Init => IInv
  BY Opens
<1>2. IInv /\ [Next]_vars => IInv'
  BY ValuesStep, QueueStep, StagesStep, AppliedStep DEF IInv
<1>3. IInv => Inv
  BY Typing, PlacesAscend DEF IInv, Inv
<1>. QED
  BY <1>1, <1>2, <1>3, PTL DEF Spec

===============================================================================
