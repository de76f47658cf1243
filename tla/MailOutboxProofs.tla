--------------------------- MODULE MailOutboxProofs ---------------------------
(* What the queue promises, for every set of jobs and workers, any overlap of
   what the workers may claim, and any number of attempts and faults; and what
   the outbox, which files into it, promises of a letter, for any number of submit
   jobs and askings, and whatever the queue, the relay and the process do
   meanwhile. *)
EXTENDS MailOutbox, FiniteSetTheorems, TLAPS

-----------------------------------------------------------------------------
(* The queue. *)

(* A worker that is past its claim holds a row, and nobody else holds that row. *)
LEMMA Holding ==
    ASSUME QueueInv, NEW w \in Worker, stage[w] # "free"
    PROVE  /\ holds[w] \in Job
           /\ \A v \in Worker : holds[v] = holds[w] => v = w
           /\ status[holds[w]] \notin {"none", "pending"}
           /\ holds[w] \notin cancelled
  BY DEF QueueInv, TypeOK, OneWinner, HeldIsTaken, CancelledIsDown

(* The initial table is empty and nobody holds anything. *)
LEMMA QueueInit == Init => QueueInv
  BY QueueAssumption DEF Init, QueueInv, TypeOK, OneWinner, HeldIsTaken, FreshIsUnspent,
     Performable, AtMostOnce, CancelledIsDown, Statuses, Stages

(* Every transaction, every step of a worker's pass and every fault keeps the
   invariant. *)
LEMMA QueueStep == ASSUME QueueInv, [Next]_queueVars PROVE QueueInv'
  <1> USE QueueAssumption
  <1>1. ASSUME NEW j \in Job, NEW now \in BOOLEAN, File(j, now) PROVE QueueInv'
    BY <1>1 DEF File, QueueInv, TypeOK, OneWinner, HeldIsTaken, FreshIsUnspent,
       Performable, AtMostOnce, CancelledIsDown, Statuses, Stages, rows, hands
  <1>2. ASSUME NEW j \in Job, Tick(j) PROVE QueueInv'
    BY <1>2 DEF Tick, QueueInv, TypeOK, OneWinner, HeldIsTaken, FreshIsUnspent,
       Performable, AtMostOnce, CancelledIsDown, Statuses, Stages, rows, hands
  <1>3. ASSUME NEW j \in Job, Cancel(j) PROVE QueueInv'
    BY <1>3 DEF Cancel, QueueInv, TypeOK, OneWinner, HeldIsTaken, FreshIsUnspent,
       Performable, AtMostOnce, CancelledIsDown, Statuses, Stages, rows, hands
  <1>4. ASSUME NEW w \in Worker, RemoveAccount(w) PROVE QueueInv'
    BY <1>4 DEF RemoveAccount, QueueInv, TypeOK, OneWinner, HeldIsTaken,
       FreshIsUnspent, Performable, AtMostOnce, CancelledIsDown, Statuses, Stages,
       rows, hands
  <1>5. ASSUME NEW w \in Worker, Retire(w) PROVE QueueInv'
    BY <1>5 DEF Retire, QueueInv, TypeOK, OneWinner, HeldIsTaken, FreshIsUnspent,
       Performable, AtMostOnce, CancelledIsDown, Statuses, Stages, rows, hands
  <1>6. ASSUME NEW w \in Worker, Look(w) PROVE QueueInv'
    BY <1>6 DEF Look, QueueInv, TypeOK, OneWinner, HeldIsTaken, FreshIsUnspent,
       Performable, AtMostOnce, CancelledIsDown, Statuses, Stages, rows, hands
  <1>7. ASSUME NEW w \in Worker, Claim(w) PROVE QueueInv'
    <2>1. PICK j \in Foremost(w) :
            /\ due' = [due EXCEPT ![w] = @ \ {j}]
            /\ IF status[j] = "pending"
               THEN /\ attempts[j] < MaxTries
                    /\ status' = [status EXCEPT ![j] = "processing"]
                    /\ attempts' = [attempts EXCEPT ![j] = @ + 1]
                    /\ holds' = [holds EXCEPT ![w] = j]
                    /\ stage' = [stage EXCEPT ![w] = "claimed"]
               ELSE UNCHANGED <<status, attempts, holds, stage>>
      BY <1>7 DEF Claim
    <2>2. /\ j \in Job /\ stage[w] = "free" /\ holds[w] = None
          /\ UNCHANGED <<ripe, working, happened, cancelled, removed, faults>>
      BY <1>7 DEF Claim, Foremost, QueueInv, TypeOK
    <2>3. CASE status[j] # "pending"
      BY <2>1, <2>2, <2>3 DEF QueueInv, TypeOK, OneWinner, HeldIsTaken, FreshIsUnspent, Performable, AtMostOnce, CancelledIsDown, Statuses, Stages
    <2>4. CASE status[j] = "pending"
      <3> USE <2>1, <2>2, <2>4
      <3>1. \A v \in Worker : holds[v] # j
        BY DEF QueueInv, HeldIsTaken
      <3>2. TypeOK'
        BY DEF QueueInv, TypeOK, Statuses, Stages
      <3>3. OneWinner'
        BY <3>1 DEF QueueInv, TypeOK, OneWinner
      <3>4. HeldIsTaken'
        <4>1. ASSUME NEW v \in Worker, holds'[v] # None
              PROVE  status'[holds'[v]] \notin {"none", "pending"}
          <5>1. CASE v = w
            BY <5>1 DEF QueueInv, TypeOK
          <5>2. CASE v # w
            <6>1. holds'[v] = holds[v] /\ holds[v] # None
              BY <4>1, <5>2 DEF QueueInv, TypeOK
            <6>2. status'[holds[v]] = status[holds[v]]
              BY <3>1, <6>1 DEF QueueInv, TypeOK
            <6> QED BY <6>1, <6>2 DEF QueueInv, HeldIsTaken
          <5> QED BY <5>1, <5>2
        <4> QED BY <4>1 DEF HeldIsTaken
      <3>5. FreshIsUnspent' /\ AtMostOnce'
        BY <3>1 DEF QueueInv, TypeOK, FreshIsUnspent, AtMostOnce, Performable
      <3>6. CancelledIsDown'
        BY <3>1 DEF QueueInv, TypeOK, CancelledIsDown
      <3> QED BY <3>2, <3>3, <3>4, <3>5, <3>6 DEF QueueInv
    <2> QED BY <2>3, <2>4
  <1>8. ASSUME NEW w \in Worker, NEW wanted \in BOOLEAN, Check(w, wanted) PROVE QueueInv'
    BY <1>8 DEF Check, To, QueueInv, TypeOK, OneWinner, HeldIsTaken, FreshIsUnspent,
       Performable, AtMostOnce, CancelledIsDown, Statuses, Stages, rows, hands
  <1>9. ASSUME NEW w \in Worker, NoHandler(w) PROVE QueueInv'
    BY <1>9 DEF NoHandler, To, QueueInv, TypeOK, OneWinner, HeldIsTaken,
       FreshIsUnspent, Performable, AtMostOnce, CancelledIsDown, Statuses, Stages,
       rows, hands
  <1>10. ASSUME NEW w \in Worker, NEW went \in BOOLEAN, NEW heard \in BOOLEAN,
                Perform(w, went, heard) PROVE QueueInv'
    <2> DEFINE j == holds[w]
    <2>1. /\ stage[w] = "wanted" /\ j \in Job /\ j \notin cancelled
          /\ \A v \in Worker : holds[v] = j => v = w
          /\ status[j] \notin {"none", "pending"}
      BY <1>10, Holding DEF Perform
    <2>2. /\ happened' = [happened EXCEPT ![j] = IF went THEN @ + 1 ELSE @]
          /\ stage' = [stage EXCEPT ![w] = IF heard THEN "done" ELSE "failed"]
          /\ UNCHANGED <<rows, due, holds, working, cancelled, removed, faults>>
      BY <1>10 DEF Perform, To
    <2>3. TypeOK'
      <3>1. happened' \in [Job -> Nat]
        <4> HIDE DEF j
        <4>1. happened \in [Job -> Nat]
          BY DEF QueueInv, TypeOK
        <4>2. CASE went
          <5>1. happened' = [happened EXCEPT ![j] = happened[j] + 1]
            BY <2>2, <4>2, Zenon
          <5>2. happened[j] \in Nat
            <6>1. j \in Job
              BY <2>1
            <6> QED BY <4>1, <6>1
          <5>3. happened[j] + 1 \in Nat
            BY <5>2
          <5> QED BY <4>1, <5>1, <5>3
        <4>3. CASE ~went
          BY <2>2, <4>1, <4>3
        <4> QED BY <4>2, <4>3
      <3>2. stage' \in [Worker -> Stages] /\ \A v \in Worker : (stage'[v] = "free") <=> (holds'[v] = None)
        BY <2>1, <2>2 DEF QueueInv, TypeOK, Stages
      <3> QED BY <3>1, <3>2, <2>2 DEF QueueInv, TypeOK, rows
    <2>4. FreshIsUnspent' /\ AtMostOnce'
      <3>1. \A k \in Job \ Idempotent : Performable(k)' => k # j /\ Performable(k)
        BY <2>1, <2>2 DEF QueueInv, TypeOK, Performable, rows
      <3>2. j \in Job \ Idempotent => happened[j] = 0
        BY <2>1 DEF QueueInv, FreshIsUnspent, Performable
      <3>3. \A k \in Job : k # j => happened'[k] = happened[k]
        BY <2>2 DEF QueueInv, TypeOK
      <3>4. FreshIsUnspent'
        BY <3>1, <3>3 DEF QueueInv, FreshIsUnspent
      <3>5. j \in Job \ Idempotent => happened'[j] <= 1
        BY <2>1, <2>2, <3>2 DEF QueueInv, TypeOK
      <3>6. AtMostOnce'
        BY <3>3, <3>5 DEF QueueInv, AtMostOnce
      <3> QED BY <3>4, <3>6
    <2>5. OneWinner' /\ HeldIsTaken' /\ CancelledIsDown'
      BY <2>2 DEF QueueInv, OneWinner, HeldIsTaken, CancelledIsDown, rows
    <2> QED BY <2>3, <2>4, <2>5 DEF QueueInv
  <1>11. ASSUME NEW w \in Worker, Close(w) PROVE QueueInv'
    <2> DEFINE j == holds[w]
    <2>1. /\ stage[w] \in Finished /\ j \in Job /\ j \notin cancelled
          /\ \A v \in Worker : holds[v] = j => v = w
          /\ status[j] \notin {"none", "pending"}
      BY <1>11, Holding DEF Close, Finished
    <2>2. /\ status' = [status EXCEPT ![j] = Closed(j, stage[w])]
          /\ ripe' = IF Retries(j, stage[w]) THEN ripe \ {j} ELSE ripe
          /\ holds' = [holds EXCEPT ![w] = None]
          /\ stage' = [stage EXCEPT ![w] = "free"]
          /\ UNCHANGED <<attempts, due, working, happened, cancelled, removed, faults>>
      BY <1>11 DEF Close, Free, To
    <2>3. /\ Closed(j, stage[w]) \in Statuses \ {"none", "processing"}
          /\ j \notin Idempotent => Closed(j, stage[w]) # "pending"
      BY <2>1 DEF Closed, Retries, Finished, Statuses
    <2>4. \A v \in Worker : holds'[v] # None => v # w /\ holds'[v] = holds[v] /\ holds[v] # j
      BY <2>1, <2>2 DEF QueueInv, TypeOK
    <2>5. TypeOK'
      BY <2>1, <2>2, <2>3 DEF QueueInv, TypeOK, Stages
    <2>6. OneWinner'
      BY <2>4 DEF QueueInv, OneWinner
    <2>7. HeldIsTaken'
      BY <2>2, <2>4 DEF QueueInv, TypeOK, HeldIsTaken
    <2>8. FreshIsUnspent' /\ AtMostOnce'
      <3>1. \A k \in Job \ Idempotent : Performable(k)' => Performable(k)
        BY <2>1, <2>2, <2>3 DEF QueueInv, TypeOK, Performable
      <3> QED BY <3>1, <2>2 DEF QueueInv, FreshIsUnspent, AtMostOnce
    <2>9. CancelledIsDown'
      BY <2>1, <2>2, <2>4 DEF QueueInv, TypeOK, CancelledIsDown
    <2> QED BY <2>5, <2>6, <2>7, <2>8, <2>9 DEF QueueInv
  <1>12. ASSUME NEW w \in Worker, ClaimFails(w) PROVE QueueInv'
    BY <1>12 DEF ClaimFails, Foremost, QueueInv, TypeOK, OneWinner, HeldIsTaken,
       FreshIsUnspent, Performable, AtMostOnce, CancelledIsDown, Statuses, Stages,
       rows, hands
  <1>13. ASSUME NEW w \in Worker, CloseFails(w) PROVE QueueInv'
    BY <1>13 DEF CloseFails, Free, To, Finished, QueueInv, TypeOK, OneWinner,
       HeldIsTaken, FreshIsUnspent, Performable, AtMostOnce, CancelledIsDown,
       Statuses, Stages, rows, hands
  <1>14. ASSUME NEW w \in Worker, Panic(w) PROVE QueueInv'
    BY <1>14 DEF Panic, Free, To, QueueInv, TypeOK, OneWinner, HeldIsTaken,
       FreshIsUnspent, Performable, AtMostOnce, CancelledIsDown, Statuses, Stages,
       rows, hands
  <1>15. ASSUME Crash PROVE QueueInv'
    BY <1>15 DEF Crash, Swept, QueueInv, TypeOK, OneWinner, HeldIsTaken,
       FreshIsUnspent, Performable, AtMostOnce, CancelledIsDown, Statuses, Stages,
       rows, hands
  <1>16. CASE UNCHANGED queueVars
    BY <1>16 DEF queueVars, QueueInv, TypeOK, OneWinner, HeldIsTaken, FreshIsUnspent,
       Performable, AtMostOnce, CancelledIsDown
  <1> QED
    BY <1>1, <1>2, <1>3, <1>4, <1>5, <1>6, <1>7, <1>8, <1>9, <1>10, <1>11, <1>12,
       <1>13, <1>14, <1>15, <1>16 DEF Next, Run, Fault

(* The invariant, always. *)
THEOREM QueueAlways == Spec => []QueueInv
<1>1. Init => QueueInv
  BY QueueInit
<1>2. QueueInv /\ [Next]_queueVars => QueueInv'
  BY QueueStep
<1> QED BY <1>1, <1>2, PTL DEF Spec

(* Every variable keeps its type. *)
THEOREM QueueTypeOK == Spec => []TypeOK
<1>1. QueueInv => TypeOK
  BY DEF QueueInv
<1> QED BY <1>1, QueueAlways, PTL

(* A job that is not safe to repeat changes the world at most once, through
   every retry, refused write, panic, crash and restart. *)
THEOREM QueueAtMostOnce == Spec => []AtMostOnce
<1>1. QueueInv => AtMostOnce
  BY DEF QueueInv
<1> QED BY <1>1, QueueAlways, PTL

(* No two workers are busy with one job, however what they may claim overlaps. *)
THEOREM QueueOneWinner == Spec => []OneWinner
<1>1. QueueInv => OneWinner
  BY DEF QueueInv
<1> QED BY <1>1, QueueAlways, PTL

(* Once somebody has been told that a job is cancelled, the world never changes
   for it again: the one step that changes it is performed on a job in hand, and
   what is cancelled is in nobody's hands. *)
THEOREM QueueCancelWins == Spec => CancelWins
<1>1. ASSUME QueueInv, [Next]_queueVars
      PROVE  \A j \in cancelled : happened'[j] = happened[j]
  <2>1. ASSUME NEW w \in Worker, NEW went \in BOOLEAN, NEW heard \in BOOLEAN,
               Perform(w, went, heard)
        PROVE  \A j \in cancelled : happened'[j] = happened[j]
    <3>1. holds[w] \notin cancelled
      BY <1>1, <2>1, Holding DEF Perform
    <3> QED BY <1>1, <2>1, <3>1 DEF Perform, QueueInv, TypeOK
  <2>2. CASE UNCHANGED happened
    BY <2>2
  <2>3. \/ UNCHANGED happened
        \/ \E w \in Worker : \E went, heard \in BOOLEAN : Perform(w, went, heard)
    BY <1>1 DEF Next, Run, Fault, queueVars, File, Tick, Cancel, RemoveAccount, Retire,
       Look, Claim, Check, NoHandler, Close, ClaimFails, CloseFails, Panic, Crash
  <2> QED BY <2>1, <2>2, <2>3
<1>2. QueueInv /\ [Next]_queueVars => [\A j \in cancelled : happened'[j] = happened[j]]_queueVars
  BY <1>1
<1> QED BY <1>2, QueueAlways, PTL DEF Spec, CancelWins

-----------------------------------------------------------------------------
(* The outbox. *)

(* What the invariant says of the queue's variables. *)
LEMMA Facts ==
    ASSUME TypeOK
    PROVE  /\ Worker = {sender} /\ Idempotent = {} /\ None \notin Job
           /\ status \in [Job -> Statuses] /\ happened \in [Job -> Nat]
           /\ holds[sender] \in Job \union {None} /\ stage[sender] \in Stages
           /\ due[sender] \subseteq Job
           /\ stage[sender] = "free" <=> holds[sender] = None
           /\ Filed = {j \in Job : status[j] # "none"}
           /\ IsFiniteSet(Filed) /\ Cardinality(Filed) \in Nat
<1>1. Worker = {sender} /\ Idempotent = {} /\ None \notin Job /\ IsFiniteSet(Job)
  BY OutboxAssumption, QueueAssumption
<1>2. Filed = {j \in Job : status[j] # "none"}
  BY DEF TypeOK, Filed, Submits
<1>3. IsFiniteSet(Filed) /\ Cardinality(Filed) \in Nat
  BY <1>1, <1>2, FS_Subset, FS_CardinalityType
<1> QED BY <1>1, <1>2, <1>3 DEF TypeOK

(* Some jobs have a latest. *)
LEMMA Latest ==
    ASSUME NEW S, S \subseteq Job, S # {}
    PROVE  Max(S) \in S /\ \A j \in S : Max(S) >= j
<1> DEFINE HasLast(U) == \E m \in U : \A j \in U : m >= j
           R == StrictSubsetOrdering(S)
           T == {U \in SUBSET S : U # {} /\ ~HasLast(U)}
<1>1. S \subseteq Nat /\ IsFiniteSet(S)
  BY OutboxAssumption, QueueAssumption, FS_Subset
<1>2. IsWellFoundedOn(R, SUBSET S)
  BY <1>1, FS_StrictSubsetOrderingWellFounded, FS_FiniteSubsetsOfFinite
<1>3. T = {}
  <2> SUFFICES ASSUME T # {} PROVE FALSE
    OBVIOUS
  <2> HIDE DEF R
  <2>1. T \subseteq SUBSET S
    OBVIOUS
  <2>2. PICK U \in T : \A V \in T : <<V, U>> \notin R
    <3> HIDE DEF T
    <3> QED BY <1>2, <2>1, WFMin
  <2>3. PICK x : x \in U
    OBVIOUS
  <2>4. <<U \ {x}, U>> \in R
    BY <2>3 DEF R, StrictSubsetOrdering
  <2>5. U \ {x} = {} \/ HasLast(U \ {x})
    BY <2>2, <2>4
  <2>6. \A j \in U : j \in Nat
    BY <1>1
  <2>7. HasLast(U)
    <3>1. CASE U \ {x} = {}
      BY <2>3, <2>6, <3>1
    <3>2. CASE HasLast(U \ {x})
      <4>1. PICK m \in U \ {x} : \A j \in U \ {x} : m >= j
        BY <3>2
      <4>2. CASE m >= x
        BY <4>1, <4>2
      <4>3. CASE x >= m
        <5>1. \A j \in U : x >= j
          BY <2>3, <2>6, <4>1, <4>3
        <5> QED BY <2>3, <5>1
      <4> QED BY <2>3, <2>6, <4>2, <4>3
    <3> QED BY <2>5, <3>1, <3>2
  <2> QED BY <2>7
<1>4. \E m \in S : \A j \in S : m >= j
  BY <1>3
<1> QED BY <1>4 DEF Max

----------------------------------------------------------------------------
(* The queue under the outbox is the queue. *)

(* What failed stands down, and what stood down is failed again: neither touches
   a job that could still be performed. *)
LEMMA StatusKeeps ==
    ASSUME QueueInv, Undisturbed, status' \in [Job -> Statuses],
           \A j \in Job : status'[j] = status[j] \/ (status[j] \in {"failed", "obsolete"}
                                                     /\ status'[j] \in {"failed", "obsolete"}),
           UNCHANGED <<attempts, ripe, hands, working, happened, cancelled, removed, faults>>
    PROVE  QueueInv' /\ Undisturbed'
<1>1. TypeOK'
  BY DEF QueueInv, TypeOK, hands
<1>2. OneWinner'
  BY DEF QueueInv, OneWinner, hands
<1>3. HeldIsTaken'
  BY DEF QueueInv, TypeOK, HeldIsTaken, hands
<1>4. \A j \in Job : Performable(j)' => Performable(j)
  BY DEF Performable, hands
<1>5. FreshIsUnspent' /\ AtMostOnce'
  BY <1>4 DEF QueueInv, FreshIsUnspent, AtMostOnce
<1>6. CancelledIsDown' /\ Undisturbed'
  BY DEF Undisturbed, CancelledIsDown
<1> QED BY <1>1, <1>2, <1>3, <1>5, <1>6 DEF QueueInv

LEMMA FileSendKeeps == ASSUME QueueInv, Undisturbed, FileSend PROVE QueueInv' /\ Undisturbed'
<1>1. status \in [Job -> Statuses]
  BY DEF QueueInv, TypeOK
<1>2. /\ status' \in [Job -> Statuses]
      /\ \A j \in Job : status'[j] = status[j] \/ (status[j] \in {"failed", "obsolete"}
                                                   /\ status'[j] \in {"failed", "obsolete"})
  BY <1>1 DEF FileSend, Statuses
<1> QED BY <1>2, StatusKeeps DEF FileSend

LEMMA ReverseRetriedKeeps == ASSUME QueueInv, Undisturbed, ReverseRetried PROVE QueueInv' /\ Undisturbed'
<1>1. status \in [Job -> Statuses]
  BY DEF QueueInv, TypeOK
<1> DEFINE down == Submits({"obsolete"})
<1>2. status' = [j \in Job |-> IF down # {} /\ j = Max(down) THEN "failed" ELSE status[j]]
  BY DEF ReverseRetried
<1>3. down # {} => Max(down) \in Job /\ status[Max(down)] = "obsolete"
  <2>1. down \subseteq Job
    BY DEF Submits
  <2>2. down # {} => Max(down) \in down
    BY <2>1, Latest
  <2> QED BY <2>2 DEF Submits
<1> HIDE DEF down
<1>4. /\ status' \in [Job -> Statuses]
      /\ \A j \in Job : status'[j] = status[j] \/ (status[j] \in {"failed", "obsolete"}
                                                   /\ status'[j] \in {"failed", "obsolete"})
  BY <1>1, <1>2, <1>3 DEF Statuses
<1> QED BY <1>4, StatusKeeps DEF ReverseRetried

LEMMA QueueSteps == ASSUME QueueInv, Undisturbed, OutNext PROVE QueueInv' /\ Undisturbed'
<1>1. CASE See \/ TakeRow \/ Reconcile \/ Jobs \/ Submit \/ TurnEnds \/ QueueFails \/ Restart
  <2>1. sender \in Worker
    BY OutboxAssumption
  <2>2. [Next]_queueVars
    BY <1>1, <2>1 DEF See, TakeRow, Reconcile, Jobs, Submit, TurnEnds, QueueFails, Restart, Next, Run, Fault
  <2>3. QueueInv'
    BY <2>2, QueueStep
  <2>4. Undisturbed'
    BY <1>1 DEF Undisturbed, See, TakeRow, Reconcile, Jobs, Submit, TurnEnds, QueueFails, Restart,
       queueVars, File, Look, Claim, Check, Perform, Close, ClaimFails, CloseFails, Panic, Crash
  <2> QED BY <2>3, <2>4
<1>2. CASE WindowPasses \/ AskBlocked \/ ReverseSent
  <2>1. UNCHANGED queueVars
    BY <1>2 DEF WindowPasses, AskBlocked, ReverseSent, Untouched
  <2> QED BY <2>1, QueueStep DEF Undisturbed, queueVars
<1>3. CASE Send \/ Retry \/ Redo
  BY <1>3, FileSendKeeps DEF Send, Retry, Redo
<1>4. CASE ReverseRetried
  BY <1>4, ReverseRetriedKeeps
<1>5. CASE PassFails
  BY <1>5, QueueAssumption DEF PassFails, QueueInv, TypeOK, OneWinner, HeldIsTaken, FreshIsUnspent, Performable,
     AtMostOnce, CancelledIsDown, Undisturbed, rows, hands
<1> QED BY <1>1, <1>2, <1>3, <1>4, <1>5 DEF OutNext, SenderStep, UndoStep

----------------------------------------------------------------------------
(* The outbox on top of it. *)

(* What is left of the invariant when the queue's part is taken away. *)
Rest == OutTypeOK /\ AskedFor /\ LeftFor /\ InHand /\ SendingHasJob /\ OneSend

Plainly == scene = [walks |-> FALSE, honest |-> TRUE]

LEMMA FiledNext == ASSUME TypeOK' PROVE Filed' = {j \in Job : status'[j] # "none"}
  BY DEF TypeOK, Filed, Submits

(* A step of the sender or a person that leaves the jobs and what is in hand. *)
LEMMA JobsStay ==
    ASSUME OutInv, OutTypeOK', UNCHANGED <<status, happened, holds, stage, scene>>,
           asks <= asks', Waiting' <= Waiting,
           row' = "sent" => row = "sent",
           row' = "sending" => row = "sending",
           stage[sender] # "free" => turn' = "jobs",
           Plainly => /\ walk' = walk /\ (open' => open /\ row' = row)
                      /\ (row' = row \/ (row = "sending" /\ row' = "failed" /\ Submits({"failed"}) # {}))
    PROVE  Rest'
<1>1. TypeOK /\ TypeOK'
  BY DEF OutInv, QueueInv, OutTypeOK
<1>2. Filed' = Filed /\ Cardinality(Filed) \in Nat
  BY <1>1, Facts, FiledNext
<1>3. AskedFor'
  <2>1. asks \in Nat /\ asks' \in Nat /\ Waiting \in Nat /\ Waiting' \in Nat
    BY DEF OutInv, OutTypeOK, Waiting
  <2>2. Cardinality(Filed) + Waiting <= asks
    BY DEF OutInv, AskedFor
  <2> QED BY <1>2, <2>1, <2>2 DEF AskedFor
<1>4. LeftFor' /\ InHand'
  BY <1>2 DEF OutInv, LeftFor, InHand
<1>5. SendingHasJob'
  BY DEF OutInv, SendingHasJob, Submits
<1>6. OneSend'
  <2>1. CASE Plainly
    BY <2>1 DEF OutInv, OneSend, Plainly, Submits, Live
  <2> QED BY <2>1 DEF OneSend, Plainly
<1> QED BY <1>3, <1>4, <1>5, <1>6 DEF Rest

LEMMA TypeSteps == ASSUME OutTypeOK, TypeOK', OutNext PROVE OutTypeOK'
<1> DEFINE Rows == {"none", "pending", "sending", "sent", "failed"}
           Turns == {"wait", "claim", "reconcile", "run", "jobs"}
           Small == /\ row \in Rows /\ turn \in Turns /\ asks \in 0 .. MaxAsks
                    /\ scene \in Scenes /\ {over, open, undone} \subseteq BOOLEAN
           Tree == /\ past \in Seq({"sent", "retried"}) /\ at \in 0 .. Len(past)
                   /\ walk \in {"idle", "asking", "giving"} /\ (walk = "giving" => at > 0)
<1>1. Small /\ Tree
  BY DEF OutTypeOK
<1>2. scene' = scene /\ MaxAsks \in Nat
  BY OutboxAssumption DEF OutNext
<1>3. CASE SenderStep \/ WindowPasses \/ PassFails \/ QueueFails
  <2>1. Small'
    BY <1>1, <1>2, <1>3 DEF SenderStep, See, TakeRow, Reconcile, Jobs, Submit, TurnEnds, WindowPasses,
       PassFails, QueueFails, mail, person
  <2>2. UNCHANGED <<past, at, walk>>
    BY <1>3 DEF SenderStep, See, TakeRow, Reconcile, Jobs, Submit, TurnEnds, WindowPasses,
       PassFails, QueueFails, mail, person
  <2>3. Tree'
    BY <1>1, <2>2
  <2> QED BY <2>1, <2>3 DEF OutTypeOK
<1>4. ASSUME NEW claim \in {"sent", "retried"}, Recorded(claim) PROVE past' \in Seq({"sent", "retried"}) /\ at' \in 0 .. Len(past')
  <2>1. at \in Nat /\ at <= Len(past) /\ past \in Seq({"sent", "retried"}) /\ Len(past) \in Nat
    BY <1>1
  <2>2. SubSeq(past, 1, at) \in Seq({"sent", "retried"}) /\ Len(SubSeq(past, 1, at)) = at
    BY <2>1
  <2>3. PICK h : h = SubSeq(past, 1, at)
    OBVIOUS
  <2>4. past' = Append(h, claim) /\ at' = at + 1 /\ h \in Seq({"sent", "retried"}) /\ Len(h) = at
    BY <1>4, <2>2, <2>3 DEF Recorded
  <2> QED BY <2>1, <2>4
<1>9. ASSUME Ask PROVE asks' \in 0 .. MaxAsks /\ undone' \in BOOLEAN
  <2>1. asks < MaxAsks /\ asks' = asks + 1 /\ undone' = FALSE
    BY <1>9 DEF Ask
  <2>2. asks' \in 0 .. MaxAsks
    BY <1>1, <1>2, <2>1
  <2> QED BY <2>1, <2>2
<1>5. CASE Send \/ Retry
  <2>0. Ask /\ row' = "pending" /\ over' = FALSE /\ turn' = turn /\ open' \in {open, FALSE}
    BY <1>5 DEF Send, Retry, FileSend
  <2>1. Small'
    BY <1>1, <1>2, <1>9, <2>0
  <2>2. past' \in Seq({"sent", "retried"}) /\ at' \in 0 .. Len(past') /\ walk' = "idle"
    BY <1>4, <1>5 DEF Send, Retry
  <2>3. Tree'
    BY <2>2
  <2> QED BY <2>1, <2>3 DEF OutTypeOK
<1>6. CASE AskBlocked
  <2>1. Small'
    BY <1>1, <1>2, <1>6 DEF AskBlocked, Untouched, mail
  <2>2. CASE walk' = "giving" /\ UNCHANGED <<past, at>>
    <3>1. Tree'
      BY <1>1, <1>6, <2>2 DEF AskBlocked
    <3> QED BY <2>1, <3>1 DEF OutTypeOK
  <2>3. CASE at' = at - 1 /\ past' = SubSeq(past, 1, at - 1) /\ walk' = IF at = 1 THEN "idle" ELSE "asking"
    <3>1. at > 0 /\ at \in Nat /\ at <= Len(past) /\ past \in Seq({"sent", "retried"}) /\ Len(past) \in Nat
      BY <1>1, <1>6 DEF AskBlocked
    <3>2. SubSeq(past, 1, at - 1) \in Seq({"sent", "retried"}) /\ Len(SubSeq(past, 1, at - 1)) = at - 1
      BY <3>1
    <3>3. Tree'
      BY <2>3, <3>1, <3>2
    <3> QED BY <2>1, <3>3 DEF OutTypeOK
  <2> QED BY <1>6, <2>2, <2>3 DEF AskBlocked
<1>7. CASE ReverseSent \/ ReverseRetried
  <2>1. /\ row' \in {row, "none", "failed"} /\ UNCHANGED <<over, turn, asks, past>>
        /\ open' \in {open, TRUE} /\ undone' \in {undone, TRUE}
        /\ walk = "giving" /\ walk' = "idle" /\ at' = at - 1
    BY <1>7 DEF ReverseSent, ReverseRetried
  <2>2. Small'
    BY <1>1, <1>2, <2>1
  <2>3. Tree'
    BY <1>1, <2>1
  <2> QED BY <2>2, <2>3 DEF OutTypeOK
<1>10. CASE Redo
  <2>1. /\ Ask /\ row' = "pending" /\ over' = FALSE /\ UNCHANGED <<turn, past, walk>>
        /\ open' \in {open, FALSE} /\ walk = "idle" /\ at < Len(past) /\ at' = at + 1
    BY <1>10 DEF Redo, FileSend
  <2>2. Small'
    BY <1>1, <1>2, <1>9, <2>1
  <2>3. Tree'
    BY <1>1, <2>1
  <2> QED BY <2>2, <2>3 DEF OutTypeOK
<1>8. CASE Restart
  <2>1. Small'
    BY <1>1, <1>2, <1>8 DEF Restart, mail
  <2>2. past' = <<>> /\ at' = 0 /\ walk' = "idle"
    BY <1>8 DEF Restart
  <2>3. Tree'
    BY <2>2
  <2> QED BY <2>1, <2>3 DEF OutTypeOK
<1> QED BY <1>3, <1>5, <1>6, <1>7, <1>8, <1>10 DEF OutNext, UndoStep

(* The steps that leave the jobs alone. *)
LEMMA QuietKeeps ==
    ASSUME OutInv, OutTypeOK', scene' = scene,
           \/ See \/ Reconcile \/ Jobs \/ TurnEnds \/ WindowPasses \/ AskBlocked \/ ReverseSent
           \/ PassFails \/ (TakeRow /\ row # "pending") \/ (QueueFails /\ ClaimFails(sender) /\ UNCHANGED turn)
    PROVE  Rest'
<1> USE DEF Plainly, Waiting
<1>1. /\ asks \in Nat /\ (stage[sender] # "free" => turn = "jobs") /\ turn # "none"
      /\ Plainly => walk = "idle" /\ ~scene.walks /\ (open => row = "none")
  BY DEF OutInv, OutTypeOK, InHand, OneSend
<1>2. CASE See
  BY <1>1, <1>2, JobsStay DEF See, queueVars, hands, mail, person
<1>3. CASE Reconcile
  <2>1. /\ row' = row \/ (row = "sending" /\ row' = "failed" /\ Submits({"failed"}) # {})
        /\ turn = "reconcile" /\ UNCHANGED <<queueVars, over, person>>
    BY <1>3 DEF Reconcile
  <2>2. /\ UNCHANGED <<status, happened, holds, stage, walk, asks, open>> /\ stage[sender] = "free"
        /\ row' = "sent" => row = "sent"
        /\ row' = "sending" => row = "sending"
        /\ Waiting' <= Waiting
    BY <1>1, <2>1 DEF queueVars, hands, person
  <2>3. asks <= asks'
    BY <1>1, <2>2
  <2>4. Plainly => /\ walk' = walk /\ (open' => open /\ row' = row)
                   /\ (row' = row \/ (row = "sending" /\ row' = "failed" /\ Submits({"failed"}) # {}))
    BY <1>1, <2>1, <2>2
  <2>5. stage[sender] # "free" => turn' = "jobs"
    BY <2>2
  <2> QED BY <2>2, <2>3, <2>4, <2>5, JobsStay
<1>4. CASE Jobs
  BY <1>1, <1>4, JobsStay DEF Jobs, Look, rows, mail, person
<1>5. CASE TurnEnds
  BY <1>1, <1>5, JobsStay DEF TurnEnds, queueVars, hands, mail, person
<1>6. CASE WindowPasses
  BY <1>1, <1>6, JobsStay DEF WindowPasses, queueVars, hands, person
<1>7. CASE AskBlocked
  BY <1>1, <1>7, JobsStay DEF AskBlocked, Untouched, queueVars, hands, mail
<1>8. CASE ReverseSent
  BY <1>1, <1>8, JobsStay DEF ReverseSent, queueVars, hands
<1>9. CASE PassFails
  BY <1>1, <1>9, JobsStay DEF PassFails, rows, hands, mail, person
<1>10. CASE TakeRow /\ row # "pending"
  BY <1>1, <1>10, JobsStay DEF TakeRow, queueVars, hands, person
<1>11. CASE QueueFails /\ ClaimFails(sender) /\ UNCHANGED turn
  BY <1>1, <1>11, JobsStay DEF QueueFails, ClaimFails, rows, mail, person
<1> QED BY <1>2, <1>3, <1>4, <1>5, <1>6, <1>7, <1>8, <1>9, <1>10, <1>11

(* The row is taken, and its job filed with it. *)
LEMMA TakeRowKeeps == ASSUME OutInv, OutTypeOK', scene' = scene, TakeRow, row = "pending" PROVE Rest'
<1>1. PICK j \in Job : status[j] = "none" /\ status' = [status EXCEPT ![j] = "pending"]
  BY DEF TakeRow, File
<1>2. /\ row' = "sending" /\ turn = "claim" /\ UNCHANGED <<hands, happened, asks, walk, open>>
  BY DEF TakeRow, File, person
<1>3. TypeOK /\ TypeOK'
  BY DEF OutInv, QueueInv, OutTypeOK
<1>4. Filed' = Filed \union {j} /\ j \notin Filed
  BY <1>1, <1>3, Facts, FiledNext
<1>5. Cardinality(Filed') = Cardinality(Filed) + 1 /\ Cardinality(Filed) \in Nat
  BY <1>3, <1>4, Facts, FS_AddElement
<1>6. AskedFor'
  BY <1>2, <1>5 DEF OutInv, AskedFor, Waiting, OutTypeOK
<1>7. LeftFor' /\ InHand'
  BY <1>2, <1>4 DEF OutInv, LeftFor, InHand, hands
<1>8. SendingHasJob'
  BY <1>1, <1>3, Facts DEF SendingHasJob, Submits, Live
<1>9. OneSend'
  <2>1. CASE Plainly
    <3>1. /\ Submits(Live \union {"failed"}) = {} /\ walk = "idle" /\ ~open
      BY <2>1 DEF OutInv, OneSend, Plainly
    <3>2. \A k \in Submits(Live \union {"failed"})' : k = j
      BY <1>1, <1>3, <3>1, Facts DEF Submits
    <3>3. stage[sender] = "free" /\ holds[sender] = None
      BY <1>2, <1>3, Facts DEF OutInv, InHand
    <3> QED BY <1>2, <3>1, <3>2, <3>3 DEF OneSend, hands
  <2> QED BY <2>1 DEF OneSend, Plainly
<1> QED BY <1>6, <1>7, <1>8, <1>9 DEF Rest

(* The worker's own steps on the job in its hands. *)
LEMMA SubmitKeeps == ASSUME OutInv, OutTypeOK', scene' = scene, Submit PROVE Rest'
<1>1. TypeOK /\ TypeOK' /\ HeldIsTaken
  BY DEF OutInv, QueueInv, OutTypeOK
<1>2. turn = "jobs" /\ UNCHANGED <<turn, asks, walk, open>> /\ asks \in Nat
  BY DEF Submit, person, OutInv, OutTypeOK
<1>3. holds[sender] # None => holds[sender] \in Filed
  BY <1>1, Facts DEF HeldIsTaken, Filed, Submits
<1>4. ASSUME Filed' = Filed, Waiting' = Waiting PROVE AskedFor'
  BY <1>2, <1>4 DEF OutInv, AskedFor
<1>5. CASE Claim(sender) /\ UNCHANGED row
  <2>1. PICK j \in Job :
          IF status[j] = "pending"
          THEN /\ status' = [status EXCEPT ![j] = "processing"]
               /\ holds' = [holds EXCEPT ![sender] = j]
               /\ stage' = [stage EXCEPT ![sender] = "claimed"]
          ELSE UNCHANGED <<status, attempts, holds, stage>>
    BY <1>1, <1>5, Facts DEF Claim, Foremost
  <2>2. happened' = happened
    BY <1>5 DEF Claim
  <2>3. CASE status[j] # "pending"
    BY <1>2, <1>5, <2>1, <2>2, <2>3, JobsStay DEF Waiting
  <2>4. CASE status[j] = "pending"
    <3>1. Filed' = Filed
      BY <1>1, <2>1, <2>4, Facts, FiledNext
    <3>2. AskedFor'
      BY <1>4, <1>5, <3>1 DEF Waiting
    <3>3. stage'[sender] = "claimed" /\ holds'[sender] = j /\ status'[j] = "processing"
      BY <1>1, <2>1, <2>4, Facts DEF TypeOK
    <3>4. LeftFor' /\ InHand'
      BY <1>2, <1>5, <2>2, <3>1, <3>3 DEF OutInv, LeftFor, InHand
    <3>5. \A k \in Job : status'[k] \in Live <=> status[k] \in Live
      BY <1>1, <2>1, <2>4, Facts DEF Live
    <3>6. \A k \in Job : status'[k] = "failed" <=> status[k] = "failed"
      BY <1>1, <2>1, <2>4, Facts
    <3>7. Submits(Live \union {"failed"})' = Submits(Live \union {"failed"}) /\ Submits(Live)' = Submits(Live)
      BY <3>5, <3>6 DEF Submits
    <3>8. SendingHasJob' /\ OneSend'
      BY <1>2, <1>5, <3>3, <3>7 DEF OutInv, SendingHasJob, OneSend
    <3> QED BY <3>2, <3>4, <3>8 DEF Rest
  <2> QED BY <2>3, <2>4
<1>6. CASE Check(sender, row = "sending") /\ UNCHANGED row
  <2>1. /\ UNCHANGED <<status, holds, happened>> /\ stage[sender] = "claimed"
        /\ stage' = [stage EXCEPT ![sender] = IF row = "sending" THEN "wanted" ELSE "obsolete"]
    BY <1>6 DEF Check, To, rows
  <2>2. stage'[sender] = IF row = "sending" THEN "wanted" ELSE "obsolete"
    BY <1>1, <2>1, Facts DEF TypeOK
  <2>3. Filed' = Filed
    BY <1>1, <2>1, Facts, FiledNext
  <2>4. AskedFor'
    BY <1>4, <1>6, <2>3 DEF Waiting
  <2>5. LeftFor' /\ InHand'
    BY <1>2, <1>6, <2>1, <2>2, <2>3 DEF OutInv, LeftFor, InHand
  <2>6. SendingHasJob' /\ OneSend'
    BY <1>2, <1>6, <2>1 DEF OutInv, SendingHasJob, OneSend, Submits
  <2> QED BY <2>4, <2>5, <2>6 DEF Rest
<1>7. ASSUME NEW went \in BOOLEAN, NEW heard \in BOOLEAN, Perform(sender, went, heard), UNCHANGED row
      PROVE  Rest'
  <2> DEFINE j == holds[sender]
  <2>1. /\ UNCHANGED <<status, holds>> /\ stage[sender] = "wanted" /\ (heard => went)
        /\ happened' = [happened EXCEPT ![j] = IF went THEN @ + 1 ELSE @]
        /\ stage' = [stage EXCEPT ![sender] = IF heard THEN "done" ELSE "failed"]
    BY <1>7 DEF Perform, To, rows
  <2>2. stage'[sender] = IF heard THEN "done" ELSE "failed"
    BY <1>1, <2>1, Facts DEF TypeOK
  <2>3. j \in Job /\ j \in Filed /\ happened[j] \in Nat
    BY <1>1, <1>3, <2>1, Facts
  <2>4. /\ \A k \in Job : k # j => happened'[k] = happened[k]
        /\ happened'[j] = IF went THEN happened[j] + 1 ELSE happened[j]
    BY <1>1, <2>1, <2>3, Facts
  <2> HIDE DEF j
  <2>5. Filed' = Filed
    BY <1>1, <2>1, Facts, FiledNext
  <2>6. AskedFor'
    BY <1>4, <1>7, <2>5 DEF Waiting
  <2>7. \A k \in Job : happened[k] > 0 => happened'[k] > 0
    BY <2>3, <2>4
  <2>8. LeftFor'
    BY <1>7, <2>3, <2>4, <2>5, <2>7 DEF OutInv, LeftFor
  <2>9. InHand'
    <3>1. heard => happened'[holds[sender]] > 0
      BY <2>1, <2>3, <2>4 DEF j
    <3> QED BY <1>2, <2>1, <2>2, <3>1 DEF InHand
  <2>10. SendingHasJob' /\ OneSend'
    BY <1>2, <1>7, <2>1 DEF OutInv, SendingHasJob, OneSend, Submits
  <2> QED BY <2>6, <2>8, <2>9, <2>10 DEF Rest
<1>8. CASE Close(sender) /\ row' = IF stage[sender] = "done" /\ row # "none" THEN "sent" ELSE row
  <2> DEFINE j == holds[sender]
  <2>1. /\ stage[sender] \in Finished /\ status' = [status EXCEPT ![j] = Closed(j, stage[sender])]
        /\ holds' = [holds EXCEPT ![sender] = None] /\ stage' = [stage EXCEPT ![sender] = "free"]
        /\ happened' = happened
    BY <1>8 DEF Close, Free, To
  <2>2. j \in Job /\ j \in Filed /\ holds'[sender] = None /\ stage'[sender] = "free"
    BY <1>1, <1>3, <2>1, Facts DEF TypeOK, Finished
  <2>3. Closed(j, stage[sender]) = IF stage[sender] = "hopeless" THEN "failed" ELSE stage[sender]
    BY <1>1, Facts DEF Closed, Retries
  <2>4. /\ status'[j] = IF stage[sender] = "hopeless" THEN "failed" ELSE stage[sender]
        /\ status'[j] \in {"done", "obsolete", "failed"}
        /\ \A k \in Job : k # j => status'[k] = status[k]
    BY <1>1, <2>1, <2>2, <2>3, Facts DEF Finished
  <2> HIDE DEF j
  <2>5. Filed' = Filed
    BY <1>1, <2>2, <2>4, Facts, FiledNext
  <2>6. AskedFor'
    <3>1. Waiting' <= Waiting /\ Waiting \in Nat /\ Waiting' \in Nat
      BY <1>8 DEF Waiting
    <3>2. Cardinality(Filed) \in Nat
      BY <1>1, Facts
    <3>3. Cardinality(Filed) + Waiting <= asks
      BY DEF OutInv, AskedFor
    <3> QED BY <1>2, <2>5, <3>1, <3>2, <3>3 DEF AskedFor
  <2>7. LeftFor'
    <3>1. stage[sender] = "done" => happened[j] > 0
      BY DEF OutInv, InHand, j
    <3> QED BY <1>8, <2>1, <2>2, <2>5, <3>1 DEF OutInv, LeftFor
  <2>8. InHand'
    BY <1>2, <2>2 DEF InHand
  <2>9. SendingHasJob'
    <3> SUFFICES ASSUME row' = "sending" PROVE \E k \in Job : status'[k] \in Live \union {"failed"}
      BY DEF SendingHasJob, Submits
    <3>1. row = "sending" /\ stage[sender] # "done"
      BY <1>8
    <3>2. stage[sender] # "obsolete"
      BY <3>1 DEF OutInv, InHand
    <3>3. status'[j] = "failed"
      BY <2>1, <2>4, <3>1, <3>2 DEF Finished
    <3> QED BY <2>2, <3>3
  <2>10. OneSend'
    <3>1. CASE Plainly
      <4>1. /\ walk = "idle" /\ (open => row = "none") /\ status[j] = "processing"
            /\ \A k, l \in Submits(Live \union {"failed"}) : k = l
            /\ row \in {"none", "pending", "sent"} => Submits(Live \union {"failed"}) = {}
            /\ row = "failed" => Submits(Live) = {}
        BY <1>1, <2>1, <2>2, <3>1, Facts DEF OutInv, OneSend, Plainly, j
      <4>2. j \in Submits(Live \union {"failed"}) /\ j \in Submits(Live)
        BY <2>2, <4>1 DEF Submits, Live
      <4>3. row = "sending"
        BY <4>1, <4>2 DEF OutInv, OutTypeOK
      <4>4. \A k \in Job : status'[k] \in Live \union {"failed"} => k = j
        BY <2>4, <4>1, <4>2 DEF Submits
      <4>5. stage[sender] = "done" => Submits(Live \union {"failed"})' = {}
        BY <2>4, <4>4 DEF Submits, Live
      <4>6. row' \in {"sending", "sent"} /\ (row' = "sent" => stage[sender] = "done")
        BY <1>8, <4>3
      <4>7. \A k, l \in Submits(Live \union {"failed"})' : k = l
        BY <4>4 DEF Submits
      <4> QED BY <1>2, <2>2, <4>1, <4>3, <4>5, <4>6, <4>7 DEF OneSend
    <3> QED BY <3>1 DEF OneSend, Plainly
  <2> QED BY <2>6, <2>7, <2>8, <2>9, <2>10 DEF Rest
<1> QED BY <1>5, <1>6, <1>7, <1>8 DEF Submit

(* Plainly, nothing is under way while the panel is open or a send has failed. *)
LEMMA NoneActive == ASSUME OutInv, Plainly, open \/ FailedSend PROVE Submits(Live) = {}
<1>1. /\ open => row = "none"
      /\ \A i, j \in Submits(Live \union {"failed"}) : i = j
      /\ row \in {"none", "pending", "sent"} => Submits(Live \union {"failed"}) = {}
      /\ row = "failed" => Submits(Live) = {}
  BY DEF OutInv, OneSend, Plainly
<1>2. CASE open
  BY <1>1, <1>2 DEF Submits
<1>3. CASE row = "failed"
  BY <1>1, <1>3
<1>4. CASE FailedSend /\ row # "failed"
  <2> DEFINE S == Submits(Statuses \ {"none", "obsolete"})
  <2>1. S # {} /\ status[Max(S)] = "failed"
    BY <1>4 DEF FailedSend
  <2>2. S \subseteq Job
    BY DEF Submits
  <2>3. Max(S) \in S
    BY <2>1, <2>2, Latest
  <2>4. Max(S) \in Job
    BY <2>2, <2>3
  <2> HIDE DEF S
  <2> QED BY <1>1, <2>1, <2>4 DEF Submits, Live
<1> QED BY <1>2, <1>3, <1>4

(* Whoever asks again: what failed before stands down, and a row waits. *)
LEMMA AskedKeeps ==
    ASSUME OutInv, OutTypeOK', scene' = scene, Ask, FileSend, turn' = turn,
           Plainly => /\ walk' = walk /\ ~open' /\ (open \/ FailedSend)
    PROVE  Rest'
<1>1. TypeOK /\ TypeOK'
  BY DEF OutInv, QueueInv, OutTypeOK
<1>2. /\ row' = "pending" /\ asks' = asks + 1 /\ asks \in Nat
      /\ status' = [j \in Job |-> IF status[j] = "failed" THEN "obsolete" ELSE status[j]]
      /\ UNCHANGED <<hands, happened>>
  BY DEF FileSend, Ask, OutInv, OutTypeOK
<1>3. Filed' = Filed /\ Cardinality(Filed) \in Nat
  BY <1>1, <1>2, Facts, FiledNext
<1>4. AskedFor'
  <2>1. Cardinality(Filed) + Waiting <= asks /\ Waiting \in Nat /\ Waiting' = 1
    BY <1>2 DEF OutInv, AskedFor, Waiting
  <2> QED BY <1>2, <1>3, <2>1 DEF AskedFor
<1>5. LeftFor' /\ InHand' /\ SendingHasJob'
  BY <1>2, <1>3 DEF OutInv, LeftFor, InHand, SendingHasJob, hands
<1>6. OneSend'
  <2>1. CASE Plainly
    <3>1. /\ walk = "idle" /\ (open => row = "none")
          /\ \A i, j \in Submits(Live \union {"failed"}) : i = j
          /\ row \in {"none", "pending", "sent"} => Submits(Live \union {"failed"}) = {}
          /\ row = "failed" => Submits(Live) = {}
          /\ holds[sender] # None => status[holds[sender]] = "processing"
      BY <2>1 DEF OutInv, OneSend, Plainly
    <3>2. Submits(Live) = {}
      BY <2>1, NoneActive
    <3>3. Submits(Live \union {"failed"})' = {}
      BY <1>2, <3>2 DEF Submits, Live
    <3>4. holds[sender] = None
      <4>1. holds[sender] # None => holds[sender] \in Submits(Live)
        BY <1>1, <3>1, Facts DEF Submits, Live
      <4> QED BY <3>2, <4>1
    <3> QED BY <1>2, <2>1, <3>1, <3>3, <3>4 DEF OneSend, hands
  <2> QED BY <2>1 DEF OneSend, Plainly
<1> QED BY <1>4, <1>5, <1>6 DEF Rest

LEMMA PersonKeeps ==
    ASSUME OutInv, OutTypeOK', scene' = scene, Send \/ Retry \/ Redo \/ ReverseRetried
    PROVE  Rest'
<1>1. Plainly => walk = "idle" /\ ~scene.walks /\ (open => row = "none")
  BY DEF OutInv, OneSend, Plainly
<1>2. CASE Send
  BY <1>2, AskedKeeps DEF Send
<1>3. CASE Retry
  <2>1. Plainly => ~open
    BY <1>1, <1>3 DEF Retry, FailedSend
  <2> QED BY <1>3, <2>1, AskedKeeps DEF Retry
<1>4. CASE Redo
  BY <1>1, <1>4, AskedKeeps DEF Redo
<1>5. CASE ReverseRetried
  <2>1. /\ walk = "giving" /\ row' = (IF row \in {"pending", "failed"} THEN "failed" ELSE row)
        /\ UNCHANGED <<hands, happened, turn, asks>>
    BY <1>5 DEF ReverseRetried
  <2>2. TypeOK /\ TypeOK' /\ asks \in Nat
    BY DEF OutInv, QueueInv, OutTypeOK
  <2>3. /\ \A j \in Job : status[j] = "none" <=> status'[j] = "none"
        /\ \A j \in Job : status[j] \in Live \union {"failed"} => status'[j] \in Live \union {"failed"}
    <3> DEFINE down == Submits({"obsolete"})
    <3>1. status' = [j \in Job |-> IF down # {} /\ j = Max(down) THEN "failed" ELSE status[j]]
      BY <1>5 DEF ReverseRetried
    <3>2. down \subseteq Job /\ \A j \in down : status[j] = "obsolete"
      BY DEF Submits
    <3>3. down # {} => status[Max(down)] = "obsolete"
      BY <3>2, Latest
    <3> HIDE DEF down
    <3> QED BY <3>1, <3>3 DEF Live
  <2>4. Filed' = Filed /\ Cardinality(Filed) \in Nat
    BY <2>2, <2>3, Facts, FiledNext
  <2>5. AskedFor'
    <3>1. Cardinality(Filed) + Waiting <= asks /\ Waiting \in Nat /\ Waiting' = 0
      BY <2>1 DEF OutInv, AskedFor, Waiting
    <3> QED BY <2>1, <2>2, <2>4, <3>1 DEF AskedFor
  <2>6. LeftFor' /\ InHand'
    BY <2>1, <2>4 DEF OutInv, LeftFor, InHand, hands
  <2>7. SendingHasJob'
    BY <2>1, <2>3 DEF OutInv, SendingHasJob, Submits
  <2>8. OneSend'
    BY <1>1, <2>1 DEF OneSend, Plainly
  <2> QED BY <2>5, <2>6, <2>7, <2>8 DEF Rest
<1> QED BY <1>2, <1>3, <1>4, <1>5

(* What goes wrong with the queue and with the process. *)
LEMMA FaultKeeps ==
    ASSUME OutInv, OutTypeOK', scene' = scene, QueueFails \/ Restart
    PROVE  Rest'
<1>1. TypeOK /\ TypeOK' /\ asks \in Nat /\ Cardinality(Filed) \in Nat
  BY Facts DEF OutInv, QueueInv, OutTypeOK
<1>2. CASE QueueFails /\ ~(ClaimFails(sender) /\ UNCHANGED turn)
  <2>1. /\ UNCHANGED <<status, happened, row, asks, walk, open>>
        /\ holds' = [holds EXCEPT ![sender] = None] /\ stage' = [stage EXCEPT ![sender] = "free"]
    BY <1>2 DEF QueueFails, CloseFails, Panic, Free, To, rows, mail, person
  <2>2. stage'[sender] = "free" /\ holds'[sender] = None
    BY <1>1, <2>1, Facts DEF TypeOK
  <2>3. Filed' = Filed
    BY <1>1, <2>1, Facts, FiledNext
  <2>4. AskedFor' /\ LeftFor' /\ InHand'
    BY <2>1, <2>2, <2>3 DEF OutInv, AskedFor, Waiting, LeftFor, InHand
  <2>5. SendingHasJob' /\ OneSend'
    BY <2>1, <2>2 DEF OutInv, SendingHasJob, OneSend, Submits
  <2> QED BY <2>4, <2>5 DEF Rest
<1>3. CASE QueueFails /\ ClaimFails(sender) /\ UNCHANGED turn
  BY <1>3, QuietKeeps
<1>4. CASE Restart
  <2>1. /\ status' = [j \in Job |-> Swept(j)] /\ stage' = [w \in Worker |-> "free"]
        /\ UNCHANGED <<happened, row, asks>> /\ ~scene.honest
    BY <1>4 DEF Restart, Crash, mail
  <2>2. stage'[sender] = "free"
    BY <1>1, <2>1, Facts
  <2>3. /\ \A j \in Job : status[j] = "none" <=> status'[j] = "none"
        /\ \A j \in Job : status[j] \in Live \union {"failed"} => status'[j] \in Live \union {"failed"}
    BY <1>1, <2>1, Facts DEF Swept, Live
  <2>4. Filed' = Filed
    BY <1>1, <2>3, Facts, FiledNext
  <2>5. AskedFor' /\ LeftFor' /\ InHand'
    BY <2>1, <2>2, <2>4 DEF OutInv, AskedFor, Waiting, LeftFor, InHand
  <2>6. SendingHasJob'
    BY <2>1, <2>3 DEF OutInv, SendingHasJob, Submits
  <2>7. OneSend'
    BY <2>1 DEF OneSend
  <2> QED BY <2>5, <2>6, <2>7 DEF Rest
<1> QED BY <1>2, <1>3, <1>4

----------------------------------------------------------------------------
LEMMA OutInitially == OutInit => OutInv
<1> SUFFICES ASSUME OutInit PROVE OutInv
  OBVIOUS
<1>1. QueueInv
  BY QueueInit DEF OutInit
<1>2. TypeOK
  BY <1>1 DEF QueueInv
<1>3. OutTypeOK
  <2>1. /\ row = "none" /\ turn = "wait" /\ past = <<>> /\ at = 0 /\ walk = "idle"
        /\ asks = 0 /\ scene \in Scenes
    BY DEF OutInit
  <2>2. {over, open, undone} \subseteq BOOLEAN
    BY DEF OutInit
  <2>3. past \in Seq({"sent", "retried"}) /\ at \in 0 .. Len(past)
    BY <2>1
  <2>4. asks \in 0 .. MaxAsks
    BY <2>1, OutboxAssumption
  <2> QED BY <1>2, <2>1, <2>2, <2>3, <2>4 DEF OutTypeOK
<1>4. /\ \A j \in Job : status[j] = "none" /\ happened[j] = 0
      /\ \A w \in Worker : stage[w] = "free" /\ holds[w] = None
      /\ row = "none" /\ asks = 0 /\ walk = "idle" /\ cancelled = {} /\ removed = {}
  BY DEF OutInit, Init
<1>5. Filed = {} /\ Cardinality(Filed) = 0
  BY <1>2, <1>4, Facts, FS_EmptySet
<1>6. AskedFor /\ LeftFor /\ Undisturbed /\ SendingHasJob
  BY <1>4, <1>5 DEF AskedFor, Waiting, LeftFor, Undisturbed, SendingHasJob
<1>7. InHand /\ OneSend
  BY <1>2, <1>4, Facts DEF InHand, OneSend, Submits, Live
<1> QED BY <1>1, <1>3, <1>6, <1>7 DEF OutInv

LEMMA OutSteps == OutInv /\ [OutNext]_allVars => OutInv'
<1> SUFFICES ASSUME OutInv, [OutNext]_allVars PROVE OutInv'
  OBVIOUS
<1>1. CASE OutNext
  <2>1. QueueInv' /\ Undisturbed'
    BY <1>1, QueueSteps DEF OutInv
  <2>2. OutTypeOK' /\ scene' = scene
    BY <1>1, <2>1, TypeSteps DEF OutInv, QueueInv, OutNext
  <2>3. SUFFICES Rest'
    BY <2>1 DEF OutInv, Rest
  <2>4. CASE See \/ Reconcile \/ Jobs \/ TurnEnds \/ WindowPasses \/ AskBlocked \/ ReverseSent \/ PassFails
    BY <2>2, <2>4, QuietKeeps
  <2>5. CASE TakeRow
    BY <2>2, <2>5, QuietKeeps, TakeRowKeeps
  <2>6. CASE Submit
    BY <2>2, <2>6, SubmitKeeps
  <2>7. CASE Send \/ Retry \/ Redo \/ ReverseRetried
    BY <2>2, <2>7, PersonKeeps
  <2>8. CASE QueueFails \/ Restart
    BY <2>2, <2>8, FaultKeeps
  <2> QED BY <1>1, <2>4, <2>5, <2>6, <2>7, <2>8 DEF OutNext, SenderStep, UndoStep
<1>2. CASE UNCHANGED allVars
  <2>1. QueueInv'
    BY <1>2, QueueStep DEF OutInv, allVars
  <2>2. OutTypeOK'
    BY <1>2, <2>1 DEF OutInv, OutTypeOK, QueueInv, allVars, outVars
  <2>3. Rest'
    BY <1>2, <2>2, JobsStay DEF allVars, outVars, queueVars, OutInv, OutTypeOK, InHand, Waiting
  <2> QED BY <1>2, <2>1, <2>3 DEF OutInv, Rest, Undisturbed, allVars, queueVars
<1> QED BY <1>1, <1>2

LEMMA OutAlways == OutSpec => []OutInv
  BY OutInitially, OutSteps, PTL DEF OutSpec

(* Every variable of the outbox and of its queue keeps its type. *)
THEOREM OutboxTypes == OutSpec => []OutTypeOK
<1>1. OutInv => OutTypeOK
  BY DEF OutInv
<1> QED BY <1>1, OutAlways, PTL

(* The departures of a letter are one for each job it left for, at most. *)
LEMMA OncePerJob ==
    ASSUME TypeOK, AtMostOnce
    PROVE  LET gone == {j \in Job : happened[j] > 0}
           IN  IsFiniteSet(gone) /\ Departures = Cardinality(gone) /\ Cardinality(gone) \in Nat
<1> DEFINE gone == {j \in Job : happened[j] > 0}
           all == UNION {{j} \X (1 .. happened[j]) : j \in Job}
<1>1. \A j \in Job : happened[j] \in Nat /\ happened[j] <= 1
  BY Facts DEF AtMostOnce
<1>2. IsFiniteSet(gone) /\ Cardinality(gone) \in Nat
  BY OutboxAssumption, FS_Subset, FS_CardinalityType
<1>3. all = gone \X {1}
  <2>1. ASSUME NEW j \in Job PROVE 1 .. happened[j] = IF happened[j] > 0 THEN {1} ELSE {}
    <3>1. PICK n : n = happened[j]
      OBVIOUS
    <3>2. n = 0 \/ n = 1
      BY <1>1, <3>1
    <3>3. CASE n = 0
      <4>1. 1 .. 0 = {} /\ ~(0 > 0)
        OBVIOUS
      <4> QED BY <3>1, <3>3, <4>1
    <3>4. CASE n = 1
      <4>1. 1 .. 1 = {1} /\ 1 > 0
        OBVIOUS
      <4> QED BY <3>1, <3>4, <4>1
    <3> QED BY <3>2, <3>3, <3>4
  <2>2. ASSUME NEW x PROVE x \in all <=> x \in gone \X {1}
    <3>1. x \in all <=> \E j \in Job : x \in {j} \X (1 .. happened[j])
      OBVIOUS
    <3>2. ASSUME NEW j \in Job PROVE x \in {j} \X (1 .. happened[j]) <=> j \in gone /\ x = <<j, 1>>
      <4>1. PICK S : S = 1 .. happened[j]
        OBVIOUS
      <4>2. S = IF j \in gone THEN {1} ELSE {}
        BY <2>1, <4>1
      <4>3. x \in {j} \X S <=> j \in gone /\ x = <<j, 1>>
        BY <4>2
      <4> QED BY <4>1, <4>3
    <3>3. x \in gone \X {1} <=> \E j \in gone : x = <<j, 1>>
      OBVIOUS
    <3> QED BY <3>1, <3>2, <3>3
  <2> QED BY <2>2
<1>4. Cardinality(gone \X {1}) = Cardinality(gone)
  <2>1. IsFiniteSet({1}) /\ Cardinality({1}) = 1
    BY FS_Singleton
  <2>2. Cardinality(gone \X {1}) = Cardinality(gone) * 1
    BY <1>2, <2>1, FS_Product
  <2> QED BY <1>2, <2>2
<1> QED BY <1>2, <1>3, <1>4 DEF Departures

(* The letter never leaves more often than somebody asked: a job is filed only for
   a row somebody's asking put there (claim_tx), and a job leaves once at most. *)
THEOREM OutboxNeverUnasked == OutSpec => []NeverUnasked
<1>1. ASSUME OutInv PROVE NeverUnasked
  <2> DEFINE gone == {j \in Job : happened[j] > 0}
  <2>1. TypeOK /\ AtMostOnce
    BY <1>1 DEF OutInv, QueueInv
  <2>2. Departures = Cardinality(gone) /\ Cardinality(gone) \in Nat
    BY <2>1, OncePerJob
  <2>3. gone \subseteq Filed /\ IsFiniteSet(Filed) /\ Cardinality(Filed) \in Nat
    BY <1>1, <2>1, Facts DEF OutInv, LeftFor
  <2>4. Cardinality(gone) <= Cardinality(Filed)
    BY <2>3, FS_Subset
  <2>5. Cardinality(Filed) + Waiting <= asks /\ Waiting \in Nat /\ asks \in Nat
    BY <1>1 DEF OutInv, AskedFor, Waiting, OutTypeOK
  <2> QED BY <2>2, <2>3, <2>4, <2>5 DEF NeverUnasked
<1> QED BY <1>1, OutAlways, PTL

(* A row that says sent is right: settle writes it in the transaction that closes
   a job whose submission was heard to succeed. *)
THEOREM OutboxSentIsTrue == OutSpec => []SentIsTrue
<1>1. ASSUME OutInv PROVE SentIsTrue
  <2> DEFINE gone == {j \in Job : happened[j] > 0}
  <2>1. TypeOK /\ AtMostOnce
    BY <1>1 DEF OutInv, QueueInv
  <2>2. IsFiniteSet(gone) /\ Departures = Cardinality(gone) /\ Cardinality(gone) \in Nat
    BY <2>1, OncePerJob
  <2>3. row = "sent" => gone # {}
    BY <1>1 DEF OutInv, LeftFor
  <2>4. gone # {} => Cardinality(gone) # 0
    BY <2>2, FS_EmptySet
  <2> QED BY <2>2, <2>3, <2>4 DEF SentIsTrue
<1> QED BY <1>1, OutAlways, PTL

(* A row that says sending is never stranded: its job can still send it, or has
   failed and the reconciliation of the next pass will find it. *)
THEOREM OutboxSendingHasJob == OutSpec => []SendingHasJob
<1>1. OutInv => SendingHasJob
  BY DEF OutInv
<1> QED BY <1>1, OutAlways, PTL

(* A retry from the problems panel never replaces a send that is active, where
   nobody undoes and an error means that nothing left (retry_send_tx). *)
THEOREM OutboxRetryFindsNoneActive == OutSpec => RetryFindsNoneActive
<1> DEFINE Retried == asks' > asks /\ past' # past /\ Last(past') = "retried" /\ Plainly
<1>1. ASSUME OutInv, OutNext, Retried PROVE Submits(Live) = {}
  <2>1. asks' # asks /\ past' # past /\ asks \in Nat
    BY <1>1 DEF OutInv, OutTypeOK
  <2>2. Send \/ Retry
    BY <1>1, <2>1 DEF OutNext, SenderStep, UndoStep, See, TakeRow, Reconcile, Jobs, Submit, TurnEnds, WindowPasses,
       AskBlocked, ReverseSent, ReverseRetried, Redo, PassFails, QueueFails, Restart, person
  <2>3. ~Send
    <3>1. at \in Nat /\ at <= Len(past) /\ past \in Seq({"sent", "retried"})
      BY <1>1 DEF OutInv, OutTypeOK
    <3>2. PICK h : h = SubSeq(past, 1, at)
      OBVIOUS
    <3>3. h \in Seq({"sent", "retried"})
      BY <3>1, <3>2
    <3>4. Send => past' = Append(h, "sent")
      BY <3>2 DEF Send, Recorded
    <3>5. Last(Append(h, "sent")) = "sent"
      BY <3>3 DEF Last
    <3> QED BY <1>1, <3>4, <3>5
  <2>4. FailedSend
    BY <2>2, <2>3 DEF Retry
  <2> QED BY <1>1, <2>4, NoneActive
<1>2. OutInv /\ [OutNext]_allVars => [Retried => Submits(Live) = {}]_allVars
  BY <1>1
<1>3. ((asks' > asks /\ past' # past /\ Last(past') = "retried"
        /\ scene = [walks |-> FALSE, honest |-> TRUE]) => Submits(Live) = {})
      <=> (Retried => Submits(Live) = {})
  BY DEF Plainly
<1> QED BY <1>2, <1>3, OutAlways, PTL DEF OutSpec, RetryFindsNoneActive
=============================================================================
