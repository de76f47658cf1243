----------------------------- MODULE EffectQueue -----------------------------
(***************************************************************************)
(* The queue of deferred effects: the rows of the `effect` table, the      *)
(* passes workers make over it (World::run_effects_where, effect.rs), the  *)
(* sweep a store does when it opens (store.rs) and the removal of an       *)
(* account (app/src/identity/accounts.rs).                                 *)
(*                                                                         *)
(* One transaction on the writer is one step; between two of them a worker *)
(* holds what it read.  A job is performed outside every transaction: the  *)
(* world may change for it and the worker not live to say so, or be told   *)
(* that it failed.  Time is whether a row's not_before has come.           *)
(***************************************************************************)
EXTENDS Integers, FiniteSets

CONSTANTS Job,         \* ids of the rows, in the order they are filed
          Worker,      \* the running workers
          Idempotent,  \* the jobs that are safe to run twice
          Claims,      \* Worker::claims, the jobs each worker may run
          None,        \* no job
          MaxAttempts, \* MAX_ATTEMPTS
          MaxTries,    \* bound: the claims one run gives a job
          MaxFaults    \* bound: the crashes, panics and refused writes of one run

ASSUME QueueAssumption ==
    /\ Job \subseteq Nat /\ None \notin Job
    /\ Idempotent \subseteq Job
    /\ Claims \in [Worker -> SUBSET Job]
    /\ MaxAttempts \in Nat /\ MaxTries \in Nat /\ MaxFaults \in Nat

VARIABLES status,    \* effect.status of each job, "none" before its row exists
          attempts,  \* effect.attempts
          ripe,      \* the jobs whose not_before has come
          due,       \* the rows a worker's pass read and has still to look at
          holds,     \* the job a worker has claimed
          stage,     \* how far the worker is with it
          working,   \* the workers that have not retired
          happened,  \* ghost: how often the world changed for a job
          cancelled, \* ghost: the jobs somebody was told are cancelled
          removed,   \* the workers whose account is gone
          faults

rows  == <<status, attempts, ripe>>
hands == <<due, holds, stage>>
queueVars == <<status, attempts, ripe, due, holds, stage, working, happened,
               cancelled, removed, faults>>

Statuses == {"none", "pending", "processing", "done", "failed", "obsolete"}
Stages   == {"free", "claimed", "wanted", "done", "obsolete", "failed", "hopeless"}

(* The rows a pass read are taken in the order they were filed. *)
Foremost(w) == {j \in due[w] : \A k \in due[w] : j <= k}

Init ==
    /\ status = [j \in Job |-> "none"]
    /\ attempts = [j \in Job |-> 0]
    /\ ripe = {}
    /\ due = [w \in Worker |-> {}]
    /\ holds = [w \in Worker |-> None]
    /\ stage = [w \in Worker |-> "free"]
    /\ working = Worker
    /\ happened = [j \in Job |-> 0]
    /\ cancelled = {} /\ removed = {} /\ faults = 0

-----------------------------------------------------------------------------
(* Everybody else's transactions. *)

(* Enqueue::insert, due at once or held back until not_before.  A pass files
   jobs from rows it read before, so it may do so just after its account went,
   and never once it has retired. *)
File(j, now) ==
    /\ status[j] = "none" /\ \E w \in working : j \in Claims[w]
    /\ status' = [status EXCEPT ![j] = "pending"]
    /\ ripe' = IF now THEN ripe \cup {j} ELSE ripe
    /\ UNCHANGED <<attempts, hands, working, happened, cancelled, removed, faults>>

Tick(j) ==
    /\ status[j] # "none" /\ j \notin ripe
    /\ ripe' = ripe \cup {j}
    /\ UNCHANGED <<status, attempts, hands, working, happened, cancelled, removed, faults>>

(* cancel_tx: it wins only over a row nobody has claimed. *)
Cancel(j) ==
    /\ status[j] = "pending"
    /\ status' = [status EXCEPT ![j] = "obsolete"]
    /\ cancelled' = cancelled \cup {j}
    /\ UNCHANGED <<attempts, ripe, hands, working, happened, removed, faults>>

(* remove_account_tx: the account's jobs stand down and its worker is no
   longer wanted. *)
RemoveAccount(w) ==
    /\ w \notin removed
    /\ removed' = removed \cup {w}
    /\ status' = [j \in Job |->
                    IF j \in Claims[w] /\ status[j] \in {"pending", "processing"}
                    THEN "obsolete" ELSE status[j]]
    /\ UNCHANGED <<attempts, ripe, hands, working, happened, cancelled, faults>>

(* supervise finds the worker unwanted: it takes no further pass. *)
Retire(w) ==
    /\ w \in removed \cap working
    /\ due[w] = {} /\ stage[w] = "free"
    /\ working' = working \ {w}
    /\ UNCHANGED <<rows, hands, happened, cancelled, removed, faults>>

-----------------------------------------------------------------------------
(* A worker's pass. *)

(* As a plausible mistake: only what has never been tried is read. *)
LookOnce(w) ==
    /\ w \in working /\ due[w] = {} /\ stage[w] = "free"
    /\ due' = [due EXCEPT ![w] =
                 {j \in Claims[w] : status[j] = "pending" /\ j \in ripe /\ attempts[j] = 0}]
    /\ UNCHANGED <<rows, holds, stage, working, happened, cancelled, removed, faults>>

(* Reads the due rows, on the worker's own connection. *)
Look(w) ==
    /\ w \in working /\ due[w] = {} /\ stage[w] = "free"
    /\ due' = [due EXCEPT ![w] =
                 {j \in Claims[w] : status[j] = "pending" /\ j \in ripe}]
    /\ UNCHANGED <<rows, holds, stage, working, happened, cancelled, removed, faults>>

(* As a plausible mistake: the row is claimed as it was read, unseen. *)
ClaimUnseen(w) ==
    /\ stage[w] = "free"
    /\ \E j \in Foremost(w) :
       /\ attempts[j] < MaxTries
       /\ due' = [due EXCEPT ![w] = @ \ {j}]
       /\ status' = [status EXCEPT ![j] = "processing"]
       /\ attempts' = [attempts EXCEPT ![j] = @ + 1]
       /\ holds' = [holds EXCEPT ![w] = j]
       /\ stage' = [stage EXCEPT ![w] = "claimed"]
    /\ UNCHANGED <<ripe, working, happened, cancelled, removed, faults>>

(* The claim: one winner between this pass and whoever else wants the row.
   The loser goes on to the next row it read. *)
Claim(w) ==
    /\ stage[w] = "free"
    /\ \E j \in Foremost(w) :
       /\ due' = [due EXCEPT ![w] = @ \ {j}]
       /\ IF status[j] = "pending"
          THEN /\ attempts[j] < MaxTries
               /\ status' = [status EXCEPT ![j] = "processing"]
               /\ attempts' = [attempts EXCEPT ![j] = @ + 1]
               /\ holds' = [holds EXCEPT ![w] = j]
               /\ stage' = [stage EXCEPT ![w] = "claimed"]
          ELSE UNCHANGED <<status, attempts, holds, stage>>
    /\ UNCHANGED <<ripe, working, happened, cancelled, removed, faults>>

(* The claim's write refused: the row is left for the next pass. *)
ClaimFails(w) ==
    /\ faults < MaxFaults /\ faults' = faults + 1
    /\ stage[w] = "free"
    /\ \E j \in Foremost(w) : due' = [due EXCEPT ![w] = @ \ {j}]
    /\ UNCHANGED <<rows, holds, stage, working, happened, cancelled, removed>>

To(w, s) == stage' = [stage EXCEPT ![w] = s]

(* Registry::run: the handler is found, the payload decoded, and the effect
   asked whether it is still wanted. *)
Check(w, wanted) ==
    /\ stage[w] = "claimed"
    /\ To(w, IF wanted THEN "wanted" ELSE "obsolete")
    /\ UNCHANGED <<rows, due, holds, working, happened, cancelled, removed, faults>>

(* Nobody registered the kind. *)
NoHandler(w) ==
    /\ stage[w] = "claimed"
    /\ To(w, "hopeless")
    /\ UNCHANGED <<rows, due, holds, working, happened, cancelled, removed, faults>>

(* Effect::perform, outside every transaction.  An error does not prove that
   the world is as it was. *)
Perform(w, went, heard) ==
    /\ stage[w] = "wanted" /\ (heard => went)
    /\ happened' = [happened EXCEPT ![holds[w]] = IF went THEN @ + 1 ELSE @]
    /\ To(w, IF heard THEN "done" ELSE "failed")
    /\ UNCHANGED <<rows, due, holds, working, cancelled, removed, faults>>

(* As a plausible mistake: what went wrong is tried again, whatever it was. *)
RetriesAnything(j, s) == s = "failed" /\ attempts[j] < MaxAttempts

(* World::fail of a job: back to pending with a delay, or given up on. *)
Retries(j, s) ==
    /\ s = "failed" /\ j \in Idempotent /\ attempts[j] < MaxAttempts

(* As a plausible mistake: a job that is given up on only stands down. *)
ClosedQuietly(j, s) ==
    IF Retries(j, s) THEN "pending"
    ELSE IF s \in {"failed", "hopeless"} THEN "obsolete" ELSE s

(* The status a job is closed with. *)
Closed(j, s) ==
    IF Retries(j, s) THEN "pending"
    ELSE IF s = "hopeless" THEN "failed" ELSE s

(* As a plausible mistake: the worker goes on and forgets to let go. *)
FreeStage(w) == To(w, "free") /\ UNCHANGED holds

Free(w) ==
    /\ holds' = [holds EXCEPT ![w] = None]
    /\ To(w, "free")

Finished == {"done", "obsolete", "failed", "hopeless"}

(* The closing write, by id alone, whatever the row says by now. *)
Close(w) ==
    /\ stage[w] \in Finished
    /\ LET j == holds[w] IN
       /\ status' = [status EXCEPT ![j] = Closed(j, stage[w])]
       /\ ripe' = IF Retries(j, stage[w]) THEN ripe \ {j} ELSE ripe
    /\ Free(w)
    /\ UNCHANGED <<attempts, due, working, happened, cancelled, removed, faults>>

(* The closing write refused: said on stderr, and the row stays as it is. *)
CloseFails(w) ==
    /\ faults < MaxFaults /\ faults' = faults + 1
    /\ stage[w] \in Finished
    /\ Free(w)
    /\ UNCHANGED <<rows, due, working, happened, cancelled, removed>>

(* The effect panics: worker_loop catches it and ends, and supervise starts
   another of the same name. *)
Panic(w) ==
    /\ faults < MaxFaults /\ faults' = faults + 1
    /\ stage[w] \in {"claimed", "wanted"}
    /\ due' = [due EXCEPT ![w] = {}]
    /\ Free(w)
    /\ UNCHANGED <<rows, working, happened, cancelled, removed>>

(* sweep_effects: what an interrupted job is when the store opens again. *)
Swept(j) ==
    IF status[j] # "processing" THEN status[j]
    ELSE IF j \in Idempotent THEN "pending" ELSE "failed"

(* The process ends anywhere and the store is opened again. *)
Crash ==
    /\ faults < MaxFaults /\ faults' = faults + 1
    /\ status' = [j \in Job |-> Swept(j)]
    /\ due' = [w \in Worker |-> {}]
    /\ holds' = [w \in Worker |-> None]
    /\ stage' = [w \in Worker |-> "free"]
    /\ working' = Worker \ removed
    /\ UNCHANGED <<attempts, ripe, happened, cancelled, removed>>

-----------------------------------------------------------------------------
Run(w) == \/ Claim(w) \/ (\E wanted \in BOOLEAN : Check(w, wanted)) \/ NoHandler(w)
          \/ (\E went, heard \in BOOLEAN : Perform(w, went, heard)) \/ Close(w)

Fault(w) == ClaimFails(w) \/ CloseFails(w) \/ Panic(w)

Next ==
    \/ \E j \in Job : (\E now \in BOOLEAN : File(j, now)) \/ Tick(j) \/ Cancel(j)
    \/ \E w \in Worker : RemoveAccount(w) \/ Retire(w) \/ Look(w) \/ Run(w) \/ Fault(w)
    \/ Crash

Spec == Init /\ [][Next]_queueVars

(* Workers are tasks of the runtime: a kick or their own timer always brings
   the next pass, and a pass runs to its end.  Time passes. *)
Fairness ==
    /\ \A w \in Worker : WF_queueVars(Look(w)) /\ WF_queueVars(Run(w))
    /\ \A j \in Job : WF_queueVars(Tick(j))

FairSpec == Spec /\ Fairness

-----------------------------------------------------------------------------
(* Correctness. *)

(* Every variable has its type, and a worker holds a job exactly while it is
   busy with one. *)
TypeOK ==
    /\ status \in [Job -> Statuses]
    /\ attempts \in [Job -> 0 .. MaxTries]
    /\ ripe \subseteq Job
    /\ due \in [Worker -> SUBSET Job]
    /\ holds \in [Worker -> Job \cup {None}]
    /\ stage \in [Worker -> Stages]
    /\ \A w \in Worker : (stage[w] = "free") <=> (holds[w] = None)
    /\ working \subseteq Worker /\ removed \subseteq Worker /\ cancelled \subseteq Job
    /\ happened \in [Job -> Nat]
    /\ faults \in 0 .. MaxFaults

(* A job that is not safe to repeat changes the world at most once, across
   retries, refused writes, panics, crashes and restarts. *)
AtMostOnce == \A j \in Job \ Idempotent : happened[j] <= 1

(* Two workers are never busy with one job, even where both may claim it. *)
OneWinner ==
    \A v, w \in Worker : (holds[v] = holds[w] /\ holds[v] # None) => v = w

(* Undo's half of the race: once somebody has been told that a job is
   cancelled, the world never changes for it again. *)
CancelWins ==
    [][\A j \in cancelled : happened'[j] = happened[j]]_queueVars

(* A job ends: a pending job whose account stays is at last done, given up on
   or found obsolete, or the process keeps a claim it could not close. *)
Settles ==
    \A j \in Job :
        (status[j] = "pending") ~>
            \/ status[j] \in {"done", "failed", "obsolete"}
            \/ status[j] = "processing" /\ \A w \in Worker : holds[w] # j
            \/ \E w \in removed : j \in Claims[w]

(* The inductive invariant behind the safety properties: what a worker holds
   is in no state from which it could be claimed, a job that is not safe to
   repeat has changed nothing while it can still be performed, and what is
   cancelled stays down and is in nobody's hands. *)
HeldIsTaken ==
    \A w \in Worker : holds[w] # None => status[holds[w]] \notin {"none", "pending"}

Performable(j) ==
    \/ status[j] \in {"none", "pending"}
    \/ \E w \in Worker : holds[w] = j /\ stage[w] \in {"claimed", "wanted"}

FreshIsUnspent ==
    \A j \in Job \ Idempotent : Performable(j) => happened[j] = 0

CancelledIsDown ==
    \A j \in cancelled : status[j] = "obsolete" /\ \A w \in Worker : holds[w] # j

QueueInv ==
    TypeOK /\ OneWinner /\ HeldIsTaken /\ FreshIsUnspent /\ AtMostOnce /\ CancelledIsDown

(* After MAX_ATTEMPTS a job stops retrying. *)
StopsTrying == \A j \in Job : attempts[j] <= MaxAttempts

(* What goes with an account stays down: no job of it waits for a worker that
   is never coming back. *)
NothingLeftBehind ==
    \A j \in Job, w \in removed \ working : j \in Claims[w] => status[j] # "pending"
=============================================================================
