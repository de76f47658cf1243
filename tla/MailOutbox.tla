----------------------------- MODULE MailOutbox ------------------------------
(***************************************************************************)
(* One letter on its way out: the outbox row and its draft's compose       *)
(* panel, the sender worker (mail/sync.rs outbox_pass and the queue's pass *)
(* after it), the submit jobs the row is sent by, and the person who       *)
(* sends, retries, undoes and redoes (mail/model.rs, mail/effects.rs,      *)
(* panels/compose.rs, problems.rs).                                        *)
(*                                                                         *)
(* The queue is EffectQueue with one worker and jobs that are not safe to  *)
(* repeat.  An undo is two steps, as the code takes it: the claim is asked *)
(* whether it is blocked on a reader's connection, and then reversed on    *)
(* the writer.  Commands wait while a walk has the history.                *)
(***************************************************************************)
EXTENDS EffectQueue, Sequences, FiniteSetsExt, SequencesExt

CONSTANTS sender,   \* the one worker of the queue
          MaxAsks,  \* bound: the sends, retries and redos of one run
          Scenes    \* the circumstances a run may have, see `scene`

ASSUME OutboxAssumption ==
    /\ Worker = {sender} /\ Claims = [w \in Worker |-> Job] /\ Idempotent = {}
    /\ IsFiniteSet(Job) /\ MaxAsks \in Nat /\ Scenes \subseteq [walks : BOOLEAN, honest : BOOLEAN]

VARIABLES row,      \* outbox.status, "none" when there is no row
          over,     \* whether send_after has come
          turn,     \* where the sender is in its turn
          past,     \* the claims of the history nodes, the cursor's path and
                    \* what redo would reach from there
          at,       \* the cursor
          walk,     \* the walk that has the history
          open,     \* whether the compose panel is open
          asks,     \* ghost: how often the person asked for the letter to go
          undone,   \* ghost: the send was given back and not asked for since
          scene     \* what never changes: whether the person undoes and redoes,
                    \* and whether what went wrong is always known (an error
                    \* means that nothing left, and no process ends half way)

outVars == <<row, over, turn, past, at, walk, open, asks, undone, scene>>
allVars == <<queueVars, outVars>>

person == <<past, at, walk, open, asks, undone>>
mail   == <<row, over>>

Live == {"pending", "processing"}

(* How often the letter has left, by whichever job and for whichever time. *)
Departures == Cardinality(UNION {{j} \X (1 .. happened[j]) : j \in Job})

Submits(S) == {j \in Job : status[j] \in S}

OutInit ==
    /\ Init
    /\ row = "none" /\ over = FALSE /\ turn = "wait"
    /\ past = <<>> /\ at = 0 /\ walk = "idle" /\ open = TRUE
    /\ asks = 0 /\ undone = FALSE
    /\ scene \in Scenes

-----------------------------------------------------------------------------
(* The sender. *)

(* outbox_pass reads whether the row is due. *)
See ==
    /\ turn = "wait"
    /\ turn' = IF row = "pending" /\ over THEN "claim" ELSE "reconcile"
    /\ UNCHANGED <<queueVars, mail, person>>

(* The claim, and the submit job in the same transaction. *)
TakeRow ==
    /\ turn = "claim" /\ turn' = "reconcile"
    /\ IF row = "pending"
       THEN /\ \E j \in Job : (\A k \in Job : k < j => status[k] # "none") /\ File(j, TRUE)
            /\ row' = "sending"
       ELSE UNCHANGED <<queueVars, row>>
    /\ UNCHANGED <<over, person>>

(* As plausible mistakes: the sender tries the row again by itself; nobody
   tells the row. *)
ReconcileAgain ==
    /\ turn = "reconcile" /\ turn' = "run"
    /\ row' = IF row = "sending" /\ Submits({"failed"}) # {} THEN "pending" ELSE row
    /\ UNCHANGED <<queueVars, over, person>>

ReconcileNothing ==
    /\ turn = "reconcile" /\ turn' = "run"
    /\ UNCHANGED <<queueVars, mail, person>>

(* A job that has given up fails the row it would strand at "sending". *)
Reconcile ==
    /\ turn = "reconcile" /\ turn' = "run"
    /\ row' = IF row = "sending" /\ Submits({"failed"}) # {} THEN "failed" ELSE row
    /\ UNCHANGED <<queueVars, over, person>>

(* Then the queue's own pass. *)
Jobs ==
    /\ turn = "run" /\ turn' = "jobs"
    /\ Look(sender)
    /\ UNCHANGED <<mail, person>>

(* As a plausible mistake: whatever closes the job settles the row. *)
SubmitSettlesAll ==
    /\ turn = "jobs" /\ UNCHANGED <<turn, over, person>>
    /\ \/ (Claim(sender) \/ Check(sender, row = "sending")) /\ UNCHANGED row
       \/ \E went, heard \in BOOLEAN : Perform(sender, went, heard) /\ UNCHANGED row
       \/ Close(sender) /\ row' = IF row # "none" THEN "sent" ELSE row

(* Submit::still_wanted, and the job to its end; settle writes the row in
   the transaction that closes the job, if the row is still there. *)
Submit ==
    /\ turn = "jobs" /\ UNCHANGED <<turn, over, person>>
    /\ \/ (Claim(sender) \/ Check(sender, row = "sending")) /\ UNCHANGED row
       \/ \E went, heard \in BOOLEAN :
             (scene.honest => went = heard) /\ Perform(sender, went, heard) /\ UNCHANGED row
       \/ /\ Close(sender)
          /\ row' = IF stage[sender] = "done" /\ row # "none" THEN "sent" ELSE row

TurnEnds ==
    /\ turn = "jobs" /\ due[sender] = {} /\ stage[sender] = "free"
    /\ turn' = "wait"
    /\ UNCHANGED <<queueVars, mail, person>>

-----------------------------------------------------------------------------
(* The person. *)

WindowPasses ==
    /\ row = "pending" /\ ~over /\ over' = TRUE
    /\ UNCHANGED <<queueVars, row, turn, person>>

(* As a plausible mistake: the job that failed last time stays. *)
FileSendOver ==
    /\ row' = "pending" /\ over' = FALSE
    /\ UNCHANGED queueVars

(* file_send_tx: a fresh row, and what failed before stands down. *)
FileSend ==
    /\ row' = "pending" /\ over' = FALSE
    /\ status' = [j \in Job |-> IF status[j] = "failed" THEN "obsolete" ELSE status[j]]
    /\ UNCHANGED <<attempts, ripe, hands, working, happened, cancelled, removed, faults>>

Ask == asks < MaxAsks /\ asks' = asks + 1 /\ undone' = FALSE

(* A node of its own under the cursor. *)
Recorded(claim) ==
    /\ past' = Append(SubSeq(past, 1, at), claim)
    /\ at' = at + 1

(* Compose::send. *)
Send ==
    /\ walk = "idle" /\ open
    /\ Ask /\ FileSend /\ Recorded("sent")
    /\ open' = FALSE
    /\ UNCHANGED <<turn, walk>>

(* failed_send_tx. *)
FailedSend ==
    \/ row = "failed"
    \/ /\ row = "sending"
       /\ LET S == Submits(Statuses \ {"none", "obsolete"})
          IN  S # {} /\ status[Max(S)] = "failed"

(* retry_send_tx, from the problems panel: a stale button records nothing. *)
Retry ==
    /\ walk = "idle" /\ FailedSend
    /\ Ask /\ FileSend /\ Recorded("retried")
    /\ UNCHANGED <<turn, walk, open>>

Untouched == UNCHANGED <<queueVars, mail, turn>>

(* An undo asks the claim under the cursor whether it is blocked.  One that
   is expires and the walk goes on to the next. *)
AskBlocked ==
    /\ at > 0 /\ \/ scene.walks /\ walk = "idle"
                 \/ walk = "asking"
    /\ IF row \in {"none", "pending", "failed"}
       THEN walk' = "giving" /\ UNCHANGED <<past, at>>
       ELSE /\ at' = at - 1 /\ past' = SubSeq(past, 1, at - 1)
            /\ walk' = IF at = 1 THEN "idle" ELSE "asking"
    /\ UNCHANGED <<open, asks, undone>> /\ Untouched

(* Sent::reverse: the row goes if it has not been taken, and the compose
   panel is back either way. *)
ReverseSent ==
    /\ walk = "giving" /\ past[at] = "sent"
    /\ row' = IF row \in {"pending", "failed"} THEN "none" ELSE row
    /\ open' = TRUE /\ undone' = TRUE
    /\ walk' = "idle" /\ at' = at - 1
    /\ UNCHANGED <<queueVars, over, turn, past, asks>>

(* Retried::reverse: the failure is put back, on the row and on the job that
   stood down last. *)
ReverseRetried ==
    /\ walk = "giving" /\ past[at] = "retried"
    /\ row' = IF row \in {"pending", "failed"} THEN "failed" ELSE row
    /\ LET down == Submits({"obsolete"}) IN
       status' = [j \in Job |-> IF down # {} /\ j = Max(down) THEN "failed" ELSE status[j]]
    /\ walk' = "idle" /\ at' = at - 1
    /\ UNCHANGED <<attempts, ripe, hands, working, happened, cancelled, removed, faults,
                   over, turn, past, open, asks, undone>>

(* Sent::reapply and Retried::reapply, of what was undone last. *)
Redo ==
    /\ scene.walks /\ walk = "idle" /\ at < Len(past)
    /\ Ask /\ FileSend
    /\ open' = IF past[at + 1] = "sent" THEN FALSE ELSE open
    /\ at' = at + 1
    /\ UNCHANGED <<past, turn, walk>>

-----------------------------------------------------------------------------
(* What goes wrong. *)

(* A write of outbox_pass is refused: the row is left for the next pass. *)
PassFails ==
    /\ faults < MaxFaults /\ faults' = faults + 1
    /\ \/ turn = "claim" /\ turn' = "reconcile"
       \/ turn = "reconcile" /\ turn' = "run"
    /\ UNCHANGED <<rows, hands, working, happened, cancelled, removed, mail, person>>

(* A write of the queue's pass is refused; or the effect panics, and another
   sender begins a pass of its own. *)
QueueFails ==
    /\ turn = "jobs"
    /\ \/ (ClaimFails(sender) \/ CloseFails(sender)) /\ UNCHANGED turn
       \/ Panic(sender) /\ turn' = "wait"
    /\ UNCHANGED <<mail, person>>

(* The process ends; history is not kept, and the layout is. *)
Restart ==
    /\ ~scene.honest /\ Crash
    /\ turn' = "wait" /\ past' = <<>> /\ at' = 0 /\ walk' = "idle"
    /\ UNCHANGED <<mail, open, asks, undone>>

SenderStep == See \/ TakeRow \/ Reconcile \/ Jobs \/ Submit \/ TurnEnds
UndoStep   == AskBlocked \/ ReverseSent \/ ReverseRetried

OutNext ==
    /\ UNCHANGED scene
    /\ \/ SenderStep \/ WindowPasses \/ Send \/ Retry \/ UndoStep \/ Redo
       \/ PassFails \/ QueueFails \/ Restart

OutSpec == OutInit /\ [][OutNext]_allVars

(* The sender sleeps until the next window ends, at most half a minute, and
   a pass runs to its end; a walk runs to its end. *)
OutFairness ==
    /\ WF_allVars(SenderStep /\ UNCHANGED scene)
    /\ WF_allVars(WindowPasses /\ UNCHANGED scene)
    /\ WF_allVars(walk # "idle" /\ UndoStep /\ UNCHANGED scene)

FairOutSpec == OutSpec /\ OutFairness

-----------------------------------------------------------------------------
(* Correctness. *)

OutTypeOK ==
    /\ TypeOK
    /\ row \in {"none", "pending", "sending", "sent", "failed"}
    /\ turn \in {"wait", "claim", "reconcile", "run", "jobs"}
    /\ past \in Seq({"sent", "retried"}) /\ at \in 0 .. Len(past)
    /\ walk \in {"idle", "asking", "giving"} /\ (walk = "giving" => at > 0)
    /\ asks \in 0 .. MaxAsks /\ scene \in Scenes /\ {over, open, undone} \subseteq BOOLEAN

(* The letter never leaves more often than somebody asked: not by a retry of
   the queue, a restart, a refused write, a race of the sender with itself. *)
NeverUnasked == Departures <= asks

(* A row that says sent is right. *)
SentIsTrue == row = "sent" => Departures > 0

(* A row that says sending is never stranded: a job is on its way to send
   it, or a job has given up and the next pass fails the row. *)
SendingHasJob == row = "sending" => Submits(Live \cup {"failed"}) # {}

(* A letter asked for ends: it leaves, fails where the problems panel shows
   it, or is taken back; or its job was never closed, and stays so until the
   store is opened again. *)
Unclosed ==
    LET filed == Submits(Statuses \ {"none"})
    IN  /\ filed # {} /\ status[Max(filed)] = "processing"
        /\ holds[sender] # Max(filed)

LetterEnds ==
    (row = "pending") ~>
        (row \in {"sent", "failed", "none"} \/ (row = "sending" /\ Unclosed))

(* Undo wins over a row the sender has not taken: after the send is given
   back, the letter does not leave until it is asked for again. *)
UndoWins == [][undone => Departures' = Departures]_allVars

(* A retry never replaces a send that is active, where nobody undoes and errors
   are what they say; and whatever the circumstances. *)
RetryFindsNoneActive ==
    [][(asks' > asks /\ past' # past /\ Last(past') = "retried"
        /\ scene = [walks |-> FALSE, honest |-> TRUE])
          => Submits(Live) = {}]_allVars

RetryNeverDoubles ==
    [][(asks' > asks /\ past' # past /\ Last(past') = "retried")
          => Submits(Live) = {}]_allVars

(* The sender takes a row only at its deadline. *)
WindowKept == [][(row = "pending" /\ row' = "sending") => over]_allVars

-----------------------------------------------------------------------------
(* What these rest on.                                                       *)

(* Every submit job answers one asking, and so does a row still to be taken. *)
Filed == Submits(Statuses \ {"none"})
Waiting == IF row = "pending" THEN 1 ELSE 0
AskedFor == Cardinality(Filed) + Waiting <= asks

(* The letter leaves for a job; a sent row has seen it leave. *)
LeftFor ==
    /\ \A j \in Job : happened[j] > 0 => j \in Filed
    /\ row = "sent" => \E j \in Job : happened[j] > 0

(* A job is in hand within the queue's part of a turn; one that is done has sent
   the letter, and a row is not taken behind one that was found unwanted. *)
InHand ==
    /\ stage[sender] # "free" => turn = "jobs"
    /\ stage[sender] = "done" => happened[holds[sender]] > 0
    /\ stage[sender] = "obsolete" => row # "sending"

(* Submit jobs are not cancelled, and the account stays. *)
Undisturbed == cancelled = {} /\ removed = {}

(* Where nobody undoes and errors are what they say, a single job is under way or
   failed, as long as the row says so. *)
OneSend ==
    scene = [walks |-> FALSE, honest |-> TRUE] =>
        /\ walk = "idle" /\ (open => row = "none")
        /\ \A i, j \in Submits(Live \union {"failed"}) : i = j
        /\ row \in {"none", "pending", "sent"} => Submits(Live \union {"failed"}) = {}
        /\ row = "failed" => Submits(Live) = {}
        /\ holds[sender] # None => status[holds[sender]] = "processing"

OutInv ==
    /\ QueueInv /\ OutTypeOK /\ AskedFor /\ LeftFor /\ InHand /\ Undisturbed /\ SendingHasJob
    /\ OneSend
=============================================================================
