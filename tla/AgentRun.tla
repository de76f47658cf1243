------------------------------- MODULE AgentRun -------------------------------
(***************************************************************************)
(* One chat of the agent and the three parties that meet in its rows: the   *)
(* person on the session's thread, one worker for each run that is going,   *)
(* and the writer every write goes through (app/src/apps/agent: model.rs,   *)
(* worker.rs, run.rs, calls.rs; schema.rs for what an open repairs).        *)
(*                                                                         *)
(* The database outlives a crash: the runs' status, the turns and the       *)
(* calls.  The worker's place in its pass, the session's place in a call,   *)
(* the queue of edits the session has handed the writer, and the history    *)
(* die with the process.  A tool is the kind that decides who runs it: a    *)
(* read on the worker, an edit prepared away from the session, one that     *)
(* asks first, a native command, one that runs at once.                     *)
(***************************************************************************)
EXTENDS Naturals, Sequences, FiniteSets, SequencesExt, FiniteSetsExt

CONSTANTS
    Rounds,     \* the sequences of tools an answer may ask for
    MaxRuns,    \* bound: the run ids handed out
    MaxRounds,  \* bound: the rounds of tools of one run
    MaxEvents   \* bound: the sends, stops, retries, deletions, undos and crashes

Kinds == {"read", "edit", "asks", "native", "now"}

ASSUME AgentAssumption ==
    /\ Rounds \subseteq Seq(Kinds) \ {<<>>} /\ IsFiniteSet(Rounds)
    /\ {MaxRuns, MaxRounds, MaxEvents} \subseteq Nat

VARIABLES
    status,    \* agent_run: where each run stands, or "none"
    issued,    \* the last run id handed out (AUTOINCREMENT)
    turns,     \* agent_turn, by seq
    calls,     \* agent_call: its rows, by run, round and place
    chat,      \* whether agent_chat has the row
    worker,    \* where each run's worker is in its pass
    awake,     \* the runs whose worker has a kick, or a first pass, due
    active,    \* ActiveCalls: where the session is in a call of each run
    queue,     \* Session.edits, in the order the writer has them
    past,      \* the claims undo would give back, newest last
    future,    \* those redo would make again, newest last
    walk,      \* the claim a walk is in the middle of, or NoWalk
    made,      \* ghost: how often each call's edit or command was performed
    allowed,   \* ghost: the calls the person has allowed
    strayed,   \* ghost: which of the Strayings below have come about
    composing, \* whether a send waits for its context to be rendered
    events

rows == <<status, issued, turns, calls, chat>>
hands == <<active, queue, past, future, walk>>
ghosts == <<made, allowed, strayed>>
person == <<composing, events>>
vars == <<rows, worker, awake, hands, ghosts, person>>

Run == 1 .. MaxRuns
NoWalk == [kind |-> "none"]
Live == {"pending", "streaming", "waiting"}
Open == {"pending", "asked"}

(* Where the code loses the thread of a chat: an answer has reopened a run that
   was stopped, or landed behind one begun since; a deletion made again has
   taken rows its claim has not; a send has begun a run beside a live one, or a
   redo one there or behind a round without its answers; an undone send has cut
   the chat at a seq where no turn of the person's is. *)
Strayings == {"reopened", "behind", "lost", "crowded", "adrift"}

----------------------------------------------------------------------------
(* The rows.                                                                *)

Standing(st) == {r \in Run : st[r] # "none"}

(* latest_run *)
Latest(st) == IF Standing(st) = {} THEN 0 ELSE Max(Standing(st))

(* ORDER BY: the members of a finite set of numbers, upward.  A function, so that
   TLC evaluates S once. *)
Upward[S \in SUBSET Nat] ==
    [i \in 1 .. Cardinality(S) |-> CHOOSE p \in S : Cardinality({q \in S : q < p}) = i - 1]
Ascending(S) == Upward[S]

(* add_turn_tx: at the end of the chat, one past its highest seq. *)
Ended(ts) == IF ts = <<>> THEN 0 ELSE Last(ts).seq
Turn(ts, who, run, call, said) ==
    Append(ts, [seq |-> Ended(ts) + 1, who |-> who, run |-> run, call |-> call, said |-> said])

CallsOf(cs, r) == {c \in DOMAIN cs : c[1] = r}

(* round_calls_conn: the calls of the run's newest assistant turn that has
   any, in the order the model asked. *)
Newest(cs, r) == IF CallsOf(cs, r) = {} THEN 0 ELSE Max({c[2] : c \in CallsOf(cs, r)})
RoundOf(cs, r) ==
    LET places == Ascending({c[3] : c \in {c \in CallsOf(cs, r) : c[2] = Newest(cs, r)}})
    IN  [i \in DOMAIN places |-> <<r, Newest(cs, r), places[i]>>]

(* The answers a round is owed: a tool turn each, with what the row says. *)
Told(ts, cs, owed) ==
    ts \o [i \in DOMAIN owed |->
             [seq |-> Ended(ts) + i, who |-> "tool", run |-> owed[i][1], call |-> owed[i],
              said |-> IF owed[i] \in DOMAIN cs THEN cs[owed[i]].st ELSE "cancelled"]]

LastAsks(ts) ==
    LET at == {i \in DOMAIN ts : ts[i].who = "asks"}
    IN  IF at = {} THEN 0 ELSE Max(at)

(* The calls of the last round the transcript leaves without an answer. *)
Owed(ts) ==
    LET at == LastAsks(ts)
        asks == ts[at].call
        told == {ts[i].call : i \in {j \in DOMAIN ts : j > at /\ ts[j].who = "tool"}}
        left == Ascending({i \in 1 .. asks[3] : <<asks[1], asks[2], i>> \notin told})
    IN  IF at = 0 THEN <<>> ELSE [i \in DOMAIN left |-> <<asks[1], asks[2], left[i]>>]

(* settle_round_tx: a call without a word is cancelled, row and message. *)
Cancelled(ts, cs) ==
    [c \in DOMAIN cs |-> IF c \in ToSet(Owed(ts)) /\ cs[c].st \in Open
                         THEN [cs[c] EXCEPT !.st = "cancelled"] ELSE cs[c]]

(* As a plausible mistake: only the rows are settled. *)
SettledSilently(ts, cs) == ts

Settled(ts, cs) == Told(ts, Cancelled(ts, cs), Owed(ts))

(* The answers a call of the asks turn at i has before anybody speaks again, and
   the asks turns that have not got them all. *)
Answers(ts, i, c) ==
    {j \in DOMAIN ts : /\ j > i /\ ts[j].who = "tool" /\ ts[j].call = c
                       /\ \A k \in i + 1 .. j : ts[k].who = "tool"}

Unanswered(ts) ==
    {i \in DOMAIN ts :
        /\ ts[i].who = "asks"
        /\ \E n \in 1 .. ts[i].call[3] :
               Answers(ts, i, <<ts[i].call[1], ts[i].call[2], n>>) = {}}

(* pending: what the session's writes about a call rest on. *)
Pending(c) == c \in DOMAIN calls /\ calls[c].st \in Open /\ status[c[1]] = "waiting"

----------------------------------------------------------------------------
(* The worker of a run.  A pass is a kick taken; what it holds between two  *)
(* writes is `worker`.  The supervisor keeps one worker a run, starts one   *)
(* for a run that is live again, and retires one without ending its pass.   *)

NoCall == <<0, 0, 0>>
Asleep == [at |-> "idle", call |-> NoCall, tools |-> <<>>]
At(place) == [Asleep EXCEPT !.at = place]
Holding(place, c) == [Asleep EXCEPT !.at = place, !.call = c]

(* is_stopped: a run whose row is gone counts as stopped. *)
Stopped(r) == status[r] \in {"stopped", "none"}

(* ask, from a run nobody has asked for yet. *)
PassPending(r) ==
    /\ worker[r].at = "idle" /\ r \in awake /\ status[r] = "pending"
    /\ awake' = awake \ {r}
    /\ status' = [status EXCEPT ![r] = "streaming"]
    /\ worker' = [worker EXCEPT ![r] = At("claimed")]
    /\ UNCHANGED <<issued, turns, calls, chat, hands, ghosts, person>>

(* answered and read_calls: the first call without a word decides.  A read
   of this worker's starts, anything else is waited for; with none left the
   round's answers are written, in one write that looks for a stop. *)
Look(r) ==
    LET round == RoundOf(calls, r)
        open == {i \in DOMAIN round : calls[round[i]].st \in Open}
        first == round[Min(open)]
        mine == open # {} /\ calls[first] = [kind |-> "read", st |-> "pending"]
        ended == round # <<>> /\ open = {}
    IN  /\ worker' = [worker EXCEPT ![r] =
                        IF Stopped(r) \/ ~(mine \/ ended) THEN Asleep
                        ELSE IF mine THEN Holding("reading", first)
                        ELSE At("answered")]
        /\ turns' = IF ended /\ ~Stopped(r) THEN Told(turns, calls, round) ELSE turns
        /\ UNCHANGED <<status, issued, calls, chat>>

PassWaiting(r) ==
    /\ worker[r].at = "idle" /\ r \in awake /\ status[r] = "waiting"
    /\ awake' = awake \ {r}
    /\ Look(r)
    /\ UNCHANGED <<hands, ghosts, person>>

LookOn(r) ==
    /\ worker[r].at = "next" /\ Look(r)
    /\ UNCHANGED <<awake, hands, ghosts, person>>

(* read_calls: the read ends or a stop ends it; its word is written to the
   call whatever has been said of the call meanwhile. *)
ReadEnds(r) ==
    /\ worker[r].at = "reading"
    /\ worker' = [worker EXCEPT ![r] = Holding("read", worker[r].call)]
    /\ UNCHANGED <<rows, awake, hands, ghosts, person>>

ReadStopped(r) ==
    /\ worker[r].at = "reading" /\ Stopped(r)
    /\ worker' = [worker EXCEPT ![r] = Asleep]
    /\ UNCHANGED <<rows, awake, hands, ghosts, person>>

ReadKept(r) ==
    LET c == worker[r].call IN
    /\ worker[r].at = "read"
    /\ worker' = [worker EXCEPT ![r] = At("next")]
    /\ calls' = IF status[r] # "none" /\ c \in DOMAIN calls
                THEN [calls EXCEPT ![c].st = "done"] ELSE calls
    /\ UNCHANGED <<status, issued, turns, chat, awake, hands, ghosts, person>>

(* ask, behind the answers: a write of its own, which looks for a stop. *)
Ask(r) ==
    /\ worker[r].at = "answered"
    /\ IF Stopped(r)
       THEN worker' = [worker EXCEPT ![r] = Asleep] /\ UNCHANGED status
       ELSE /\ worker' = [worker EXCEPT ![r] = At("claimed")]
            /\ status' = [status EXCEPT ![r] = "streaming"]
    /\ UNCHANGED <<issued, turns, calls, chat, awake, hands, ghosts, person>>

(* Complete::perform: the chat and its turns are read, then the gateway. *)
Request(r) ==
    /\ worker[r].at = "claimed"
    /\ worker' = [worker EXCEPT ![r] = At(IF chat THEN "gateway" ELSE "error")]
    /\ UNCHANGED <<rows, awake, hands, ghosts, person>>

(* The stream ends whole, in an error, or at a look that finds a stop; the
   looks are between chunks and 50 ms apart, and none follows the end. *)
Reply(r) ==
    /\ worker[r].at = "gateway"
    /\ \E what \in {"says", "error"} \union (IF Stopped(r) THEN {"cut"} ELSE {}) :
            worker' = [worker EXCEPT ![r] = At(what)]
    /\ UNCHANGED <<rows, awake, hands, ghosts, person>>

(* With calls, and the word for them or, as a model that contradicts itself
   has it, the word for an ending (length). *)
ReplyCalls(r) ==
    /\ worker[r].at = "gateway"
    /\ Newest(calls, r) < MaxRounds
    /\ \E tools \in Rounds, at \in {"calls", "says"} :
            worker' = [worker EXCEPT ![r] = [At(at) EXCEPT !.tools = tools]]
    /\ UNCHANGED <<rows, awake, hands, ghosts, person>>

(* landed, with calls: the turn, the calls and the wait, in one write. *)
LandCalls(r) ==
    LET tools == worker[r].tools
        k == Newest(calls, r) + 1
        fresh == {<<r, k, i>> : i \in DOMAIN tools}
    IN  /\ worker[r].at = "calls" /\ k <= MaxRounds
        /\ worker' = [worker EXCEPT ![r] = Asleep]
        /\ awake' = awake \union {r}
        /\ IF status[r] = "none" THEN UNCHANGED <<turns, calls, status, strayed>>
           ELSE /\ turns' = Turn(turns, "asks", r, <<r, k, Len(tools)>>, "")
                /\ calls' = [c \in DOMAIN calls \union fresh |->
                               IF c \in fresh THEN [kind |-> tools[c[3]], st |-> "pending"]
                               ELSE calls[c]]
                /\ status' = [status EXCEPT ![r] = "waiting"]
                /\ strayed' = strayed \union (IF status[r] = "stopped" THEN {"reopened"} ELSE {})
        /\ UNCHANGED <<issued, chat, hands, made, allowed, person>>

(* landed with an ending, was_stopped and failed.  Calls that came with an
   ending are in its turn, and have no rows. *)
Land(r) ==
    LET at == worker[r].at
        tools == worker[r].tools
        k == Newest(calls, r) + 1
        ending == CASE at = "says" -> "done" [] at = "cut" -> "stopped" [] OTHER -> "failed"
    IN  /\ at \in {"says", "cut", "error"} /\ (tools # <<>> => k <= MaxRounds)
        /\ worker' = [worker EXCEPT ![r] = Asleep]
        /\ status' = IF status[r] = "none" THEN status ELSE [status EXCEPT ![r] = ending]
        /\ turns' = IF status[r] = "none" \/ at = "error" THEN turns
                    ELSE IF tools # <<>> THEN Turn(turns, "asks", r, <<r, k, Len(tools)>>, "")
                    ELSE Turn(turns, "says", r, NoCall, at)
        /\ strayed' = strayed \union
                (IF turns' # turns /\ r # Latest(status) THEN {"behind"} ELSE {})
        /\ UNCHANGED <<issued, calls, chat, awake, hands, made, allowed, person>>

----------------------------------------------------------------------------
(* The session's walk over the calls of the newest run, one at a time.      *)

Free == [at |-> "no", call |-> NoCall]
Doing(place, c) == [at |-> place, call |-> c]
Write(what, c, st, r) == [what |-> what, call |-> c, st |-> st, run |-> r]

(* As a plausible mistake: the worker's calls are passed over, not waited for. *)
UnsaidHere(cs, r) == {c \in CallsOf(cs, r) : cs[c].st = "pending" /\ cs[c].kind # "read"}

(* pending_calls *)
Unsaid(cs, r) == {c \in CallsOf(cs, r) : cs[c].st = "pending"}

(* run_pending_calls: what becomes of the session's state, and whether a tool
   that runs at once works. *)
Serve(st, cs, act, q, md, works) ==
    LET r == Latest(st)
        open == Unsaid(cs, r)
        c == CHOOSE c \in open : \A d \in open :
                c[2] < d[2] \/ (c[2] = d[2] /\ c[3] <= d[3])
        busy == r = 0 \/ open = {}
        kept == [active |-> act, queue |-> q, made |-> md]
        doing(place) == [act EXCEPT ![r] = Doing(place, c)]
    IN  IF busy THEN kept
        ELSE IF \/ st[r] # "waiting" \/ act[r] # Free
                \/ \E d \in CallsOf(cs, r) : cs[d].st = "asked"
                \/ cs[c].kind = "read"
        THEN kept
        ELSE IF cs[c].kind = "asks"
        THEN [kept EXCEPT !.active = doing("queued"),
                          !.queue = Append(q, Write("ask", c, "asked", r))]
        ELSE IF cs[c].kind = "now"
        THEN [kept EXCEPT !.active = doing("queued"),
                          !.made[c] = IF works THEN @ + 1 ELSE @,
                          !.queue = Append(q, Write("record", c, IF works THEN "done" ELSE "failed", r))]
        ELSE [kept EXCEPT !.active = doing("preparing")]


(* kick_all, and the supervisor's first pass of a run that is live again. *)
KickAll(st) == awake' = awake \union {r \in Run : st[r] \in Live}

(* finished with a resume: the run's place is given up, the walk goes on and
   every worker is kicked. *)
Finished(r, q, md) ==
    /\ \E works \in BOOLEAN :
        LET free == [active EXCEPT ![r] = Free]
            w == IF status'[r] = "none" THEN [active |-> free, queue |-> q, made |-> md]
                 ELSE Serve(status', calls', free, q, md, works)
        IN  active' = w.active /\ queue' = w.queue /\ made' = w.made
    /\ KickAll(status')

(* The chat panel's frame. *)
Dispatch ==
    /\ walk = NoWalk
    /\ \E works \in BOOLEAN :
        LET w == Serve(status, calls, active, queue, made, works) IN
        w.active # active /\ active' = w.active /\ queue' = w.queue /\ made' = w.made
    /\ KickAll(status)
    /\ UNCHANGED <<rows, worker, past, future, walk, allowed, strayed, person>>

(* prepared: a stop or a deletion meanwhile withdraws the call before it
   changes anything; an error is its answer. *)
Prepared(r) ==
    LET c == active[r].call IN
    /\ active[r].at = "preparing"
    /\ UNCHANGED <<rows, worker, past, future, walk, allowed, strayed, person>>
    /\ IF ~Pending(c) THEN Finished(r, queue, made)
       ELSE /\ UNCHANGED <<made, awake>>
            /\ IF calls[c].kind = "native"
               THEN active' = [active EXCEPT ![r].at = "native"] /\ UNCHANGED queue
               ELSE /\ active' = [active EXCEPT ![r].at = "queued"]
                    /\ queue' \in {Append(queue, Write("edit", c, "done", r)),
                                   Append(queue, Write("record", c, "failed", r))}

(* A native command under way, and its completion on the session's thread,
   which files a node of its own; or its failure, which changes nothing. *)
NativeRuns(r) ==
    LET c == active[r].call IN
    /\ active[r].at = "native"
    /\ made' = [made EXCEPT ![c] = @ + 1]
    /\ active' = [active EXCEPT ![r].at = "ran"]
    /\ UNCHANGED <<rows, worker, awake, queue, past, future, walk, allowed, strayed, person>>

NativeFails(r) ==
    /\ active[r].at = "native"
    /\ active' = [active EXCEPT ![r].at = "queued"]
    /\ queue' = Append(queue, Write("native", active[r].call, "failed", r))
    /\ UNCHANGED <<rows, worker, awake, past, future, walk, ghosts, person>>

NativeTold(r) ==
    /\ active[r].at = "ran"
    /\ active' = [active EXCEPT ![r].at = "queued"]
    /\ queue' = Append(queue, Write("native", active[r].call, "done", r))
    /\ future' = <<>>
    /\ UNCHANGED <<rows, worker, awake, past, walk, ghosts, person>>

----------------------------------------------------------------------------
(* The writer takes the session's edits in their order, and the session     *)
(* hears of each.                                                           *)

Next1(what) == queue # <<>> /\ Head(queue).what = what

CommitAsk ==
    LET w == Head(queue) IN
    /\ Next1("ask")
    /\ calls' = IF Pending(w.call) THEN [calls EXCEPT ![w.call].st = "asked"] ELSE calls
    /\ queue' = Tail(queue) /\ active' = [active EXCEPT ![w.run] = Free]
    /\ KickAll(status)
    /\ UNCHANGED <<status, issued, turns, chat, worker, past, future, walk, ghosts, person>>

(* record: the call's answer, unless something has withdrawn it. *)
CommitRecord ==
    LET w == Head(queue) IN
    /\ Next1("record")
    /\ calls' = IF Pending(w.call) THEN [calls EXCEPT ![w.call].st = w.st] ELSE calls
    /\ UNCHANGED <<status, issued, turns, chat>>
    /\ Finished(w.run, Tail(queue), made)
    /\ UNCHANGED <<worker, past, future, walk, allowed, strayed, person>>

(* As a plausible mistake: the reply follows the edit in a write of its own. *)
CommitEditAlone ==
    LET w == Head(queue) IN
    /\ Next1("edit")
    /\ made' = IF Pending(w.call) THEN [made EXCEPT ![w.call] = @ + 1] ELSE made
    /\ queue' = Append(Tail(queue),
                       Write("record", w.call, IF Pending(w.call) THEN "done" ELSE "failed", w.run))
    /\ UNCHANGED <<rows, worker, awake, active, past, future, walk, allowed, strayed, person>>

(* The prepared edit with its reply in one transaction: both, or neither. *)
CommitEdit ==
    LET w == Head(queue) IN
    /\ Next1("edit")
    /\ UNCHANGED <<status, issued, turns, chat>>
    /\ IF Pending(w.call)
       THEN /\ calls' = [calls EXCEPT ![w.call].st = "done"]
            /\ future' = <<>>
            /\ Finished(w.run, Tail(queue), [made EXCEPT ![w.call] = @ + 1])
       ELSE /\ queue' = Append(Tail(queue), Write("record", w.call, "failed", w.run))
            /\ UNCHANGED <<calls, future, active, made, awake>>
    /\ UNCHANGED <<worker, past, walk, allowed, strayed, person>>

(* record_command: the result stands whatever was said of the call, and the
   tool turn that answers it, before the run's next word, says it too. *)
CommitNative ==
    LET w == Head(queue)
        c == w.call
        asks == {i \in DOMAIN turns : turns[i].who = "asks" /\ turns[i].run = c[1]
                                      /\ turns[i].call[2] = c[2]}
        later(i) == {j \in DOMAIN turns : turns[j].run = c[1] /\ j > i
                                         /\ turns[j].who \in {"asks", "says"}}
        its(i) == \E a \in asks : i > a /\ \A j \in later(a) : i < j
    IN  /\ Next1("native")
        /\ calls' = IF c \in DOMAIN calls THEN [calls EXCEPT ![c].st = w.st] ELSE calls
        /\ turns' = [i \in DOMAIN turns |->
                        IF turns[i].who = "tool" /\ turns[i].call = c /\ its(i)
                        THEN [turns[i] EXCEPT !.said = w.st] ELSE turns[i]]
        /\ UNCHANGED <<status, issued, chat>>
        /\ Finished(w.run, Tail(queue), made)
        /\ UNCHANGED <<worker, past, future, walk, allowed, strayed, person>>

(* What undo would give back: a send from its turn on, a retry by its run,
   a deletion from the rows it took. *)
Claim(kind, run, seq, kept) == [kind |-> kind, run |-> run, seq |-> seq, kept |-> kept]
NoRows == [status |-> <<>>, turns |-> <<>>, calls |-> <<>>]
Whole == [status |-> status, turns |-> turns, calls |-> calls]

Files(claim) == past' = Append(past, claim) /\ future' = <<>>

(* send: the last round is settled, then the person's turn and a run, whatever
   has become of the runs since it was asked for. *)
CommitSend ==
    LET r == issued + 1
        ts == Turn(Settled(turns, calls), "user", r, NoCall, "")
    IN  /\ Next1("send")
        /\ queue' = Tail(queue)
        /\ IF issued < MaxRuns
           THEN /\ issued' = r /\ status' = [status EXCEPT ![r] = "pending"]
                /\ turns' = ts /\ calls' = Cancelled(turns, calls)
                /\ Files(Claim("send", r, Last(ts).seq, NoRows))
                /\ strayed' = strayed \union
                        (IF \E q \in Run : status[q] \in Live THEN {"crowded"} ELSE {})
           ELSE UNCHANGED <<issued, status, turns, calls, past, future, strayed>>
        /\ KickAll(status')
        /\ UNCHANGED <<chat, worker, active, walk, made, allowed, person>>

(* stop, of a run that is still live. *)
CommitStop ==
    LET r == Head(queue).run IN
    /\ Next1("stop")
    /\ status' = IF status[r] \in Live THEN [status EXCEPT ![r] = "stopped"] ELSE status
    /\ queue' = Tail(queue) /\ KickAll(status')
    /\ UNCHANGED <<issued, turns, calls, chat, worker, active, past, walk, ghosts, person>>
    /\ future' = IF status' = status THEN future ELSE <<>>

(* retry, of a newest run that failed or was stopped. *)
CommitRetry ==
    LET r == issued + 1
        last == Latest(status)
    IN  /\ Next1("retry")
        /\ queue' = Tail(queue)
        /\ IF last # 0 /\ status[last] \in {"failed", "stopped"} /\ issued < MaxRuns
           THEN /\ issued' = r /\ status' = [status EXCEPT ![r] = "pending"]
                /\ turns' = Settled(turns, calls) /\ calls' = Cancelled(turns, calls)
                /\ Files(Claim("retry", r, 0, NoRows))
           ELSE UNCHANGED <<issued, status, turns, calls, past, future>>
        /\ KickAll(status')
        /\ UNCHANGED <<chat, worker, active, walk, ghosts, person>>

(* delete_chats_plan: every row goes, and the claim has them all. *)
Gone ==
    /\ status' = [r \in Run |-> "none"] /\ turns' = <<>> /\ calls' = <<>> /\ chat' = FALSE
    /\ UNCHANGED issued

CommitDelete ==
    /\ Next1("delete")
    /\ Gone /\ queue' = Tail(queue) /\ UNCHANGED awake
    /\ IF chat
       THEN Files(Claim("delete", 0, 0, Whole))
       ELSE UNCHANGED <<past, future>>
    /\ UNCHANGED <<worker, active, walk, ghosts, person>>

----------------------------------------------------------------------------
(* The person.                                                              *)

Happens == events < MaxEvents /\ events' = events + 1
Press == Happens /\ walk = NoWalk
Asks(w) == queue' = Append(queue, w) /\ UNCHANGED <<active, past, future, walk>>

(* *send* and *continue*, from any panel that shows the chat: its newest run is
   not live at the press, which nothing looks at again.  With chips the edit is
   queued when their context has been rendered, or never if that fails. *)
Send == Write("send", NoCall, "", 0)

PressSend ==
    LET last == Latest(status) IN
    /\ Press /\ chat /\ issued < MaxRuns
    /\ last \notin {r \in Run : status[r] \in Live}
    /\ \/ Asks(Send) /\ UNCHANGED composing
       \/ ~composing /\ composing' = TRUE /\ UNCHANGED hands
    /\ UNCHANGED <<rows, worker, awake, ghosts>>

Composed ==
    /\ composing /\ composing' = FALSE
    /\ queue' \in {queue, Append(queue, Send)}
    /\ UNCHANGED <<rows, worker, awake, active, past, future, walk, ghosts, events>>

PressStop ==
    LET last == Latest(status) IN
    /\ Press /\ last # 0 /\ status[last] \in Live
    /\ Asks(Write("stop", NoCall, "", last))
    /\ UNCHANGED <<rows, worker, awake, ghosts, composing>>

PressRetry ==
    LET last == Latest(status) IN
    /\ Press /\ issued < MaxRuns
    /\ last # 0 /\ status[last] \in {"failed", "stopped"}
    /\ Asks(Write("retry", NoCall, "", 0))
    /\ UNCHANGED <<rows, worker, awake, ghosts, composing>>

PressDelete ==
    /\ Press /\ chat
    /\ Asks(Write("delete", NoCall, "", 0))
    /\ UNCHANGED <<rows, worker, awake, ghosts, composing>>

(* asked: a card the person may answer. *)
Card(r, c) ==
    /\ r = Latest(status) /\ status[r] = "waiting" /\ active[r] = Free
    /\ c \in CallsOf(calls, r) /\ calls[c].st = "asked" /\ walk = NoWalk

Allow(r) ==
    /\ \E c \in CallsOf(calls, r) :
            /\ Card(r, c)
            /\ active' = [active EXCEPT ![r] = Doing("preparing", c)]
            /\ allowed' = allowed \union {c}
    /\ KickAll(status)
    /\ UNCHANGED <<rows, worker, queue, past, future, walk, made, strayed, person>>

Refuse(r) ==
    /\ \E c \in CallsOf(calls, r) :
            /\ Card(r, c)
            /\ active' = [active EXCEPT ![r] = Doing("queued", c)]
            /\ queue' = Append(queue, Write("record", c, "refused", r))
    /\ UNCHANGED <<rows, worker, awake, past, future, walk, ghosts, person>>

(* A walk starts with nothing unfinished in the session. *)
Quiet == queue = <<>> /\ ~composing /\ \A r \in Run : active[r] = Free

(* Sent::reverse and Retried::reverse, the first of their two writes. *)
Undo ==
    LET e == Last(past)
        taken == IF e.kind = "send" THEN {r \in Run : r >= e.run} ELSE {e.run}
    IN  /\ Press /\ Quiet /\ past # <<>> /\ e.kind # "delete"
        /\ status' = [r \in Run |-> IF r \in taken /\ status[r] \in Live
                                    THEN "stopped" ELSE status[r]]
        /\ walk' = e /\ past' = Front(past)
        /\ strayed' = strayed \union
                (IF /\ e.kind = "send"
                    /\ ~\E i \in DOMAIN turns : turns[i].who = "user" /\ turns[i].seq = e.seq
                 THEN {"adrift"} ELSE {})
        /\ UNCHANGED <<issued, turns, calls, chat, worker, awake, active, queue, future,
                       made, allowed, composing>>

(* cut_back_tx, or what a retry's undo deletes: the second. *)
UndoCut ==
    LET taken == IF walk.kind = "send" THEN {r \in Run : r >= walk.run} ELSE {walk.run}
        stays(t) == IF walk.kind = "send" THEN t.seq < walk.seq ELSE t.run # walk.run
        left == Ascending({i \in DOMAIN turns : stays(turns[i])})
    IN  /\ walk # NoWalk
        /\ status' = [r \in Run |-> IF r \in taken THEN "none" ELSE status[r]]
        /\ calls' = [c \in {c \in DOMAIN calls : c[1] \notin taken} |-> calls[c]]
        /\ turns' = [i \in DOMAIN left |-> turns[left[i]]]
        /\ walk' = NoWalk /\ future' = Append(future, walk)
        /\ KickAll(status')
        /\ UNCHANGED <<issued, chat, worker, active, queue, past, ghosts, person>>

(* Kept::reverse: the rows as they were when they went, streams stopped. *)
UndoDelete ==
    LET e == Last(past) IN
    /\ Press /\ Quiet /\ past # <<>> /\ e.kind = "delete"
    /\ status' = [r \in Run |-> IF e.kept.status[r] = "streaming" THEN "stopped"
                                ELSE e.kept.status[r]]
    /\ turns' = e.kept.turns /\ calls' = e.kept.calls /\ chat' = TRUE
    /\ past' = Front(past) /\ future' = Append(future, e)
    /\ KickAll(status')
    /\ UNCHANGED <<issued, worker, active, queue, walk, ghosts, composing>>

(* Sent::reapply and Retried::reapply: a fresh run, and for a send the turn
   again, at the end; the claim keeps the seq of the first turn. *)
Redo ==
    LET e == Last(future)
        r == issued + 1
    IN  /\ walk = NoWalk /\ Quiet /\ future # <<>> /\ e.kind # "delete" /\ issued < MaxRuns
        /\ issued' = r /\ status' = [status EXCEPT ![r] = "pending"]
        /\ turns' = IF e.kind = "send" THEN Turn(turns, "user", r, NoCall, "") ELSE turns
        /\ past' = Append(past, [e EXCEPT !.run = r]) /\ future' = Front(future)
        /\ KickAll(status')
        /\ strayed' = strayed \union
                (IF Unanswered(turns) # {} \/ \E q \in Run : status[q] \in Live THEN {"crowded"} ELSE {})
        /\ UNCHANGED <<calls, chat, worker, active, queue, walk, made, allowed, person>>

(* Kept::reapply: the rows go again, and the claim has what it had. *)
RedoDelete ==
    LET e == Last(future) IN
    /\ walk = NoWalk /\ Quiet /\ future # <<>> /\ e.kind = "delete"
    /\ Gone /\ past' = Append(past, e) /\ future' = Front(future)
    /\ strayed' = strayed \union (IF e.kept # Whole THEN {"lost"} ELSE {})
    /\ UNCHANGED <<worker, awake, active, queue, walk, made, allowed, person>>

(* The process dies; the next open sweeps (schema.rs) and starts a worker
   for each run that is live. *)
Crash ==
    /\ Happens
    /\ status' = [r \in Run |-> IF status[r] = "streaming" THEN "failed" ELSE status[r]]
    /\ worker' = [r \in Run |-> Asleep] /\ active' = [r \in Run |-> Free]
    /\ queue' = <<>> /\ past' = <<>> /\ future' = <<>> /\ walk' = NoWalk /\ composing' = FALSE
    /\ awake' = {r \in Run : status'[r] \in Live}
    /\ UNCHANGED <<issued, turns, calls, chat, ghosts>>

----------------------------------------------------------------------------
MaxPlace == Max({0} \union {Len(tools) : tools \in Rounds})
CallId == Run \X (1 .. MaxRounds) \X (1 .. MaxPlace)

Init ==
    /\ status = [r \in Run |-> "none"] /\ issued = 0
    /\ turns = <<>> /\ calls = <<>> /\ chat = TRUE
    /\ worker = [r \in Run |-> Asleep] /\ awake = {}
    /\ active = [r \in Run |-> Free] /\ queue = <<>>
    /\ past = <<>> /\ future = <<>> /\ walk = NoWalk
    /\ made = [c \in CallId |-> 0] /\ allowed = {} /\ strayed = {}
    /\ composing = FALSE /\ events = 0

(* The worker of a run; the session's work for it; the session's writes. *)
Works(r) ==
    \/ PassPending(r) \/ PassWaiting(r) \/ LookOn(r) \/ Ask(r) \/ Request(r)
    \/ ReadEnds(r) \/ ReadStopped(r) \/ ReadKept(r)
    \/ Reply(r) \/ ReplyCalls(r) \/ LandCalls(r) \/ Land(r)

Performs(r) == Prepared(r) \/ NativeRuns(r) \/ NativeFails(r) \/ NativeTold(r)

Commits ==
    \/ CommitAsk \/ CommitRecord \/ CommitEdit \/ CommitNative
    \/ CommitSend \/ CommitStop \/ CommitRetry \/ CommitDelete \/ UndoCut

Presses ==
    \/ PressSend \/ PressStop \/ PressRetry \/ PressDelete
    \/ Undo \/ UndoDelete \/ Redo \/ RedoDelete

Next ==
    \/ \E r \in Run : Works(r) \/ Performs(r) \/ Allow(r) \/ Refuse(r)
    \/ Dispatch \/ Commits \/ Presses \/ Composed \/ Crash

Spec == Init /\ [][Next]_vars

(* What runs without a person: each worker, whose gateway and reads come to
   an end; the work a session has started and its writes; the chat, shown. *)
FairSpec ==
    /\ Spec
    /\ \A r \in Run : WF_vars(Works(r)) /\ WF_vars(Performs(r))
    /\ WF_vars(Commits) /\ WF_vars(Dispatch)

----------------------------------------------------------------------------
(* Every variable has its type; a copy of the rows is what a deletion keeps. *)
Statuses == Live \union {"none", "done", "failed", "stopped"}
CallRow == [kind : Kinds, st : Open \union {"done", "failed", "refused", "cancelled"}]
TurnRow == [seq : Nat, who : {"user", "asks", "tool", "says"}, run : Run,
            call : CallId \union {NoCall},
            said : Open \union {"done", "failed", "refused", "cancelled", "says", "cut", ""}]
Table == UNION {[D -> CallRow] : D \in SUBSET CallId}
Copy == [status : [Run -> Statuses], turns : Seq(TurnRow), calls : Table]

Passing == {At(place) : place \in {"idle", "next", "answered", "claimed", "gateway",
                                   "says", "cut", "error"}}
           \union [at : {"reading", "read"}, call : CallId, tools : {<<>>}]
           \union [at : {"calls", "says"}, call : {NoCall}, tools : Rounds]
Place == {Free} \union [at : {"preparing", "native", "ran", "queued"}, call : CallId]
Written == [what : {"ask"}, call : CallId, st : {"asked"}, run : Run]
           \union [what : {"edit"}, call : CallId, st : {"done"}, run : Run]
           \union [what : {"native"}, call : CallId, st : {"done", "failed"}, run : Run]
           \union [what : {"record"}, call : CallId, st : {"done", "failed", "refused"}, run : Run]
           \union [what : {"stop"}, call : {NoCall}, st : {""}, run : Run]
           \union [what : {"send", "retry", "delete"}, call : {NoCall}, st : {""}, run : {0}]
Begun == [kind : {"send", "retry"}, run : Run, seq : Nat, kept : {NoRows}]
Undoable == Begun \union [kind : {"delete"}, run : {0}, seq : {0}, kept : Copy]

TypeOK ==
    /\ Whole \in Copy /\ issued \in 0 .. MaxRuns /\ chat \in BOOLEAN
    /\ worker \in [Run -> Passing] /\ awake \subseteq Run
    /\ active \in [Run -> Place] /\ queue \in Seq(Written)
    /\ past \in Seq(Undoable) /\ future \in Seq(Undoable) /\ walk \in Begun \union {NoWalk}
    /\ made \in [CallId -> Nat] /\ allowed \subseteq CallId
    /\ strayed \subseteq Strayings /\ composing \in BOOLEAN /\ events \in Nat

(* A prepared edit is made once at most and its answer with it, whatever stops,
   deletions, undos and crashes come between (calls.rs, prepared: "a crash cannot
   replay a completed edit"); a chat rolled back to an old copy of itself aside. *)
EditOnce ==
    "lost" \notin strayed =>
        \A c \in DOMAIN calls : calls[c].kind \in {"edit", "asks"} =>
            /\ made[c] <= 1
            /\ made[c] = 1 <=> calls[c].st = "done"

(* Nothing is done that nobody wants: what asks is done only if allowed, no edit
   of a call that was withdrawn is made, and none before a call the model asked
   for ahead of it has its answer (calls.rs: "so later session calls cannot
   overtake a download"). *)
InTurn ==
    [][\A c \in CallId : made'[c] > made[c] /\ c \in DOMAIN calls =>
        /\ calls[c].kind = "asks" => c \in allowed
        /\ calls[c].kind # "native" => Pending(c) \/ Pending(c)'
        /\ \A d \in DOMAIN calls : d[1] = c[1] /\ d[2] = c[2] /\ d[3] < c[3]
               => calls'[d].st \notin Open]_vars

(* A request its run still says it is making leaves with every call of every
   round answered before anybody speaks again (model.rs, settle_round_tx: a
   round without its answers "is invalid on the wire"), unless the chat has
   strayed. *)
RequestsWhole ==
    [][\A r \in Run :
         (/\ worker[r].at = "claimed" /\ worker'[r].at = "gateway"
          /\ status[r] = "streaming" /\ strayed = {})
         => Unanswered(turns) = {}]_vars


(* Stopping is for good: no run that was stopped waits for its calls again
   (model.rs, Stopped: "a stopped round cannot be resumed"). *)
StopStands ==
    [][\A r \in Run : status[r] = "stopped" => status'[r] \notin Live]_vars

(* What a call's card says is what its message says (model.rs, settle_round_tx:
   "so the card and the message say the same thing"). *)
CardTellsTruth ==
    \A i \in DOMAIN turns :
        (turns[i].who = "tool" /\ turns[i].call \in DOMAIN calls)
        => turns[i].said = calls[turns[i].call].st

(* What a deletion takes, redone too, is what undoing it gives back (model.rs,
   Kept: "The chats a *delete* took, whole"). *)
DeletionTakesAll ==
    [][chat /\ ~chat' => Last(past').kept = Whole]_vars

(* What a person starts begins on answered rounds: a send, a retry, and a redo
   of one (model.rs, settle_round_tx: "every request a person starts settles
   first"). *)
SettlesFirst == [][issued' # issued => Unanswered(turns') = {}]_vars

(* Undoing a send leaves nothing of its run (model.rs, Sent: "the chat as it was
   before you sent -- the turn goes, and so does everything that came after"). *)
UndoTakesAll ==
    [][walk # NoWalk /\ walk' = NoWalk =>
        \A i \in DOMAIN turns' : status[turns'[i].run] # "none"
                                 => status'[turns'[i].run] # "none"]_vars

(* No request leaves over a round without its answers (model.rs,
   settle_round_tx: "invalid on the wire"), whoever sent what beside whom. *)
AlwaysWhole ==
    [][\A r \in Run :
         (worker[r].at = "claimed" /\ worker'[r].at = "gateway" /\ status[r] = "streaming")
         => Unanswered(turns) = {}]_vars

(* A call is answered once in the transcript, through crashes too. *)
AnsweredOnce ==
    \A i, j \in DOMAIN turns :
        (turns[i].who = "tool" /\ turns[j].who = "tool" /\ turns[i].call = turns[j].call)
        => i = j

----------------------------------------------------------------------------
(* What these rest on.  A deletion can be undone, so what is promised of    *)
(* the rows is promised of every copy of them that may come back.           *)

Kept(claims) == {claims[i].kept : i \in {j \in DOMAIN claims : claims[j].kind = "delete"}}
Copies == {Whole} \union Kept(past)

(* The calls the model asked for ahead of c, in its round, have their answer. *)
Ahead(cs, c) ==
    \A d \in DOMAIN cs : d[1] = c[1] /\ d[2] = c[2] /\ d[3] < c[3] => cs[d].st \notin Open

(* A run that is there has been begun, a call that is there has a run, and a
   card is of a call that asks and is the first without its answer. *)
Coherent(k) ==
    /\ \A r \in Run : k.status[r] # "none" => r <= issued
    /\ \A c \in DOMAIN k.calls :
         /\ k.status[c[1]] # "none"
         /\ k.calls[c].st = "asked" => k.calls[c].kind = "asks" /\ Ahead(k.calls, c)

AllCoherent == \A k \in Copies \union Kept(future) : Coherent(k)

(* There is one deletion at most, before the cursor while the chat is gone and
   ahead of it while the chat is there, and no run is there and deleted. *)
OneDeletion ==
    /\ \A claims \in {past, future} : \A i, j \in DOMAIN claims :
            claims[i].kind = "delete" /\ claims[j].kind = "delete" => i = j
    /\ chat => Kept(past) = {}
    /\ ~chat => Kept(future) = {}
    /\ \A k \in Kept(past), r \in Run : k.status[r] # "none" => status[r] = "none"

(* A walk has the session to itself. *)
WalksAlone == walk # NoWalk => Quiet

(* A call the session holds is one of these kinds wherever its run is, and
   those ahead of it have their answers there. *)
Holds(c, kinds) ==
    /\ c[1] <= issued
    /\ \A k \in Copies : k.status[c[1]] # "none" =>
            c \in DOMAIN k.calls /\ k.calls[c].kind \in kinds /\ Ahead(k.calls, c)

Edits(c) == {"edit"} \union (IF c \in allowed THEN {"asks"} ELSE {})

Handled ==
    /\ \A r \in Run :
         /\ active[r].at = "preparing" => Holds(active[r].call, {"native"} \union Edits(active[r].call))
         /\ active[r].at \in {"native", "ran"} => Holds(active[r].call, {"native"})
    /\ \A i \in DOMAIN queue : LET w == queue[i] IN
         /\ w.what = "ask" => Holds(w.call, {"asks"})
         /\ w.what = "edit" => Holds(w.call, Edits(w.call))
         /\ w.what = "native" => Holds(w.call, {"native"})
         /\ w.what = "record" /\ w.st = "done" => Holds(w.call, {"now"})

(* A worker's call is a read of its own run, in every copy unless one was lost. *)
Reading ==
    \A r \in Run : worker[r].at \in {"reading", "read"} =>
        /\ worker[r].call[1] = r
        /\ "lost" \notin strayed => \A k \in Copies :
                worker[r].call \in DOMAIN k.calls => k.calls[worker[r].call].kind = "read"

(* What was made was asked for, and its row goes with its run and no sooner;
   an edit's row says whether it was made, in every copy. *)
Accounted ==
    /\ \A c \in CallId : made[c] > 0 => c[1] <= issued
    /\ "lost" \notin strayed => \A k \in Copies :
         /\ \A c \in CallId : made[c] > 0 /\ k.status[c[1]] # "none" => c \in DOMAIN k.calls
         /\ \A c \in DOMAIN k.calls : k.calls[c].kind \in {"edit", "asks"} =>
                made[c] <= 1 /\ (made[c] = 1 <=> k.calls[c].st = "done")

(* The turns run upward, a run's asks and answers are its own, and a round that
   is not answered yet ends the chat but for answers. *)
Threaded(ts) ==
    /\ \A i, j \in DOMAIN ts : i < j => ts[i].seq < ts[j].seq
    /\ \A i \in DOMAIN ts : ts[i].who \in {"asks", "tool"} => ts[i].run = ts[i].call[1]
    /\ \A i \in Unanswered(ts), j \in DOMAIN ts : i < j => ts[j].who = "tool"

(* It is the newest round of the newest run, whose calls are all there and which
   waits for them or was stopped; or it has no rows, and the newest run ended
   with it. *)
AwaitsAnswers(k) ==
    \A i \in Unanswered(k.turns) : LET c == k.turns[i].call IN
        /\ c[1] = Latest(k.status) /\ k.status[c[1]] \in {"waiting", "stopped", "done"}
        /\ k.status[c[1]] # "done" =>
             /\ c[2] = Newest(k.calls, c[1])
             /\ \A n \in 1 .. c[3] : <<c[1], c[2], n>> \in DOMAIN k.calls

OneLive(st) == \A r \in Run : st[r] \in Live => r = Latest(st)

(* A worker that answers a round has its run waiting, one that asks has it
   streaming, unless the person has stopped the run or taken it; and neither
   leaves a round of its run unanswered. *)
Waits == {"next", "reading", "read", "answered"}
Streams == {"claimed", "gateway", "says", "cut", "error", "calls"}
WorkerApt(w, k, r) ==
    /\ w.at \in Waits => k.status[r] \in {"none", "waiting", "stopped"}
    /\ w.at \in Streams => k.status[r] \in {"none", "streaming", "stopped"}
    /\ w.at \in Streams \union {"answered"} =>
            \A i \in Unanswered(k.turns) : k.turns[i].call[1] # r

InThread(k, ws) ==
    /\ Threaded(k.turns) /\ AwaitsAnswers(k) /\ OneLive(k.status)
    /\ \A r \in Run : WorkerApt(ws[r], k, r)

(* What a chat that has not strayed keeps, and every copy of it. *)
ThreadInv ==
    /\ \A r \in Run : worker[r].at # "idle" => r <= issued
    /\ strayed = {} =>
         /\ \A k \in Copies : InThread(k, worker)
         /\ walk # NoWalk /\ walk.kind = "send" =>
                \E i \in DOMAIN turns : turns[i].who = "user" /\ turns[i].seq = walk.seq

AgentInv ==
    /\ TypeOK /\ AllCoherent /\ OneDeletion /\ WalksAlone
    /\ Handled /\ Reading /\ Accounted

==============================================================================
