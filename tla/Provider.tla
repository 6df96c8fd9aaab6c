------------------------------ MODULE Provider -------------------------------
(***************************************************************************)
(* Calls of the model behind a task: the sessions of the two roles on disk *)
(* and at the Claude CLI (runner.Run and the session files of the store),  *)
(* the order in which runModel reads a failed call, and the recovery from  *)
(* an outage with its probes, waits and deadline (recoveryLoop).           *)
(*                                                                         *)
(* The CLI is external.  Its sessions are known by the ids it was given:   *)
(* it refuses to open an id it has and to resume one it has not, and it    *)
(* has opened the session when it reports a failure of the provider.  Time *)
(* is counted from the start of a recovery, in units of five minutes.      *)
(* What the answers say is modelled in Workflow.                           *)
(***************************************************************************)
EXTENDS Naturals, Sequences

CONSTANTS Worker, Reviewer,   \* the two roles
          MaxProbes,          \* maxTransientProbes
          Schedule,           \* transientBackoffSchedule
          Deadline,           \* providerUnavailableDeadline
          Delays,             \* how long a call, a probe or a late wake-up may take
          MaxCalls,           \* bound on commands that call the model
          MaxTasks,           \* bound on tasks
          MaxVersions,        \* bound on isolation policies, by updates of the program
          MaxFaults           \* bound on deaths and failing file operations

ASSUME RolesAssumption == Worker # Reviewer
ASSUME NumbersAssumption ==
    /\ MaxProbes \in Nat \ {0} /\ Deadline \in Nat \ {0}
    /\ Schedule \in Seq(Nat \ {0}) /\ Delays \subseteq Nat /\ 0 \in Delays
    /\ MaxCalls \in Nat /\ MaxTasks \in Nat /\ MaxVersions \in Nat \ {0} /\ MaxFaults \in Nat

Roles == {Worker, Reviewer}

VARIABLES
    \* the state directory
    task,       \* the number of the active task, 0 while there is none
    id,         \* worker.id and reviewer.id, 0 when missing
    ready,      \* worker.ready and reviewer.ready
    policy,     \* isolation.policy, 0 when missing
    stop,       \* how the task stopped: "none", "limit", "unavailable", or
                \* "failed" when nothing can be resumed
    \* the program
    version,    \* the isolation policy of the installed program
    pc,         \* where the command is
    role,       \* whose call it is
    before,     \* the stop a resumed command came from, "none" in another
    recovery,   \* "none", "gate" (before a resumed call), "call" (after a failed one)
    removing,   \* files still to remove
    sid, resume,    \* the session of the call and whether it is resumed
    reply,          \* how the last call ended
    probes, sleeps, elapsed,
    \* the CLI
    sessions,   \* the ids it has opened
    \* history and bounds
    origin,     \* the task and version each id was made for
    kept,       \* the session each role last marked ready
    used, calls, tasks, faults

files == <<task, id, ready, policy, stop>>
call == <<role, before, recovery, removing, sid, resume, reply>>
clock == <<probes, sleeps, elapsed>>
bounds == <<used, calls, tasks, faults>>
vars == <<files, version, pc, call, clock, sessions, origin, kept, bounds>>

Stops == {"none", "limit", "unavailable", "failed"}
Outcomes == {"none", "ok", "contract", "error"}
Signals == {"none", "limit", "transient"}
Nobody == [id |-> 0, version |-> 0]
NoReply == [ran |-> FALSE, outcome |-> "none", text |-> "none", signal |-> "none"]
Origin == [id : Nat, version : Nat]

-----------------------------------------------------------------------------
(* How a call is read. *)

\* What the CLI left behind: its exit status, whether a result event was parsed,
\* and what the event says.
Events == [exit : {0, 1}, parsed : BOOLEAN, exhausted : BOOLEAN, isError : BOOLEAN, structured : BOOLEAN]

\* The error of Run, in its order: exhausted retries of the schema count even
\* though the CLI exits with 1.
RunOutcome(e) ==
    IF e.parsed /\ e.exhausted THEN "contract"
    ELSE IF e.exit # 0 \/ ~ e.parsed \/ e.isError THEN "error"
    ELSE IF ~ e.structured THEN "contract" ELSE "ok"

\* What a text that says these things is taken for.
Classified(says) ==
    IF "limit" \in says THEN "limit" ELSE IF "transient" \in says THEN "transient" ELSE "none"

\* A limit in the text of the failure or in the plain output wins, then a
\* transient failure in either.
MergedSignal(text, plain) == Classified({text, plain})

\* What a call can end with: text is what its output file says, which stays there
\* until the CLI has run again.
Replies ==
    {[ran |-> TRUE, outcome |-> RunOutcome(e), text |-> t,
      signal |-> IF RunOutcome(e) = "ok" THEN "none" ELSE MergedSignal(t, p)] :
        e \in Events, t \in Signals, p \in Signals}

\* What a probe left behind, and how it is read: only an answer that is no error,
\* holds the sentinel and was charged for lets the task go on; a broken answer is
\* a failed probe like an outage, unless it names an authentication error.
ProbeEvents == [exit : {0, 1}, parsed : BOOLEAN, isError : BOOLEAN, sentinel : BOOLEAN,
                tokens : BOOLEAN, says : SUBSET {"limit", "transient", "fatal"}]
ValidProbe(p) == p.parsed /\ ~ p.isError /\ p.sentinel /\ p.tokens
ProbeRead(p) ==
    IF p.exit = 0 /\ ValidProbe(p) THEN "ok"
    ELSE IF Classified(p.says) # "none" THEN Classified(p.says)
    ELSE IF p.exit = 0 /\ "fatal" \notin p.says THEN "contract" ELSE "fatal"
Probes == {ProbeRead(p) : p \in ProbeEvents}

\* The session files in the order they are removed.
SessionFiles == <<<<"id", Worker>>, <<"ready", Worker>>, <<"id", Reviewer>>, <<"ready", Reviewer>>>>

Least(a, b) == IF a < b THEN a ELSE b
\* Time past the deadline is all the same.
After(d) == Least(elapsed + d, Deadline + 1)

\* A command ends: nothing of its call is left but the files.
Ended ==
    /\ pc' = "idle" /\ recovery' = "none" /\ before' = "none" /\ removing' = <<>>
    /\ sid' = 0 /\ resume' = FALSE /\ reply' = NoReply
    /\ probes' = 0 /\ sleeps' = 0 /\ elapsed' = 0

-----------------------------------------------------------------------------
Init ==
    /\ task = 0 /\ id = [r \in Roles |-> 0] /\ ready = [r \in Roles |-> FALSE]
    /\ policy = 0 /\ stop = "none"
    /\ version = 1
    /\ pc = "idle" /\ role = Worker /\ before = "none" /\ recovery = "none" /\ removing = <<>>
    /\ sid = 0 /\ resume = FALSE /\ reply = NoReply
    /\ probes = 0 /\ sleeps = 0 /\ elapsed = 0
    /\ sessions = {} /\ origin = <<>> /\ kept = [r \in Roles |-> Nobody]
    /\ used = 0 /\ calls = 0 /\ tasks = 0 /\ faults = 0

\* A new task first removes the files of the previous one.
NewTask ==
    /\ pc = "idle" /\ tasks < MaxTasks
    /\ task' = 0 /\ stop' = "none"
    /\ removing' = SessionFiles \o <<<<"policy", Worker>>>>
    /\ pc' = "forget"
    /\ tasks' = tasks + 1
    /\ kept' = [r \in Roles |-> Nobody]
    /\ UNCHANGED <<id, ready, policy, version, role, before, recovery, sid, resume, reply, clock, sessions, origin, used, calls, faults>>

ActivateTask ==
    /\ pc = "forget" /\ removing = <<>>
    /\ task' = tasks
    /\ pc' = "idle"
    /\ UNCHANGED <<id, ready, policy, stop, version, call, clock, sessions, origin, kept, bounds>>

\* A command calls the model, for either role unless the task is stopped in a call.
StartCall(r) ==
    /\ pc = "idle" /\ task # 0 /\ stop = "none" /\ calls < MaxCalls
    /\ role' = r /\ before' = "none" /\ recovery' = "none" /\ reply' = NoReply
    /\ pc' = "reset"
    /\ calls' = calls + 1
    /\ UNCHANGED <<files, version, removing, sid, resume, clock, sessions, origin, kept, used, tasks, faults>>

\* --resume calls for the role that was stopped, after an outage only when a
\* probe gets through.
ResumeTask ==
    /\ pc = "idle" /\ stop \in {"limit", "unavailable"} /\ calls < MaxCalls
    /\ before' = stop
    /\ recovery' = IF stop = "unavailable" THEN "gate" ELSE "none"
    /\ pc' = IF stop = "unavailable" THEN "wait" ELSE "reset"
    /\ stop' = IF stop = "unavailable" THEN stop ELSE "none"
    /\ probes' = 0 /\ sleeps' = 0 /\ elapsed' = 0
    /\ reply' = NoReply
    /\ calls' = calls + 1
    /\ UNCHANGED <<task, id, ready, policy, version, role, removing, sid, resume, sessions, origin, kept, used, tasks, faults>>

\* The program is replaced by one with another isolation policy.
Update ==
    /\ pc = "idle" /\ version < MaxVersions
    /\ version' = version + 1
    /\ UNCHANGED <<files, pc, call, clock, sessions, origin, kept, bounds>>

-----------------------------------------------------------------------------
(* Run up to the CLI. *)

\* Sessions started under another policy are dropped, for both roles.  The
\* variant drops the session of the calling role only.
ResetOwnSession ==
    /\ pc = "reset"
    /\ pc' = "remove"
    /\ removing' = IF policy = version THEN <<>>
                   ELSE <<<<"id", role>>, <<"ready", role>>>>
    /\ UNCHANGED <<files, version, role, before, recovery, sid, resume, reply, clock, sessions, origin, kept, bounds>>
ResetSessionsForPolicy ==
    /\ pc = "reset"
    /\ pc' = "remove"
    /\ removing' = IF policy = version THEN <<>>
                   ELSE SessionFiles
    /\ UNCHANGED <<files, version, role, before, recovery, sid, resume, reply, clock, sessions, origin, kept, bounds>>

\* One file is removed.
Remove ==
    /\ pc \in {"forget", "remove"} /\ removing # <<>>
    /\ LET f == Head(removing) IN
        /\ id' = IF f[1] = "id" THEN [id EXCEPT ![f[2]] = 0] ELSE id
        /\ ready' = IF f[1] = "ready" THEN [ready EXCEPT ![f[2]] = FALSE] ELSE ready
        /\ policy' = IF f[1] = "policy" THEN 0 ELSE policy
    /\ removing' = Tail(removing)
    /\ UNCHANGED <<task, stop, version, pc, role, before, recovery, sid, resume, reply, clock, sessions, origin, kept, bounds>>

\* SessionID: the id on file, resumed when it is ready, or a new one.
KnownSession ==
    /\ pc = "remove" /\ removing = <<>> /\ id[role] # 0
    /\ sid' = id[role] /\ resume' = ready[role]
    /\ pc' = "mark"
    /\ UNCHANGED <<files, version, role, before, recovery, removing, reply, clock, sessions, origin, kept, bounds>>

NewSession ==
    /\ pc = "remove" /\ removing = <<>> /\ id[role] = 0
    /\ used' = used + 1
    /\ id' = [id EXCEPT ![role] = used']
    /\ origin' = Append(origin, [task |-> task, version |-> version])
    /\ sid' = used' /\ resume' = FALSE
    /\ pc' = "mark"
    /\ UNCHANGED <<task, ready, policy, stop, version, role, before, recovery, removing, reply, clock, sessions, kept, calls, tasks, faults>>

\* SetIsolationPolicy, before the CLI is started.
MarkPolicy ==
    /\ pc = "mark"
    /\ policy' = version
    /\ pc' = "call"
    /\ UNCHANGED <<task, id, ready, stop, version, call, clock, sessions, origin, kept, bounds>>

\* A file operation, the prompt or the settings fail before the CLI is started.
\* A resumed call of a recovery then reads the output of the call before it.
PrepareFails ==
    /\ pc \in {"remove", "mark", "call"} /\ faults < MaxFaults
    /\ LET left == IF recovery = "call" THEN reply.text ELSE "none"
       IN  reply' = [ran |-> FALSE, outcome |-> "error", text |-> left, signal |-> left]
    /\ pc' = "replied"
    /\ removing' = <<>>
    /\ faults' = faults + 1
    /\ UNCHANGED <<files, version, role, before, recovery, sid, resume, clock, sessions, origin, kept, used, calls, tasks>>

\* The CLI opens or resumes the session and answers, or refuses it.
Served(answer, d) ==
    /\ pc = "call" /\ resume = (sid \in sessions)
    /\ sessions' = sessions \cup {sid}
    /\ reply' = answer
    /\ elapsed' = IF recovery = "none" THEN 0 ELSE After(d)
    /\ pc' = "replied"
    /\ UNCHANGED <<files, version, role, before, recovery, removing, sid, resume, probes, sleeps, origin, kept, bounds>>

Refused ==
    /\ pc = "call" /\ resume # (sid \in sessions)
    /\ reply' = [ran |-> TRUE, outcome |-> "error", text |-> "none", signal |-> "none"]
    /\ pc' = "replied"
    /\ UNCHANGED <<files, version, role, before, recovery, removing, sid, resume, clock, sessions, origin, kept, bounds>>

-----------------------------------------------------------------------------
(* What runModel and runResumedTask make of the call. *)

MarkReady ==
    /\ ready' = [ready EXCEPT ![role] = TRUE]
    /\ kept' = [kept EXCEPT ![role] = [id |-> sid, version |-> version]]

\* A session that never was ready is forgotten.
RemoveUnreadySession ==
    id' = IF ready[role] THEN id ELSE [id EXCEPT ![role] = 0]

Succeed ==
    /\ pc = "replied" /\ reply.outcome = "ok"
    /\ MarkReady
    /\ Ended
    /\ UNCHANGED <<task, id, policy, stop, version, role, sessions, origin, bounds>>

\* Of what the call says the five-hour limit comes first.
StopAtLimit ==
    /\ pc = "replied" /\ reply.outcome # "ok" /\ reply.signal = "limit"
    /\ MarkReady
    /\ stop' = "limit"
    /\ Ended
    /\ UNCHANGED <<task, id, policy, version, role, sessions, origin, bounds>>

\* Before anything else the guard compares the parent's metadata: when it was
\* changed during a worker's call the task goes to Sol, who can call again.  The
\* session of a failed call stays on file as it is.
GuardStops ==
    /\ pc = "replied" /\ role = Worker /\ reply.outcome # "ok"
    /\ Ended
    /\ UNCHANGED <<files, version, role, sessions, origin, kept, bounds>>

\* A failed first call: a transient failure starts a recovery, unless the reply
\* broke the contract of the structured output.  The variant forgets to mark
\* the session.
TransientCallUnmarked ==
    /\ pc = "replied" /\ recovery = "none"
    /\ reply.outcome = "error" /\ reply.signal = "transient"
    /\ recovery' = "call" /\ pc' = "wait"
    /\ probes' = 0 /\ sleeps' = 0 /\ elapsed' = 0
    /\ kept' = [kept EXCEPT ![role] = [id |-> sid, version |-> version]]
    /\ UNCHANGED <<files, version, role, before, removing, sid, resume, reply, sessions, origin, bounds>>
TransientCall ==
    /\ pc = "replied" /\ recovery = "none"
    /\ reply.outcome = "error" /\ reply.signal = "transient"
    /\ MarkReady
    /\ recovery' = "call" /\ pc' = "wait"
    /\ probes' = 0 /\ sleeps' = 0 /\ elapsed' = 0
    /\ UNCHANGED <<task, id, policy, stop, version, role, before, removing, sid, resume, reply, sessions, origin, bounds>>

\* A resumed call that fails by the outage again goes on with the recovery; here
\* the code does not look at the contract of the structured output.
TransientAgain ==
    /\ pc = "replied" /\ recovery = "call"
    /\ reply.outcome # "ok" /\ reply.signal = "transient"
    /\ pc' = "wait"
    /\ UNCHANGED <<files, version, call, clock, sessions, origin, kept, bounds>>

\* A failed command leaves nothing to resume, but one that was resumed goes back
\* to its stop.
Failed == stop' = IF before = "none" THEN "failed" ELSE before

FailCall ==
    /\ pc = "replied" /\ reply.signal # "limit"
    /\ IF recovery = "call" THEN reply.outcome # "ok" /\ reply.signal = "none"
       ELSE reply.outcome = "contract" \/ (reply.outcome = "error" /\ reply.signal = "none")
    /\ RemoveUnreadySession
    /\ Failed
    /\ Ended
    /\ UNCHANGED <<task, ready, policy, version, role, sessions, origin, kept, bounds>>

-----------------------------------------------------------------------------
(* The recovery loop. *)

\* The first probe of a resumed command does not wait.
ProbeAtOnce ==
    /\ pc = "wait" /\ recovery = "gate" /\ probes = 0
    /\ pc' = "probe"
    /\ UNCHANGED <<files, version, call, clock, sessions, origin, kept, bounds>>

\* There is a wait left in the schedule, and time and a probe for it.  The
\* variant forgets the probes.
CanWaitUncounted == sleeps < Len(Schedule) /\ elapsed < Deadline
CanWait == probes < MaxProbes /\ sleeps < Len(Schedule) /\ elapsed < Deadline

\* A wait of the schedule with up to a quarter more, cut to the time left; the
\* machine may wake up late.
Sleep(jitter, late) ==
    /\ pc = "wait" /\ ~ (recovery = "gate" /\ probes = 0) /\ CanWait
    /\ jitter <= Schedule[sleeps + 1] \div 4
    /\ elapsed' = After(Least(Schedule[sleeps + 1] + jitter, Deadline - elapsed) + late)
    /\ sleeps' = sleeps + 1
    /\ pc' = IF elapsed' > Deadline THEN "exhausted" ELSE "probe"
    /\ UNCHANGED <<files, version, call, probes, sessions, origin, kept, bounds>>

\* The variant counts the probe of a resumed command as a wait.
GiveUpEarly ==
    /\ pc = "wait" /\ ~ (recovery = "gate" /\ probes = 0)
    /\ ~ CanWait \/ sleeps + 1 = Len(Schedule)
    /\ pc' = "exhausted"
    /\ UNCHANGED <<files, version, call, clock, sessions, origin, kept, bounds>>
GiveUpLate ==
    /\ pc = "wait" /\ probes >= MaxProbes
    /\ pc' = "exhausted"
    /\ UNCHANGED <<files, version, call, clock, sessions, origin, kept, bounds>>
GiveUp ==
    /\ pc = "wait" /\ ~ (recovery = "gate" /\ probes = 0) /\ ~ CanWait
    /\ pc' = "exhausted"
    /\ UNCHANGED <<files, version, call, clock, sessions, origin, kept, bounds>>

\* The task is left resumable, with its session.
StopUnavailable ==
    /\ pc = "exhausted"
    /\ stop' = "unavailable"
    /\ Ended
    /\ UNCHANGED <<task, id, ready, policy, version, role, sessions, origin, kept, bounds>>

ProbeFails(answer, d) ==
    /\ pc = "probe" /\ answer \in {"transient", "contract"}
    /\ probes' = probes + 1 /\ elapsed' = After(d)
    /\ pc' = "wait"
    /\ UNCHANGED <<files, version, call, sleeps, sessions, origin, kept, bounds>>

\* The saved call is sent, once.
ProbeSucceeds(answer, d) ==
    /\ pc = "probe" /\ answer = "ok"
    /\ probes' = probes + 1 /\ elapsed' = After(d)
    /\ pc' = "reset"
    /\ recovery' = IF recovery = "gate" THEN "none" ELSE recovery
    /\ stop' = "none"
    /\ UNCHANGED <<task, id, ready, policy, version, role, before, removing, sid, resume, reply, sleeps, sessions, origin, kept, bounds>>

ProbeAtLimit(answer) ==
    /\ pc = "probe" /\ answer = "limit"
    /\ stop' = "limit"
    /\ Ended
    /\ UNCHANGED <<task, id, ready, policy, version, role, sessions, origin, kept, bounds>>

\* An authentication or configuration error ends the recovery; before a resumed
\* call it ends the task.
ProbeFatal(answer) ==
    /\ pc = "probe" /\ answer = "fatal"
    /\ RemoveUnreadySession
    /\ IF recovery = "gate" THEN stop' = "failed" ELSE Failed
    /\ Ended
    /\ UNCHANGED <<task, ready, policy, version, role, sessions, origin, kept, bounds>>

\* The program dies; what is on disk stays.  Only a stop that is saved can be
\* resumed: the checkpoint of a call in progress is none.
Crash ==
    /\ pc # "idle" /\ faults < MaxFaults
    /\ Ended
    /\ stop' = IF stop = "none" THEN "failed" ELSE stop
    /\ faults' = faults + 1
    /\ UNCHANGED <<task, id, ready, policy, version, role, sessions, origin, kept, used, calls, tasks>>

-----------------------------------------------------------------------------
User == NewTask \/ (\E r \in Roles : StartCall(r)) \/ ResumeTask \/ Update

Run ==
    \/ ActivateTask \/ ResetSessionsForPolicy \/ Remove \/ KnownSession \/ NewSession \/ MarkPolicy
    \/ (\E answer \in Replies, d \in Delays : Served(answer, d))
    \/ Refused \/ Succeed \/ GuardStops \/ StopAtLimit \/ TransientCall \/ TransientAgain \/ FailCall

Recover ==
    \/ ProbeAtOnce
    \/ \E jitter \in 0 .. Deadline, late \in Delays : Sleep(jitter, late)
    \/ GiveUp \/ StopUnavailable
    \/ \E answer \in Probes :
          \/ \E d \in Delays : ProbeFails(answer, d) \/ ProbeSucceeds(answer, d)
          \/ ProbeAtLimit(answer) \/ ProbeFatal(answer)

Next == User \/ Run \/ Recover \/ PrepareFails \/ Crash

Spec == Init /\ [][Next]_vars

\* A command that runs goes on: every wait ends, and the CLI answers or fails.
FairSpec == Spec /\ WF_vars(Run \/ Recover)

-----------------------------------------------------------------------------
(* Properties. *)

ProviderType ==
    /\ task \in 0 .. MaxTasks /\ id \in [Roles -> 0 .. used] /\ ready \in [Roles -> BOOLEAN]
    /\ policy \in 0 .. MaxVersions /\ version \in 1 .. MaxVersions
    /\ stop \in Stops /\ before \in Stops
    /\ pc \in {"idle", "forget", "reset", "remove", "mark", "call", "replied", "wait", "probe", "exhausted"}
    /\ role \in Roles /\ recovery \in {"none", "gate", "call"}
    /\ sid \in 0 .. used /\ resume \in BOOLEAN
    /\ reply.ran \in BOOLEAN /\ reply.outcome \in Outcomes /\ reply.text \in Signals /\ reply.signal \in Signals
    /\ probes \in 0 .. MaxProbes /\ sleeps \in 0 .. Len(Schedule) /\ elapsed \in 0 .. Deadline + 1
    /\ sessions \subseteq 1 .. used /\ Len(origin) = used
    /\ kept \in [Roles -> Origin]
    /\ used \in Nat /\ calls \in 0 .. MaxCalls /\ tasks \in 0 .. MaxTasks /\ faults \in 0 .. MaxFaults

\* The CLI is asked to resume only sessions it has, which this task started under
\* the isolation policy of the installed program: through deaths anywhere in the
\* removal of session files, updates of the program and failed calls, no input of
\* an older policy or task gets into a call (ResetSessionsForPolicy, StartNewTask,
\* RemoveUnreadySession).
ResumesOwnSession ==
    pc = "call" /\ resume =>
        /\ sid \in sessions
        /\ origin[sid] = [task |-> task, version |-> version]

\* What a role began it goes on with: once a call of the task has succeeded, or
\* failed by an outage or a limit, each later call of that role resumes that
\* session, through waits, probes, stops and --resume, until the program's
\* isolation policy changes ("the same session" of src/README.md:230 and 242).
SessionSurvivesStop ==
    pc = "call" /\ kept[role].id # 0 /\ kept[role].version = version =>
        resume /\ sid = kept[role].id

\* A recovery gives up only when every probe was sent or the time is over,
\* whichever comes first (src/README.md:242): the schedule of waits never runs
\* out before them, with the probe of a resumed command that does not wait too.
GivesUpOnlyExhausted ==
    pc = "exhausted" => probes = MaxProbes \/ elapsed >= Deadline

\* A command ends, however the calls and probes of its recovery go: it cannot
\* probe, wait and resume for ever.
CallEnds == pc # "idle" ~> pc = "idle"

\* A reply that breaks the contract of the structured output is not repeated
\* ("not subject to transient recovery", workflow.go:906).
ContractNotRetried == pc \in {"wait", "probe"} => reply.outcome # "contract"

\* Only what the answer of a call says is taken for an outage (src/README.md:240):
\* a call that failed before the CLI was started is not.
OutageWasAnswered == pc = "wait" /\ recovery = "call" => reply.ran

\* After each wait one probe is sent (src/README.md:242).
WaitsEndInProbe == [][sleeps' > sleeps => pc' = "probe"]_vars
=============================================================================
