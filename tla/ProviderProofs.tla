---------------------------- MODULE ProviderProofs ----------------------------
(***************************************************************************)
(* Proofs about the sessions of Provider, for any number of calls, tasks,  *)
(* updates and faults, and any schedule, deadline and bound of probes.     *)
(***************************************************************************)
EXTENDS Provider, SequenceTheorems, TLAPS

FileNames == {"id", "ready", "policy"} \X Roles
Origins == [task : Nat, version : Nat]

\* The types, with those of the files still to remove and of the origins.
Types ==
    /\ ProviderType
    /\ removing \in Seq(FileNames)
    /\ origin \in Seq(Origins)
    /\ pc \in {"mark", "call"} => sid # 0
    /\ pc = "probe" => probes < MaxProbes
    /\ pc \in {"wait", "probe"} => recovery # "none"

\* A file is still to be removed.
Pending(f) == \E i \in 1 .. Len(removing) : removing[i] = f

\* While files are removed, each of them is gone or still to go.
Removing ==
    /\ pc = "forget" \/ (pc = "remove" /\ policy # version) =>
         \A r \in Roles : /\ id[r] = 0 \/ Pending(<<"id", r>>)
                          /\ ~ ready[r] \/ Pending(<<"ready", r>>)
    /\ pc = "forget" => task = 0 /\ (policy = 0 \/ Pending(<<"policy", Worker>>))
    /\ pc = "remove" /\ policy = version => removing = <<>>

\* Under the policy of the installed program every session on file is the task's
\* own, and one that is marked ready is at the CLI.
OwnFiles ==
    /\ policy <= version
    /\ task # 0 /\ policy = version =>
         \A r \in Roles :
            /\ id[r] # 0 => origin[id[r]] = [task |-> task, version |-> version]
            /\ ready[r] => id[r] # 0 /\ id[r] \in sessions

\* What the running call knows.
Calling ==
    /\ pc \notin {"idle", "forget"} \/ stop \in {"limit", "unavailable"} => task # 0
    /\ pc \in {"mark", "call"} =>
         /\ sid = id[role] /\ sid # 0 /\ resume = ready[role]
         /\ origin[sid] = [task |-> task, version |-> version]
    /\ pc = "mark" /\ policy # version =>
         \A r \in Roles : ~ ready[r] /\ (r # role => id[r] = 0)
    /\ pc = "call" => policy = version
    /\ pc = "replied" /\ (reply.outcome = "ok" \/ reply.signal # "none") =>
         policy = version /\ sid = id[role] /\ sid # 0 /\ sid \in sessions
    /\ recovery = "call" =>
         /\ pc \in {"wait", "probe", "exhausted", "reset", "remove", "mark", "call", "replied"}
         /\ policy = version /\ ready[role] /\ sid = id[role]

\* What a role began is still on file.
Begun ==
    \A r \in Roles :
        /\ kept[r].version <= version
        /\ pc = "forget" => kept[r].id = 0
        /\ kept[r].id # 0 /\ kept[r].version = version =>
              policy = version /\ ready[r] /\ id[r] = kept[r].id

\* The invariant the proofs rest on.
SessionInvariant == Types /\ Removing /\ OwnFiles /\ Calling /\ Begun

-----------------------------------------------------------------------------
(* Helpers. *)

\* The files a session has, for both roles.
LEMMA SessionFileNames ==
    /\ SessionFiles \in Seq(FileNames)
    /\ SessionFiles \o <<<<"policy", Worker>>>> \in Seq(FileNames)
    /\ \A r \in Roles, k \in {"id", "ready"} :
          /\ \E i \in 1 .. Len(SessionFiles) : SessionFiles[i] = <<k, r>>
          /\ \E i \in 1 .. Len(SessionFiles \o <<<<"policy", Worker>>>>) :
                (SessionFiles \o <<<<"policy", Worker>>>>)[i] = <<k, r>>
    /\ \E i \in 1 .. Len(SessionFiles \o <<<<"policy", Worker>>>>) :
          (SessionFiles \o <<<<"policy", Worker>>>>)[i] = <<"policy", Worker>>
<1> DEFINE last == <<<<"policy", Worker>>>>
           all == SessionFiles \o last
<1>1. SessionFiles \in Seq(FileNames) /\ Len(SessionFiles) = 4
  BY DEF SessionFiles, FileNames, Roles
<1>2. last \in Seq(FileNames) /\ Len(last) = 1
  BY DEF FileNames, Roles
<1>3. /\ SessionFiles[1] = <<"id", Worker>> /\ SessionFiles[2] = <<"ready", Worker>>
      /\ SessionFiles[3] = <<"id", Reviewer>> /\ SessionFiles[4] = <<"ready", Reviewer>>
  BY DEF SessionFiles
<1>4. last[1] = <<"policy", Worker>>
  OBVIOUS
<1> HIDE DEF last
<1>5. /\ all \in Seq(FileNames) /\ Len(all) = 5
      /\ \A i \in 1 .. 5 : all[i] = IF i <= 4 THEN SessionFiles[i] ELSE last[i - 4]
  <2>1. /\ all \in Seq(FileNames) /\ Len(all) = Len(SessionFiles) + Len(last)
        /\ \A i \in 1 .. Len(SessionFiles) + Len(last) :
              all[i] = IF i <= Len(SessionFiles) THEN SessionFiles[i] ELSE last[i - Len(SessionFiles)]
    BY <1>1, <1>2, ConcatProperties
  <2> HIDE DEF all
  <2> QED BY <1>1, <1>2, <2>1
<1> HIDE DEF all
<1>6. ASSUME NEW r \in Roles, NEW k \in {"id", "ready"}
      PROVE  \E i \in 1 .. 4 : SessionFiles[i] = <<k, r>>
  <2>1. CASE k = "id" /\ r = Worker
    BY <1>3, <2>1
  <2>2. CASE k = "ready" /\ r = Worker
    BY <1>3, <2>2
  <2>3. CASE k = "id" /\ r = Reviewer
    BY <1>3, <2>3
  <2>4. CASE k = "ready" /\ r = Reviewer
    BY <1>3, <2>4
  <2> QED BY <1>6, <2>1, <2>2, <2>3, <2>4 DEF Roles
<1>7. \A r \in Roles, k \in {"id", "ready"} : \E i \in 1 .. 5 : all[i] = <<k, r>>
  BY <1>5, <1>6
<1>8. all[5] = <<"policy", Worker>>
  BY <1>4, <1>5
<1>9. /\ all \in Seq(FileNames)
      /\ \A r \in Roles, k \in {"id", "ready"} : \E i \in 1 .. Len(all) : all[i] = <<k, r>>
      /\ \E i \in 1 .. Len(all) : all[i] = <<"policy", Worker>>
  BY <1>5, <1>7, <1>8
<1>10. \A r \in Roles, k \in {"id", "ready"} : \E i \in 1 .. Len(SessionFiles) : SessionFiles[i] = <<k, r>>
  BY <1>1, <1>6
<1> QED BY <1>1, <1>9, <1>10 DEF all, last

\* A file that is not the next one stays to be removed.
LEMMA TailKeepsRest ==
    ASSUME NEW S, NEW s \in Seq(S), s # <<>>, NEW i \in 1 .. Len(s), s[i] # Head(s)
    PROVE  \E j \in 1 .. Len(Tail(s)) : Tail(s)[j] = s[i]
<1>1. i # 1
  BY Head(s) = s[1]
<1>2. /\ Len(Tail(s)) = Len(s) - 1 /\ Len(s) \in Nat
      /\ \A j \in 1 .. Len(Tail(s)) : Tail(s)[j] = s[j + 1]
  BY HeadTailProperties, LenProperties
<1>3. i - 1 \in 1 .. Len(Tail(s)) /\ (i - 1) + 1 = i
  BY <1>1, <1>2
<1> QED BY <1>2, <1>3

\* What calls may end with.
LEMMA ReplyTypes ==
    ASSUME NEW answer \in Replies
    PROVE  /\ answer.ran \in BOOLEAN /\ answer.outcome \in Outcomes
           /\ answer.text \in Signals /\ answer.signal \in Signals
<1>1. PICK e \in Events, t \in Signals, p \in Signals :
        answer = [ran |-> TRUE, outcome |-> RunOutcome(e), text |-> t,
                  signal |-> IF RunOutcome(e) = "ok" THEN "none" ELSE MergedSignal(t, p)]
  BY DEF Replies
<1>2. RunOutcome(e) \in Outcomes /\ MergedSignal(t, p) \in Signals
  BY DEF RunOutcome, MergedSignal, Classified, Outcomes, Signals, Stops
<1> HIDE DEF Replies
<1> QED BY <1>1, <1>2 DEF Signals

\* Sums of times are times.
LEMMA Sums == \A a, b \in Nat : a + b \in Nat
OBVIOUS

\* Time past the deadline is not counted.
LEMMA AfterType ==
    ASSUME elapsed \in 0 .. Deadline + 1, NEW d \in Nat
    PROVE  After(d) \in 0 .. Deadline + 1
BY NumbersAssumption DEF After, Least

-----------------------------------------------------------------------------
(* Types. *)

LEMMA TypesInit == Init => Types
<1> SUFFICES ASSUME Init PROVE Types
  OBVIOUS
<1>1. role \in Roles /\ kept \in [Roles -> Origin]
  BY DEF Init, Roles, Nobody, Origin
<1>2. removing \in Seq(FileNames) /\ origin \in Seq(Origins) /\ Len(origin) = 0
  BY EmptySeq DEF Init
<1>3. id \in [Roles -> 0 .. used] /\ ready \in [Roles -> BOOLEAN]
  BY DEF Init
<1>4. reply.ran \in BOOLEAN /\ reply.outcome \in Outcomes /\ reply.text \in Signals /\ reply.signal \in Signals
  BY DEF Init, NoReply, Outcomes, Signals
<1>5. sleeps \in 0 .. Len(Schedule)
  BY NumbersAssumption, LenProperties DEF Init
<1>6. /\ task \in 0 .. MaxTasks /\ policy \in 0 .. MaxVersions /\ version \in 1 .. MaxVersions
      /\ sid \in 0 .. used /\ sessions \subseteq 1 .. used /\ Len(origin) = used
      /\ probes \in 0 .. MaxProbes /\ elapsed \in 0 .. Deadline + 1
      /\ used \in Nat /\ calls \in 0 .. MaxCalls /\ tasks \in 0 .. MaxTasks /\ faults \in 0 .. MaxFaults
  BY <1>2, NumbersAssumption DEF Init
<1>7. stop \in Stops /\ before \in Stops
  BY DEF Init, Stops
<1>8. ProviderType
  BY <1>1, <1>2, <1>3, <1>4, <1>5, <1>6, <1>7 DEF Init, ProviderType
<1> QED BY <1>2, <1>8 DEF Init, Types

\* Commands and what users do.
LEMMA UserTypes == Types /\ User => Types'
<1> SUFFICES ASSUME Types, User PROVE Types'
  OBVIOUS
<1> USE DEF Types, ProviderType, files, call, clock, bounds, NoReply, Stops
<1>1. CASE NewTask
  <2>1. kept' \in [Roles -> Origin] /\ removing' \in Seq(FileNames)
    BY <1>1, SessionFileNames DEF NewTask, Nobody, Origin
  <2>2. tasks' \in 0 .. MaxTasks
    BY <1>1, NumbersAssumption DEF NewTask
  <2> QED BY <1>1, <2>1, <2>2, NumbersAssumption DEF NewTask
<1>2. CASE \E r \in Roles : StartCall(r)
  BY <1>2, NumbersAssumption DEF StartCall, Outcomes, Signals, Stops
<1>3. CASE ResumeTask
  BY <1>3, NumbersAssumption DEF ResumeTask, Outcomes, Signals, Stops
<1>4. CASE Update
  BY <1>4, NumbersAssumption DEF Update
<1> QED BY <1>1, <1>2, <1>3, <1>4 DEF User

\* A command that ends forgets its call.
LEMMA EndedTypes ==
    ASSUME Types, Ended, UNCHANGED <<version, role, sessions, origin, used, calls, tasks>>,
           task' = task, policy' = policy, faults' \in 0 .. MaxFaults,
           id' \in [Roles -> 0 .. used], ready' \in [Roles -> BOOLEAN],
           stop' \in Stops, kept' \in [Roles -> Origin]
    PROVE  Types'
<1>1. removing' \in Seq(FileNames)
  BY EmptySeq DEF Ended
<1>2. reply'.ran \in BOOLEAN /\ reply'.outcome \in Outcomes /\ reply'.text \in Signals /\ reply'.signal \in Signals
  BY DEF Ended, NoReply, Outcomes, Signals
<1>3. sleeps' \in 0 .. Len(Schedule) /\ probes' \in 0 .. MaxProbes /\ elapsed' \in 0 .. Deadline + 1
  BY NumbersAssumption, LenProperties DEF Ended
<1>4. used' = used /\ used \in Nat
  BY DEF Types, ProviderType
<1>5. id' \in [Roles -> 0 .. used'] /\ sid' \in 0 .. used' /\ sessions' \subseteq 1 .. used' /\ Len(origin') = used'
  BY <1>4, SMTT(60) DEF Types, ProviderType, Ended
<1>6. ProviderType'
  BY <1>2, <1>3, <1>4, <1>5 DEF Types, ProviderType, Ended, Stops
<1> QED BY <1>1, <1>6 DEF Types, Ended

\* A session that is marked, and one that is forgotten.
LEMMA MarkReadyTypes ==
    ASSUME Types, MarkReady
    PROVE  ready' \in [Roles -> BOOLEAN] /\ kept' \in [Roles -> Origin]
<1>1. [id |-> sid, version |-> version] \in Origin
  BY NumbersAssumption DEF Types, ProviderType, Origin
<1> QED BY <1>1 DEF Types, ProviderType, MarkReady

LEMMA RemoveUnreadyTypes ==
    ASSUME Types, RemoveUnreadySession
    PROVE  id' \in [Roles -> 0 .. used]
<1>1. id \in [Roles -> 0 .. used] /\ 0 \in 0 .. used
  BY DEF Types, ProviderType
<1> QED BY <1>1 DEF RemoveUnreadySession

\* The way of a call.
LEMMA RunTypes == Types /\ Run => Types'
<1> SUFFICES ASSUME Types, Run PROVE Types'
  OBVIOUS
<1> USE DEF Types, ProviderType, files, call, clock, bounds, Stops
<1>1. CASE ActivateTask
  BY <1>1 DEF ActivateTask
<1>2. CASE ResetSessionsForPolicy
  BY <1>2, SessionFileNames, EmptySeq DEF ResetSessionsForPolicy
<1>3. CASE Remove
  <2>1. Head(removing) \in FileNames /\ Tail(removing) \in Seq(FileNames)
    BY <1>3, HeadTailProperties DEF Remove
  <2>2. id' \in [Roles -> 0 .. used] /\ ready' \in [Roles -> BOOLEAN] /\ policy' \in 0 .. MaxVersions
    <3> DEFINE f == Head(removing)
    <3>1. /\ id' = IF f[1] = "id" THEN [id EXCEPT ![f[2]] = 0] ELSE id
          /\ ready' = IF f[1] = "ready" THEN [ready EXCEPT ![f[2]] = FALSE] ELSE ready
          /\ policy' = IF f[1] = "policy" THEN 0 ELSE policy
      BY <1>3 DEF Remove
    <3> HIDE DEF f
    <3>2. id' \in [Roles -> 0 .. used]
      <4>1. id \in [Roles -> 0 .. used] /\ 0 \in 0 .. used
        OBVIOUS
      <4> QED BY <3>1, <4>1
    <3>3. ready' \in [Roles -> BOOLEAN]
      BY <3>1
    <3> QED BY <3>1, <3>2, <3>3, NumbersAssumption
  <2>3. /\ pc \in {"forget", "remove"}
        /\ UNCHANGED <<task, stop, version, pc, role, before, recovery, sid, resume, reply>>
        /\ UNCHANGED <<probes, sleeps, elapsed, sessions, origin, kept, used, calls, tasks, faults>>
        /\ removing' \in Seq(FileNames)
    BY <1>3, <2>1 DEF Remove
  <2>4. ProviderType'
    BY <2>2, <2>3, SMTT(60)
  <2> QED BY <2>3, <2>4, SMTT(60)
<1>4. CASE KnownSession
  BY <1>4 DEF KnownSession
<1>5. CASE NewSession
  <2>1. used' = used + 1 /\ used' \in Nat /\ 0 .. used \subseteq 0 .. used'
    BY <1>5 DEF NewSession
  <2>2. id' \in [Roles -> 0 .. used']
    BY <1>5, <2>1, SMTT(60) DEF NewSession
  <2>3. origin' \in Seq(Origins) /\ Len(origin') = used'
    BY <1>5, <2>1, NumbersAssumption DEF NewSession, Origins
  <2>4. sid' \in 0 .. used' /\ sessions' \subseteq 1 .. used'
    BY <1>5, <2>1 DEF NewSession
  <2>5. ProviderType'
    BY <1>5, <2>1, <2>2, <2>3, <2>4 DEF NewSession
  <2> QED BY <1>5, <2>1, <2>3, <2>5 DEF NewSession
<1>6. CASE MarkPolicy
  BY <1>6, SMTT(60) DEF MarkPolicy
<1>7. CASE \E answer \in Replies, d \in Delays : Served(answer, d)
  <2>1. PICK answer \in Replies, d \in Delays : Served(answer, d)
    BY <1>7
  <2>2. elapsed' \in 0 .. Deadline + 1
    <3>1. After(d) \in 0 .. Deadline + 1
      BY AfterType, NumbersAssumption
    <3> QED BY <2>1, <3>1, NumbersAssumption, SMTT(60) DEF Served
  <2>3. reply'.ran \in BOOLEAN /\ reply'.outcome \in Outcomes /\ reply'.text \in Signals /\ reply'.signal \in Signals
    BY <2>1, ReplyTypes DEF Served
  <2>4. sessions' \subseteq 1 .. used
    <3>1. sid # 0 /\ sid \in 0 .. used /\ used \in Nat
      BY <2>1 DEF Served
    <3>2. sid \in 1 .. used
      BY <3>1
    <3> QED BY <2>1, <3>2 DEF Served
  <2> QED BY <2>1, <2>2, <2>3, <2>4 DEF Served
<1>8. CASE Refused
  BY <1>8 DEF Refused, Outcomes, Signals, Stops
<1>9. CASE Succeed \/ StopAtLimit \/ GuardStops \/ FailCall
  <2>1. Ended /\ UNCHANGED <<version, role, sessions, origin, used, calls, tasks, task, policy, faults>>
    BY <1>9 DEF Succeed, StopAtLimit, GuardStops, FailCall
  <2>2. id' \in [Roles -> 0 .. used]
    BY <1>9, RemoveUnreadyTypes DEF Succeed, StopAtLimit, GuardStops, FailCall
  <2>3. ready' \in [Roles -> BOOLEAN] /\ kept' \in [Roles -> Origin]
    BY <1>9, MarkReadyTypes DEF Succeed, StopAtLimit, GuardStops, FailCall
  <2>4. stop' \in Stops
    BY <1>9 DEF Succeed, StopAtLimit, GuardStops, FailCall, Failed
  <2> QED BY <2>1, <2>2, <2>3, <2>4, EndedTypes
<1>10. CASE TransientCall
  <2>1. ready' \in [Roles -> BOOLEAN] /\ kept' \in [Roles -> Origin]
    BY <1>10, MarkReadyTypes DEF TransientCall
  <2> QED BY <1>10, <2>1, NumbersAssumption DEF TransientCall
<1>11. CASE TransientAgain
  BY <1>11 DEF TransientAgain
<1> QED BY <1>1, <1>2, <1>3, <1>4, <1>5, <1>6, <1>7, <1>8, <1>9, <1>10, <1>11 DEF Run

\* The recovery.
LEMMA RecoverTypes == Types /\ Recover => Types'
<1> SUFFICES ASSUME Types, Recover PROVE Types'
  OBVIOUS
<1> USE DEF Types, ProviderType, files, call, clock, bounds, Stops
<1>1. CASE ProbeAtOnce
  BY <1>1, NumbersAssumption DEF ProbeAtOnce
<1>2. CASE \E jitter \in 0 .. Deadline, late \in Delays : Sleep(jitter, late)
  <2>1. PICK jitter \in 0 .. Deadline, late \in Delays : Sleep(jitter, late)
    BY <1>2
  <2>2. Schedule[sleeps + 1] \in Nat
    BY <2>1, NumbersAssumption DEF Sleep, CanWait
  <2>3. Least(Schedule[sleeps + 1] + jitter, Deadline - elapsed) + late \in Nat
    <3> DEFINE wait == Schedule[sleeps + 1]
    <3>1. wait \in Nat /\ jitter \in Nat /\ late \in Nat /\ Deadline \in Nat
      BY <2>2, NumbersAssumption
    <3>2. elapsed \in Nat /\ elapsed < Deadline
      BY <2>1 DEF Sleep, CanWait
    <3> HIDE DEF wait
    <3>3. wait + jitter \in Nat /\ Deadline - elapsed \in Nat
      BY <3>1, <3>2
    <3>4. Least(wait + jitter, Deadline - elapsed) \in Nat
      BY <3>3 DEF Least
    <3> QED BY <3>1, <3>4, Sums DEF wait
  <2>4. elapsed' \in 0 .. Deadline + 1
    BY <2>1, <2>3, AfterType DEF Sleep
  <2>5. sleeps' \in 0 .. Len(Schedule)
    BY <2>1, NumbersAssumption DEF Sleep, CanWait
  <2> QED BY <2>1, <2>4, <2>5 DEF Sleep, CanWait
<1>3. CASE GiveUp
  BY <1>3 DEF GiveUp
<1>4. CASE StopUnavailable
  BY <1>4, EndedTypes DEF StopUnavailable
<1>5. ASSUME NEW answer \in Probes, NEW d \in Delays, ProbeFails(answer, d) \/ ProbeSucceeds(answer, d)
      PROVE  Types'
  <2>1. After(d) \in 0 .. Deadline + 1
    BY AfterType, NumbersAssumption
  <2>2. probes' \in 0 .. MaxProbes
    BY <1>5, NumbersAssumption, SMTT(60) DEF ProbeFails, ProbeSucceeds
  <2>3. CASE ProbeFails(answer, d)
    BY <2>1, <2>2, <2>3 DEF ProbeFails
  <2>4. CASE ProbeSucceeds(answer, d)
    BY <2>1, <2>2, <2>4 DEF ProbeSucceeds
  <2> QED BY <1>5, <2>3, <2>4
<1>6. ASSUME NEW answer \in Probes, ProbeAtLimit(answer) \/ ProbeFatal(answer)
      PROVE  Types'
  <2>1. Ended /\ UNCHANGED <<version, role, sessions, origin, used, calls, tasks, task, policy, faults, ready, kept>>
    BY <1>6 DEF ProbeAtLimit, ProbeFatal
  <2>2. id' \in [Roles -> 0 .. used] /\ stop' \in Stops
    BY <1>6, RemoveUnreadyTypes DEF ProbeAtLimit, ProbeFatal, Failed
  <2> QED BY <2>1, <2>2, EndedTypes
<1> QED BY <1>1, <1>2, <1>3, <1>4, <1>5, <1>6 DEF Recover

LEMMA StepTypes == Types /\ [Next]_vars => Types'
<1> SUFFICES ASSUME Types, [Next]_vars PROVE Types'
  OBVIOUS
<1>1. CASE PrepareFails
  BY <1>1, EmptySeq, NumbersAssumption
     DEF PrepareFails, Types, ProviderType, files, call, clock, bounds, Outcomes, Signals, Stops
<1>2. CASE Crash
  <2>1. faults' \in 0 .. MaxFaults
    <3>1. faults \in 0 .. MaxFaults /\ faults < MaxFaults /\ faults' = faults + 1
      BY <1>2 DEF Crash, Types, ProviderType
    <3> QED BY <3>1, NumbersAssumption
  <2>3. stop' \in Stops
    BY <1>2 DEF Crash, Types, ProviderType, Stops
  <2> QED BY <1>2, <2>1, <2>3, EndedTypes DEF Crash, Types, ProviderType
<1>3. CASE UNCHANGED vars
  BY <1>3 DEF vars, Types, ProviderType, files, call, clock, bounds
<1> QED BY <1>1, <1>2, <1>3, UserTypes, RunTypes, RecoverTypes DEF Next

-----------------------------------------------------------------------------
(* Sessions. *)

LEMMA SessionsInit == Init => SessionInvariant
<1> SUFFICES ASSUME Init PROVE SessionInvariant
  OBVIOUS
<1>1. Types
  BY TypesInit
<1>2. Begun
  BY DEF Init, Begun, Nobody
<1> QED BY <1>1, <1>2 DEF Init, SessionInvariant, Removing, OwnFiles, Calling

\* A command that ends, with the files as they are or one unready id less.
LEMMA EndedKeepsSessions ==
    ASSUME SessionInvariant, Types', Ended, pc # "forget",
           UNCHANGED <<task, policy, version, ready, sessions, origin, kept>>,
           \A r \in Roles : id'[r] = id[r] \/ (id'[r] = 0 /\ ~ ready[r]),
           stop' \in {"limit", "unavailable"} => task # 0
    PROVE  SessionInvariant'
<1> USE DEF SessionInvariant
<1>1. Removing'
  BY DEF Removing, Ended
<1>2. OwnFiles'
  BY DEF OwnFiles
<1>3. Calling'
  BY DEF Calling, Ended
<1>4. Begun'
  BY DEF Begun, Ended
<1> QED BY <1>1, <1>2, <1>3, <1>4

\* A session that is marked ready is the task's own, at the CLI and on file.
LEMMA MarkedSession ==
    ASSUME SessionInvariant, Types', MarkReady, pc = "replied",
           reply.outcome = "ok" \/ reply.signal # "none",
           UNCHANGED <<task, id, policy, version, role, sessions, origin>>,
           pc' # "forget", pc' # "remove", pc' # "mark"
    PROVE  Removing' /\ OwnFiles' /\ Begun'
<1> USE DEF SessionInvariant
<1>1. policy = version /\ sid = id[role] /\ sid # 0 /\ sid \in sessions /\ role \in Roles /\ version \in Nat
  BY DEF Calling, Types, ProviderType
<1>2. /\ ready' = [ready EXCEPT ![role] = TRUE]
      /\ \A r \in Roles : kept'[r] = IF r = role THEN [id |-> sid, version |-> version] ELSE kept[r]
      /\ \A r \in Roles : ready'[r] = IF r = role THEN TRUE ELSE ready[r]
  BY DEF MarkReady, Types, ProviderType
<1>3. Removing'
  BY DEF Removing
<1>4. OwnFiles'
  BY <1>1, <1>2 DEF OwnFiles
<1>5. ASSUME NEW r \in Roles
      PROVE  /\ kept'[r].version <= version'
             /\ kept'[r].id # 0 /\ kept'[r].version = version' =>
                   policy' = version' /\ ready'[r] /\ id'[r] = kept'[r].id
  <2>1. CASE r = role
    <3>1. kept'[r].id = sid /\ kept'[r].version = version
      BY <1>2, <2>1
    <3>2. version <= version
      BY <1>1
    <3>3. ready'[r] /\ id'[r] = sid
      BY <1>1, <1>2, <2>1
    <3> QED BY <1>1, <3>1, <3>2, <3>3
  <2>2. CASE r # role
    <3>1. kept'[r] = kept[r] /\ ready'[r] = ready[r]
      BY <1>2, <2>2
    <3> QED BY <3>1 DEF Begun
  <2> QED BY <2>1, <2>2
<1>6. Begun'
  BY <1>5 DEF Begun
<1> QED BY <1>3, <1>4, <1>6

LEMMA UserKeepsSessions == SessionInvariant /\ Types' /\ User => SessionInvariant'
<1> SUFFICES ASSUME SessionInvariant, Types', User PROVE SessionInvariant'
  OBVIOUS
<1> USE DEF SessionInvariant, files, call, clock, bounds
<1>1. CASE NewTask
  <2>1. Removing'
    BY <1>1, SessionFileNames DEF NewTask, Removing, Pending
  <2>2. Begun'
    <3>1. \A r \in Roles : kept'[r].id = 0 /\ kept'[r].version = 0
      BY <1>1 DEF NewTask, Nobody
    <3>2. version' \in Nat
      BY <1>1, NumbersAssumption DEF NewTask, Types, ProviderType
    <3>3. 0 <= version'
      BY <3>2
    <3> QED BY <3>1, <3>3 DEF Begun
  <2> QED BY <1>1, <2>1, <2>2 DEF NewTask, OwnFiles, Calling
<1>2. CASE \E r \in Roles : StartCall(r)
  BY <1>2 DEF StartCall, Removing, OwnFiles, Calling, Begun
<1>3. CASE ResumeTask
  BY <1>3 DEF ResumeTask, Removing, OwnFiles, Calling, Begun
<1>4. CASE Update
  <2>1. version' = version + 1 /\ version \in Nat /\ policy \in Nat /\ policy # version'
    BY <1>4, NumbersAssumption DEF Update, OwnFiles, Types, ProviderType
  <2>2. OwnFiles'
    BY <1>4, <2>1 DEF Update, OwnFiles
  <2>3. \A r \in Roles : kept[r].version \in Nat /\ kept[r].version <= version
    BY DEF Begun, Types, ProviderType, Origin
  <2>4. Begun'
    BY <1>4, <2>1, <2>3 DEF Update, Begun
  <2> QED BY <1>4, <2>2, <2>4 DEF Update, Removing, Calling
<1> QED BY <1>1, <1>2, <1>3, <1>4 DEF User

\* The removal of one file leaves the others to remove or gone.
LEMMA RemoveKeepsSessions == SessionInvariant /\ Types' /\ Remove => SessionInvariant'
<1> SUFFICES ASSUME SessionInvariant, Types', Remove PROVE SessionInvariant'
  OBVIOUS
<1> USE DEF SessionInvariant
<1> DEFINE f == Head(removing)
<1>1. /\ removing # <<>> /\ removing \in Seq(FileNames) /\ removing' = Tail(removing)
      /\ id \in [Roles -> 0 .. used] /\ ready \in [Roles -> BOOLEAN]
  BY DEF Remove, Types, ProviderType
<1>2. /\ id' = IF f[1] = "id" THEN [id EXCEPT ![f[2]] = 0] ELSE id
      /\ ready' = IF f[1] = "ready" THEN [ready EXCEPT ![f[2]] = FALSE] ELSE ready
      /\ policy' = IF f[1] = "policy" THEN 0 ELSE policy
  BY DEF Remove
<1>3. ASSUME NEW g, Pending(g), g # f
      PROVE  Pending(g)'
  BY <1>1, <1>3, TailKeepsRest DEF Pending
<1> HIDE DEF f
<1>4. pc = "forget" \/ (pc = "remove" /\ policy # version)
  BY <1>1 DEF Remove, Removing
<1>5. ASSUME NEW r \in Roles
      PROVE  /\ id'[r] = 0 \/ Pending(<<"id", r>>)'
             /\ ~ ready'[r] \/ Pending(<<"ready", r>>)'
  <2>1. id[r] = 0 \/ Pending(<<"id", r>>)
    BY <1>4 DEF Removing
  <2>2. ~ ready[r] \/ Pending(<<"ready", r>>)
    BY <1>4 DEF Removing
  <2>3. id'[r] = IF f[1] = "id" /\ f[2] = r THEN 0 ELSE id[r]
    BY <1>1, <1>2
  <2>4. ready'[r] = IF f[1] = "ready" /\ f[2] = r THEN FALSE ELSE ready[r]
    BY <1>1, <1>2
  <2>5. f = <<"id", r>> => id'[r] = 0
    BY <2>3
  <2>6. f = <<"ready", r>> => ~ ready'[r]
    BY <2>4
  <2>7. id[r] = 0 => id'[r] = 0
    BY <2>3
  <2>8. ~ ready[r] => ~ ready'[r]
    BY <2>4
  <2> QED BY <1>3, <2>1, <2>2, <2>5, <2>6, <2>7, <2>8
<1>6. pc = "forget" => task = 0 /\ (policy' = 0 \/ Pending(<<"policy", Worker>>)')
  <2>1. f = <<"policy", Worker>> => policy' = 0
    BY <1>2
  <2>2. policy = 0 => policy' = 0
    BY <1>2
  <2> QED BY <1>3, <2>1, <2>2 DEF Removing
<1>7. pc = "remove" => task # 0 /\ policy # version
  BY <1>4 DEF Calling
<1>8. pc = "remove" => policy' # version
  <2>1. version # 0
    BY DEF Types, ProviderType
  <2> QED BY <1>2, <1>7, <2>1
<1>9. /\ pc' = pc /\ pc \in {"forget", "remove"}
      /\ UNCHANGED <<task, version, stop, role, recovery, sid, resume, reply, origin, sessions, kept>>
  BY DEF Remove
<1>10. Removing'
  BY <1>5, <1>6, <1>8, <1>9 DEF Removing
<1>11. OwnFiles'
  <2>1. task = 0 \/ policy' # version
    BY <1>6, <1>8, <1>9
  <2>2. policy' <= version
    <3>1. version \in Nat /\ policy <= version
      BY NumbersAssumption DEF OwnFiles, Types, ProviderType
    <3>2. 0 <= version
      BY <3>1
    <3> QED BY <1>2, <3>1, <3>2
  <2> QED BY <1>9, <2>1, <2>2 DEF OwnFiles
<1>12. Calling'
  <2>1. recovery # "call"
    BY <1>4, <1>9 DEF Calling
  <2> QED BY <1>9, <2>1 DEF Calling
<1>13. Begun'
  BY <1>4, <1>9 DEF Begun
<1> QED BY <1>10, <1>11, <1>12, <1>13

\* The program up to the CLI.
LEMMA PrepareKeepsSessions ==
    SessionInvariant /\ Types' /\ (ActivateTask \/ ResetSessionsForPolicy \/ KnownSession \/ NewSession \/ MarkPolicy)
      => SessionInvariant'
<1> SUFFICES ASSUME SessionInvariant, Types',
                    ActivateTask \/ ResetSessionsForPolicy \/ KnownSession \/ NewSession \/ MarkPolicy
             PROVE  SessionInvariant'
  OBVIOUS
<1> USE DEF SessionInvariant, files, call, clock, bounds
<1>0. removing = <<>> => \A g : ~ Pending(g)
  BY DEF Pending
<1>1. CASE ActivateTask
  <2>1. \A r \in Roles : id[r] = 0 /\ ~ ready[r]
    BY <1>0, <1>1 DEF ActivateTask, Removing
  <2>2. policy = 0 /\ version # 0
    BY <1>0, <1>1 DEF ActivateTask, Removing, Types, ProviderType
  <2>3. \A r \in Roles : kept[r].id = 0
    BY <1>1 DEF ActivateTask, Begun
  <2>4. stop \notin {"limit", "unavailable"}
    BY <1>1 DEF ActivateTask, Calling, Removing
  <2>5. recovery # "call"
    BY <1>1 DEF ActivateTask, Calling
  <2> QED BY <1>1, <2>1, <2>2, <2>3, <2>4, <2>5 DEF ActivateTask, Removing, OwnFiles, Calling, Begun
<1>2. CASE ResetSessionsForPolicy
  <2>1. Removing'
    BY <1>2, SessionFileNames DEF ResetSessionsForPolicy, Removing, Pending
  <2> QED BY <1>2, <2>1 DEF ResetSessionsForPolicy, OwnFiles, Calling, Begun
<1>3. CASE KnownSession
  <2>1. policy # version => \A r \in Roles : id[r] = 0 /\ ~ ready[r]
    BY <1>0, <1>3 DEF KnownSession, Removing
  <2>2. policy = version /\ task # 0 /\ role \in Roles
    BY <1>3, <2>1 DEF KnownSession, Calling, Types, ProviderType
  <2>3. origin[id[role]] = [task |-> task, version |-> version]
    BY <1>3, <2>2 DEF KnownSession, OwnFiles
  <2>4. Calling'
    BY <1>3, <2>2, <2>3 DEF KnownSession, Calling
  <2> QED BY <1>3, <2>4 DEF KnownSession, Removing, OwnFiles, Begun
<1>4. CASE NewSession
  <2>1. policy # version => \A r \in Roles : id[r] = 0 /\ ~ ready[r]
    BY <1>0, <1>4 DEF NewSession, Removing
  <2>2. task # 0 /\ role \in Roles /\ used' = used + 1 /\ used \in Nat
    BY <1>4 DEF NewSession, Calling, Types, ProviderType
  <2>3. /\ id \in [Roles -> 0 .. used]
        /\ \A r \in Roles : id'[r] = IF r = role THEN used' ELSE id[r]
    BY <1>4, <2>2 DEF NewSession, Types, ProviderType
  <2>4. /\ origin'[used'] = [task |-> task, version |-> version]
        /\ \A i \in 1 .. used : origin'[i] = origin[i]
    BY <1>4, <2>2 DEF NewSession, Types, ProviderType
  <2>5. ready[role] = FALSE
    BY <1>4, <2>1, <2>2 DEF NewSession, OwnFiles, Types, ProviderType
  <2>6. \A r \in Roles : id[r] # 0 => origin'[id[r]] = origin[id[r]]
    BY <2>2, <2>3, <2>4
  <2>7. OwnFiles'
    <3>1. UNCHANGED <<task, policy, version, ready, sessions>> /\ used' # 0
      BY <1>4, <2>2 DEF NewSession
    <3>2. ASSUME NEW r \in Roles, task # 0, policy = version
          PROVE  /\ id'[r] # 0 => origin'[id'[r]] = [task |-> task, version |-> version]
                 /\ ready[r] => id'[r] # 0 /\ id'[r] \in sessions
      <4>1. /\ id[r] # 0 => origin[id[r]] = [task |-> task, version |-> version]
            /\ ready[r] => id[r] # 0 /\ id[r] \in sessions
        BY <3>2 DEF OwnFiles
      <4>2. CASE r = role
        BY <2>3, <2>4, <2>5, <4>2
      <4>3. CASE r # role
        BY <2>3, <2>6, <4>1, <4>3
      <4> QED BY <4>2, <4>3
    <3>3. policy <= version
      BY DEF OwnFiles
    <3> QED BY <3>1, <3>2, <3>3 DEF OwnFiles
  <2>8. Calling'
    <3>1. recovery # "call"
      BY <1>4, <2>5 DEF NewSession, Calling
    <3>2. sid' = used' /\ used' # 0 /\ resume' = FALSE /\ id'[role] = used'
      BY <1>4, <2>2, <2>3 DEF NewSession
    <3>3. pc' = "mark" /\ UNCHANGED <<task, stop, role, policy, version, ready, recovery>>
      BY <1>4 DEF NewSession
    <3>4. policy # version => \A r \in Roles : ~ ready[r] /\ (r # role => id'[r] = 0)
      BY <2>1, <2>3
    <3> QED BY <2>2, <2>4, <2>5, <3>1, <3>2, <3>3, <3>4 DEF Calling
  <2>9. Begun'
    BY <1>4, <2>3, <2>5 DEF NewSession, Begun
  <2> QED BY <1>4, <2>7, <2>8, <2>9 DEF NewSession, Removing
<1>5. CASE MarkPolicy
  <2>1. task # 0 /\ role \in Roles /\ sid = id[role] /\ origin[sid] = [task |-> task, version |-> version]
    BY <1>5 DEF MarkPolicy, Calling, Types, ProviderType
  <2>2. version \in Nat /\ version <= version
    <3>1. version \in Nat
      BY NumbersAssumption DEF Types, ProviderType
    <3> QED BY <3>1
  <2>3. OwnFiles'
    BY <1>5, <2>1, <2>2 DEF MarkPolicy, OwnFiles, Calling
  <2>4. Begun'
    BY <1>5 DEF MarkPolicy, Begun
  <2> QED BY <1>5, <2>3, <2>4 DEF MarkPolicy, Removing, Calling
<1> QED BY <1>1, <1>2, <1>3, <1>4, <1>5

\* The answer of the CLI, and a call that does not reach it.
LEMMA AnswerKeepsSessions ==
    SessionInvariant /\ Types' /\ (PrepareFails \/ Refused \/ \E answer \in Replies, d \in Delays : Served(answer, d))
      => SessionInvariant'
<1> SUFFICES ASSUME SessionInvariant, Types',
                    PrepareFails \/ Refused \/ \E answer \in Replies, d \in Delays : Served(answer, d)
             PROVE  SessionInvariant'
  OBVIOUS
<1> USE DEF SessionInvariant, files, call, clock, bounds
<1>1. CASE PrepareFails
  <2>1. recovery = "call" => policy = version /\ ready[role] /\ sid = id[role] /\ task # 0
    BY <1>1 DEF PrepareFails, Calling
  <2>2. recovery = "call" => sid # 0 /\ sid \in sessions
    BY <2>1 DEF OwnFiles, Types, ProviderType
  <2>3. Calling'
    BY <1>1, <2>1, <2>2 DEF PrepareFails, Calling
  <2> QED BY <1>1, <2>3 DEF PrepareFails, Removing, OwnFiles, Begun
<1>2. CASE Refused
  BY <1>2 DEF Refused, Removing, OwnFiles, Calling, Begun
<1>3. CASE \E answer \in Replies, d \in Delays : Served(answer, d)
  <2>1. PICK answer \in Replies, d \in Delays : Served(answer, d)
    BY <1>3
  <2>2. /\ pc = "call" /\ pc' = "replied" /\ sessions' = sessions \cup {sid}
        /\ UNCHANGED <<task, id, ready, policy, stop, version, role, recovery, removing, sid, resume, origin, kept>>
    BY <2>1 DEF Served
  <2>3. OwnFiles'
    BY <2>2 DEF OwnFiles
  <2>4. Calling'
    BY <2>2 DEF Calling
  <2> QED BY <2>2, <2>3, <2>4 DEF Removing, Begun
<1> QED BY <1>1, <1>2, <1>3

\* What is made of the call.
LEMMA ReadKeepsSessions ==
    SessionInvariant /\ Types'
      /\ (Succeed \/ GuardStops \/ StopAtLimit \/ TransientCall \/ TransientAgain \/ FailCall)
      => SessionInvariant'
<1> SUFFICES ASSUME SessionInvariant, Types',
                    Succeed \/ GuardStops \/ StopAtLimit \/ TransientCall \/ TransientAgain \/ FailCall
             PROVE  SessionInvariant'
  OBVIOUS
<1> USE DEF SessionInvariant, files, call, clock, bounds
<1>1. CASE Succeed \/ StopAtLimit
  <2>1. Removing' /\ OwnFiles' /\ Begun'
    BY <1>1, MarkedSession DEF Succeed, StopAtLimit, Ended
  <2>2. task # 0
    BY <1>1 DEF Succeed, StopAtLimit, Calling
  <2>3. Calling'
    BY <1>1, <2>2 DEF Succeed, StopAtLimit, Ended, Calling
  <2> QED BY <2>1, <2>3
<1>2. CASE GuardStops
  BY <1>2, EndedKeepsSessions DEF GuardStops, Calling
<1>3. CASE TransientCall
  <2>1. Removing' /\ OwnFiles' /\ Begun'
    BY <1>3, MarkedSession DEF TransientCall
  <2>2. task # 0 /\ policy = version /\ sid = id[role] /\ role \in Roles
    BY <1>3 DEF TransientCall, Calling, Types, ProviderType
  <2>3. ready'[role]
    BY <1>3, <2>2 DEF TransientCall, MarkReady, Types, ProviderType
  <2>4. Calling'
    BY <1>3, <2>2, <2>3 DEF TransientCall, Calling
  <2> QED BY <2>1, <2>4
<1>4. CASE TransientAgain
  BY <1>4 DEF TransientAgain, Removing, OwnFiles, Calling, Begun
<1>5. CASE FailCall
  <2>1. \A r \in Roles : id'[r] = id[r] \/ (id'[r] = 0 /\ ~ ready[r])
    BY <1>5 DEF FailCall, RemoveUnreadySession, Types, ProviderType
  <2>2. task # 0
    BY <1>5 DEF FailCall, Calling
  <2> QED BY <1>5, <2>1, <2>2, EndedKeepsSessions DEF FailCall
<1> QED BY <1>1, <1>2, <1>3, <1>4, <1>5

\* Probes and waits leave the files alone, but a recovery that fails may forget an
\* unready session.
LEMMA RecoverKeepsSessions == SessionInvariant /\ Types' /\ Recover => SessionInvariant'
<1> SUFFICES ASSUME SessionInvariant, Types', Recover PROVE SessionInvariant'
  OBVIOUS
<1> USE DEF SessionInvariant, files, call, clock, bounds
<1>1. CASE ProbeAtOnce \/ GiveUp
  BY <1>1 DEF ProbeAtOnce, GiveUp, Removing, OwnFiles, Calling, Begun
<1>2. ASSUME NEW jitter \in 0 .. Deadline, NEW late \in Delays, Sleep(jitter, late)
      PROVE  SessionInvariant'
  <2>1. /\ pc = "wait" /\ pc' \in {"exhausted", "probe"}
        /\ UNCHANGED <<files, version, call, sessions, origin, kept>>
    BY <1>2 DEF Sleep
  <2> QED BY <2>1 DEF Removing, OwnFiles, Calling, Begun
<1>3. CASE StopUnavailable
  BY <1>3, EndedKeepsSessions DEF StopUnavailable, Calling
<1>4. ASSUME NEW answer \in Probes, NEW d \in Delays, ProbeFails(answer, d) \/ ProbeSucceeds(answer, d)
      PROVE  SessionInvariant'
  <2>1. CASE ProbeFails(answer, d)
    BY <2>1 DEF ProbeFails, Removing, OwnFiles, Calling, Begun
  <2>2. CASE ProbeSucceeds(answer, d)
    BY <2>2 DEF ProbeSucceeds, Removing, OwnFiles, Calling, Begun
  <2> QED BY <1>4, <2>1, <2>2
<1>5. ASSUME NEW answer \in Probes, ProbeAtLimit(answer) \/ ProbeFatal(answer)
      PROVE  SessionInvariant'
  <2>1. \A r \in Roles : id'[r] = id[r] \/ (id'[r] = 0 /\ ~ ready[r])
    BY <1>5 DEF ProbeAtLimit, ProbeFatal, RemoveUnreadySession, Types, ProviderType
  <2>2. /\ task # 0 /\ pc = "probe" /\ Ended
        /\ UNCHANGED <<task, policy, version, ready, sessions, origin, kept>>
    BY <1>5 DEF ProbeAtLimit, ProbeFatal, Calling
  <2> QED BY <2>1, <2>2, EndedKeepsSessions
<1> QED BY <1>1, <1>2, <1>3, <1>4, <1>5 DEF Recover

\* One step of users, of the program or of its death.
LEMMA StepKeepsSessions == SessionInvariant /\ [Next]_vars => SessionInvariant'
<1> SUFFICES ASSUME SessionInvariant, [Next]_vars PROVE SessionInvariant'
  OBVIOUS
<1>1. Types'
  BY StepTypes DEF SessionInvariant
<1>2. CASE User
  BY <1>1, <1>2, UserKeepsSessions
<1>3. CASE Run
  BY <1>1, <1>3, RemoveKeepsSessions, PrepareKeepsSessions, AnswerKeepsSessions, ReadKeepsSessions DEF Run
<1>4. CASE Recover
  BY <1>1, <1>4, RecoverKeepsSessions
<1>5. CASE PrepareFails
  BY <1>1, <1>5, AnswerKeepsSessions
<1>6. CASE Crash
  <2>1. CASE pc = "forget"
    <3>1. task = 0 /\ stop' \notin {"limit", "unavailable"}
      BY <1>6, <2>1 DEF Crash, SessionInvariant, Removing, Calling
    <3>2. \A r \in Roles : kept[r].id = 0
      BY <2>1 DEF SessionInvariant, Begun
    <3> QED BY <1>1, <1>6, <3>1, <3>2
            DEF Crash, Ended, SessionInvariant, Removing, OwnFiles, Calling, Begun
  <2>2. CASE pc # "forget"
    <3>1. task # 0
      BY <1>6, <2>2 DEF Crash, SessionInvariant, Calling
    <3> QED BY <1>1, <1>6, <2>2, <3>1, EndedKeepsSessions DEF Crash
  <2> QED BY <2>1, <2>2
<1>7. CASE UNCHANGED vars
  <2>1. UNCHANGED <<task, id, ready, policy, stop, version, pc, role, recovery, removing, sid, resume,
                    reply, sessions, origin, kept>>
    BY <1>7 DEF vars, files, call
  <2>2. Removing' /\ OwnFiles'
    BY <2>1 DEF SessionInvariant, Removing, Pending, OwnFiles
  <2>3. Calling' /\ Begun'
    BY <2>1 DEF SessionInvariant, Calling, Begun
  <2> QED BY <1>1, <2>2, <2>3 DEF SessionInvariant
<1> QED BY <1>2, <1>3, <1>4, <1>5, <1>6, <1>7 DEF Next

-----------------------------------------------------------------------------
(* Theorems. *)

\* The strengthened invariant holds: the files of the sessions, what the running
\* call knows and what the roles began fit together after every step.
THEOREM SessionInvariantHolds == Spec => []SessionInvariant
<1>1. Init => SessionInvariant
  BY SessionsInit
<1>2. SessionInvariant /\ [Next]_vars => SessionInvariant'
  BY StepKeepsSessions
<1> QED BY <1>1, <1>2, PTL DEF Spec

\* The types of the sessions, the call and the recovery: no more probes than the
\* bound and no more waits than the schedule, whatever the numbers are.
THEOREM ProviderTypeCorrect == Spec => []ProviderType
<1>1. SessionInvariant => ProviderType
  BY DEF SessionInvariant, Types
<1> QED BY <1>1, SessionInvariantHolds, PTL

\* Whatever dies, fails or is updated, the CLI is asked to resume only a session it
\* has, of this task and of the installed isolation policy.
THEOREM ResumesOwn == Spec => []ResumesOwnSession
<1>1. SessionInvariant => ResumesOwnSession
  <2> SUFFICES ASSUME SessionInvariant, pc = "call", resume
               PROVE  sid \in sessions /\ origin[sid] = [task |-> task, version |-> version]
    BY DEF ResumesOwnSession
  <2>1. task # 0 /\ policy = version /\ sid = id[role] /\ ready[role] /\ role \in Roles
    BY DEF SessionInvariant, Calling, Types, ProviderType
  <2> QED BY <2>1 DEF SessionInvariant, OwnFiles, Calling
<1> QED BY <1>1, SessionInvariantHolds, PTL

\* A role goes on with the session it began, through waits, stops and --resume,
\* until the isolation policy changes.
THEOREM SurvivesStop == Spec => []SessionSurvivesStop
<1>1. SessionInvariant => SessionSurvivesStop
  <2> SUFFICES ASSUME SessionInvariant, pc = "call", kept[role].id # 0, kept[role].version = version
               PROVE  resume /\ sid = kept[role].id
    BY DEF SessionSurvivesStop
  <2>1. role \in Roles /\ sid = id[role] /\ resume = ready[role]
    BY DEF SessionInvariant, Calling, Types, ProviderType
  <2> QED BY <2>1 DEF SessionInvariant, Begun
<1> QED BY <1>1, SessionInvariantHolds, PTL

-----------------------------------------------------------------------------
(* The numbers of the recovery. *)

\* Every wait but the one before a probe under way was followed by a probe.
Waited ==
    /\ pc \notin {"probe", "exhausted"} => sleeps <= probes
    /\ pc = "probe" => sleeps <= probes + 1
    /\ GivesUpOnlyExhausted

\* Where nothing is counted, at the end of a command or on the way of a call.
LEMMA UncountedKeepsWaited ==
    ASSUME Types, Waited, pc' \notin {"probe", "exhausted"},
           \/ probes' = 0 /\ sleeps' = 0
           \/ UNCHANGED <<probes, sleeps>> /\ pc \notin {"probe", "exhausted"}
    PROVE  Waited'
BY DEF Types, ProviderType, Waited, GivesUpOnlyExhausted

LEMMA StepKeepsWaited ==
    ASSUME MaxProbes <= Len(Schedule)
    PROVE  Types /\ Waited /\ [Next]_vars => Waited'
<1> SUFFICES ASSUME Types, Waited, [Next]_vars PROVE Waited'
  OBVIOUS
<1>0. /\ probes \in Nat /\ sleeps \in Nat /\ probes <= MaxProbes /\ elapsed \in Nat
      /\ MaxProbes \in Nat /\ Len(Schedule) \in Nat /\ Deadline \in Nat
  BY NumbersAssumption, LenProperties DEF Types, ProviderType
<1>1. CASE User
  <2>1. pc = "idle" /\ pc' \notin {"probe", "exhausted"}
    BY <1>1 DEF User, NewTask, StartCall, ResumeTask, Update
  <2>2. (probes' = 0 /\ sleeps' = 0) \/ UNCHANGED <<probes, sleeps>>
    BY <1>1 DEF User, NewTask, StartCall, ResumeTask, Update, clock
  <2> QED BY <2>1, <2>2, UncountedKeepsWaited
<1>2. CASE Run \/ PrepareFails
  <2>1. pc \notin {"probe", "exhausted"} /\ pc' \notin {"probe", "exhausted"}
    BY <1>2 DEF Run, PrepareFails, ActivateTask, ResetSessionsForPolicy, Remove, KnownSession, NewSession,
                MarkPolicy, Served, Refused, Succeed, GuardStops, StopAtLimit, TransientCall,
                TransientAgain, FailCall, Ended
  <2>2. (probes' = 0 /\ sleeps' = 0) \/ UNCHANGED <<probes, sleeps>>
    BY <1>2 DEF Run, PrepareFails, ActivateTask, ResetSessionsForPolicy, Remove, KnownSession, NewSession,
                MarkPolicy, Served, Refused, Succeed, GuardStops, StopAtLimit, TransientCall,
                TransientAgain, FailCall, Ended, clock
  <2> QED BY <2>1, <2>2, UncountedKeepsWaited
<1>3. CASE Crash \/ StopUnavailable \/ \E answer \in Probes : ProbeAtLimit(answer) \/ ProbeFatal(answer)
  BY <1>3, UncountedKeepsWaited DEF Crash, StopUnavailable, ProbeAtLimit, ProbeFatal, Ended
<1>4. CASE ProbeAtOnce
  BY <1>0, <1>4 DEF ProbeAtOnce, clock, Waited, GivesUpOnlyExhausted
<1>5. ASSUME NEW jitter \in 0 .. Deadline, NEW late \in Delays, Sleep(jitter, late)
      PROVE  Waited'
  <2>1. /\ pc = "wait" /\ sleeps' = sleeps + 1 /\ probes' = probes
        /\ pc' = IF elapsed' > Deadline THEN "exhausted" ELSE "probe"
    BY <1>5 DEF Sleep
  <2>2. sleeps' <= probes' + 1
    BY <1>0, <2>1 DEF Waited
  <2>3. elapsed' > Deadline => elapsed' >= Deadline
    <3>1. Types'
      BY StepTypes
    <3>2. elapsed' \in 0 .. Deadline + 1
      BY <3>1 DEF Types, ProviderType
    <3>3. elapsed' \in Nat
      BY <3>2
    <3> QED BY <1>0, <3>3
  <2> QED BY <2>1, <2>2, <2>3 DEF Waited, GivesUpOnlyExhausted
<1>6. CASE GiveUp
  <2>1. /\ pc = "wait" /\ pc' = "exhausted" /\ ~ CanWait
        /\ UNCHANGED <<probes, sleeps, elapsed>>
    BY <1>6 DEF GiveUp, clock
  <2>2. sleeps <= probes
    BY <2>1 DEF Waited
  <2>3. probes = MaxProbes \/ elapsed >= Deadline
    BY <1>0, <2>1, <2>2 DEF CanWait
  <2> QED BY <2>1, <2>3 DEF Waited, GivesUpOnlyExhausted
<1>7. ASSUME NEW answer \in Probes, NEW d \in Delays, ProbeFails(answer, d) \/ ProbeSucceeds(answer, d)
      PROVE  Waited'
  <2>1. /\ pc = "probe" /\ pc' \in {"wait", "reset"} /\ probes' = probes + 1 /\ sleeps' = sleeps
    BY <1>7 DEF ProbeFails, ProbeSucceeds
  <2>2. sleeps' <= probes'
    BY <2>1 DEF Waited
  <2> QED BY <2>1, <2>2 DEF Waited, GivesUpOnlyExhausted
<1>8. CASE UNCHANGED vars
  BY <1>8 DEF vars, clock, Waited, GivesUpOnlyExhausted
<1> QED BY <1>1, <1>2, <1>3, <1>4, <1>5, <1>6, <1>7, <1>8 DEF Next, Recover

\* A recovery gives up only when its probes or its time are over, for every
\* schedule that has a wait for each probe, as transientBackoffSchedule has.
THEOREM GiveUpIsExhaustion ==
    ASSUME MaxProbes <= Len(Schedule)
    PROVE  Spec => []GivesUpOnlyExhausted
<1>1. Init => Waited
  BY DEF Init, Waited, GivesUpOnlyExhausted
<1>2. Types /\ Waited /\ [Next]_vars => Waited'
  BY StepKeepsWaited
<1>3. SessionInvariant => Types
  BY DEF SessionInvariant
<1>4. Waited => GivesUpOnlyExhausted
  BY DEF Waited
<1> QED BY <1>1, <1>2, <1>3, <1>4, SessionInvariantHolds, PTL DEF Spec
=============================================================================
