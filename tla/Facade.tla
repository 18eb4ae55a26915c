------------------------------- MODULE Facade -------------------------------
(***************************************************************************)
(* The single-owner actor of crates/misty/src/facade.rs: one task owns the *)
(* vault and the sync engine, every call is a command on a channel, and    *)
(* the auto-lock is an absolute deadline that the task checks on a wake.   *)
(*                                                                         *)
(* A synchronous command runs in one step, at one reading of the host      *)
(* clock. A sync is a future that is polled beside the channel and can be  *)
(* dropped; a revocation and an approval are awaited inline.               *)
(***************************************************************************)
EXTENDS Naturals, Sequences, FiniteSets

CONSTANTS
  Operations,   \* the commands the consumers of this instance send
  Timeout,      \* timeout_ms
  Horizon,      \* i64::MAX of the host clock, and the bound of the model on it
  MaxCalls,     \* bound of the model: calls the consumers make
  NoAnswer

\* Reads and mutators: do_list, do_add, ... Each needs the open vault.
VaultCommands == {"vault"}
\* Commands that are awaited inline, with nothing read from the channel.
InlineCommands == {"revoke", "approve"}
\* LifecycleEvent: Backgrounded, ScreenLocked and WillSleep are "background".
LockCommands == {"lock", "background"}

\* Mutant of Preempting: a lifecycle event waits behind the sync.
PreemptingOnlyLock == {"lock"}
Preempting == {"lock", "background"}

ASSUME FacadeAssumption ==
  /\ Operations \subseteq
       {"unlock", "bad_key", "status", "poll", "activity", "sync", "shutdown"}
         \cup VaultCommands \cup InlineCommands \cup LockCommands
  /\ Timeout \in Nat /\ Horizon \in Nat /\ MaxCalls \in Nat
  /\ NoAnswer \notin {"ok", "refused", "locked", "internal", "is_locked", "is_unlocked", "stopped"}

VARIABLES
  now,        \* HostClock::now_ms
  lifecycle,  \* Lifecycle
  last_now,   \* Core::last_now_ms
  calls,      \* calls[n]: the n-th command sent
  channel,    \* sequence of the commands in the channel, by number
  deferred,   \* commands received while a sync was in flight
  task,       \* what the task is awaiting
  answers,    \* answers[n]: what the n-th caller was told
  connected,  \* some Facade handle is alive
  pending,    \* an enrollment request waits at the server
  opened      \* history: the last thing the callers were told of the lock

vars == <<now, lifecycle, last_now, calls, channel, deferred, task, answers,
          connected, pending, opened>>
clocks == <<now, last_now>>
callers == <<calls, connected>>

Locked == [kind |-> "locked", deadline |-> 0]
Poisoned == [kind |-> "poisoned", deadline |-> 0]

Saturated(t) == IF t > Horizon THEN Horizon ELSE t
Unlocked == [kind |-> "unlocked", deadline |-> Saturated(now + Timeout)]
IsOpen(l) == l.kind = "unlocked"

Relocked(l) == IF IsOpen(l) THEN Locked ELSE l
Extended(l) == IF IsOpen(l) THEN Unlocked ELSE l

\* Mutant of Checked: a clock that ran backwards is not noticed.
CheckedForward == IF now >= lifecycle.deadline THEN Relocked(lifecycle) ELSE lifecycle
\* A clock that ran backwards is fail-closed, not clamped.
Checked == IF now < last_now \/ now >= lifecycle.deadline THEN Relocked(lifecycle)
           ELSE lifecycle

Idle == [kind |-> "idle", call |-> 0]
Stopped == [kind |-> "stopped", call |-> 0]
Awaiting(kind, n) == [kind |-> kind, call |-> n]

Outcomes == {"ok", "refused", "locked", "internal", "is_locked", "is_unlocked", "stopped"}
LockState(l) == IF IsOpen(l) THEN "is_unlocked" ELSE "is_locked"

\* What an answer to command op says about the lock.
Told(op, answer) ==
  CASE op \in {"unlock", "bad_key"} /\ answer = "ok" -> TRUE
    [] op = "lock" /\ answer = "ok" -> FALSE
    [] answer \in {"is_locked", "locked"} -> FALSE
    [] OTHER -> opened

Init ==
  /\ now \in 0 .. Horizon /\ last_now = now
  /\ lifecycle = Locked
  /\ calls = <<>> /\ channel = <<>> /\ deferred = <<>> /\ answers = <<>>
  /\ task = Idle /\ connected = TRUE /\ pending = TRUE /\ opened = FALSE

-----------------------------------------------------------------------------
\* The consumers and their clock.

Call(op) ==
  /\ connected /\ task # Stopped /\ Len(calls) < MaxCalls
  /\ calls' = Append(calls, op)
  /\ answers' = Append(answers, NoAnswer)
  /\ channel' = Append(channel, Len(calls'))
  /\ UNCHANGED <<clocks, lifecycle, deferred, task, connected, pending, opened>>

DropHandle ==
  /\ connected /\ connected' = FALSE
  /\ UNCHANGED <<clocks, lifecycle, calls, channel, deferred, task, answers, pending, opened>>

Clock ==
  /\ task # Stopped
  /\ now' \in (0 .. Horizon) \ {now}
  /\ UNCHANGED <<last_now, lifecycle, callers, channel, deferred, task, answers, pending, opened>>

-----------------------------------------------------------------------------
\* Core::run: the deferred commands come before the channel.

\* Mutant of Queue: the deferred commands wait for the channel's next.
QueueOnArrival == IF channel = <<>> THEN <<>> ELSE deferred \o channel
Queue == deferred \o channel
Command == calls[Head(Queue)]
Pop ==
  IF deferred # <<>> THEN deferred' = Tail(deferred) /\ UNCHANGED channel
                     ELSE channel' = Tail(channel) /\ UNCHANGED deferred

\* The wake: the deadline is checked before the command runs.
Wake(ops) ==
  /\ task = Idle /\ Queue # <<>> /\ Command \in ops
  /\ last_now' = now /\ UNCHANGED now
  /\ Pop /\ UNCHANGED callers

Answer(n, answer) ==
  /\ answers' = [answers EXCEPT ![n] = answer]
  /\ opened' = Told(calls[n], answer)

\* Vault::open failed: the store was cloned into it, so the lifecycle is as it was.
OpenRefused(l) == l

Unlock ==
  /\ Wake({"unlock", "bad_key"})
  /\ \/ /\ IsOpen(Checked)
        /\ lifecycle' = Extended(Checked) /\ Answer(Head(Queue), "ok")
     \/ /\ Checked = Poisoned \/ (Checked = Locked /\ Command = "bad_key")
        /\ lifecycle' = Checked /\ Answer(Head(Queue), "internal")
     \/ /\ Checked = Locked /\ Command = "unlock"
        /\ \/ lifecycle' = OpenRefused(Checked) /\ Answer(Head(Queue), "refused")
           \/ lifecycle' = Unlocked /\ Answer(Head(Queue), "ok")
  /\ UNCHANGED <<task, pending>>

\* Mutant of Lock: the command only wakes the task.
LockOnlyWakes ==
  /\ Wake({"lock"})
  /\ lifecycle' = Checked
  /\ Answer(Head(Queue), "ok")
  /\ UNCHANGED <<task, pending>>

Lock ==
  /\ Wake({"lock"})
  /\ lifecycle' = Relocked(Checked)
  /\ Answer(Head(Queue), "ok")
  /\ UNCHANGED <<task, pending>>

Status ==
  /\ Wake({"status", "poll"})
  /\ lifecycle' = Checked
  /\ Answer(Head(Queue), LockState(lifecycle'))
  /\ UNCHANGED <<task, pending>>

ReportLifecycle ==
  /\ Wake({"background", "activity"})
  /\ lifecycle' = IF Command = "background" THEN Relocked(Checked) ELSE Extended(Checked)
  /\ Answer(Head(Queue), LockState(lifecycle'))
  /\ UNCHANGED <<task, pending>>

\* do_list, do_get, ... do_merge_duplicate. A malformed id or input is refused
\* before the lock is looked at; a refusal of the vault does not extend.
VaultCommand ==
  /\ Wake(VaultCommands)
  /\ \/ lifecycle' = Checked /\ Answer(Head(Queue), "refused")
     \/ ~IsOpen(Checked) /\ lifecycle' = Checked /\ Answer(Head(Queue), "locked")
     \/ IsOpen(Checked) /\ lifecycle' = Extended(Checked) /\ Answer(Head(Queue), "ok")
  /\ UNCHANGED <<task, pending>>

\* The task ends: the receiver and the deferred commands are dropped, and with
\* them the reply of every caller that still waits.
Stop(l, n, answer) ==
  /\ lifecycle' = l
  /\ task' = Stopped /\ channel' = <<>> /\ deferred' = <<>>
  /\ answers' = [k \in DOMAIN answers |->
       IF k = n THEN answer ELSE IF answers[k] = NoAnswer THEN "stopped" ELSE answers[k]]
  /\ UNCHANGED <<callers, pending, opened>>

Shutdown ==
  /\ task = Idle /\ Queue # <<>> /\ Command = "shutdown"
  /\ last_now' = now /\ UNCHANGED now
  /\ Stop(Checked, Head(Queue), "ok")

Disconnected ==
  /\ task = Idle /\ Queue = <<>> /\ ~connected
  /\ UNCHANGED clocks
  /\ Stop(lifecycle, 0, NoAnswer)

-----------------------------------------------------------------------------
\* drive_sync: select! over the sync and the channel.

StartSync ==
  /\ Wake({"sync"})
  /\ lifecycle' = Checked
  /\ \/ IsOpen(Checked) /\ task' = Awaiting("sync", Head(Queue)) /\ UNCHANGED <<answers, opened>>
     \/ ~IsOpen(Checked) /\ UNCHANGED task /\ Answer(Head(Queue), "locked")
  /\ UNCHANGED pending

SyncDone ==
  /\ task.kind = "sync"
  /\ \E answer \in {"ok", "refused"} : Answer(task.call, answer)
  /\ lifecycle' = Extended(lifecycle)
  /\ task' = Idle
  /\ UNCHANGED <<clocks, callers, channel, deferred, pending>>

\* A command that arrives while the sync is in flight.
Receive(ops) ==
  /\ task.kind = "sync" /\ channel # <<>> /\ calls[Head(channel)] \in ops
  /\ UNCHANGED <<clocks, callers, pending>>

Crossed == now >= lifecycle.deadline

\* Mutant of Deferring: the deferred commands are a stack.
DeferringFirst(n) == <<n>> \o deferred
Deferring(n) == Append(deferred, n)

SyncDefers ==
  /\ Receive(Operations \ ({"shutdown", "status", "poll"} \cup Preempting))
  /\ deferred' = Deferring(Head(channel))
  /\ channel' = Tail(channel)
  /\ UNCHANGED <<lifecycle, task, answers, opened>>

\* Answered without a look at the lifecycle; a status not even at the clock.
SyncAnswers ==
  /\ \/ Receive({"status"})
     \/ Receive({"poll"}) /\ ~Crossed
  /\ Answer(Head(channel), "is_unlocked")
  /\ channel' = Tail(channel)
  /\ UNCHANGED <<lifecycle, deferred, task>>

\* The future is dropped, and its caller told so, before the command runs.
SyncPreempted ==
  /\ \/ Receive(Preempting)
     \/ Receive({"poll"}) /\ Crossed
  /\ lifecycle' = Relocked(lifecycle)
  /\ answers' = [answers EXCEPT ![task.call] = "locked",
       ![Head(channel)] = IF calls[Head(channel)] = "lock" THEN "ok" ELSE LockState(lifecycle')]
  /\ opened' = FALSE
  /\ channel' = Tail(channel) /\ task' = Idle
  /\ UNCHANGED deferred

SyncShutdown ==
  /\ Receive({"shutdown"})
  /\ lifecycle' = Relocked(lifecycle)
  /\ task' = Stopped /\ channel' = <<>> /\ deferred' = <<>>
  /\ answers' = [k \in DOMAIN answers |->
       IF k = task.call THEN "locked" ELSE IF k = Head(channel) THEN "ok"
       ELSE IF answers[k] = NoAnswer THEN "stopped" ELSE answers[k]]
  /\ opened' = FALSE

SyncDisconnected ==
  /\ task.kind = "sync" /\ channel = <<>> /\ ~connected
  /\ UNCHANGED clocks
  /\ Stop(lifecycle, task.call, "internal")

-----------------------------------------------------------------------------
\* do_revoke_device and do_approve_enrollment.

StartRevoke ==
  /\ Wake({"revoke"})
  /\ lifecycle' = Checked
  /\ \/ UNCHANGED task /\ Answer(Head(Queue), "refused")
     \/ ~IsOpen(Checked) /\ UNCHANGED task /\ Answer(Head(Queue), "locked")
     \/ IsOpen(Checked) /\ task' = Awaiting("publish", Head(Queue)) /\ UNCHANGED <<answers, opened>>
  /\ UNCHANGED pending

\* The request is fetched, and with that taken, before the lock is looked at.
StartApprove ==
  /\ Wake({"approve"})
  /\ lifecycle' = Checked
  /\ \/ UNCHANGED task /\ Answer(Head(Queue), "refused")
     \/ task' = Awaiting("fetch", Head(Queue)) /\ UNCHANGED <<answers, opened>>
  /\ UNCHANGED pending

Resume == UNCHANGED <<clocks, callers, channel, deferred>>

FetchRequest ==
  /\ task.kind = "fetch" /\ Resume /\ UNCHANGED lifecycle
  /\ \/ task' = Idle /\ Answer(task.call, "refused") /\ UNCHANGED pending
     \/ /\ pending /\ pending' = FALSE
        /\ \/ /\ IsOpen(lifecycle) /\ task' = Awaiting("publish", task.call)
              /\ UNCHANGED <<answers, opened>>
           \/ /\ ~IsOpen(lifecycle) /\ task' = Idle /\ Answer(task.call, "locked")

\* The engine failed or the roster was superseded: nothing is extended.
PublishFails ==
  /\ task.kind = "publish" /\ Resume
  /\ \E answer \in {"refused", "internal"} : Answer(task.call, answer)
  /\ task' = Idle /\ UNCHANGED <<lifecycle, pending>>

\* The successor roster is published; reopen_under takes the vault apart and
\* opens it again. When that fails, the placeholder stays.
Published ==
  /\ task.kind = "publish" /\ Resume
  /\ \/ lifecycle' = Unlocked /\ Answer(task.call, "ok")
     \/ lifecycle' = Poisoned /\ Answer(task.call, "refused")
  /\ task' = Idle /\ UNCHANGED pending

-----------------------------------------------------------------------------
Commands == Unlock \/ Lock \/ Status \/ ReportLifecycle \/ VaultCommand \/ Shutdown
              \/ Disconnected \/ StartSync \/ StartRevoke \/ StartApprove
Selects == SyncDefers \/ SyncAnswers \/ SyncPreempted \/ SyncShutdown \/ SyncDisconnected
Inline == FetchRequest \/ PublishFails \/ Published

Next == (\E op \in Operations : Call(op)) \/ DropHandle \/ Clock
          \/ Commands \/ Selects \/ SyncDone \/ Inline

\* The executor polls a task that can run, and a request that is awaited inline
\* ends: the transports bound it. Nothing is assumed of the end of a sync.
Spec == Init /\ [][Next]_vars /\ WF_vars(Commands) /\ WF_vars(Selects) /\ WF_vars(Inline)

-----------------------------------------------------------------------------
Ids == 1 .. Len(calls)
InQueue(n) == \E k \in DOMAIN (deferred \o channel) : (deferred \o channel)[k] = n

\* Every command is in one place: queued, awaited, or answered, and only an
\* answered one has an answer.
FacadeTypeOK ==
  /\ now \in 0 .. Horizon /\ last_now \in 0 .. Horizon
  /\ lifecycle \in {Locked, Poisoned} \cup [kind : {"unlocked"}, deadline : 0 .. Horizon]
  /\ calls \in Seq(Operations) /\ answers \in Seq(Outcomes \cup {NoAnswer})
  /\ Len(answers) = Len(calls)
  /\ task \in [kind : {"idle", "stopped", "sync", "fetch", "publish"}, call : 0 .. Len(calls)]
  /\ connected \in BOOLEAN /\ pending \in BOOLEAN /\ opened \in BOOLEAN
  /\ \A n \in Ids : (answers[n] = NoAnswer) <=> (InQueue(n) \/ task.call = n)

\* Reads and mutators are answered in the order they were sent, whatever a sync
\* in flight deferred (facade.rs:533: deferred commands run first), and none of
\* the commands is lost or answered twice on the way.
VaultCommandsInOrder ==
  /\ FacadeTypeOK
  /\ \A m, n \in Ids : (m < n /\ {calls[m], calls[n]} \subseteq VaultCommands)
                         => (answers[n] # NoAnswer => answers[m] # NoAnswer)

\* No call is served once the callers were told the vault is locked, until an
\* unlock succeeds: not one that a dropped sync had deferred, nor a sync.
ServedOnlyWhenOpened ==
  [][\A n \in Ids : (/\ answers[n] = NoAnswer /\ answers'[n] = "ok"
                     /\ calls[n] \in VaultCommands \cup InlineCommands \cup {"sync"}) => opened]_vars

\* A deadline that has passed is moved by no command that is dispatched but an
\* unlock, which opens the vault again; only the end of an operation that was in
\* flight extends it late.
ExtendedInTime ==
  [][(/\ IsOpen(lifecycle) /\ IsOpen(lifecycle') /\ task = Idle /\ Queue # <<>> /\ Command # "unlock"
      /\ lifecycle'.deadline # lifecycle.deadline) => now < lifecycle.deadline /\ now >= last_now]_vars

\* A poll that is answered unlocked was answered before the deadline, during a
\* sync too (facade.rs:870).
PollSeesDeadline ==
  [][\A n \in Ids : (answers[n] = NoAnswer /\ answers'[n] = "is_unlocked" /\ calls[n] = "poll")
                      => now < lifecycle.deadline]_vars

\* The deadline of auto-lock is honoured where the code looks at it (check_deadline, and the poll
\* of drive_sync): a dispatched command but an unlock does not move one that has passed, and no poll
\* is answered unlocked past it. A status that a sync answers, and the end of a sync, an approval or
\* a revocation, do not look at it.
DispatchHonoursDeadline == ExtendedInTime /\ PollSeesDeadline

\* Once the deadline has passed, a sync in flight neither extends it nor lets a caller be told that
\* the vault is open ("so a sync can never extend the unlocked window past the deadline", SPEC
\* 11.4.2). drive_sync does both: its LockStatus does not look, and Out::Done extends the deadline.
SyncKeepsDeadline ==
  [][(task.kind = "sync" /\ IsOpen(lifecycle) /\ now >= lifecycle.deadline) =>
       /\ IsOpen(lifecycle') => lifecycle'.deadline = lifecycle.deadline
       /\ \A n \in Ids : answers[n] = NoAnswer => answers'[n] # "is_unlocked"]_vars

\* A lock that is sent while a sync is in flight is answered, although the sync
\* may never end: it preempts it, as SPEC 11.4.2 says and although the head of
\* facade.rs still says that it "is processed after that sync returns".
LockPreemptsSync ==
  \A n \in 1 .. MaxCalls :
    (n \in Ids /\ calls[n] \in LockCommands /\ InQueue(n) /\ task.kind = "sync")
      ~> (n \in Ids /\ answers[n] # NoAnswer)

\* When syncs end, every call is answered, if only with the task's end.
EveryCallIsAnswered ==
  WF_vars(SyncDone) =>
    \A n \in 1 .. MaxCalls : (n \in Ids) ~> (n \in Ids /\ answers[n] # NoAnswer)

-----------------------------------------------------------------------------
(***************************************************************************)
(* The inductive invariant behind the safety properties. The deferred      *)
(* commands and the channel are one rising sequence of the unanswered      *)
(* calls; and whoever may still be served was told the vault is open.      *)
(***************************************************************************)
Members(s) == {s[i] : i \in 1 .. Len(s)}
Rising(s) == \A i, j \in 1 .. Len(s) : i < j => s[i] < s[j]

FacadeTypes ==
  /\ now \in 0 .. Horizon /\ last_now \in 0 .. Horizon
  /\ lifecycle \in {Locked, Poisoned} \cup [kind : {"unlocked"}, deadline : 0 .. Horizon]
  /\ calls \in Seq(Operations) /\ answers \in Seq(Outcomes \cup {NoAnswer}) /\ Len(answers) = Len(calls)
  /\ channel \in Seq(Ids) /\ deferred \in Seq(Ids)
  /\ task \in {Idle, Stopped} \cup [kind : {"sync", "fetch", "publish"}, call : Ids]
  /\ connected \in BOOLEAN /\ pending \in BOOLEAN /\ opened \in BOOLEAN

QueueRises ==
  /\ Rising(deferred) /\ Rising(channel)
  /\ \A m \in Members(deferred), n \in Members(channel) : m < n

\* A call has no answer while it is queued or awaited; no read and no mutator is awaited.
Awaited == InlineCommands \cup {"sync"}
Waiting == Members(deferred) \cup Members(channel)
CallsWait ==
  /\ \A n \in Ids : answers[n] = NoAnswer <=> n \in Waiting \/ task.call = n
  /\ task.call \notin Waiting
  /\ task.call \in Ids => calls[task.call] \in Awaited

AnsweredInOrder ==
  \A m, n \in Ids : (m < n /\ {calls[m], calls[n]} \subseteq VaultCommands)
                      => (answers[n] # NoAnswer => answers[m] # NoAnswer)

OpenedIsTold == IsOpen(lifecycle) \/ task.kind \in {"sync", "publish"} => opened

FacadeInv == FacadeTypes /\ QueueRises /\ CallsWait /\ AnsweredInOrder /\ OpenedIsTold
=============================================================================
