---------------------------- MODULE FacadeProofs ----------------------------
(***************************************************************************)
(* The actor of the facade, proved for every set of commands, every number *)
(* of calls and every run of the host clock: the calls are answered in     *)
(* order, none is served past a lock, and the deadline is honoured. The    *)
(* inductive invariant is FacadeInv of Facade.tla.                         *)
(***************************************************************************)
EXTENDS Facade, SequenceTheorems, TLAPS

(***************************************************************************)
(* Rising sequences, by their members.                                     *)
(***************************************************************************)
LEMMA EmptyMembers == Members(<<>>) = {} /\ Rising(<<>>)
  BY DEF Members, Rising

LEMMA TailMembers ==
  ASSUME NEW S, S \subseteq Nat, NEW s \in Seq(S), s # <<>>, Rising(s)
  PROVE  /\ Head(s) \in Members(s) /\ Head(s) \in S /\ \A n \in Members(s) : Head(s) <= n
         /\ Members(Tail(s)) = Members(s) \ {Head(s)} /\ Tail(s) \in Seq(S) /\ Rising(Tail(s))
<1>1. /\ Head(s) \in S /\ Tail(s) \in Seq(S) /\ Len(Tail(s)) = Len(s) - 1
      /\ \A i \in 1 .. Len(Tail(s)) : Tail(s)[i] = s[i + 1]
  BY HeadTailProperties
<1>2. Len(s) \in Nat \ {0} /\ Head(s) = s[1] /\ \A i \in 1 .. Len(s) : s[i] \in Nat
  <2>1. \A i \in 1 .. Len(s) : s[i] \in S
    BY ElementOfSeq
  <2>2. Len(s) \in Nat \ {0}
    BY EmptySeq, LenProperties
  <2>3. Head(s) = s[1]
    OBVIOUS
  <2>4. \A i \in 1 .. Len(s) : s[i] \in Nat
    BY <2>1
  <2>. QED
    BY <2>2, <2>3, <2>4
<1>3. \A i \in 2 .. Len(s) : s[1] < s[i]
  BY <1>2 DEF Rising
<1>4. Head(s) \in Members(s) /\ \A n \in Members(s) : Head(s) <= n
  <2>1. ASSUME NEW i \in 1 .. Len(s) PROVE s[1] <= s[i]
    <3>1. s[1] \in Nat /\ s[i] \in Nat /\ (i = 1 \/ i \in 2 .. Len(s))
      BY <1>2
    <3>. QED
      BY <1>3, <3>1
  <2>. QED
    BY <1>2, <2>1 DEF Members
<1>5. Members(Tail(s)) = Members(s) \ {Head(s)}
  <2>1. ASSUME NEW n \in Members(Tail(s)) PROVE n \in Members(s) \ {Head(s)}
    <3>1. PICK i \in 1 .. Len(Tail(s)) : n = Tail(s)[i]
      BY <2>1 DEF Members
    <3>2. i + 1 \in 2 .. Len(s) /\ i + 1 \in 1 .. Len(s) /\ n = s[i + 1]
      BY <1>1, <1>2, <3>1
    <3>3. s[1] < s[i + 1] /\ s[1] \in Nat
      BY <1>2, <1>3, <3>2
    <3>. QED
      BY <1>2, <3>2, <3>3 DEF Members
  <2>2. ASSUME NEW n \in Members(s) \ {Head(s)} PROVE n \in Members(Tail(s))
    <3>1. PICK i \in 1 .. Len(s) : n = s[i]
      BY <2>2 DEF Members
    <3>2. i # 1
      BY <1>2, <2>2, <3>1
    <3>3. i - 1 \in 1 .. Len(Tail(s)) /\ Tail(s)[i - 1] = s[i]
      <4>1. i - 1 \in 1 .. Len(Tail(s)) /\ (i - 1) + 1 = i
        BY <1>1, <1>2, <3>2
      <4>. QED
        BY <1>1, <4>1
    <3>. QED
      BY <3>1, <3>3 DEF Members
  <2>. QED
    BY <2>1, <2>2
<1>6. Rising(Tail(s))
  <2>1. SUFFICES ASSUME NEW i \in 1 .. Len(Tail(s)), NEW j \in 1 .. Len(Tail(s)), i < j
                 PROVE  Tail(s)[i] < Tail(s)[j]
    BY DEF Rising
  <2>2. i + 1 \in 1 .. Len(s) /\ j + 1 \in 1 .. Len(s) /\ i + 1 < j + 1
    BY <1>1, <1>2, <2>1
  <2>. QED
    BY <1>1, <2>2 DEF Rising
<1>. QED
  BY <1>1, <1>4, <1>5, <1>6

LEMMA AppendMembers ==
  ASSUME NEW S, S \subseteq Nat, NEW s \in Seq(S), Rising(s), NEW n \in S, \A m \in Members(s) : m < n
  PROVE  Members(Append(s, n)) = Members(s) \cup {n} /\ Append(s, n) \in Seq(S) /\ Rising(Append(s, n))
<1>1. /\ Append(s, n) \in Seq(S) /\ Len(Append(s, n)) = Len(s) + 1 /\ Len(s) \in Nat
      /\ \A i \in 1 .. Len(s) : Append(s, n)[i] = s[i]
      /\ Append(s, n)[Len(s) + 1] = n
  BY AppendProperties, LenProperties
<1>2. \A i \in 1 .. Len(s) + 1 : i \in 1 .. Len(s) \/ i = Len(s) + 1
  BY <1>1
<1>3. Members(Append(s, n)) = Members(s) \cup {n}
  BY <1>1, <1>2 DEF Members
<1>4. Rising(Append(s, n))
  <2>1. SUFFICES ASSUME NEW i \in 1 .. Len(s) + 1, NEW j \in 1 .. Len(s) + 1, i < j
                 PROVE  Append(s, n)[i] < Append(s, n)[j]
    BY <1>1 DEF Rising
  <2>2. i \in 1 .. Len(s)
    BY <1>1, <2>1
  <2>3. CASE j = Len(s) + 1
    BY <1>1, <2>2, <2>3 DEF Members
  <2>4. CASE j \in 1 .. Len(s)
    BY <1>1, <2>1, <2>2, <2>4 DEF Rising
  <2>. QED
    BY <1>2, <2>3, <2>4
<1>. QED
  BY <1>1, <1>3, <1>4

-----------------------------------------------------------------------------
(***************************************************************************)
(* The parts of the state.                                                 *)
(***************************************************************************)
Life == {Locked, Poisoned} \cup [kind : {"unlocked"}, deadline : 0 .. Horizon]

LEMMA LifeIs ==
  ASSUME FacadeTypes
  PROVE  /\ lifecycle \in Life /\ Checked \in Life /\ Unlocked \in Life /\ IsOpen(Unlocked)
         /\ \A l \in Life : /\ Relocked(l) \in Life /\ ~IsOpen(Relocked(l))
                            /\ Extended(l) \in Life /\ (IsOpen(Extended(l)) <=> IsOpen(l))
         /\ Locked \in Life /\ Poisoned \in Life /\ ~IsOpen(Locked) /\ ~IsOpen(Poisoned)
         /\ IsOpen(Checked) => /\ Checked = lifecycle /\ IsOpen(lifecycle)
                               /\ now >= last_now /\ now < lifecycle.deadline
<1>1. lifecycle \in Life /\ Locked \in Life /\ Poisoned \in Life /\ ~IsOpen(Locked) /\ ~IsOpen(Poisoned)
  BY DEF FacadeTypes, Life, Locked, Poisoned, IsOpen
<1>2. Unlocked \in Life /\ IsOpen(Unlocked)
  BY FacadeAssumption DEF FacadeTypes, Life, Unlocked, Saturated, IsOpen
<1>3. \A l \in Life : /\ Relocked(l) \in Life /\ ~IsOpen(Relocked(l))
                      /\ Extended(l) \in Life /\ (IsOpen(Extended(l)) <=> IsOpen(l))
  BY <1>1, <1>2 DEF Relocked, Extended
<1>4. Checked \in Life
  BY <1>1, <1>3 DEF Checked
<1>5. ASSUME IsOpen(Checked)
      PROVE  Checked = lifecycle /\ IsOpen(lifecycle) /\ now >= last_now /\ now < lifecycle.deadline
  <2>1. ~(now < last_now \/ now >= lifecycle.deadline) /\ Checked = lifecycle
    BY <1>1, <1>3, <1>5 DEF Checked
  <2>2. now \in Nat /\ last_now \in Nat /\ lifecycle.deadline \in Nat
    BY <1>1, FacadeAssumption DEF FacadeTypes, Life, Locked, Poisoned
  <2>. QED
    BY <1>5, <2>1, <2>2
<1>. QED
  BY <1>1, <1>2, <1>3, <1>4, <1>5

LEMMA CallsAre ==
  ASSUME FacadeTypes
  PROVE  /\ Len(calls) \in Nat /\ Ids = 1 .. Len(calls) /\ Ids \subseteq Nat
         /\ DOMAIN calls = Ids /\ DOMAIN answers = Ids /\ \A n \in Ids : calls[n] \in Operations
         /\ channel \in Seq(Ids) /\ deferred \in Seq(Ids)
<1>1. /\ calls \in Seq(Operations) /\ answers \in Seq(Outcomes \cup {NoAnswer}) /\ Len(answers) = Len(calls)
      /\ channel \in Seq(Ids) /\ deferred \in Seq(Ids)
  BY DEF FacadeTypes
<1>2. Len(calls) \in Nat /\ DOMAIN calls = 1 .. Len(calls) /\ DOMAIN answers = 1 .. Len(answers)
  BY <1>1, LenProperties
<1>3. \A n \in 1 .. Len(calls) : calls[n] \in Operations
  BY <1>1, ElementOfSeq
<1>. QED
  BY <1>1, <1>2, <1>3 DEF Ids

LEMMA TaskIs ==
  ASSUME FacadeTypes
  PROVE  /\ task = Idle \/ task = Stopped \/ (task.kind \in {"sync", "fetch", "publish"} /\ task.call \in Ids)
         /\ Idle.call = 0 /\ Stopped.call = 0 /\ Idle.kind = "idle" /\ Stopped.kind = "stopped"
         /\ 0 \notin Ids
  BY CallsAre DEF FacadeTypes, Idle, Stopped

\* The head of the queue comes before all that waits.
LEMMA PopIs ==
  ASSUME FacadeTypes, QueueRises, Queue # <<>>, Pop
  PROVE  /\ Head(Queue) \in Ids /\ Head(Queue) \in Waiting
         /\ \A n \in Waiting : Head(Queue) <= n
         /\ Waiting' = Waiting \ {Head(Queue)} /\ QueueRises'
         /\ channel' \in Seq(Ids) /\ deferred' \in Seq(Ids)
<1>1. channel \in Seq(Ids) /\ deferred \in Seq(Ids) /\ Ids \subseteq Nat
  BY CallsAre
<1>2. CASE deferred # <<>>
  <2>1. Head(Queue) = Head(deferred)
    <3>1. Len(deferred) \in Nat \ {0} /\ Len(channel) \in Nat
      BY <1>1, <1>2, EmptySeq, LenProperties
    <3>2. Queue[1] = deferred[1]
      BY <1>1, <3>1, ConcatProperties DEF Queue
    <3>. QED
      BY <1>1, <3>1, <3>2
  <2>2. deferred' = Tail(deferred) /\ channel' = channel
    BY <1>2 DEF Pop
  <2>3. /\ Head(deferred) \in Members(deferred) /\ Head(deferred) \in Ids
        /\ \A n \in Members(deferred) : Head(deferred) <= n
        /\ Members(Tail(deferred)) = Members(deferred) \ {Head(deferred)}
        /\ Tail(deferred) \in Seq(Ids) /\ Rising(Tail(deferred))
    BY <1>1, <1>2, TailMembers DEF QueueRises
  <2>4. \A n \in Members(channel) : Head(deferred) < n /\ n \in Nat
    <3>1. \A i \in 1 .. Len(channel) : channel[i] \in Ids
      BY <1>1, ElementOfSeq
    <3>. QED
      BY <1>1, <2>3, <3>1 DEF QueueRises, Members
  <2>5. Head(deferred) \notin Members(channel)
    <3>1. Head(deferred) \in Nat
      BY <1>1, <2>3
    <3>. QED
      BY <2>4, <3>1
  <2>6. \A n \in Waiting : Head(deferred) <= n
    <3>1. Head(deferred) \in Nat
      BY <1>1, <2>3
    <3>. QED
      BY <2>3, <2>4, <3>1 DEF Waiting
  <2>7. Waiting' = Waiting \ {Head(deferred)}
    BY <2>2, <2>3, <2>5 DEF Waiting
  <2>8. QueueRises'
    BY <2>2, <2>3 DEF QueueRises
  <2>. QED
    BY <1>1, <2>1, <2>2, <2>3, <2>6, <2>7, <2>8 DEF Waiting
<1>3. CASE deferred = <<>>
  <2>1. Queue = channel
    BY <1>1, <1>3, ConcatEmptySeq DEF Queue
  <2>2. channel' = Tail(channel) /\ deferred' = deferred /\ Members(deferred) = {}
    BY <1>3, EmptyMembers DEF Pop
  <2>3. /\ Head(channel) \in Members(channel) /\ Head(channel) \in Ids
        /\ \A n \in Members(channel) : Head(channel) <= n
        /\ Members(Tail(channel)) = Members(channel) \ {Head(channel)}
        /\ Tail(channel) \in Seq(Ids) /\ Rising(Tail(channel))
    BY <1>1, <2>1, TailMembers DEF QueueRises
  <2>. QED
    BY <1>1, <2>1, <2>2, <2>3 DEF Waiting, QueueRises
<1>. QED
  BY <1>2, <1>3

\* A command is taken from the channel while a sync is in flight.
LEMMA ReceiveIs ==
  ASSUME FacadeTypes, QueueRises, channel # <<>>, channel' = Tail(channel), UNCHANGED deferred
  PROVE  /\ Head(channel) \in Ids /\ Head(channel) \in Waiting
         /\ Waiting' = Waiting \ {Head(channel)} /\ QueueRises' /\ channel' \in Seq(Ids)
<1>1. channel \in Seq(Ids) /\ deferred \in Seq(Ids) /\ Ids \subseteq Nat
  BY CallsAre
<1>2. /\ Head(channel) \in Members(channel) /\ Head(channel) \in Ids
      /\ Members(Tail(channel)) = Members(channel) \ {Head(channel)}
      /\ Tail(channel) \in Seq(Ids) /\ Rising(Tail(channel))
  BY <1>1, TailMembers DEF QueueRises
<1>3. Head(channel) \notin Members(deferred)
  <2>1. SUFFICES ASSUME Head(channel) \in Members(deferred) PROVE FALSE
    OBVIOUS
  <2>2. Head(channel) < Head(channel) /\ Head(channel) \in Nat
    BY <1>1, <1>2, <2>1 DEF QueueRises
  <2>. QED
    BY <2>2
<1>. QED
  BY <1>2, <1>3 DEF Waiting, QueueRises

LEMMA DeferIs ==
  ASSUME FacadeTypes, QueueRises, channel # <<>>, channel' = Tail(channel),
         deferred' = Append(deferred, Head(channel))
  PROVE  /\ Head(channel) \in Ids /\ Waiting' = Waiting /\ QueueRises'
         /\ channel' \in Seq(Ids) /\ deferred' \in Seq(Ids)
<1>1. channel \in Seq(Ids) /\ deferred \in Seq(Ids) /\ Ids \subseteq Nat
  BY CallsAre
<1>2. /\ Head(channel) \in Members(channel) /\ Head(channel) \in Ids
      /\ \A n \in Members(channel) : Head(channel) <= n
      /\ Members(Tail(channel)) = Members(channel) \ {Head(channel)}
      /\ Tail(channel) \in Seq(Ids) /\ Rising(Tail(channel))
  BY <1>1, TailMembers DEF QueueRises
<1>3. /\ Members(Append(deferred, Head(channel))) = Members(deferred) \cup {Head(channel)}
      /\ Append(deferred, Head(channel)) \in Seq(Ids) /\ Rising(Append(deferred, Head(channel)))
  <2> DEFINE h == Head(channel)
  <2>1. \A m \in Members(deferred) : m < h
    BY <1>2 DEF QueueRises
  <2>2. Rising(deferred) /\ Ids \subseteq Nat /\ deferred \in Seq(Ids) /\ h \in Ids
    BY <1>1, <1>2 DEF QueueRises
  <2> HIDE DEF h
  <2>3. /\ Members(Append(deferred, h)) = Members(deferred) \cup {h}
        /\ Append(deferred, h) \in Seq(Ids) /\ Rising(Append(deferred, h))
    BY <2>1, <2>2, AppendMembers, ZenonT(60)
  <2>. QED
    BY <2>3 DEF h
<1>4. \A n \in Members(channel) : n \in Nat
  BY <1>1, ElementOfSeq DEF Members
<1>. QED
  BY <1>1, <1>2, <1>3, <1>4 DEF Waiting, QueueRises

-----------------------------------------------------------------------------
(***************************************************************************)
(* What a step does to the callers: the calls in done are answered, and    *)
(* the others wait as they did. The order of the reads and mutators is     *)
(* kept because the one that is answered waits before the others.          *)
(***************************************************************************)
Replies == Outcomes \cup {NoAnswer}

Settles(done) ==
  /\ done \subseteq Ids /\ calls' = calls
  /\ answers' \in Seq(Replies) /\ Len(answers') = Len(answers)
  /\ \A n \in Ids : answers'[n] = NoAnswer <=> answers[n] = NoAnswer /\ n \notin done
  /\ \A n \in Ids : n \in Waiting' \/ task'.call = n <=> (n \in Waiting \/ task.call = n) /\ n \notin done
  /\ task'.call \notin Waiting'
  /\ task'.call \in Ids => calls[task'.call] \in Awaited
  /\ \A n \in done, m \in Waiting : calls[n] \in VaultCommands /\ calls[m] \in VaultCommands /\ m < n
                                      => m \in done

LEMMA AwaitedIs == Awaited \cap VaultCommands = {} /\ Awaited = {"revoke", "approve", "sync"}
  BY DEF Awaited, InlineCommands, VaultCommands

LEMMA SettlesKeeps ==
  ASSUME FacadeTypes, CallsWait, AnsweredInOrder, NEW done, Settles(done)
  PROVE  CallsWait' /\ AnsweredInOrder' /\ calls' = calls /\ Ids' = Ids
         /\ answers' \in Seq(Replies) /\ Len(answers') = Len(calls')
<1>1. /\ done \subseteq Ids /\ calls' = calls
      /\ answers' \in Seq(Replies) /\ Len(answers') = Len(answers)
      /\ \A n \in Ids : answers'[n] = NoAnswer <=> answers[n] = NoAnswer /\ n \notin done
      /\ \A n \in Ids : n \in Waiting' \/ task'.call = n <=> (n \in Waiting \/ task.call = n) /\ n \notin done
      /\ task'.call \notin Waiting' /\ (task'.call \in Ids => calls[task'.call] \in Awaited)
      /\ \A n \in done, m \in Waiting : calls[n] \in VaultCommands /\ calls[m] \in VaultCommands /\ m < n
                                          => m \in done
  BY DEF Settles
<1>2. Ids' = Ids /\ Len(answers) = Len(calls)
  BY <1>1 DEF Ids, FacadeTypes
<1>3. CallsWait'
  BY <1>1, <1>2 DEF CallsWait
<1>4. AnsweredInOrder'
  <2>1. SUFFICES ASSUME NEW m \in Ids, NEW n \in Ids, m < n, calls[m] \in VaultCommands, calls[n] \in VaultCommands,
                        answers'[n] # NoAnswer, answers'[m] = NoAnswer
                 PROVE  FALSE
    BY <1>1, <1>2 DEF AnsweredInOrder
  <2>2. answers[m] = NoAnswer /\ m \notin done
    BY <1>1, <2>1
  <2>3. m \in Waiting
    <3>1. m \in Waiting \/ task.call = m
      BY <2>2 DEF CallsWait
    <3>2. task.call # m
      BY <2>1, AwaitedIs DEF CallsWait
    <3>. QED
      BY <3>1, <3>2
  <2>4. n \in done
    <3>1. answers[n] = NoAnswer
      BY <2>1, <2>2 DEF AnsweredInOrder
    <3>. QED
      BY <1>1, <2>1, <3>1
  <2>. QED
    BY <1>1, <2>1, <2>2, <2>3, <2>4
<1>. QED
  BY <1>1, <1>2, <1>3, <1>4

\* One caller is answered.
LEMMA AnswerIs ==
  ASSUME FacadeTypes, NEW n \in Ids, NEW answer \in Outcomes, Answer(n, answer)
  PROVE  /\ answers' \in Seq(Replies) /\ Len(answers') = Len(answers)
         /\ \A k \in Ids : answers'[k] = IF k = n THEN answer ELSE answers[k]
         /\ \A k \in Ids : answers'[k] = NoAnswer <=> answers[k] = NoAnswer /\ k \notin {n}
         /\ opened' = Told(calls[n], answer) /\ opened' \in BOOLEAN
<1>1. answers \in Seq(Replies) /\ Len(answers) = Len(calls) /\ opened \in BOOLEAN
  BY DEF FacadeTypes, Replies
<1>2. n \in 1 .. Len(answers) /\ answer \in Replies /\ Ids = 1 .. Len(answers)
  BY <1>1 DEF Ids, Replies
<1>3. /\ answers' \in Seq(Replies) /\ Len(answers') = Len(answers)
      /\ \A k \in Ids : answers'[k] = IF k = n THEN answer ELSE answers[k]
  BY <1>1, <1>2, ExceptSeq DEF Answer
<1>4. answer # NoAnswer
  BY FacadeAssumption DEF Outcomes
<1>5. opened' = Told(calls[n], answer) /\ Told(calls[n], answer) \in BOOLEAN
  BY <1>1 DEF Answer, Told
<1>. QED
  BY <1>3, <1>4, <1>5

\* The inductive invariant after a step, from its parts.
LEMMA StepKeeps ==
  ASSUME FacadeInv, NEW done, Settles(done), QueueRises',
         channel' \in Seq(Ids), deferred' \in Seq(Ids), now' \in 0 .. Horizon, last_now' \in 0 .. Horizon,
         lifecycle' \in Life, task' \in {Idle, Stopped} \cup [kind : {"sync", "fetch", "publish"}, call : Ids],
         connected' \in BOOLEAN, pending' \in BOOLEAN, opened' \in BOOLEAN,
         IsOpen(lifecycle') \/ task'.kind \in {"sync", "publish"} => opened'
  PROVE  FacadeInv'
<1>1. FacadeTypes /\ CallsWait /\ AnsweredInOrder
  BY DEF FacadeInv
<1>2. CallsWait' /\ AnsweredInOrder' /\ calls' = calls /\ Ids' = Ids
      /\ answers' \in Seq(Replies) /\ Len(answers') = Len(calls')
  BY <1>1, SettlesKeeps
<1>3. calls \in Seq(Operations)
  BY <1>1 DEF FacadeTypes
<1>4. FacadeTypes'
  BY <1>2, <1>3 DEF FacadeTypes, Life, Replies
<1>5. OpenedIsTold'
  BY DEF OpenedIsTold
<1>. QED
  BY <1>2, <1>4, <1>5 DEF FacadeInv

-----------------------------------------------------------------------------
\* A wake that answers its caller.
LEMMA WakeAnswers ==
  ASSUME FacadeInv, NEW ops, Wake(ops), NEW answer \in Outcomes, Answer(Head(Queue), answer),
         UNCHANGED <<task, pending>>, lifecycle' \in Life, IsOpen(lifecycle') => Told(Command, answer)
  PROVE  FacadeInv'
<1>1. FacadeTypes /\ QueueRises /\ CallsWait
  BY DEF FacadeInv
<1>2. task = Idle /\ Queue # <<>> /\ last_now' = now /\ now' = now /\ Pop /\ calls' = calls /\ connected' = connected
  BY DEF Wake, callers
<1>3. /\ Head(Queue) \in Ids /\ Head(Queue) \in Waiting /\ \A n \in Waiting : Head(Queue) <= n
      /\ Waiting' = Waiting \ {Head(Queue)} /\ QueueRises' /\ channel' \in Seq(Ids) /\ deferred' \in Seq(Ids)
  BY <1>1, <1>2, PopIs
<1>4. /\ answers' \in Seq(Replies) /\ Len(answers') = Len(answers)
      /\ \A k \in Ids : answers'[k] = NoAnswer <=> answers[k] = NoAnswer /\ k \notin {Head(Queue)}
      /\ opened' = Told(calls[Head(Queue)], answer) /\ opened' \in BOOLEAN
  BY <1>1, <1>3, AnswerIs
<1>5. task'.call = 0 /\ task.call = 0 /\ 0 \notin Ids /\ task'.kind = "idle" /\ task' = Idle
  BY <1>1, <1>2, TaskIs
<1>6. \A m \in Waiting : ~(m < Head(Queue))
  <2>1. \A m \in Waiting : m \in Nat
    BY <1>1, CallsAre, ElementOfSeq DEF Waiting, Members
  <2>2. Head(Queue) \in Nat
    BY <1>3, <2>1
  <2>. QED
    BY <1>3, <2>1, <2>2
<1>7. Settles({Head(Queue)})
  <2>1. 0 \notin Waiting
    BY <1>1, <1>5 DEF CallsWait
  <2>. QED
    BY <1>2, <1>3, <1>4, <1>5, <1>6, <2>1 DEF Settles
<1>8. IsOpen(lifecycle') \/ task'.kind \in {"sync", "publish"} => opened'
  BY <1>4, <1>5 DEF Command
<1>9. /\ now' \in 0 .. Horizon /\ last_now' \in 0 .. Horizon /\ connected' \in BOOLEAN /\ pending' \in BOOLEAN
      /\ opened' \in BOOLEAN
  BY <1>1, <1>2, <1>4 DEF FacadeTypes
<1>. QED
  BY <1>3, <1>5, <1>7, <1>8, <1>9, StepKeeps

\* A wake whose caller waits on: the future of the command is awaited.
LEMMA WakeAwaits ==
  ASSUME FacadeInv, NEW op \in Awaited, Wake({op}), NEW kind \in {"sync", "fetch", "publish"},
         task' = Awaiting(kind, Head(Queue)), UNCHANGED <<answers, opened, pending>>,
         lifecycle' = Checked, kind \in {"sync", "publish"} => IsOpen(Checked)
  PROVE  FacadeInv'
<1>1. FacadeTypes /\ QueueRises /\ CallsWait /\ OpenedIsTold
  BY DEF FacadeInv
<1>2. /\ task = Idle /\ Queue # <<>> /\ last_now' = now /\ now' = now /\ Pop /\ calls' = calls
      /\ connected' = connected /\ Command = op
  BY DEF Wake, callers
<1>3. /\ Head(Queue) \in Ids /\ Head(Queue) \in Waiting
      /\ Waiting' = Waiting \ {Head(Queue)} /\ QueueRises' /\ channel' \in Seq(Ids) /\ deferred' \in Seq(Ids)
  BY <1>1, <1>2, PopIs
<1>4. task.call = 0 /\ 0 \notin Ids
  BY <1>1, <1>2, TaskIs
<1>5. /\ task'.call = Head(Queue) /\ task'.kind = kind
      /\ task' \in [kind : {"sync", "fetch", "publish"}, call : Ids]
  BY <1>3 DEF Awaiting
<1>6. Settles({})
  <2>1. answers \in Seq(Replies)
    BY <1>1 DEF FacadeTypes, Replies
  <2>. QED
    BY <1>2, <1>3, <1>4, <1>5, <2>1 DEF Settles, Command
<1>7. Checked \in Life /\ (IsOpen(Checked) => opened)
  BY <1>1, LifeIs DEF OpenedIsTold
<1>8. /\ now' \in 0 .. Horizon /\ last_now' \in 0 .. Horizon /\ connected' \in BOOLEAN /\ pending' \in BOOLEAN
      /\ opened' \in BOOLEAN
  BY <1>1, <1>2 DEF FacadeTypes
<1>9. IsOpen(lifecycle') \/ task'.kind \in {"sync", "publish"} => opened'
  BY <1>5, <1>7
<1>. QED
  BY <1>3, <1>5, <1>6, <1>7, <1>8, <1>9, StepKeeps

\* The awaited future ends, and its caller is answered.
LEMMA TaskAnswers ==
  ASSUME FacadeInv, task.kind \in {"sync", "fetch", "publish"}, NEW answer \in Outcomes,
         Answer(task.call, answer), task' = Idle, UNCHANGED <<clocks, callers, channel, deferred>>,
         pending' \in BOOLEAN, lifecycle' \in Life, IsOpen(lifecycle') => opened /\ answer # "locked",
         answer \in {"ok", "refused", "internal", "locked"}
  PROVE  FacadeInv'
<1>1. FacadeTypes /\ QueueRises /\ CallsWait
  BY DEF FacadeInv
<1>2. calls' = calls /\ connected' = connected /\ now' = now /\ last_now' = last_now
      /\ channel' = channel /\ deferred' = deferred
  BY DEF callers, clocks
<1>3. task.call \in Ids /\ Idle.call = 0 /\ 0 \notin Ids /\ Idle.kind = "idle"
  BY <1>1, TaskIs
<1>4. /\ answers' \in Seq(Replies) /\ Len(answers') = Len(answers)
      /\ \A k \in Ids : answers'[k] = NoAnswer <=> answers[k] = NoAnswer /\ k \notin {task.call}
      /\ opened' = Told(calls[task.call], answer) /\ opened' \in BOOLEAN
  BY <1>1, <1>3, AnswerIs
<1>5. Waiting' = Waiting /\ QueueRises' /\ channel' \in Seq(Ids) /\ deferred' \in Seq(Ids)
  BY <1>1, <1>2 DEF Waiting, QueueRises, FacadeTypes
<1>6. calls[task.call] \in Awaited /\ task.call \notin Waiting
  BY <1>1, <1>3 DEF CallsWait
<1>7. Settles({task.call})
  <2>1. 0 \notin Waiting
    <3>1. Waiting \subseteq Ids
      BY <1>1, ElementOfSeq DEF Waiting, Members, FacadeTypes
    <3>. QED
      BY <1>3, <3>1
  <2>2. calls[task.call] \notin VaultCommands
    BY <1>6, AwaitedIs
  <2>. QED
    BY <1>2, <1>3, <1>4, <1>5, <1>6, <2>1, <2>2 DEF Settles
<1>8. IsOpen(lifecycle') => opened'
  BY <1>4, <1>6, AwaitedIs DEF Told
<1>9. now' \in 0 .. Horizon /\ last_now' \in 0 .. Horizon /\ connected' \in BOOLEAN
  BY <1>1, <1>2 DEF FacadeTypes
<1>. QED
  BY <1>3, <1>4, <1>5, <1>7, <1>8, <1>9, StepKeeps

\* The task ends: whoever still waits is told so.
LEMMA StopKeeps ==
  ASSUME FacadeInv, task' = Stopped, channel' = <<>>, deferred' = <<>>, UNCHANGED <<calls, connected, pending>>,
         now' = now, last_now' \in {now, last_now}, lifecycle' \in Life, opened' \in BOOLEAN,
         IsOpen(lifecycle') => opened', DOMAIN answers' = Ids, answers' = [k \in Ids |-> answers'[k]],
         \A k \in Ids : answers'[k] \in Outcomes
  PROVE  FacadeInv'
<1>1. FacadeTypes /\ CallsWait
  BY DEF FacadeInv
<1>2. Stopped.call = 0 /\ 0 \notin Ids /\ Stopped.kind = "stopped" /\ Len(calls) \in Nat /\ Ids = 1 .. Len(calls)
      /\ Len(answers) = Len(calls)
  BY <1>1, TaskIs, CallsAre DEF FacadeTypes
<1>3. answers' \in Seq(Replies) /\ Len(answers') = Len(answers)
  <2>1. answers' \in [1 .. Len(calls) -> Replies]
    BY <1>2 DEF Replies
  <2>. QED
    BY <1>2, <2>1, SeqDef, LenProperties
<1>4. Waiting' = {} /\ QueueRises'
  BY EmptyMembers DEF Waiting, QueueRises
<1>5. \A k \in Ids : answers'[k] # NoAnswer
  BY FacadeAssumption DEF Outcomes
<1>6. Settles({n \in Ids : answers[n] = NoAnswer})
  <2>1. /\ \A n \in Ids : answers[n] = NoAnswer <=> n \in Waiting \/ task.call = n
        /\ Waiting \subseteq Ids
    BY <1>1, ElementOfSeq DEF CallsWait, Waiting, Members, FacadeTypes
  <2>. QED
    BY <1>2, <1>3, <1>4, <1>5, <2>1 DEF Settles
<1>7. channel' \in Seq(Ids) /\ deferred' \in Seq(Ids)
  BY EmptySeq
<1>8. now' \in 0 .. Horizon /\ last_now' \in 0 .. Horizon /\ connected' \in BOOLEAN /\ pending' \in BOOLEAN
  BY <1>1 DEF FacadeTypes
<1>. QED
  BY <1>2, <1>4, <1>6, <1>7, <1>8, StepKeeps

LEMMA StopIs ==
  ASSUME FacadeInv, NEW l \in Life, IsOpen(l) => opened, NEW n, NEW answer, n = 0 \/ answer \in Outcomes,
         Stop(l, n, answer), now' = now, last_now' \in {now, last_now}
  PROVE  FacadeInv'
<1>1. FacadeTypes
  BY DEF FacadeInv
<1>2. /\ lifecycle' = l /\ task' = Stopped /\ channel' = <<>> /\ deferred' = <<>>
      /\ UNCHANGED <<calls, connected, pending, opened>>
      /\ answers' = [k \in DOMAIN answers |->
           IF k = n THEN answer ELSE IF answers[k] = NoAnswer THEN "stopped" ELSE answers[k]]
  BY DEF Stop, callers
<1>3. DOMAIN answers = Ids /\ 0 \notin Ids /\ opened \in BOOLEAN /\ \A k \in Ids : answers[k] \in Replies
  <2>1. answers \in Seq(Replies) /\ Len(answers) = Len(calls) /\ opened \in BOOLEAN
    BY <1>1 DEF FacadeTypes, Replies
  <2>. QED
    BY <1>1, <2>1, CallsAre, TaskIs, ElementOfSeq DEF Ids
<1>4. DOMAIN answers' = Ids /\ answers' = [k \in Ids |-> answers'[k]]
  BY <1>2, <1>3
<1>5. ASSUME NEW k \in Ids PROVE answers'[k] \in Outcomes
  <2>1. answers'[k] = IF k = n THEN answer ELSE IF answers[k] = NoAnswer THEN "stopped" ELSE answers[k]
    BY <1>2, <1>3
  <2>. QED
    BY <1>3, <2>1 DEF Replies, Outcomes
<1>. QED
  BY <1>2, <1>3, <1>4, <1>5, StopKeeps

-----------------------------------------------------------------------------
(***************************************************************************)
(* The actions.                                                            *)
(***************************************************************************)
LEMMA CallKeeps ==
  ASSUME FacadeInv, NEW op \in Operations, Call(op)
  PROVE  FacadeInv'
<1>1. FacadeTypes /\ QueueRises /\ CallsWait /\ AnsweredInOrder /\ OpenedIsTold
  BY DEF FacadeInv
<1>2. /\ calls' = Append(calls, op) /\ answers' = Append(answers, NoAnswer) /\ channel' = Append(channel, Len(calls'))
      /\ UNCHANGED <<now, last_now, lifecycle, deferred, task, connected, pending, opened>>
  BY DEF Call, clocks
<1>3. /\ Len(calls) \in Nat /\ Ids = 1 .. Len(calls) /\ calls \in Seq(Operations)
      /\ answers \in Seq(Replies) /\ Len(answers) = Len(calls) /\ channel \in Seq(Ids) /\ deferred \in Seq(Ids)
  BY <1>1, CallsAre DEF FacadeTypes, Replies
<1> DEFINE N == Len(calls) + 1
<1>4. /\ calls' \in Seq(Operations) /\ Len(calls') = N /\ calls'[N] = op
      /\ \A n \in Ids : calls'[n] = calls[n]
  BY <1>2, <1>3, AppendProperties
<1>5. /\ answers' \in Seq(Replies) /\ Len(answers') = N /\ answers'[N] = NoAnswer
      /\ \A n \in Ids : answers'[n] = answers[n]
  <2>1. NoAnswer \in Replies
    BY DEF Replies
  <2>. QED
    BY <1>2, <1>3, <2>1, AppendProperties
<1>6. Ids' = Ids \cup {N} /\ N \notin Ids /\ Ids' \subseteq Nat /\ \A n \in Ids : n < N
  BY <1>3, <1>4 DEF Ids
<1>7. channel \in Seq(Ids') /\ deferred \in Seq(Ids') /\ Waiting \subseteq Ids
  <2>1. Ids \subseteq Ids'
    BY <1>6
  <2>2. channel \in Seq(Ids') /\ deferred \in Seq(Ids')
    BY <1>3, <2>1, SeqMonotonic
  <2>3. Waiting \subseteq Ids
    BY <1>3, ElementOfSeq DEF Waiting, Members
  <2>. QED
    BY <2>2, <2>3
<1>8. /\ Members(channel') = Members(channel) \cup {N} /\ channel' \in Seq(Ids') /\ Rising(channel')
  <2>1. channel' = Append(channel, N) /\ N \in Ids' /\ Rising(channel)
    BY <1>1, <1>2, <1>4, <1>6 DEF QueueRises
  <2>2. \A m \in Members(channel) : m < N
    BY <1>6, <1>7 DEF Waiting
  <2>. QED
    BY <1>6, <1>7, <2>1, <2>2, AppendMembers
<1>9. QueueRises' /\ Waiting' = Waiting \cup {N}
  <2>1. \A m \in Members(deferred) : m < N
    BY <1>6, <1>7 DEF Waiting
  <2>. QED
    BY <1>1, <1>2, <1>8, <2>1 DEF QueueRises, Waiting
<1>10. task.call # N /\ task'.call = task.call
  <2>1. task.call = 0 \/ task.call \in Ids
    BY <1>1, TaskIs
  <2>2. N # 0 /\ N \notin Ids
    BY <1>3, <1>6
  <2>. QED
    BY <1>2, <2>1, <2>2
<1> HIDE DEF N
<1>11. CallsWait'
  <2>1. \A n \in Ids' : answers'[n] = NoAnswer <=> n \in Waiting' \/ task'.call = n
    BY <1>1, <1>5, <1>6, <1>9, <1>10 DEF CallsWait
  <2>2. task'.call \notin Waiting'
    BY <1>1, <1>9, <1>10 DEF CallsWait
  <2>3. task'.call \in Ids' => calls'[task'.call] \in Awaited
    BY <1>1, <1>4, <1>6, <1>10 DEF CallsWait
  <2>. QED
    BY <2>1, <2>2, <2>3 DEF CallsWait
<1>12. AnsweredInOrder'
  <2>1. SUFFICES ASSUME NEW m \in Ids', NEW n \in Ids', m < n, {calls'[m], calls'[n]} \subseteq VaultCommands,
                        answers'[n] # NoAnswer
                 PROVE  answers'[m] # NoAnswer
    BY DEF AnsweredInOrder
  <2>2. n \in Ids
    BY <1>5, <1>6, <2>1
  <2>3. m \in Ids
    BY <1>3, <1>6, <2>1, <2>2 DEF N
  <2>. QED
    BY <1>1, <1>4, <1>5, <2>1, <2>2, <2>3 DEF AnsweredInOrder
<1>13. FacadeTypes'
  <2>1. /\ now' \in 0 .. Horizon /\ last_now' \in 0 .. Horizon
        /\ lifecycle' \in {Locked, Poisoned} \cup [kind : {"unlocked"}, deadline : 0 .. Horizon]
        /\ connected' \in BOOLEAN /\ pending' \in BOOLEAN /\ opened' \in BOOLEAN
    BY <1>1, <1>2 DEF FacadeTypes
  <2>2. task' \in {Idle, Stopped} \cup [kind : {"sync", "fetch", "publish"}, call : Ids']
    BY <1>1, <1>2, <1>6 DEF FacadeTypes
  <2>. QED
    BY <1>2, <1>4, <1>5, <1>7, <1>8, <2>1, <2>2 DEF FacadeTypes, Replies
<1>14. OpenedIsTold'
  BY <1>1, <1>2 DEF OpenedIsTold
<1>. QED
  BY <1>9, <1>11, <1>12, <1>13, <1>14 DEF FacadeInv

\* Only the clock or the handles change, or nothing does.
LEMMA OutsideKeeps ==
  ASSUME FacadeInv, DropHandle \/ Clock \/ UNCHANGED vars
  PROVE  FacadeInv'
<1>1. /\ UNCHANGED <<lifecycle, calls, channel, deferred, task, answers, pending, opened, last_now>>
      /\ now' \in 0 .. Horizon /\ connected' \in BOOLEAN
  BY DEF FacadeInv, FacadeTypes, DropHandle, Clock, vars, clocks, callers
<1>2. Ids' = Ids /\ Waiting' = Waiting
  BY <1>1 DEF Ids, Waiting
<1>3. FacadeTypes'
  BY <1>1, <1>2 DEF FacadeInv, FacadeTypes
<1>. QED
  BY <1>1, <1>2, <1>3 DEF FacadeInv, QueueRises, CallsWait, AnsweredInOrder, OpenedIsTold

LEMMA UnlockKeeps ==
  ASSUME FacadeInv, Unlock
  PROVE  FacadeInv'
<1>1. FacadeTypes /\ (IsOpen(lifecycle) => opened)
  BY DEF FacadeInv, OpenedIsTold
<1>2. Wake({"unlock", "bad_key"}) /\ UNCHANGED <<task, pending>> /\ Command \in {"unlock", "bad_key"}
  BY DEF Unlock, Wake
<1>3. Told(Command, "ok")
  BY <1>2 DEF Told
<1>4. \E answer \in Outcomes : /\ Answer(Head(Queue), answer) /\ lifecycle' \in Life
                               /\ IsOpen(lifecycle') => Told(Command, answer)
  BY <1>1, <1>3, LifeIs DEF Unlock, Outcomes, OpenRefused
<1>. QED
  BY <1>2, <1>4, WakeAnswers

LEMMA CommandKeeps ==
  ASSUME FacadeInv, Lock \/ Status \/ ReportLifecycle \/ VaultCommand
  PROVE  FacadeInv'
<1>1. FacadeTypes /\ (IsOpen(lifecycle) => opened)
  BY DEF FacadeInv, OpenedIsTold
<1>2. CASE Lock
  <2>1. Wake({"lock"}) /\ lifecycle' \in Life /\ ~IsOpen(lifecycle') /\ Answer(Head(Queue), "ok")
        /\ UNCHANGED <<task, pending>> /\ "ok" \in Outcomes
    BY <1>1, <1>2, LifeIs DEF Lock, Outcomes
  <2>. QED
    BY <2>1, WakeAnswers
<1>3. CASE Status
  <2>1. /\ Wake({"status", "poll"}) /\ lifecycle' = Checked /\ Answer(Head(Queue), LockState(lifecycle'))
        /\ UNCHANGED <<task, pending>> /\ LockState(lifecycle') \in Outcomes /\ Command \in {"status", "poll"}
    BY <1>3 DEF Status, Outcomes, LockState, Wake
  <2>2. lifecycle' \in Life /\ (IsOpen(lifecycle') => opened)
    BY <1>1, <2>1, LifeIs
  <2>3. IsOpen(lifecycle') => Told(Command, LockState(lifecycle'))
    BY <2>1, <2>2 DEF LockState, Told
  <2>. QED
    BY <2>1, <2>2, <2>3, WakeAnswers
<1>4. CASE ReportLifecycle
  <2>1. /\ Wake({"background", "activity"}) /\ Answer(Head(Queue), LockState(lifecycle'))
        /\ lifecycle' = IF Command = "background" THEN Relocked(Checked) ELSE Extended(Checked)
        /\ UNCHANGED <<task, pending>> /\ LockState(lifecycle') \in Outcomes /\ Command \in {"background", "activity"}
    BY <1>4 DEF ReportLifecycle, Outcomes, LockState, Wake
  <2>2. lifecycle' \in Life /\ (IsOpen(lifecycle') => opened)
    BY <1>1, <2>1, LifeIs
  <2>3. IsOpen(lifecycle') => Told(Command, LockState(lifecycle'))
    BY <2>1, <2>2 DEF LockState, Told
  <2>. QED
    BY <2>1, <2>2, <2>3, WakeAnswers
<1>5. CASE VaultCommand
  <2>1. Wake(VaultCommands) /\ UNCHANGED <<task, pending>> /\ Command = "vault"
    BY <1>5 DEF VaultCommand, Wake, VaultCommands
  <2>2. (IsOpen(Checked) => opened) /\ Checked \in Life /\ Extended(Checked) \in Life
        /\ (IsOpen(Extended(Checked)) <=> IsOpen(Checked))
    BY <1>1, LifeIs
  <2>3. \E answer \in Outcomes : /\ Answer(Head(Queue), answer) /\ lifecycle' \in Life
                                 /\ IsOpen(lifecycle') => Told(Command, answer)
    <3>1. CASE lifecycle' = Checked /\ Answer(Head(Queue), "refused")
      BY <2>1, <2>2, <3>1 DEF Told, Outcomes
    <3>2. CASE ~IsOpen(Checked) /\ lifecycle' = Checked /\ Answer(Head(Queue), "locked")
      BY <2>2, <3>2 DEF Outcomes
    <3>3. CASE IsOpen(Checked) /\ lifecycle' = Extended(Checked) /\ Answer(Head(Queue), "ok")
      BY <2>1, <2>2, <3>3 DEF Told, Outcomes
    <3>. QED
      BY <1>5, <3>1, <3>2, <3>3 DEF VaultCommand
  <2>. QED
    BY <2>1, <2>3, WakeAnswers
<1>. QED
  BY <1>2, <1>3, <1>4, <1>5

LEMMA StartKeeps ==
  ASSUME FacadeInv, StartSync \/ StartRevoke \/ StartApprove
  PROVE  FacadeInv'
<1>1. Checked \in Life /\ (IsOpen(Checked) => opened)
  BY LifeIs DEF FacadeInv, OpenedIsTold
<1>2. PICK op \in Awaited : Wake({op}) /\ lifecycle' = Checked /\ Command = op /\ UNCHANGED pending
  BY AwaitedIs DEF StartSync, StartRevoke, StartApprove, Wake
<1>3. ASSUME UNCHANGED task, Answer(Head(Queue), "locked"), ~IsOpen(Checked)
      PROVE  FacadeInv'
  <2>1. "locked" \in Outcomes
    BY DEF Outcomes
  <2>. QED
    BY <1>1, <1>2, <1>3, <2>1, WakeAnswers
<1>4. ASSUME UNCHANGED task, Answer(Head(Queue), "refused")
      PROVE  FacadeInv'
  <2>1. "refused" \in Outcomes
    BY DEF Outcomes
  <2>2. IsOpen(lifecycle') => Told(Command, "refused")
    BY <1>1, <1>2, AwaitedIs DEF Told
  <2>. QED
    BY <1>1, <1>2, <1>4, <2>1, <2>2, WakeAnswers
<1>5. ASSUME NEW kind \in {"sync", "fetch", "publish"}, task' = Awaiting(kind, Head(Queue)),
             UNCHANGED <<answers, opened>>, kind \in {"sync", "publish"} => IsOpen(Checked)
      PROVE  FacadeInv'
  BY <1>2, <1>5, WakeAwaits
<1>6. \/ UNCHANGED task /\ Answer(Head(Queue), "locked") /\ ~IsOpen(Checked)
      \/ UNCHANGED task /\ Answer(Head(Queue), "refused")
      \/ \E kind \in {"sync", "fetch", "publish"} :
           task' = Awaiting(kind, Head(Queue)) /\ UNCHANGED <<answers, opened>>
             /\ (kind \in {"sync", "publish"} => IsOpen(Checked))
  BY DEF StartSync, StartRevoke, StartApprove
<1>. QED
  BY <1>3, <1>4, <1>5, <1>6

LEMMA EndKeeps ==
  ASSUME FacadeInv, Shutdown \/ Disconnected \/ SyncDisconnected
  PROVE  FacadeInv'
<1>1. /\ lifecycle \in Life /\ Checked \in Life
      /\ (IsOpen(Checked) => opened) /\ (IsOpen(lifecycle) => opened)
  BY LifeIs DEF FacadeInv, OpenedIsTold
<1>2. "ok" \in Outcomes /\ "internal" \in Outcomes
  BY DEF Outcomes
<1>3. CASE Shutdown
  BY <1>1, <1>2, <1>3, StopIs DEF Shutdown
<1>4. CASE Disconnected
  BY <1>1, <1>4, StopIs DEF Disconnected, clocks
<1>5. CASE SyncDisconnected
  BY <1>1, <1>2, <1>5, StopIs DEF SyncDisconnected, clocks
<1>. QED
  BY <1>3, <1>4, <1>5

LEMMA DoneKeeps ==
  ASSUME FacadeInv, SyncDone \/ PublishFails \/ Published
  PROVE  FacadeInv'
<1>1. FacadeTypes /\ OpenedIsTold /\ pending \in BOOLEAN
  BY DEF FacadeInv, FacadeTypes
<1>2. CASE SyncDone
  <2>1. PICK answer \in {"ok", "refused"} : Answer(task.call, answer)
    BY <1>2 DEF SyncDone
  <2>2. lifecycle' \in Life /\ opened
    BY <1>1, <1>2, LifeIs DEF SyncDone, OpenedIsTold
  <2>3. answer \in Outcomes
    BY <2>1 DEF Outcomes
  <2>. QED
    BY <1>1, <1>2, <2>1, <2>2, <2>3, TaskAnswers DEF SyncDone
<1>3. CASE PublishFails
  <2>1. PICK answer \in {"refused", "internal"} : Answer(task.call, answer)
    BY <1>3 DEF PublishFails
  <2>2. lifecycle' \in Life /\ opened
    BY <1>1, <1>3, LifeIs DEF PublishFails, OpenedIsTold
  <2>3. answer \in Outcomes
    BY <2>1 DEF Outcomes
  <2>. QED
    BY <1>1, <1>3, <2>1, <2>2, <2>3, TaskAnswers DEF PublishFails, Resume
<1>4. CASE Published
  <2>1. PICK answer \in {"ok", "refused"} : Answer(task.call, answer)
    BY <1>4 DEF Published
  <2>2. lifecycle' \in Life /\ opened
    BY <1>1, <1>4, LifeIs DEF Published, OpenedIsTold
  <2>3. answer \in Outcomes
    BY <2>1 DEF Outcomes
  <2>. QED
    BY <1>1, <1>4, <2>1, <2>2, <2>3, TaskAnswers DEF Published, Resume
<1>. QED
  BY <1>2, <1>3, <1>4

LEMMA FetchKeeps ==
  ASSUME FacadeInv, FetchRequest
  PROVE  FacadeInv'
<1>1. FacadeTypes /\ QueueRises /\ CallsWait /\ OpenedIsTold /\ pending \in BOOLEAN /\ lifecycle \in Life
  BY LifeIs DEF FacadeInv, FacadeTypes
<1>2. task.kind = "fetch" /\ Resume /\ lifecycle' = lifecycle
  BY DEF FetchRequest
<1>3. CASE task' = Idle
  <2>1. PICK answer \in {"refused", "locked"} : Answer(task.call, answer) /\ (answer = "locked" => ~IsOpen(lifecycle))
    BY <1>1, <1>3, TaskIs DEF FetchRequest, Idle, Awaiting
  <2>2. answer \in Outcomes /\ pending' \in BOOLEAN
    BY <1>1, <2>1 DEF Outcomes, FetchRequest
  <2>. QED
    BY <1>1, <1>2, <1>3, <2>1, <2>2, TaskAnswers DEF Resume, OpenedIsTold
<1>4. CASE task' # Idle
  <2>1. /\ IsOpen(lifecycle) /\ task' = Awaiting("publish", task.call) /\ UNCHANGED <<answers, opened>>
        /\ pending' = FALSE
    BY <1>4 DEF FetchRequest
  <2>2. task.call \in Ids
    BY <1>1, <1>2, TaskIs
  <2>3. task'.call = task.call /\ task'.kind = "publish" /\ task' \in [kind : {"sync", "fetch", "publish"}, call : Ids]
    BY <2>1, <2>2 DEF Awaiting
  <2>4. /\ calls' = calls /\ now' = now /\ last_now' = last_now /\ connected' = connected
        /\ channel' = channel /\ deferred' = deferred
    BY <1>2 DEF Resume, clocks, callers
  <2>5. Waiting' = Waiting /\ QueueRises' /\ channel' \in Seq(Ids) /\ deferred' \in Seq(Ids)
    BY <1>1, <2>4 DEF Waiting, QueueRises, FacadeTypes
  <2>6. Settles({})
    <3>1. answers \in Seq(Replies)
      BY <1>1 DEF FacadeTypes, Replies
    <3>. QED
      BY <1>1, <2>1, <2>2, <2>3, <2>4, <2>5, <3>1 DEF Settles, CallsWait
  <2>7. /\ now' \in 0 .. Horizon /\ last_now' \in 0 .. Horizon /\ connected' \in BOOLEAN /\ pending' \in BOOLEAN
        /\ opened' \in BOOLEAN
    BY <1>1, <2>1, <2>4 DEF FacadeTypes
  <2>8. opened'
    BY <1>1, <2>1 DEF OpenedIsTold
  <2>. QED
    BY <1>1, <1>2, <2>3, <2>5, <2>6, <2>7, <2>8, StepKeeps
<1>. QED
  BY <1>3, <1>4

-----------------------------------------------------------------------------
(***************************************************************************)
(* The commands that arrive while a sync is in flight.                     *)
(***************************************************************************)
LEMMA SyncStateIs ==
  ASSUME FacadeInv, NEW ops, Receive(ops)
  PROVE  /\ task.kind = "sync" /\ task.call \in Ids /\ channel # <<>> /\ calls[Head(channel)] \in ops
         /\ UNCHANGED <<now, last_now, calls, connected, pending>> /\ opened
         /\ now' \in 0 .. Horizon /\ last_now' \in 0 .. Horizon /\ connected' \in BOOLEAN /\ pending' \in BOOLEAN
         /\ lifecycle \in Life /\ answers \in Seq(Replies) /\ Len(answers) = Len(calls)
         /\ task \in [kind : {"sync", "fetch", "publish"}, call : Ids]
         /\ calls[task.call] \in Awaited /\ task.call \notin Waiting /\ answers[task.call] = NoAnswer
<1>1. FacadeTypes /\ CallsWait /\ OpenedIsTold
  BY DEF FacadeInv
<1>2. task.kind = "sync" /\ channel # <<>> /\ calls[Head(channel)] \in ops
      /\ UNCHANGED <<now, last_now, calls, connected, pending>>
  BY DEF Receive, clocks, callers
<1>3. task.call \in Ids
  BY <1>1, <1>2, TaskIs
<1>4. task \in [kind : {"sync", "fetch", "publish"}, call : Ids]
  BY <1>1, <1>2 DEF FacadeTypes, Idle, Stopped
<1>5. lifecycle \in Life /\ opened
  BY <1>1, <1>2, LifeIs DEF OpenedIsTold
<1>6. calls[task.call] \in Awaited /\ task.call \notin Waiting /\ answers[task.call] = NoAnswer
  BY <1>1, <1>3 DEF CallsWait
<1>7. now' \in 0 .. Horizon /\ last_now' \in 0 .. Horizon /\ connected' \in BOOLEAN /\ pending' \in BOOLEAN
      /\ answers \in Seq(Replies) /\ Len(answers) = Len(calls)
  BY <1>1, <1>2 DEF FacadeTypes, Replies
<1>. QED
  BY <1>2, <1>3, <1>4, <1>5, <1>6, <1>7

LEMMA DefersKeeps ==
  ASSUME FacadeInv, SyncDefers
  PROVE  FacadeInv'
<1> DEFINE ops == Operations \ ({"shutdown", "status", "poll"} \cup Preempting)
<1>1. /\ FacadeTypes /\ QueueRises /\ CallsWait /\ Receive(ops) /\ channel' = Tail(channel)
      /\ deferred' = Append(deferred, Head(channel)) /\ UNCHANGED <<lifecycle, task, answers, opened>>
  BY DEF FacadeInv, SyncDefers, Deferring
<1> HIDE DEF ops
<1>2. /\ task.kind = "sync" /\ task.call \in Ids /\ channel # <<>> /\ calls' = calls /\ opened
      /\ now' \in 0 .. Horizon /\ last_now' \in 0 .. Horizon /\ connected' \in BOOLEAN /\ pending' \in BOOLEAN
      /\ lifecycle \in Life /\ answers \in Seq(Replies)
      /\ task \in [kind : {"sync", "fetch", "publish"}, call : Ids]
      /\ calls[task.call] \in Awaited /\ task.call \notin Waiting
  BY <1>1, SyncStateIs
<1>3. Waiting' = Waiting /\ QueueRises' /\ channel' \in Seq(Ids) /\ deferred' \in Seq(Ids)
  BY <1>1, <1>2, DeferIs
<1>4. Settles({})
  BY <1>1, <1>2, <1>3 DEF Settles
<1>5. opened' \in BOOLEAN /\ opened'
  BY <1>1, <1>2 DEF FacadeTypes
<1>. QED
  BY <1>1, <1>2, <1>3, <1>4, <1>5, StepKeeps

LEMMA AnswersKeeps ==
  ASSUME FacadeInv, SyncAnswers
  PROVE  FacadeInv'
<1>1. /\ FacadeTypes /\ QueueRises /\ CallsWait /\ Receive({"status", "poll"}) /\ channel' = Tail(channel)
      /\ Answer(Head(channel), "is_unlocked") /\ UNCHANGED <<lifecycle, deferred, task>>
  BY DEF FacadeInv, SyncAnswers, Receive
<1>2. /\ task.kind = "sync" /\ task.call \in Ids /\ channel # <<>> /\ calls' = calls /\ opened
      /\ now' \in 0 .. Horizon /\ last_now' \in 0 .. Horizon /\ connected' \in BOOLEAN /\ pending' \in BOOLEAN
      /\ lifecycle \in Life
      /\ task \in [kind : {"sync", "fetch", "publish"}, call : Ids]
      /\ calls[task.call] \in Awaited /\ task.call \notin Waiting /\ calls[Head(channel)] \in {"status", "poll"}
  BY <1>1, SyncStateIs
<1>3. /\ Head(channel) \in Ids /\ Head(channel) \in Waiting
      /\ Waiting' = Waiting \ {Head(channel)} /\ QueueRises' /\ channel' \in Seq(Ids)
  BY <1>1, <1>2, ReceiveIs
<1>4. deferred' \in Seq(Ids) /\ "is_unlocked" \in Outcomes
  BY <1>1 DEF FacadeTypes, Outcomes
<1>5. /\ answers' \in Seq(Replies) /\ Len(answers') = Len(answers)
      /\ \A k \in Ids : answers'[k] = NoAnswer <=> answers[k] = NoAnswer /\ k \notin {Head(channel)}
      /\ opened' = Told(calls[Head(channel)], "is_unlocked") /\ opened' \in BOOLEAN
  BY <1>1, <1>3, <1>4, AnswerIs
<1>6. Settles({Head(channel)})
  <2>1. calls[Head(channel)] \notin VaultCommands
    BY <1>2 DEF VaultCommands
  <2>. QED
    BY <1>1, <1>2, <1>3, <1>5, <2>1 DEF Settles
<1>7. opened'
  BY <1>2, <1>5 DEF Told
<1>. QED
  BY <1>1, <1>2, <1>3, <1>4, <1>5, <1>6, <1>7, StepKeeps

LEMMA PreemptedKeeps ==
  ASSUME FacadeInv, SyncPreempted
  PROVE  FacadeInv'
<1>1. /\ FacadeTypes /\ QueueRises /\ CallsWait /\ Receive(Preempting \cup {"poll"}) /\ channel' = Tail(channel)
      /\ lifecycle' = Relocked(lifecycle) /\ opened' = FALSE /\ task' = Idle /\ deferred' = deferred
  BY DEF FacadeInv, SyncPreempted, Receive
<1>2. /\ task.kind = "sync" /\ task.call \in Ids /\ channel # <<>> /\ calls' = calls
      /\ now' \in 0 .. Horizon /\ last_now' \in 0 .. Horizon /\ connected' \in BOOLEAN /\ pending' \in BOOLEAN
      /\ lifecycle \in Life /\ answers \in Seq(Replies) /\ Len(answers) = Len(calls)
      /\ calls[task.call] \in Awaited /\ task.call \notin Waiting
      /\ calls[Head(channel)] \in Preempting \cup {"poll"}
  BY <1>1, SyncStateIs
<1>3. /\ Head(channel) \in Ids /\ Head(channel) \in Waiting
      /\ Waiting' = Waiting \ {Head(channel)} /\ QueueRises' /\ channel' \in Seq(Ids) /\ deferred' \in Seq(Ids)
  BY <1>1, <1>2, ReceiveIs DEF FacadeTypes
<1>4. lifecycle' \in Life /\ ~IsOpen(lifecycle')
  BY <1>1, <1>2, LifeIs
<1> DEFINE reply == IF calls[Head(channel)] = "lock" THEN "ok" ELSE LockState(lifecycle')
<1>5. reply \in Outcomes /\ "locked" \in Outcomes /\ NoAnswer \notin Outcomes
  BY FacadeAssumption DEF Outcomes, LockState
<1>6. answers' = [answers EXCEPT ![task.call] = "locked", ![Head(channel)] = reply]
  BY DEF SyncPreempted
<1> HIDE DEF reply
<1>7. /\ answers' \in Seq(Replies) /\ Len(answers') = Len(answers)
      /\ \A k \in Ids : answers'[k] = NoAnswer <=> answers[k] = NoAnswer /\ k \notin {task.call, Head(channel)}
  <2> DEFINE mid == [answers EXCEPT ![task.call] = "locked"]
  <2>1. Ids = 1 .. Len(answers) /\ "locked" \in Replies /\ reply \in Replies
    BY <1>2, <1>5 DEF Ids, Replies
  <2>2. /\ mid \in Seq(Replies) /\ Len(mid) = Len(answers)
        /\ \A k \in Ids : mid[k] = IF k = task.call THEN "locked" ELSE answers[k]
    BY <1>2, <2>1, ExceptSeq
  <2>3. answers' = [mid EXCEPT ![Head(channel)] = reply]
    BY <1>6
  <2> HIDE DEF mid
  <2>4. /\ answers' \in Seq(Replies) /\ Len(answers') = Len(answers)
        /\ \A k \in Ids : answers'[k] = IF k = Head(channel) THEN reply ELSE mid[k]
    BY <1>3, <2>1, <2>2, <2>3, ExceptSeq
  <2>. QED
    BY <1>5, <2>2, <2>4
<1>8. Idle.call = 0 /\ 0 \notin Ids /\ Idle.kind = "idle" /\ 0 \notin Waiting
  <2>1. Waiting \subseteq Ids
    BY <1>1, ElementOfSeq DEF Waiting, Members, FacadeTypes
  <2>. QED
    BY <1>1, <2>1, TaskIs
<1>9. Settles({task.call, Head(channel)})
  <2>1. calls[Head(channel)] \notin VaultCommands /\ calls[task.call] \notin VaultCommands
    BY <1>2, AwaitedIs DEF VaultCommands, Preempting
  <2>. QED
    BY <1>1, <1>2, <1>3, <1>7, <1>8, <2>1 DEF Settles
<1>. QED
  BY <1>1, <1>2, <1>3, <1>4, <1>8, <1>9, StepKeeps

LEMMA SyncShutdownKeeps ==
  ASSUME FacadeInv, SyncShutdown
  PROVE  FacadeInv'
<1>1. /\ FacadeTypes /\ QueueRises /\ Receive({"shutdown"}) /\ lifecycle' = Relocked(lifecycle)
      /\ task' = Stopped /\ channel' = <<>> /\ deferred' = <<>> /\ opened' = FALSE
      /\ answers' = [k \in DOMAIN answers |->
           IF k = task.call THEN "locked" ELSE IF k = Head(channel) THEN "ok"
           ELSE IF answers[k] = NoAnswer THEN "stopped" ELSE answers[k]]
  BY DEF FacadeInv, SyncShutdown
<1>2. /\ UNCHANGED <<now, last_now, calls, connected, pending>>
      /\ lifecycle \in Life /\ answers \in Seq(Replies) /\ Len(answers) = Len(calls)
  BY <1>1, SyncStateIs
<1>3. lifecycle' \in Life /\ ~IsOpen(lifecycle')
  BY <1>1, <1>2, LifeIs
<1>4. DOMAIN answers = Ids /\ \A k \in Ids : answers[k] \in Replies
  BY <1>1, <1>2, CallsAre, ElementOfSeq DEF Ids
<1>5. DOMAIN answers' = Ids /\ answers' = [k \in Ids |-> answers'[k]]
  BY <1>1, <1>4
<1>6. ASSUME NEW k \in Ids PROVE answers'[k] \in Outcomes
  <2>1. answers'[k] = IF k = task.call THEN "locked" ELSE IF k = Head(channel) THEN "ok"
                      ELSE IF answers[k] = NoAnswer THEN "stopped" ELSE answers[k]
    BY <1>1, <1>4
  <2>2. answers[k] = NoAnswer \/ answers[k] \in Outcomes
    BY <1>4 DEF Replies
  <2>3. "locked" \in Outcomes /\ "ok" \in Outcomes /\ "stopped" \in Outcomes
    BY DEF Outcomes
  <2>. QED
    BY <2>1, <2>2, <2>3
<1>. QED
  BY <1>1, <1>2, <1>3, <1>5, <1>6, StopKeeps

-----------------------------------------------------------------------------
LEMMA FacadeInit == Init => FacadeInv
<1>1. SUFFICES ASSUME Init PROVE FacadeInv
  OBVIOUS
<1>2. /\ calls = <<>> /\ channel = <<>> /\ deferred = <<>> /\ answers = <<>> /\ task = Idle
      /\ now \in 0 .. Horizon /\ last_now \in 0 .. Horizon /\ lifecycle = Locked
      /\ connected = TRUE /\ pending = TRUE /\ opened = FALSE
  BY <1>1 DEF Init
<1>3. Ids = {} /\ Waiting = {} /\ Len(calls) = 0 /\ Len(answers) = 0 /\ QueueRises
  <2>1. Len(calls) = 0 /\ Len(answers) = 0
    BY <1>2
  <2>2. Ids = {}
    BY <2>1 DEF Ids
  <2>. QED
    BY <1>2, <2>1, <2>2, EmptyMembers DEF Waiting, QueueRises
<1>4. FacadeTypes
  BY <1>2, <1>3, EmptySeq DEF FacadeTypes
<1>5. CallsWait /\ AnsweredInOrder
  BY <1>3 DEF CallsWait, AnsweredInOrder
<1>6. OpenedIsTold
  BY <1>2 DEF OpenedIsTold, IsOpen, Locked, Idle
<1>. QED
  BY <1>3, <1>4, <1>5, <1>6 DEF FacadeInv

LEMMA FacadeStep == FacadeInv /\ [Next]_vars => FacadeInv'
<1>1. SUFFICES ASSUME FacadeInv, [Next]_vars PROVE FacadeInv'
  OBVIOUS
<1>2. CASE \E op \in Operations : Call(op)
  BY <1>1, <1>2, CallKeeps
<1>3. CASE DropHandle \/ Clock \/ UNCHANGED vars
  BY <1>1, <1>3, OutsideKeeps
<1>4. CASE Commands
  BY <1>1, <1>4, UnlockKeeps, CommandKeeps, StartKeeps, EndKeeps DEF Commands
<1>5. CASE Selects
  BY <1>1, <1>5, DefersKeeps, AnswersKeeps, PreemptedKeeps, SyncShutdownKeeps, EndKeeps DEF Selects
<1>6. CASE SyncDone \/ Inline
  BY <1>1, <1>6, DoneKeeps, FetchKeeps DEF Inline
<1>. QED
  BY <1>1, <1>2, <1>3, <1>4, <1>5, <1>6 DEF Next

\* The queue is the deferred commands and then the channel.
LEMMA QueueIsWaiting ==
  ASSUME FacadeTypes, NEW n
  PROVE  InQueue(n) <=> n \in Waiting
<1>1. /\ channel \in Seq(Ids) /\ deferred \in Seq(Ids)
      /\ Len(channel) \in Nat /\ Len(deferred) \in Nat
  BY CallsAre, LenProperties
<1>2. /\ deferred \o channel \in Seq(Ids) /\ Len(deferred \o channel) = Len(deferred) + Len(channel)
      /\ \A i \in 1 .. Len(deferred) + Len(channel) : (deferred \o channel)[i] =
           IF i <= Len(deferred) THEN deferred[i] ELSE channel[i - Len(deferred)]
  BY <1>1, ConcatProperties
<1>3. DOMAIN (deferred \o channel) = 1 .. Len(deferred) + Len(channel)
  BY <1>2, LenProperties
<1>4. ASSUME InQueue(n) PROVE n \in Waiting
  <2>1. PICK k \in 1 .. Len(deferred) + Len(channel) : (deferred \o channel)[k] = n
    BY <1>3, <1>4 DEF InQueue
  <2>2. CASE k <= Len(deferred)
    <3>1. k \in 1 .. Len(deferred) /\ n = deferred[k]
      BY <1>1, <1>2, <2>1, <2>2
    <3>. QED
      BY <3>1 DEF Waiting, Members
  <2>3. CASE ~(k <= Len(deferred))
    <3>1. k - Len(deferred) \in 1 .. Len(channel) /\ n = channel[k - Len(deferred)]
      BY <1>1, <1>2, <2>1, <2>3
    <3>. QED
      BY <3>1 DEF Waiting, Members
  <2>. QED
    BY <2>2, <2>3
<1>5. ASSUME n \in Waiting PROVE InQueue(n)
  <2>1. CASE n \in Members(deferred)
    <3>1. PICK i \in 1 .. Len(deferred) : n = deferred[i]
      BY <2>1 DEF Members
    <3>2. i \in 1 .. Len(deferred) + Len(channel) /\ (deferred \o channel)[i] = n
      BY <1>1, <1>2, <3>1
    <3>. QED
      BY <1>3, <3>2 DEF InQueue
  <2>2. CASE n \in Members(channel)
    <3>1. PICK i \in 1 .. Len(channel) : n = channel[i]
      BY <2>2 DEF Members
    <3>2. /\ Len(deferred) + i \in 1 .. Len(deferred) + Len(channel)
          /\ ~(Len(deferred) + i <= Len(deferred)) /\ (Len(deferred) + i) - Len(deferred) = i
      BY <1>1, <3>1
    <3>3. (deferred \o channel)[Len(deferred) + i] = n
      BY <1>2, <3>1, <3>2
    <3>. QED
      BY <1>3, <3>2, <3>3 DEF InQueue
  <2>. QED
    BY <1>5, <2>1, <2>2 DEF Waiting
<1>. QED
  BY <1>4, <1>5

LEMMA InvIsOrder == FacadeInv => VaultCommandsInOrder
<1>1. SUFFICES ASSUME FacadeInv PROVE VaultCommandsInOrder
  OBVIOUS
<1>2. FacadeTypes /\ CallsWait /\ AnsweredInOrder
  BY <1>1 DEF FacadeInv
<1>3. task \in [kind : {"idle", "stopped", "sync", "fetch", "publish"}, call : 0 .. Len(calls)]
  <2>1. Len(calls) \in Nat /\ Ids \subseteq 0 .. Len(calls)
    BY <1>2, CallsAre
  <2>2. CASE task \in {Idle, Stopped}
    BY <2>1, <2>2 DEF Idle, Stopped
  <2>3. CASE task \in [kind : {"sync", "fetch", "publish"}, call : Ids]
    BY <2>1, <2>3
  <2>. QED
    BY <1>2, <2>2, <2>3 DEF FacadeTypes
<1>4. \A n \in Ids : (answers[n] = NoAnswer) <=> (InQueue(n) \/ task.call = n)
  BY <1>2, QueueIsWaiting DEF CallsWait
<1>5. FacadeTypeOK
  BY <1>2, <1>3, <1>4 DEF FacadeTypes, FacadeTypeOK
<1>. QED
  BY <1>2, <1>5 DEF VaultCommandsInOrder, AnsweredInOrder

\* The inductive invariant holds of every behaviour.
LEMMA FacadeStaysSound == Spec => []FacadeInv
  BY FacadeInit, FacadeStep, PTL DEF Spec

\* Reads and mutators are answered in the order they were sent, whatever a sync
\* deferred, and no call is lost or answered twice (Core::run, drive_sync).
THEOREM AnswersComeInOrder == Spec => []VaultCommandsInOrder
  BY FacadeStaysSound, InvIsOrder, PTL

-----------------------------------------------------------------------------
(***************************************************************************)
(* The action properties: what a call may be told, and when.               *)
(***************************************************************************)
Served == VaultCommands \cup InlineCommands \cup {"sync"}

\* What the properties say of the n-th call.
TellsRightly(n) ==
  /\ answers'[n] = "ok" /\ calls[n] \in Served => opened
  /\ answers'[n] = "is_unlocked" /\ calls[n] = "poll" => now < lifecycle.deadline

LEMMA OneIsTold ==
  ASSUME FacadeTypes, NEW k \in Ids, NEW answer \in Outcomes, Answer(k, answer),
         NEW n \in Ids, answers[n] = NoAnswer, answers'[n] # NoAnswer
  PROVE  n = k /\ answers'[n] = answer
<1>1. answers'[n] = IF n = k THEN answer ELSE answers[n]
  BY AnswerIs
<1>. QED
  BY <1>1

LEMMA WakeIs ==
  ASSUME FacadeInv, NEW ops, Wake(ops)
  PROVE  Head(Queue) \in Ids /\ Command \in ops /\ Command = calls[Head(Queue)] /\ task = Idle
<1>1. FacadeTypes /\ QueueRises /\ Queue # <<>> /\ Pop /\ Command \in ops /\ task = Idle
  BY DEF FacadeInv, Wake
<1>. QED
  BY <1>1, PopIs DEF Command

LEMMA CommandTells ==
  ASSUME FacadeInv, Unlock \/ Lock \/ Status \/ ReportLifecycle \/ VaultCommand,
         NEW n \in Ids, answers[n] = NoAnswer, answers'[n] # NoAnswer
  PROVE  TellsRightly(n)
<1>1. FacadeTypes /\ (IsOpen(lifecycle) => opened)
  BY DEF FacadeInv, OpenedIsTold
<1>2. /\ IsOpen(Checked) => opened /\ now < lifecycle.deadline
  BY <1>1, LifeIs
<1>3. ASSUME NEW answer \in Outcomes, Answer(Head(Queue), answer), NEW ops, Wake(ops)
      PROVE  n = Head(Queue) /\ answers'[n] = answer /\ calls[n] \in ops
  BY <1>1, <1>3, WakeIs, OneIsTold
<1>4. {"ok", "refused", "locked", "internal", "is_locked", "is_unlocked"} \subseteq Outcomes
  BY DEF Outcomes
<1>5. CASE Unlock
  <2>1. calls[n] \in {"unlock", "bad_key"}
    BY <1>3, <1>4, <1>5 DEF Unlock
  <2>. QED
    BY <2>1 DEF TellsRightly, Served, VaultCommands, InlineCommands
<1>6. CASE Lock
  <2>1. calls[n] \in {"lock"}
    BY <1>3, <1>4, <1>6 DEF Lock
  <2>. QED
    BY <2>1 DEF TellsRightly, Served, VaultCommands, InlineCommands
<1>7. CASE Status
  <2>1. calls[n] \in {"status", "poll"} /\ answers'[n] = LockState(lifecycle') /\ lifecycle' = Checked
    <3>1. LockState(lifecycle') \in Outcomes
      BY <1>4 DEF LockState
    <3>. QED
      BY <1>3, <1>7, <3>1 DEF Status
  <2>. QED
    BY <1>2, <2>1 DEF TellsRightly, Served, VaultCommands, InlineCommands, LockState
<1>8. CASE ReportLifecycle
  <2>1. calls[n] \in {"background", "activity"}
    <3>1. LockState(lifecycle') \in Outcomes
      BY <1>4 DEF LockState
    <3>. QED
      BY <1>3, <1>8, <3>1 DEF ReportLifecycle
  <2>. QED
    BY <2>1 DEF TellsRightly, Served, VaultCommands, InlineCommands
<1>9. CASE VaultCommand
  <2>1. calls[n] \in VaultCommands /\ (answers'[n] = "ok" => IsOpen(Checked))
    <3>1. Wake(VaultCommands)
      BY <1>9 DEF VaultCommand
    <3>2. \E answer \in Outcomes : Answer(Head(Queue), answer) /\ (answer = "ok" => IsOpen(Checked))
      BY <1>4, <1>9 DEF VaultCommand
    <3>. QED
      BY <1>3, <3>1, <3>2
  <2>2. calls[n] # "poll"
    BY <2>1 DEF VaultCommands
  <2>. QED
    BY <1>2, <2>1, <2>2 DEF TellsRightly
<1>. QED
  BY <1>5, <1>6, <1>7, <1>8, <1>9

LEMMA StartTells ==
  ASSUME FacadeInv, StartSync \/ StartRevoke \/ StartApprove,
         NEW n \in Ids, answers[n] = NoAnswer, answers'[n] # NoAnswer
  PROVE  TellsRightly(n)
<1>1. FacadeTypes /\ "locked" \in Outcomes /\ "refused" \in Outcomes
  BY DEF FacadeInv, Outcomes
<1>2. Head(Queue) \in Ids
  BY WakeIs DEF StartSync, StartRevoke, StartApprove
<1>3. answers' = answers \/ \E answer \in {"locked", "refused"} : Answer(Head(Queue), answer)
  BY DEF StartSync, StartRevoke, StartApprove
<1>4. answers'[n] \in {"locked", "refused"}
  BY <1>1, <1>2, <1>3, OneIsTold
<1>. QED
  BY <1>4 DEF TellsRightly

LEMMA EndTells ==
  ASSUME FacadeInv, Shutdown \/ Disconnected \/ SyncDisconnected \/ SyncShutdown \/ SyncPreempted,
         NEW n \in Ids, answers[n] = NoAnswer, answers'[n] # NoAnswer
  PROVE  TellsRightly(n)
<1>1. FacadeTypes /\ DOMAIN answers = Ids
  BY CallsAre DEF FacadeInv
<1>2. CASE Shutdown
  <2>1. answers'[n] = IF n = Head(Queue) THEN "ok" ELSE "stopped"
    BY <1>1, <1>2 DEF Shutdown, Stop
  <2>2. calls[Head(Queue)] = "shutdown"
    BY <1>2 DEF Shutdown, Command
  <2>. QED
    BY <2>1, <2>2 DEF TellsRightly, Served, VaultCommands, InlineCommands
<1>3. CASE Disconnected
  <2>1. answers'[n] \in {NoAnswer, "stopped"}
    BY <1>1, <1>3 DEF Disconnected, Stop
  <2>. QED
    BY <2>1 DEF TellsRightly
<1>4. CASE SyncDisconnected
  <2>1. answers'[n] \in {"internal", "stopped"}
    BY <1>1, <1>4 DEF SyncDisconnected, Stop
  <2>. QED
    BY <2>1 DEF TellsRightly
<1>5. CASE SyncShutdown
  <2>1. answers'[n] = IF n = task.call THEN "locked" ELSE IF n = Head(channel) THEN "ok"
                      ELSE IF answers[n] = NoAnswer THEN "stopped" ELSE answers[n]
    BY <1>1, <1>5 DEF SyncShutdown
  <2>2. answers'[n] \in {"locked", "stopped"} \/ (n = Head(channel) /\ answers'[n] = "ok")
    BY <2>1
  <2>3. calls[Head(channel)] = "shutdown"
    BY <1>5 DEF SyncShutdown, Receive
  <2>. QED
    BY <2>2, <2>3 DEF TellsRightly, Served, VaultCommands, InlineCommands
<1>6. CASE SyncPreempted
  <2>1. Receive(Preempting \cup {"poll"}) /\ lifecycle' = Relocked(lifecycle)
    BY <1>6 DEF SyncPreempted, Receive
  <2>2. calls[Head(channel)] \in {"lock", "background", "poll"} /\ lifecycle \in Life
    BY <2>1, SyncStateIs DEF Preempting
  <2>3. LockState(lifecycle') = "is_locked"
    BY <1>1, <2>1, <2>2, LifeIs DEF LockState
  <2>4. answers'[n] \in {"locked", "is_locked"} \/ (n = Head(channel) /\ answers'[n] = "ok")
    <3> DEFINE mid == [answers EXCEPT ![task.call] = "locked"]
    <3> DEFINE reply == IF calls[Head(channel)] = "lock" THEN "ok" ELSE LockState(lifecycle')
    <3>1. answers' = [mid EXCEPT ![Head(channel)] = reply]
      BY <1>6 DEF SyncPreempted
    <3>2. reply \in {"ok", "is_locked"}
      BY <2>3
    <3>3. DOMAIN mid = Ids /\ mid[n] \in {"locked", NoAnswer}
      BY <1>1
    <3> HIDE DEF mid, reply
    <3>4. answers'[n] = IF n = Head(channel) THEN reply ELSE mid[n]
      BY <3>1, <3>3
    <3>. QED
      BY <3>2, <3>3, <3>4
  <2>. QED
    BY <2>2, <2>4 DEF TellsRightly, Served, VaultCommands, InlineCommands
<1>. QED
  BY <1>2, <1>3, <1>4, <1>5, <1>6

LEMMA AwaitedTells ==
  ASSUME FacadeInv, SyncDone \/ Inline \/ SyncAnswers,
         NEW n \in Ids, answers[n] = NoAnswer, answers'[n] # NoAnswer
  PROVE  TellsRightly(n)
<1>1. FacadeTypes /\ OpenedIsTold /\ QueueRises
  BY DEF FacadeInv
<1>2. CASE SyncDone \/ Inline
  <2>1. task.call \in Ids
    BY <1>1, <1>2, TaskIs DEF SyncDone, Inline, FetchRequest, PublishFails, Published
  <2>2. \/ opened
        \/ answers' = answers
        \/ \E answer \in {"refused", "locked"} : Answer(task.call, answer)
    BY <1>1, <1>2 DEF OpenedIsTold, SyncDone, Inline, FetchRequest, PublishFails, Published
  <2>3. answers' = answers \/ \E answer \in {"ok", "refused", "locked", "internal"} : Answer(task.call, answer)
    BY <1>2 DEF SyncDone, Inline, FetchRequest, PublishFails, Published
  <2>4. {"ok", "refused", "locked", "internal"} \subseteq Outcomes
    BY DEF Outcomes
  <2>5. answers'[n] \in {"ok", "refused", "locked", "internal"}
    BY <1>1, <2>1, <2>3, <2>4, OneIsTold
  <2>6. opened \/ answers'[n] \in {"refused", "locked"}
    BY <1>1, <2>1, <2>2, <2>4, OneIsTold
  <2>. QED
    BY <2>5, <2>6 DEF TellsRightly
<1>3. CASE SyncAnswers
  <2>1. Receive({"status", "poll"}) /\ Answer(Head(channel), "is_unlocked") /\ "is_unlocked" \in Outcomes
        /\ (calls[Head(channel)] = "poll" => ~Crossed) /\ channel' = Tail(channel) /\ deferred' = deferred
    BY <1>3 DEF SyncAnswers, Receive, Outcomes
  <2>2. Head(channel) \in Ids /\ lifecycle \in Life
    BY <1>1, <2>1, SyncStateIs, ReceiveIs
  <2>3. n = Head(channel) /\ answers'[n] = "is_unlocked"
    BY <1>1, <2>1, <2>2, OneIsTold
  <2>4. now \in Nat /\ lifecycle.deadline \in Nat
    BY <1>1, <2>2, FacadeAssumption DEF FacadeTypes, Life, Locked, Poisoned
  <2>. QED
    BY <2>1, <2>3, <2>4 DEF TellsRightly, Crossed
<1>. QED
  BY <1>2, <1>3

LEMMA StepTells ==
  ASSUME FacadeInv, [Next]_vars, NEW n \in Ids, answers[n] = NoAnswer
  PROVE  TellsRightly(n)
<1>1. CASE answers'[n] = NoAnswer
  BY <1>1, FacadeAssumption DEF TellsRightly
<1>2. CASE answers'[n] # NoAnswer
  <2>1. CASE (\E op \in Operations : Call(op)) \/ DropHandle \/ Clock \/ SyncDefers \/ UNCHANGED vars
    <3>1. answers'[n] = answers[n]
      <4>1. answers' = answers \/ answers' = Append(answers, NoAnswer)
        BY <2>1 DEF Call, DropHandle, Clock, SyncDefers, vars
      <4>2. answers \in Seq(Replies) /\ n \in 1 .. Len(answers) /\ NoAnswer \in Replies
        BY DEF FacadeInv, FacadeTypes, Ids, Replies
      <4>. QED
        BY <4>1, <4>2, AppendProperties
    <3>. QED
      BY <1>2, <3>1
  <2>. QED
    BY <1>2, <2>1, CommandTells, StartTells, EndTells, AwaitedTells DEF Next, Commands, Selects, Inline
<1>. QED
  BY <1>1, <1>2

\* A deadline that is moved on a wake by any command but an unlock has not passed.
LEMMA StepExtends ==
  ASSUME FacadeInv, [Next]_vars, task = Idle, Queue # <<>>, Command # "unlock",
         IsOpen(lifecycle), IsOpen(lifecycle'), lifecycle'.deadline # lifecycle.deadline
  PROVE  now < lifecycle.deadline /\ now >= last_now
<1>1. FacadeTypes /\ task.kind = "idle"
  BY TaskIs DEF FacadeInv
<1>2. IsOpen(Checked) => now < lifecycle.deadline /\ now >= last_now
  BY <1>1, LifeIs
<1>3. SUFFICES ASSUME ~IsOpen(Checked) PROVE FALSE
  BY <1>2
<1>4. /\ ~IsOpen(Relocked(Checked)) /\ ~IsOpen(Extended(Checked)) /\ ~IsOpen(OpenRefused(Checked))
  BY <1>1, <1>3, LifeIs DEF OpenRefused
<1>5. CASE UNCHANGED lifecycle
  BY <1>5
<1>6. CASE Commands /\ ~UNCHANGED lifecycle
  <2>1. CASE Unlock
    BY <1>3, <1>4, <2>1 DEF Unlock
  <2>2. CASE Lock \/ Status \/ ReportLifecycle \/ VaultCommand
    BY <1>3, <1>4, <2>2 DEF Lock, Status, ReportLifecycle, VaultCommand
  <2>3. CASE Shutdown \/ Disconnected
    BY <1>3, <1>6, <2>3 DEF Shutdown, Disconnected, Stop
  <2>4. CASE StartSync \/ StartRevoke \/ StartApprove
    BY <1>3, <2>4 DEF StartSync, StartRevoke, StartApprove
  <2>. QED
    BY <1>6, <2>1, <2>2, <2>3, <2>4 DEF Commands
<1>7. CASE Selects \/ SyncDone \/ Inline
  BY <1>1, <1>7 DEF Selects, SyncDone, Inline, SyncDefers, SyncAnswers, SyncPreempted, SyncShutdown,
     SyncDisconnected, Receive, FetchRequest, PublishFails, Published
<1>8. CASE (\E op \in Operations : Call(op)) \/ DropHandle \/ Clock \/ UNCHANGED vars
  <2>1. lifecycle' = lifecycle
    BY <1>8 DEF Call, DropHandle, Clock, vars
  <2>. QED
    BY <1>5, <2>1
<1>. QED
  BY <1>5, <1>6, <1>7, <1>8 DEF Next

\* No call is served once the callers were told that the vault is locked, until
\* an unlock succeeds: not one a dropped sync had deferred (drive_sync).
THEOREM NoneIsServedLocked == Spec => ServedOnlyWhenOpened
<1>1. FacadeInv /\ [Next]_vars =>
        [\A n \in Ids : (/\ answers[n] = NoAnswer /\ answers'[n] = "ok"
                         /\ calls[n] \in VaultCommands \cup InlineCommands \cup {"sync"}) => opened]_vars
  BY StepTells DEF TellsRightly, Served
<1>. QED
  BY <1>1, FacadeStaysSound, PTL DEF Spec, ServedOnlyWhenOpened

\* Where the code looks at the deadline of the auto-lock it honours it: by the commands that are
\* dispatched too late and by the polls that a sync answers (check_deadline, drive_sync).
THEOREM TheDeadlineIsHonoured == Spec => DispatchHonoursDeadline
<1>1. FacadeInv /\ [Next]_vars =>
        [(/\ IsOpen(lifecycle) /\ IsOpen(lifecycle') /\ task = Idle /\ Queue # <<>> /\ Command # "unlock"
          /\ lifecycle'.deadline # lifecycle.deadline) => now < lifecycle.deadline /\ now >= last_now]_vars
  BY StepExtends
<1>2. FacadeInv /\ [Next]_vars =>
        [\A n \in Ids : (answers[n] = NoAnswer /\ answers'[n] = "is_unlocked" /\ calls[n] = "poll")
                          => now < lifecycle.deadline]_vars
  BY StepTells DEF TellsRightly
<1>. QED
  BY <1>1, <1>2, FacadeStaysSound, PTL DEF Spec, DispatchHonoursDeadline, ExtendedInTime, PollSeesDeadline
=============================================================================
