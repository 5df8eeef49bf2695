------------------------ MODULE CommandChannelProofs ------------------------
(***************************************************************************)
(* Proofs about CommandChannel, for any tasks, operations, sessions and    *)
(* frames in flight.  The inductive invariant has three layers: where each *)
(* task stands and what it holds (Standing), what the reads have brought   *)
(* (Reading), and, as long as no late ACK is about, that a write in flight *)
(* is the very command its sender waits on (Truth).                        *)
(***************************************************************************)
EXTENDS CommandChannel, SequenceTheorems, TLAPS

Commands == Writes \cup Reads

\* The frames and answers under way.
Messages ==
  /\ \A m \in frames : /\ m.by \in Actors /\ m.command \in Commands
                       /\ m.content \in Tasks \cup {None}
                       /\ m.command \in Writes => m.by \in Tasks
  /\ \A m \in answers : /\ m.by \in Actors /\ m.command \in Commands
                        /\ m.kind \in {"ack", "nack", "data"}
                        /\ m.kind = "ack" => m.command \in Writes
                        /\ m.kind = "data" => m.command \in Reads
  /\ link = "down" => frames = {} /\ answers = {}

\* The operation of each task, and where it may stand in it.
Placed ==
  /\ job["poll"].op = "poll" /\ job["poll"].step = 1
  /\ at["poll"] \in {"off", "call", "channel", "sent"}
  /\ \A t \in Tasks :
       /\ at[t] # "off" /\ job[t].op # "poll"
       /\ at[t] = "idle" <=> job[t].op = None
       /\ job[t].op # None => job[t].step \in 1..Len(Program[job[t].op])
       /\ at[t] = "task" => job[t].op = "refresh"
       /\ at[t] = "gate" => job[t].op \in Gated
       /\ at[t] \in {"task", "gate"} => job[t].step = 1

\* The queue has each task that waits, once.
Queued ==
  /\ \A i \in 1..Len(gate) : at[gate[i]] = "gate"
  /\ \A i, j \in 1..Len(gate) : gate[i] = gate[j] => i = j

\* The types of what the callers and the poll task change.
CoreTypes ==
  /\ brewLock \in Tasks \cup {None}
  /\ gate \in Seq(Tasks)
  /\ lock \in [Protocols -> Actors \cup {None}]
  /\ at \in [Actors -> {"idle", "off", "task", "gate", "call", "channel", "sent"}]
  /\ job \in [Actors -> Job]
  /\ call \in [Actors -> Call]
  /\ reported \subseteq Tasks

Core == CoreTypes /\ Placed /\ Queued /\ LocksAreHeldInUse

\* The types of what the machine and the link change.
World ==
  /\ link \in {"down", "handshake", "reads", "up"}
  /\ session \in Protocols
  /\ temp \in Tasks \cup {None}
  /\ accepted \subseteq Tasks

Standing == Core /\ World /\ Messages

\* What a task has read is what it asked for, and a brew has read by the time
\* it writes.
ReadRight(t) ==
  /\ job[t].read \in {None, t}
  /\ job[t].op = "freestyle" => job[t].read = t
  /\ job[t].op = "brew" /\ job[t].step > 1 => job[t].read = t

Reading ==
  /\ \A t \in Tasks : ReadRight(t)
  /\ \A m \in frames : m.command = "temp" => m.content = m.by

\* The command that the sender of m waits on is m's.
Awaited(m) == at[m.by] = "sent" /\ Command(m.by) = m.command

OverThisSession(m) == call[m.by].protocol = session

FramesAwaited ==
  \A m \in frames : m.command \in Writes =>
    Awaited(m) /\ (m.valid => OverThisSession(m))

AnswersAwaited ==
  /\ \A m \in answers : m.kind = "nack" => m.command \in Writes
  /\ \A m \in answers : m.command \in Writes => Awaited(m) /\ OverThisSession(m)

\* An ACK on its way tells what has come of the command.
AcksTrue ==
  \A m \in answers : m.kind = "ack" =>
    /\ m.command = "start" => m.by \in accepted
    /\ m.command = "temp" => temp = m.by

\* Of each sender there is one write under way, as a frame or as its answer.
OneAtATime ==
  /\ \A m, n \in frames :
       m.command \in Writes /\ n.command \in Writes /\ m.by = n.by => m = n
  /\ \A m, n \in answers :
       m.command \in Writes /\ n.command \in Writes /\ m.by = n.by => m = n
  /\ \A m \in frames, n \in answers :
       m.command \in Writes /\ n.command \in Writes => m.by # n.by

UnderWay == FramesAwaited /\ AnswersAwaited /\ AcksTrue /\ OneAtATime

\* A brew past its first write has its own recipe in the temporary slot.
TempHeld ==
  \A t \in Tasks :
    job[t].op \in Brews /\ Command(t) \in {"name", "start"} => temp = t

Truth == ~ stray => reported \subseteq accepted /\ UnderWay /\ TempHeld

ChannelInv == Standing /\ stray \in BOOLEAN /\ Reading /\ Truth
----------------------------------------------------------------------------
\* The programs: their lengths, their commands, and where a brew has which.
LEMMA ProgramFacts ==
  /\ \A op \in AllOperations \cup {"poll"} :
       /\ Len(Program[op]) \in 1..4
       /\ \A i \in 1..Len(Program[op]) : Program[op][i] \in Commands
       /\ \A i \in 1..Len(Program[op]) :
            /\ Program[op][i] \in {"temp", "name", "start"} => op \in Brews
            /\ Program[op][i] \in {"name", "start"} =>
                 i > 1 /\ Program[op][i - 1] \in {"temp", "name"}
            /\ Program[op][i] = "start" <=> op \in Brews /\ i = Len(Program[op])
  /\ Program["poll"][1] = "status" /\ Program["refresh"][1] = "read"
  /\ Program["brew"][1] = "read" /\ Program["save"][1] = "read"
<1>1. /\ Program["brew"] = <<"read", "temp", "name", "start">>
      /\ Program["freestyle"] = <<"temp", "name", "start">>
      /\ Program["save"] = <<"read", "write">>
      /\ Program["refresh"] = <<"read">>
      /\ Program["setting"] = <<"value">>
      /\ Program["poll"] = <<"status">>
  BY DEF Program
<1>2. /\ Len(Program["brew"]) = 4 /\ Len(Program["freestyle"]) = 3
      /\ Len(Program["save"]) = 2 /\ Len(Program["refresh"]) = 1
      /\ Len(Program["setting"]) = 1 /\ Len(Program["poll"]) = 1
  BY <1>1
<1>3. ASSUME NEW op \in AllOperations \cup {"poll"} PROVE Len(Program[op]) \in 1..4
  BY <1>2, <1>3 DEF AllOperations
<1>4. ASSUME NEW op \in AllOperations \cup {"poll"}, NEW i \in 1..Len(Program[op])
      PROVE  /\ Program[op][i] \in Commands
             /\ Program[op][i] \in {"temp", "name", "start"} => op \in Brews
             /\ Program[op][i] \in {"name", "start"} =>
                  i > 1 /\ Program[op][i - 1] \in {"temp", "name"}
             /\ Program[op][i] = "start" <=> op \in Brews /\ i = Len(Program[op])
  <2> USE DEF Commands, Writes, Reads, Brews
  <2>1. CASE op = "brew"
    <3>1. i \in {1, 2, 3, 4}
      BY <2>1, <1>2
    <3> QED
      BY <3>1, <2>1, <1>1, <1>2
  <2>2. CASE op = "freestyle"
    <3>1. i \in {1, 2, 3}
      BY <2>2, <1>2
    <3> QED
      BY <3>1, <2>2, <1>1, <1>2
  <2>3. CASE op = "save"
    <3>1. i \in {1, 2}
      BY <2>3, <1>2
    <3> QED
      BY <3>1, <2>3, <1>1, <1>2
  <2>4. CASE op \in {"refresh", "setting", "poll"}
    <3>1. Len(Program[op]) = 1
      BY <2>4, <1>2
    <3>2. i = 1
      BY <3>1
    <3> QED
      BY <3>1, <3>2, <2>4, <1>1
  <2> QED
    BY <2>1, <2>2, <2>3, <2>4 DEF AllOperations
<1> QED
  BY <1>1, <1>3, <1>4

\* Every operation sends something.
LEMMA FirstStep ==
  \A op \in AllOperations \cup {"poll"} : 1 \in 1..Len(Program[op])
<1> SUFFICES ASSUME NEW op \in AllOperations \cup {"poll"}
             PROVE  1 \in 1..Len(Program[op])
  OBVIOUS
<1> DEFINE n == Len(Program[op])
<1>1. n \in 1..4
  BY ProgramFacts
<1>2. 1 \in 1..n
  <2> HIDE DEF n
  <2> QED
    BY <1>1
<1> QED
  BY <1>2

\* The gated operations are operations.
LEMMA GatedNames ==
  \A op \in Gated : op \in AllOperations /\ op # None /\ op # "poll"
BY NamesAssumption DEF Gated, Brews, AllOperations

\* A task that enters its section finds no other there, and stops the poll.
LEMMA EntersKeepsCore ==
  ASSUME Core, NEW t \in Tasks, EntersSection(t), brewLock = None,
         at[t] \in {"idle", "task", "gate"},
         job' \in [Actors -> Job], \A a \in Actors : a # t => job'[a] = job[a],
         job'[t].op \in Gated, job'[t].step = 1,
         gate' \in Seq(Tasks),
         \A i \in 1..Len(gate') : at[gate'[i]] = "gate" /\ gate'[i] # t,
         \A i, j \in 1..Len(gate') : gate'[i] = gate'[j] => i = j,
         reported' \subseteq Tasks
  PROVE  Core'
<1> USE DEF Core, Actors
<1>0. "poll" \notin Tasks /\ None \notin Actors
  BY NamesAssumption
<1>1. /\ at' = [at EXCEPT ![t] = "call", !["poll"] = "off"]
      /\ brewLock' = t
      /\ call' = [call EXCEPT !["poll"] = NoCall]
      /\ lock' = [p \in Protocols |-> IF lock[p] = "poll" THEN None ELSE lock[p]]
  BY DEF EntersSection, Freed
<1>2. NoCall \in Call
  BY BoundsAssumption DEF NoCall, Call, Protocols
<1>3. CoreTypes'
  BY <1>1, <1>2 DEF CoreTypes
<1>4. job'[t].op \in AllOperations /\ job'[t].op # None /\ job'[t].op # "poll"
  BY NamesAssumption, GatedNames
<1>5. Placed'
  <2>1. 1 \in 1..Len(Program[job'[t].op])
    BY <1>4, FirstStep
  <2>2. ASSUME NEW u \in Tasks, u # t
        PROVE  at'[u] = at[u] /\ job'[u] = job[u]
    BY <1>0, <1>1, <2>2 DEF CoreTypes
  <2>3. at'[t] = "call" /\ at'["poll"] = "off" /\ job'["poll"] = job["poll"]
    BY <1>0, <1>1 DEF CoreTypes
  <2> QED
    BY <1>4, <2>1, <2>2, <2>3 DEF Placed
<1>6. Queued'
  <2>1. \A i \in 1..Len(gate') : gate'[i] \in Tasks
    OBVIOUS
  <2>2. \A i \in 1..Len(gate') : at'[gate'[i]] = "gate"
    BY <1>0, <1>1, <2>1 DEF CoreTypes
  <2> QED
    BY <2>2 DEF Queued
<1>7. LocksAreHeldInUse'
  <2>1. \A u \in Tasks : brewLock' = u <=> InSection(u)'
    <3>1. ASSUME NEW u \in Tasks PROVE brewLock' = u <=> InSection(u)'
      <4>1. CASE u = t
        BY <4>1, <1>0, <1>1 DEF InSection, CoreTypes
      <4>2. CASE u # t
        BY <4>2, <1>0, <1>1, NamesAssumption DEF InSection, CoreTypes, LocksAreHeldInUse
      <4> QED
        BY <4>1, <4>2
    <3> QED
      BY <3>1
  <2>2. ASSUME NEW a \in Actors, NEW p \in Protocols
        PROVE  lock'[p] = a <=> at'[a] = "sent" /\ call'[a].protocol = p
    <3>1. lock[p] = a <=> at[a] = "sent" /\ call[a].protocol = p
      BY DEF LocksAreHeldInUse
    <3>2. CASE a = "poll"
      BY <3>1, <3>2, <1>0, <1>1 DEF CoreTypes
    <3>3. CASE a = t
      BY <3>1, <3>3, <1>0, <1>1 DEF CoreTypes
    <3>4. CASE a # t /\ a # "poll"
      BY <3>1, <3>4, <1>0, <1>1 DEF CoreTypes
    <3> QED
      BY <3>2, <3>3, <3>4
  <2> QED
    BY <2>1, <2>2 DEF LocksAreHeldInUse
<1> QED
  BY <1>3, <1>5, <1>6, <1>7

\* What a task gives back when it returns: its place, its locks, its call.
LEMMA ReturnsKeepsCore ==
  ASSUME Core, NEW t \in Tasks, NEW ok \in BOOLEAN, Returns(t, ok),
         at[t] \in {"channel", "sent"}, UNCHANGED gate
  PROVE  Core'
<1> USE DEF Core, Actors
<1>0. "poll" \notin Tasks /\ None \notin Actors
  BY NamesAssumption
<1>1. NoCall \in Call /\ NoJob \in Job /\ NoJob.op = None
  BY BoundsAssumption DEF NoCall, NoJob, Call, Job, Protocols
<1>2. /\ job' = [job EXCEPT ![t] = NoJob]
      /\ brewLock' = IF brewLock = t THEN None ELSE brewLock
      /\ reported' \subseteq reported \cup {t}
  BY DEF Returns
<1>3. /\ at'[t] = "idle" /\ job'[t] = NoJob /\ job'["poll"] = job["poll"]
      /\ at'["poll"] = at["poll"] \/ at'["poll"] = "call"
      /\ \A u \in Tasks : u # t => at'[u] = at[u] /\ job'[u] = job[u]
  BY <1>0, <1>2 DEF Returns, CoreTypes
<1>4. CoreTypes'
  BY <1>1, <1>2, <1>0 DEF CoreTypes, Returns, Freed
<1>5. Placed'
  BY <1>1, <1>3, <1>0 DEF Placed
<1>6. Queued'
  <2>1. \A i \in 1..Len(gate) : gate[i] \in Tasks
    BY DEF CoreTypes
  <2> QED
    BY <1>3, <2>1 DEF Queued
<1>7. \A u \in Tasks : brewLock' = u <=> InSection(u)'
  BY <1>0, <1>2, <1>3 DEF InSection, LocksAreHeldInUse
<1>8. ASSUME NEW a \in Actors, NEW p \in Protocols
      PROVE  lock'[p] = a <=> at'[a] = "sent" /\ call'[a].protocol = p
  <2>1. lock[p] = a <=> at[a] = "sent" /\ call[a].protocol = p
    BY DEF LocksAreHeldInUse
  <2>2. CASE ResumesPolling(t)
    BY <2>1, <2>2, <1>0 DEF Returns, CoreTypes
  <2>3. CASE ~ ResumesPolling(t)
    BY <2>1, <2>3, <1>0 DEF Returns, Freed, CoreTypes
  <2> QED
    BY <2>2, <2>3
<1> QED
  BY <1>4, <1>5, <1>6, <1>7, <1>8 DEF LocksAreHeldInUse

\* A command that is over leaves its channel lock, whatever it leads to.
LEMMA CompletesKeepsCore ==
  ASSUME Core, NEW a \in Actors, NEW ok \in BOOLEAN, NEW content,
         a # "poll" => content \in Tasks \cup {None},
         at[a] = "sent", Completes(a, ok, content), UNCHANGED gate
  PROVE  Core'
<1> USE DEF Core, Actors
<1>0. "poll" \notin Tasks /\ None \notin Actors
  BY NamesAssumption
<1>1. NoCall \in Call
  BY BoundsAssumption DEF NoCall, Call, Protocols
<1>2. ASSUME a # "poll", ~ (ok /\ job[a].step < Len(Program[job[a].op]))
      PROVE  Core'
  <2>1. a \in Tasks /\ Returns(a, ok)
    BY <1>2 DEF Completes
  <2> QED
    BY <2>1, ReturnsKeepsCore
<1>3. ASSUME \/ a = "poll"
             \/ a # "poll" /\ ok /\ job[a].step < Len(Program[job[a].op])
      PROVE  Core'
  <2>1. /\ at' = [at EXCEPT ![a] = "call"] /\ lock' = Freed(a)
        /\ call' = [call EXCEPT ![a] = NoCall]
        /\ UNCHANGED <<brewLock, reported>>
    BY <1>3 DEF Completes
  <2>2. /\ a = "poll" => job' = job
        /\ a # "poll" =>
             job' = [job EXCEPT ![a].step = @ + 1, ![a].read = content]
    BY <1>3 DEF Completes
  <2>3. /\ job' \in [Actors -> Job]
        /\ \A b \in Actors : job'[b].op = job[b].op /\ (b # a => job'[b] = job[b])
        /\ a # "poll" => job'[a].step \in 1..Len(Program[job'[a].op])
    <3>1. CASE a = "poll"
      BY <2>2, <3>1 DEF CoreTypes
    <3>2. CASE a # "poll"
      <4>1. /\ job[a].op \in AllOperations /\ job[a].step \in 1..4
            /\ job[a].step < Len(Program[job[a].op])
        BY <1>3, <3>2, <1>0 DEF CoreTypes, Placed, Job
      <4>2. job[a].step + 1 \in 1..4 /\ Len(Program[job[a].op]) \in 1..4
        BY <4>1, ProgramFacts
      <4>3. /\ job'[a].step = job[a].step + 1 /\ job'[a].read = content
            /\ job'[a].op = job[a].op /\ job'[a].polled = job[a].polled
            /\ job'[a] \in Job
        BY <2>2, <3>2, <4>2 DEF CoreTypes, Job
      <4> QED
        BY <2>2, <3>2, <4>1, <4>2, <4>3 DEF CoreTypes
    <3> QED
      BY <3>1, <3>2
  <2>4. CoreTypes'
    BY <2>1, <2>3, <1>1 DEF CoreTypes, Freed
  <2>5. at'[a] = "call" /\ \A b \in Actors : b # a => at'[b] = at[b]
    BY <2>1 DEF CoreTypes
  <2>6. Placed'
    <3>1. job'["poll"] = job["poll"]
      BY <2>2, <2>3, <1>0
    <3>2. ASSUME NEW t \in Tasks, t # a
          PROVE  at'[t] = at[t] /\ job'[t] = job[t]
      BY <2>3, <2>5, <3>2
    <3>3. CASE a = "poll"
      BY <2>5, <3>1, <3>2, <3>3, <1>0 DEF Placed
    <3>4. CASE a # "poll"
      <4>1. a \in Tasks /\ job[a].op # None /\ job[a].op # "poll"
        BY <3>4 DEF Placed
      <4>2. at'["poll"] = at["poll"]
        BY <2>5, <3>4
      <4>3. at'[a] = "call" /\ job'[a].op = job[a].op
            /\ job'[a].step \in 1..Len(Program[job'[a].op])
        BY <2>3, <2>5, <3>4
      <4> QED
        BY <3>1, <3>2, <4>1, <4>2, <4>3 DEF Placed
    <3> QED
      BY <3>3, <3>4
  <2>7. Queued'
    BY <2>1, <2>5 DEF Queued, CoreTypes
  <2>8. \A u \in Tasks : brewLock' = u <=> InSection(u)'
    BY <2>1, <2>3, <2>5 DEF InSection, LocksAreHeldInUse
  <2>9. ASSUME NEW b \in Actors, NEW p \in Protocols
        PROVE  lock'[p] = b <=> at'[b] = "sent" /\ call'[b].protocol = p
    BY <2>1, <2>5, <1>0 DEF LocksAreHeldInUse, Freed, CoreTypes
  <2> QED
    BY <2>4, <2>6, <2>7, <2>8, <2>9 DEF LocksAreHeldInUse
<1> QED
  BY <1>2, <1>3

\* In the initial state nobody stands anywhere and nothing is under way.
LEMMA StandingInit == Init => Standing
<1> SUFFICES ASSUME Init PROVE Standing
  OBVIOUS
<1> USE NamesAssumption, BoundsAssumption DEF Init, Actors, Protocols
<1>1. CoreTypes
  <2>1. NoJob \in Job
    BY DEF NoJob, Job
  <2>2. [NoJob EXCEPT !.op = "poll"] \in Job
    BY <2>1 DEF Job
  <2>3. NoCall \in Call
    BY DEF NoCall, Call
  <2> QED
    BY <2>1, <2>2, <2>3 DEF CoreTypes
<1>2. Placed
  BY DEF Placed, NoJob
<1>3. Queued
  BY DEF Queued
<1>4. LocksAreHeldInUse
  BY GatedNames DEF LocksAreHeldInUse, InSection, NoJob, NoCall
<1>5. World /\ Messages
  BY DEF World, Messages
<1> QED
  BY <1>1, <1>2, <1>3, <1>4, <1>5 DEF Standing, Core

\* A call keeps the core, whether it enters, queues, or needs no gate.
LEMMA RequestKeepsCore ==
  ASSUME Standing, NEW t \in Tasks, NEW operation \in Operations,
         Request(t, operation)
  PROVE  Core'
<1> USE DEF Standing, Core, Actors
<1>0. /\ "poll" \notin Tasks /\ None \notin Actors /\ operation \in AllOperations
      /\ operation # "poll" /\ operation # None
  BY NamesAssumption, OperationsAssumption DEF AllOperations
<1>1. /\ at[t] = "idle"
      /\ operation \in Gated => brewLock = None
      /\ reported' \subseteq Tasks
  BY DEF Request, GateOpen, CoreTypes
<1>2. /\ job' \in [Actors -> Job] /\ job'[t].op = operation /\ job'[t].step = 1
      /\ \A a \in Actors : a # t => job'[a] = job[a]
  <2>1. [op |-> operation, step |-> 1,
         read |-> IF operation = "freestyle" THEN t ELSE None,
         polled |-> operation = "save" /\ at["poll"] # "off"] \in Job
    BY <1>0 DEF Job
  <2> QED
    BY <2>1 DEF Request, CoreTypes
<1>3. /\ gate \in Seq(Tasks)
      /\ \A i \in 1..Len(gate) : gate[i] \in Tasks /\ at[gate[i]] = "gate"
      /\ \A i \in 1..Len(gate) : gate[i] # t
  BY <1>1 DEF CoreTypes, Queued
<1>4. 1 \in 1..Len(Program[operation])
  BY <1>0, FirstStep
<1>5. CASE operation \in Gated \ {"refresh"} /\ gate = <<>>
  <2>1. EntersSection(t) /\ gate' = gate /\ brewLock = None
    BY <1>1, <1>5 DEF Request
  <2> QED
    BY <1>1, <1>2, <1>3, <1>5, <2>1, EntersKeepsCore DEF Queued
<1>6. CASE operation \in Gated \ {"refresh"} /\ gate # <<>>
  <2>1. /\ at' = [at EXCEPT ![t] = "gate"] /\ gate' = Append(gate, t)
        /\ UNCHANGED <<brewLock, lock, call>>
    BY <1>6 DEF Request
  <2>2. CoreTypes'
    BY <1>1, <1>2, <2>1 DEF CoreTypes
  <2>3. at'[t] = "gate" /\ \A a \in Actors : a # t => at'[a] = at[a]
    BY <2>1 DEF CoreTypes
  <2>4. Placed'
    BY <1>0, <1>2, <1>4, <1>6, <2>3 DEF Placed
  <2>5. Queued'
    BY <1>3, <2>1, <2>3 DEF Queued
  <2>6. LocksAreHeldInUse'
    BY <1>0, <1>1, <1>2, <2>1, <2>3 DEF LocksAreHeldInUse, InSection
  <2> QED
    BY <2>2, <2>4, <2>5, <2>6
<1>7. CASE operation \notin Gated \ {"refresh"}
  <2>1. /\ at' = [at EXCEPT ![t] = IF operation = "refresh" THEN "task" ELSE "call"]
        /\ UNCHANGED <<gate, brewLock, lock, call>>
    BY <1>7 DEF Request, gateVars
  <2>2. CoreTypes'
    BY <1>1, <1>2, <2>1 DEF CoreTypes
  <2>3. /\ at'[t] = IF operation = "refresh" THEN "task" ELSE "call"
        /\ \A a \in Actors : a # t => at'[a] = at[a]
    BY <2>1 DEF CoreTypes
  <2>4. Placed'
    BY <1>0, <1>2, <1>4, <1>7, <2>3 DEF Placed
  <2>5. Queued'
    BY <1>3, <2>1, <2>3 DEF Queued
  <2>6. LocksAreHeldInUse'
    BY <1>0, <1>1, <1>2, <1>7, <2>1, <2>3 DEF LocksAreHeldInUse, InSection
  <2> QED
    BY <2>2, <2>4, <2>5, <2>6
<1> QED
  BY <1>5, <1>6, <1>7

\* The task of a refresh, and the queue for the gate, keep the core.
LEMMA GateKeepsCore ==
  ASSUME Standing, NEW t \in Tasks, QueuesForGate(t) \/ PassesGate(t)
  PROVE  Core'
<1> USE DEF Standing, Core, Actors
<1>0. "poll" \notin Tasks /\ None \notin Actors
  BY NamesAssumption
<1>1. /\ gate \in Seq(Tasks)
      /\ \A i \in 1..Len(gate) : gate[i] \in Tasks /\ at[gate[i]] = "gate"
  BY DEF CoreTypes, Queued
<1>2. CASE QueuesForGate(t)
  <2>1. /\ at[t] = "task" /\ at' = [at EXCEPT ![t] = "gate"]
        /\ gate' = Append(gate, t)
        /\ UNCHANGED <<brewLock, lock, job, call, reported>>
    BY <1>2 DEF QueuesForGate
  <2>2. CoreTypes'
    BY <1>1, <2>1 DEF CoreTypes
  <2>3. at'[t] = "gate" /\ \A a \in Actors : a # t => at'[a] = at[a]
    BY <2>1 DEF CoreTypes
  <2>4. Placed'
    <3>1. job[t].op = "refresh" /\ job[t].step = 1 /\ "refresh" \in Gated
      BY <2>1 DEF Placed, Gated
    <3> QED
      BY <1>0, <2>1, <2>3, <3>1 DEF Placed
  <2>5. Queued'
    BY <1>1, <2>1, <2>3 DEF Queued
  <2>6. LocksAreHeldInUse'
    BY <1>0, <2>1, <2>3 DEF LocksAreHeldInUse, InSection
  <2> QED
    BY <2>2, <2>4, <2>5, <2>6
<1>3. CASE PassesGate(t)
  <2>1. /\ brewLock = None /\ UNCHANGED reported
        /\ at[t] \in {"task", "gate"}
        /\ gate' \in Seq(Tasks)
        /\ \A i \in 1..Len(gate') : at[gate'[i]] = "gate" /\ gate'[i] # t
        /\ \A i, j \in 1..Len(gate') : gate'[i] = gate'[j] => i = j
    <3>1. CASE at[t] = "task" /\ gate = <<>> /\ UNCHANGED gate
      BY <1>1, <1>3, <3>1 DEF PassesGate
    <3>2. CASE gate # <<>> /\ t = Head(gate) /\ gate' = Tail(gate)
      <4>1. gate[1] = t /\ 1 \in 1..Len(gate)
        BY <1>1, <3>2
      <4>2. /\ Tail(gate) \in Seq(Tasks) /\ Len(Tail(gate)) = Len(gate) - 1
            /\ \A i \in 1..Len(Tail(gate)) : Tail(gate)[i] = gate[i + 1]
        BY <1>1, <3>2, HeadTailProperties
      <4>3. ASSUME NEW i \in 1..Len(gate')
            PROVE  i + 1 \in 1..Len(gate) /\ gate'[i] = gate[i + 1]
        BY <1>1, <3>2, <4>2
      <4>4. /\ at[t] = "gate" /\ gate' \in Seq(Tasks)
            /\ \A i \in 1..Len(gate') : at[gate'[i]] = "gate"
        BY <1>1, <3>2, <4>1, <4>2, <4>3
      <4>5. \A i \in 1..Len(gate') : gate'[i] # t
        BY <4>1, <4>3 DEF Queued
      <4>6. \A i, j \in 1..Len(gate') : gate'[i] = gate'[j] => i = j
        <5>1. ASSUME NEW i \in 1..Len(gate'), NEW j \in 1..Len(gate'),
                     gate'[i] = gate'[j]
              PROVE  i = j
          <6>1. i + 1 = j + 1
            BY <4>3, <5>1 DEF Queued
          <6> QED
            BY <6>1
        <5> QED
          BY <5>1
      <4> QED
        BY <1>3, <4>4, <4>5, <4>6 DEF PassesGate
    <3> QED
      BY <1>3, <3>1, <3>2 DEF PassesGate
  <2>2. /\ job[t].op \in Gated /\ job[t].step = 1 /\ job[t] \in Job
        /\ job[t].op # None /\ job[t].op # "poll"
    BY <2>1, GatedNames DEF Placed, Gated, CoreTypes
  <2>3. CASE EntersSection(t) /\
             job' = IF job[t].op = "refresh"
                    THEN [job EXCEPT ![t].polled = at["poll"] # "off"] ELSE job
    <3>1. /\ job' \in [Actors -> Job] /\ job'[t].op = job[t].op
          /\ job'[t].step = job[t].step
          /\ \A a \in Actors : a # t => job'[a] = job[a]
      BY <2>2, <2>3 DEF CoreTypes, Job
    <3> QED
      BY <2>1, <2>2, <2>3, <3>1, EntersKeepsCore DEF CoreTypes
  <2>4. CASE /\ at' = [at EXCEPT ![t] = "idle"] /\ job' = [job EXCEPT ![t] = NoJob]
             /\ UNCHANGED <<brewLock, lock, call>>
    <3>1. NoJob \in Job /\ NoJob.op = None
      BY DEF NoJob, Job
    <3>2. /\ CoreTypes' /\ at'[t] = "idle" /\ job'[t] = NoJob
          /\ \A a \in Actors : a # t => at'[a] = at[a] /\ job'[a] = job[a]
      BY <2>1, <2>4, <3>1 DEF CoreTypes
    <3>3. Placed'
      BY <1>0, <3>1, <3>2 DEF Placed
    <3>4. Queued'
      BY <2>1, <3>2 DEF Queued
    <3>5. LocksAreHeldInUse'
      BY <1>0, <2>1, <2>4, <3>1, <3>2, GatedNames DEF LocksAreHeldInUse, InSection
    <3> QED
      BY <3>2, <3>3, <3>4, <3>5
  <2> QED
    BY <1>3, <2>3, <2>4 DEF PassesGate
<1> QED
  BY <1>2, <1>3

\* The core is about these variables only.
LEMMA SameCore ==
  ASSUME Core, UNCHANGED <<brewLock, gate, lock, at, job, call, reported>>
  PROVE  Core'
BY DEF Core, CoreTypes, Placed, Queued, LocksAreHeldInUse, InSection

\* A command takes its protocol object, and later that object's lock.
LEMMA CallsKeepCore ==
  ASSUME Standing, NEW a \in Actors, Calls(a) \/ Sends(a)
  PROVE  Core'
<1> USE DEF Standing, Core
<1>0. "poll" \in Actors /\ None \notin Actors /\ "poll" \notin Tasks /\ Tasks \subseteq Actors
  BY NamesAssumption DEF Actors
<1>1. CASE Calls(a)
  <2>1. /\ at[a] = "call" /\ UNCHANGED <<brewLock, gate, lock, job, reported>>
        /\ \/ /\ at' = [at EXCEPT ![a] = "off"] /\ a = "poll" /\ UNCHANGED call
           \/ /\ at' = [at EXCEPT ![a] = "channel"]
              /\ call' = [call EXCEPT ![a] = [protocol |-> session,
                                              keyed |-> Connected, attempt |-> 1]]
    BY <1>1 DEF Calls, gateVars
  <2>2. CoreTypes'
    <3>1. [protocol |-> session, keyed |-> Connected, attempt |-> 1] \in Call
      BY DEF World, Call, Connected
    <3>2. call' \in [Actors -> Call]
      BY <2>1, <3>1 DEF CoreTypes
    <3> QED
      BY <2>1, <3>2 DEF CoreTypes
  <2>3. /\ at'[a] = "channel" \/ (a = "poll" /\ at'[a] = "off")
        /\ \A b \in Actors : b # a => at'[b] = at[b] /\ call'[b] = call[b]
    BY <2>1 DEF CoreTypes
  <2>4. Placed'
    BY <1>0, <2>1, <2>3 DEF Placed
  <2>5. Queued'
    BY <1>0, <2>1, <2>3 DEF Queued, CoreTypes
  <2>6. \A u \in Tasks : brewLock' = u <=> InSection(u)'
    BY <1>0, <2>1, <2>3 DEF LocksAreHeldInUse, InSection
  <2>7. \A b \in Actors, p \in Protocols :
          lock'[p] = b <=> at'[b] = "sent" /\ call'[b].protocol = p
    BY <1>0, <2>1, <2>3 DEF LocksAreHeldInUse
  <2> QED
    BY <2>2, <2>4, <2>5, <2>6, <2>7 DEF LocksAreHeldInUse
<1>2. CASE Sends(a)
  <2>1. /\ at[a] = "channel" /\ lock[call[a].protocol] = None
        /\ lock' = [lock EXCEPT ![call[a].protocol] = a]
        /\ at' = [at EXCEPT ![a] = "sent"]
        /\ UNCHANGED <<brewLock, gate, job, call, reported>>
    BY <1>2 DEF Sends, gateVars
  <2>2. CoreTypes' /\ call[a].protocol \in Protocols
    BY <2>1 DEF CoreTypes, Call
  <2>3. at'[a] = "sent" /\ \A b \in Actors : b # a => at'[b] = at[b]
    BY <2>1 DEF CoreTypes
  <2>4. Placed'
    BY <1>0, <2>1, <2>3 DEF Placed
  <2>5. Queued'
    BY <1>0, <2>1, <2>3 DEF Queued, CoreTypes
  <2>6. \A u \in Tasks : brewLock' = u <=> InSection(u)'
    BY <1>0, <2>1, <2>3 DEF LocksAreHeldInUse, InSection
  <2>7. ASSUME NEW b \in Actors, NEW p \in Protocols
        PROVE  lock'[p] = b <=> at'[b] = "sent" /\ call'[b].protocol = p
    BY <1>0, <2>1, <2>2, <2>3 DEF LocksAreHeldInUse, CoreTypes
  <2> QED
    BY <2>2, <2>4, <2>5, <2>6, <2>7 DEF LocksAreHeldInUse
<1> QED
  BY <1>1, <1>2

\* Without a link the command raises.
LEMMA SendRaisesKeepsCore ==
  ASSUME Standing, NEW a \in Actors, SendRaises(a)
  PROVE  Core'
<1> USE DEF Standing, Core
<1>0. "poll" \in Actors /\ None \notin Actors /\ "poll" \notin Tasks /\ Tasks \subseteq Actors
  BY NamesAssumption DEF Actors
<1>1. CASE a # "poll"
  <2>1. a \in Tasks /\ Returns(a, FALSE) /\ at[a] = "channel" /\ UNCHANGED gate
    BY <1>1 DEF SendRaises, Actors
  <2> QED
    BY <2>1, ReturnsKeepsCore
<1>2. CASE a = "poll"
  <2>1. /\ at[a] = "channel" /\ at' = [at EXCEPT ![a] = "call"]
        /\ call' = [call EXCEPT ![a] = NoCall]
        /\ UNCHANGED <<brewLock, gate, lock, job, reported>>
    BY <1>2 DEF SendRaises
  <2>2. NoCall \in Call
    BY BoundsAssumption DEF NoCall, Call, Protocols
  <2>3. CoreTypes' /\ at'[a] = "call" /\ \A b \in Actors : b # a => at'[b] = at[b]
    BY <2>1, <2>2 DEF CoreTypes
  <2>4. Placed'
    BY <1>0, <1>2, <2>1, <2>3 DEF Placed
  <2>5. Queued'
    BY <1>0, <2>1, <2>3 DEF Queued, CoreTypes
  <2>6. LocksAreHeldInUse'
    BY <1>0, <1>2, <2>1, <2>3 DEF LocksAreHeldInUse, InSection, CoreTypes
  <2> QED
    BY <2>3, <2>4, <2>5, <2>6
<1> QED
  BY <1>1, <1>2

\* A timeout ends an attempt or the command.
LEMMA TimesOutKeepsCore ==
  ASSUME Standing, NEW a \in Actors, TimesOut(a)
  PROVE  Core'
<1> USE DEF Standing, Core
<1>0. "poll" \in Actors /\ None \notin Actors /\ "poll" \notin Tasks /\ Tasks \subseteq Actors
  BY NamesAssumption DEF Actors
<1>1. CASE ~ MayRetry(a)
  <2>1. Completes(a, FALSE, None) /\ at[a] = "sent" /\ UNCHANGED gate
    BY <1>1 DEF TimesOut
  <2> QED
    BY <2>1, CompletesKeepsCore
<1>2. CASE MayRetry(a)
  <2>1. /\ at[a] = "sent" /\ at' = [at EXCEPT ![a] = "channel"] /\ lock' = Freed(a)
        /\ call' = [call EXCEPT ![a].attempt = @ + 1] /\ call[a].attempt < 2
        /\ UNCHANGED <<brewLock, gate, job, reported>>
    BY <1>2 DEF TimesOut, MayRetry
  <2>2. /\ call'[a] \in Call /\ call' \in [Actors -> Call]
        /\ \A b \in Actors : b # a => call'[b] = call[b]
    <3>1. call[a] \in Call /\ call[a].attempt = 1
      BY <2>1 DEF CoreTypes, Call
    <3>2. [call[a] EXCEPT !.attempt = call[a].attempt + 1] \in Call
      BY <3>1 DEF Call
    <3> QED
      BY <2>1, <3>2 DEF CoreTypes
  <2>3. CoreTypes' /\ at'[a] = "channel" /\ \A b \in Actors : b # a => at'[b] = at[b]
    BY <2>1, <2>2 DEF CoreTypes, Freed
  <2>4. Placed'
    BY <1>0, <2>1, <2>3 DEF Placed
  <2>5. Queued'
    BY <1>0, <2>1, <2>3 DEF Queued, CoreTypes
  <2>6. \A u \in Tasks : brewLock' = u <=> InSection(u)'
    BY <1>0, <2>1, <2>3 DEF LocksAreHeldInUse, InSection
  <2>7. ASSUME NEW b \in Actors, NEW p \in Protocols
        PROVE  lock'[p] = b <=> at'[b] = "sent" /\ call'[b].protocol = p
    BY <1>0, <2>1, <2>2, <2>3 DEF LocksAreHeldInUse, Freed, CoreTypes
  <2> QED
    BY <2>3, <2>4, <2>5, <2>6, <2>7 DEF LocksAreHeldInUse
<1> QED
  BY <1>1, <1>2

\* An answer ends the command it resolves, or nothing.
LEMMA DeliversKeepsCore ==
  ASSUME Standing, ReadsBelong, NEW m \in answers, Delivers(m)
  PROVE  Core'
<1> USE DEF Standing, Core
<1>1. UNCHANGED gate
  BY DEF Delivers
<1>2. CASE \A a \in Actors : ~ Resolves(a, m)
  <2>1. UNCHANGED <<brewLock, lock, at, job, call, reported>>
    BY <1>2 DEF Delivers
  <2> QED
    BY <1>1, <2>1, SameCore
<1>3. ASSUME NEW a \in Actors, Resolves(a, m),
             Completes(a, IsOk(m.kind), IF m.kind = "data" THEN m.by ELSE job[a].read)
      PROVE  Core'
  <2>1. at[a] = "sent"
    BY <1>3 DEF Resolves
  <2>2. a # "poll" =>
          (IF m.kind = "data" THEN m.by ELSE job[a].read) \in Tasks \cup {None}
    BY <1>3 DEF Resolves, MatchesId, Actors, CoreTypes, Job
  <2>3. IsOk(m.kind) \in BOOLEAN
    BY DEF IsOk
  <2> QED
    BY <1>1, <1>3, <2>1, <2>2, <2>3, CompletesKeepsCore
<1> QED
  BY <1>2, <1>3 DEF Delivers

\* The connect loop starts the poll task anew.
LEMMA ReadsEndKeepsCore ==
  ASSUME Standing, ReadsEnd
  PROVE  Core'
<1> USE DEF Standing, Core
<1>0. "poll" \in Actors /\ None \notin Actors /\ "poll" \notin Tasks /\ Tasks \subseteq Actors
  BY NamesAssumption DEF Actors
<1>1. /\ at' = [at EXCEPT !["poll"] = "call"] /\ lock' = Freed("poll")
      /\ call' = [call EXCEPT !["poll"] = NoCall]
      /\ UNCHANGED <<brewLock, gate, job, reported>>
  BY DEF ReadsEnd, gateVars
<1>2. NoCall \in Call
  BY BoundsAssumption DEF NoCall, Call, Protocols
<1>3. CoreTypes' /\ at'["poll"] = "call" /\ \A b \in Tasks : at'[b] = at[b]
  BY <1>0, <1>1, <1>2 DEF CoreTypes, Freed
<1>4. Placed'
  BY <1>0, <1>1, <1>3 DEF Placed
<1>5. Queued'
  BY <1>0, <1>1, <1>3 DEF Queued, CoreTypes
<1>6. \A u \in Tasks : brewLock' = u <=> InSection(u)'
  BY <1>0, <1>1, <1>3 DEF LocksAreHeldInUse, InSection
<1>7. ASSUME NEW b \in Actors, NEW p \in Protocols
      PROVE  lock'[p] = b <=> at'[b] = "sent" /\ call'[b].protocol = p
  BY <1>0, <1>1, <1>3 DEF LocksAreHeldInUse, Freed, CoreTypes
<1> QED
  BY <1>3, <1>4, <1>5, <1>6, <1>7 DEF LocksAreHeldInUse

\* What each command is, wherever a sender stands with it.
LEMMA CommandFacts ==
  ASSUME Standing, NEW a \in Actors, at[a] \in {"call", "channel", "sent"}
  PROVE  /\ job[a].op \in AllOperations \cup {"poll"}
         /\ job[a].step \in 1..Len(Program[job[a].op])
         /\ Command(a) \in Commands
         /\ Command(a) \in {"temp", "name", "start"} =>
              a \in Tasks /\ job[a].op \in Brews /\ brewLock = a
         /\ a = "poll" => Command(a) = "status"
<1>1. job[a].op \in AllOperations \cup {"poll"}
      /\ job[a].step \in 1..Len(Program[job[a].op])
  <2>1. CASE a = "poll"
    BY <2>1, ProgramFacts DEF Standing, Core, Placed
  <2>2. CASE a # "poll"
    <3>1. a \in Tasks /\ at[a] # "idle" /\ job[a] \in Job
      BY <2>2 DEF Actors, Standing, Core, CoreTypes
    <3>2. job[a].op # None
      BY <3>1 DEF Standing, Core, Placed
    <3> QED
      BY <3>1, <3>2 DEF Standing, Core, Placed, Job
  <2> QED
    BY <2>1, <2>2
<1>2. Command(a) \in Commands
  BY <1>1, ProgramFacts DEF Command
<1>3. a = "poll" => Command(a) = "status"
  BY ProgramFacts DEF Command, Standing, Core, Placed
<1>4. ASSUME Command(a) \in {"temp", "name", "start"}
      PROVE  a \in Tasks /\ job[a].op \in Brews /\ brewLock = a
  <2>1. job[a].op \in Brews
    BY <1>1, <1>4, ProgramFacts DEF Command
  <2>2. a \in Tasks
    BY <1>3, <1>4 DEF Actors
  <2> QED
    BY <2>1, <2>2 DEF Standing, Core, LocksAreHeldInUse, InSection, Gated
<1> QED
  BY <1>1, <1>2, <1>3, <1>4

\* Every step keeps everybody standing where the invariant has them.
LEMMA StandingNext ==
  ASSUME Standing, ReadsBelong, [Next]_vars
  PROVE  Standing'
<1> USE DEF Standing
<1> DEFINE Outside == World /\ Messages
<1>1. ASSUME NEW t \in Tasks, NEW operation \in Operations, Request(t, operation)
      PROVE  Standing'
  <2>1. Outside'
    BY <1>1 DEF Request, World, Messages, linkVars
  <2> QED
    BY <1>1, <2>1, RequestKeepsCore
<1>2. ASSUME NEW t \in Tasks, QueuesForGate(t) \/ PassesGate(t)
      PROVE  Standing'
  <2>1. Outside'
    BY <1>2 DEF QueuesForGate, PassesGate, World, Messages, linkVars, machineVars
  <2> QED
    BY <1>2, <2>1, GateKeepsCore
<1>3. ASSUME NEW a \in Actors, Calls(a)
      PROVE  Standing'
  <2>1. Outside'
    BY <1>3 DEF Calls, World, Messages, linkVars, machineVars
  <2> QED
    BY <1>3, <2>1, CallsKeepCore
<1>4. ASSUME NEW a \in Actors, Sends(a)
      PROVE  Standing'
  <2>1. World'
    BY <1>4 DEF Sends, World, linkVars, machineVars
  <2>2. /\ Frame(a).by = a /\ Frame(a).command \in Commands
        /\ Frame(a).content \in Tasks \cup {None}
        /\ Frame(a).command \in Writes => a \in Tasks
    <3>1. /\ Command(a) \in Commands
          /\ a = "poll" => Command(a) \notin Writes
          /\ job[a] \in Job
      BY <1>4, CommandFacts DEF Sends, Writes, Core, CoreTypes
    <3>2. a # "poll" => a \in Tasks
      BY DEF Actors
    <3> QED
      BY <3>1, <3>2 DEF Frame, Job
  <2>3. Messages'
    BY <1>4, <2>2 DEF Sends, Messages, linkVars
  <2> QED
    BY <1>4, <2>1, <2>3, CallsKeepCore
<1>5. ASSUME NEW a \in Actors, SendRaises(a)
      PROVE  Standing'
  <2>1. Outside'
    BY <1>5 DEF SendRaises, World, Messages, linkVars, machineVars
  <2> QED
    BY <1>5, <2>1, SendRaisesKeepsCore
<1>6. ASSUME NEW a \in Actors, TimesOut(a)
      PROVE  Standing'
  <2>1. Outside'
    BY <1>6 DEF TimesOut, World, Messages, linkVars, machineVars
  <2> QED
    BY <1>6, <2>1, TimesOutKeepsCore
<1>7. ASSUME NEW m \in frames,
             \/ MachineRejects(m) \/ MachineReads(m)
             \/ MachineObeys(m) \/ MachineRefuses(m)
      PROVE  Standing'
  <2>1. Core'
    BY <1>7, SameCore
    DEF MachineRejects, MachineReads, MachineObeys, MachineRefuses, gateVars
  <2>2. /\ m.by \in Actors /\ m.command \in Commands /\ link # "down"
        /\ m.content \in Tasks \cup {None}
        /\ m.command \in Writes => m.by \in Tasks
    BY DEF Messages
  <2>3. World'
    BY <1>7, <2>2
    DEF World, MachineRejects, MachineReads, MachineObeys, MachineRefuses,
        linkVars, machineVars, Writes
  <2>4. Messages'
    BY <1>7, <2>2
    DEF Messages, MachineRejects, MachineReads, MachineObeys, MachineRefuses,
        linkVars, Answers, Answer, Reads, Writes
  <2> QED
    BY <2>1, <2>3, <2>4
<1>8. ASSUME NEW m \in answers, Delivers(m)
      PROVE  Standing'
  <2>1. Outside'
    BY <1>8 DEF Delivers, World, Messages, linkVars, machineVars
  <2> QED
    BY <1>8, <2>1, DeliversKeepsCore
<1>9. CASE Dials \/ HandshakeSucceeds \/ LinkDrops
  <2>1. Core'
    BY <1>9, SameCore DEF Dials, HandshakeSucceeds, LinkDrops, gateVars
  <2>2. Outside'
    BY <1>9, BoundsAssumption
    DEF Dials, HandshakeSucceeds, LinkDrops, World, Messages, machineVars, Protocols
  <2> QED
    BY <2>1, <2>2
<1>10. CASE ReadsEnd
  <2>1. Outside'
    BY <1>10 DEF ReadsEnd, World, Messages, machineVars
  <2> QED
    BY <1>10, <2>1, ReadsEndKeepsCore
<1>11. CASE UNCHANGED vars
  BY <1>11, SameCore DEF vars, linkVars, gateVars, machineVars, World, Messages
<1> QED
  BY <1>1, <1>2, <1>3, <1>4, <1>5, <1>6, <1>7, <1>8, <1>9, <1>10, <1>11 DEF Next

\* A job that is over, or as it was, has read nothing wrong.
LEMMA ReadStays ==
  ASSUME NEW t \in Tasks, ReadRight(t),
         \/ job'[t] = NoJob
         \/ /\ job'[t].op = job[t].op /\ job'[t].step = job[t].step
            /\ job'[t].read = job[t].read
  PROVE  ReadRight(t)'
BY NamesAssumption DEF ReadRight, NoJob, AllOperations

\* A return ends the job of one task.
LEMMA ReturnsKeepReads ==
  ASSUME Standing, Reading, NEW t \in Tasks, NEW ok \in BOOLEAN, Returns(t, ok)
  PROVE  \A u \in Tasks : ReadRight(u)'
<1> SUFFICES ASSUME NEW u \in Tasks PROVE ReadRight(u)'
  OBVIOUS
<1>1. job'[u] = NoJob \/ job'[u] = job[u]
  BY DEF Returns, Standing, Core, CoreTypes, Actors
<1> QED
  BY <1>1, ReadStays DEF Reading

\* A command that is over has brought its own register, or changed nothing.
LEMMA CompletesKeepReads ==
  ASSUME Standing, Reading, NEW a \in Actors, NEW ok \in BOOLEAN, NEW content,
         at[a] = "sent", Completes(a, ok, content),
         ok => content = IF Command(a) \in Reads THEN a ELSE job[a].read
  PROVE  \A u \in Tasks : ReadRight(u)'
<1>1. CASE a = "poll"
  <2>1. job' = job
    BY <1>1 DEF Completes
  <2> QED
    BY <2>1, ReadStays DEF Reading
<1>2. CASE a # "poll" /\ ~ (ok /\ job[a].step < Len(Program[job[a].op]))
  BY <1>2, ReturnsKeepReads DEF Completes, Actors
<1>3. CASE a # "poll" /\ ok /\ job[a].step < Len(Program[job[a].op])
  <2>1. a \in Tasks /\ job[a] \in Job /\ ReadRight(a)
    BY <1>3 DEF Actors, Reading, Standing, Core, CoreTypes
  <2>2. job' = [job EXCEPT ![a].step = @ + 1, ![a].read = content]
    BY <1>3 DEF Completes
  <2>3. /\ job'[a].op = job[a].op /\ job'[a].read = content
        /\ \A u \in Tasks : u # a => job'[u] = job[u]
    BY <2>1, <2>2 DEF Standing, Core, CoreTypes, Job, Actors
  <2>4. job[a].step \in 1..4
    BY <2>1 DEF Job
  <2>5. job[a].op = "brew" /\ job[a].step = 1 => Command(a) \in Reads
    BY ProgramFacts DEF Command, Reads
  <2>6. ReadRight(a)'
    BY <1>3, <2>1, <2>3, <2>4, <2>5 DEF ReadRight
  <2> QED
    BY <2>3, <2>6, ReadStays DEF Reading
<1> QED
  BY <1>1, <1>2, <1>3

\* Every step keeps the reads where they belong.
LEMMA ReadingNext ==
  ASSUME Standing, Reading, [Next]_vars
  PROVE  Reading'
<1> DEFINE Jobs == \A u \in Tasks : ReadRight(u)
           Temps == \A m \in frames : m.command = "temp" => m.content = m.by
<1> SUFFICES Jobs' /\ Temps'
  BY DEF Reading
<1>0. /\ UNCHANGED job => Jobs'
      /\ frames' \subseteq frames => Temps'
  BY ReadStays DEF Reading
<1>1. ASSUME NEW t \in Tasks, NEW operation \in Operations, Request(t, operation)
      PROVE  Jobs' /\ Temps'
  <2>1. /\ job'[t].op = operation /\ job'[t].step = 1
        /\ job'[t].read = IF operation = "freestyle" THEN t ELSE None
        /\ \A u \in Tasks : u # t => job'[u] = job[u]
    BY <1>1 DEF Request, Standing, Core, CoreTypes, Actors
  <2>2. ReadRight(t)'
    BY <2>1 DEF ReadRight
  <2> QED
    BY <1>0, <1>1, <2>1, <2>2, ReadStays DEF Request, Reading
<1>2. ASSUME NEW t \in Tasks, QueuesForGate(t) \/ PassesGate(t)
      PROVE  Jobs' /\ Temps'
  <2>1. ASSUME NEW u \in Tasks
        PROVE  \/ job'[u] = NoJob
               \/ /\ job'[u].op = job[u].op /\ job'[u].step = job[u].step
                  /\ job'[u].read = job[u].read
    <3>1. job[u] \in Job
      BY DEF Standing, Core, CoreTypes, Actors
    <3> QED
      BY <1>2, <3>1
      DEF QueuesForGate, PassesGate, Standing, Core, CoreTypes, Actors, Job
  <2> QED
    BY <1>0, <1>2, <2>1, ReadStays DEF Reading, QueuesForGate, PassesGate
<1>3. ASSUME NEW a \in Actors, Calls(a)
      PROVE  Jobs' /\ Temps'
  BY <1>0, <1>3 DEF Calls
<1>4. ASSUME NEW a \in Actors, Sends(a)
      PROVE  Jobs' /\ Temps'
  <2>1. Command(a) = "temp" => job[a].read = a
    <3>1. ASSUME Command(a) = "temp"
          PROVE  a \in Tasks /\ job[a].op \in Brews /\ job[a].step \in Nat \ {0}
      BY <1>4, <3>1, CommandFacts DEF Sends
    <3>2. Command(a) = "temp" => ~ (job[a].op = "brew" /\ job[a].step = 1)
      BY ProgramFacts DEF Command
    <3> QED
      BY <3>1, <3>2 DEF Reading, ReadRight, Brews
  <2>2. Frame(a).command = Command(a) /\ Frame(a).content = job[a].read /\ Frame(a).by = a
    BY DEF Frame
  <2> QED
    BY <1>0, <1>4, <2>1, <2>2 DEF Sends, Reading
<1>5. ASSUME NEW a \in Actors, SendRaises(a)
      PROVE  Jobs' /\ Temps'
  <2>1. a = "poll" \/ (a \in Tasks /\ Returns(a, FALSE))
    BY <1>5 DEF SendRaises, Actors
  <2> QED
    BY <1>0, <1>5, <2>1, ReturnsKeepReads DEF SendRaises
<1>6. ASSUME NEW a \in Actors, TimesOut(a)
      PROVE  Jobs' /\ Temps'
  <2>1. UNCHANGED job \/ Completes(a, FALSE, None)
    BY <1>6 DEF TimesOut
  <2> QED
    BY <1>0, <1>6, <2>1, CompletesKeepReads DEF TimesOut
<1>7. ASSUME NEW m \in frames,
             \/ MachineRejects(m) \/ MachineReads(m)
             \/ MachineObeys(m) \/ MachineRefuses(m)
      PROVE  Jobs' /\ Temps'
  BY <1>0, <1>7 DEF MachineRejects, MachineReads, MachineObeys, MachineRefuses
<1>8. ASSUME NEW m \in answers, Delivers(m)
      PROVE  Jobs' /\ Temps'
  <2>1. ASSUME NEW a \in Actors, Resolves(a, m),
               Completes(a, IsOk(m.kind), IF m.kind = "data" THEN m.by ELSE job[a].read)
        PROVE  Jobs'
    <3>1. /\ at[a] = "sent" /\ IsOk(m.kind) \in BOOLEAN
          /\ m.kind = "data" => m.by = a /\ Command(a) \in Reads
          /\ m.kind # "data" => Command(a) \notin Reads
      BY <2>1 DEF Resolves, MatchesId, IsOk, Reads, Writes, Standing, Messages
    <3> QED
      BY <2>1, <3>1, CompletesKeepReads
  <2> QED
    BY <1>0, <1>8, <2>1 DEF Delivers
<1>9. CASE Dials \/ HandshakeSucceeds \/ LinkDrops \/ ReadsEnd
  BY <1>0, <1>9 DEF Dials, HandshakeSucceeds, LinkDrops, ReadsEnd
<1>10. CASE UNCHANGED vars
  BY <1>0, <1>10 DEF vars
<1> QED
  BY <1>1, <1>2, <1>3, <1>4, <1>5, <1>6, <1>7, <1>8, <1>9, <1>10 DEF Next

\* Only who waits on a write has one under way.
LEMMA NoneUnderWay ==
  ASSUME Standing, UnderWay, NEW a \in Actors,
         at[a] # "sent" \/ Command(a) \notin Writes
  PROVE  \A m \in frames \cup answers : m.command \in Writes => m.by # a
BY DEF UnderWay, FramesAwaited, AnswersAwaited, Awaited

\* What the senders of the writes under way go on waiting for, stays true.
LEMMA UnderWayStays ==
  ASSUME Standing, UnderWay, frames' \subseteq frames, answers' \subseteq answers,
         UNCHANGED <<session, temp>>,
         \A m \in frames' \cup answers' : m.command \in Writes =>
           /\ at'[m.by] = at[m.by] /\ job'[m.by].op = job[m.by].op
           /\ job'[m.by].step = job[m.by].step
           /\ call'[m.by].protocol = call[m.by].protocol
           /\ m.by \in accepted => m.by \in accepted'
  PROVE  UnderWay'
<1> USE DEF UnderWay
<1>1. FramesAwaited'
  BY DEF FramesAwaited, Awaited, OverThisSession, Command
<1>2. AnswersAwaited'
  BY DEF AnswersAwaited, Awaited, OverThisSession, Command
<1>3. AcksTrue'
  BY DEF AcksTrue, Standing, Messages
<1>4. OneAtATime'
  BY DEF OneAtATime
<1> QED
  BY <1>1, <1>2, <1>3, <1>4

\* The recipe stays in the slot for those who have not moved on.
LEMMA TempStays ==
  ASSUME Standing, TempHeld, UNCHANGED temp, NEW t \in Tasks,
         \/ job'[t].op \notin Brews
         \/ job'[t].op \in AllOperations /\ job'[t].step = 1
         \/ job'[t].op = job[t].op /\ job'[t].step = job[t].step
  PROVE  job'[t].op \in Brews /\ Command(t)' \in {"name", "start"} => temp' = t
<1>1. CASE job'[t].op \in AllOperations /\ job'[t].step = 1
  <2>1. Command(t)' \notin {"name", "start"}
    BY <1>1, ProgramFacts DEF Command
  <2> QED
    BY <2>1
<1>2. CASE job'[t].op = job[t].op /\ job'[t].step = job[t].step
  BY <1>2 DEF TempHeld, Command
<1> QED
  BY <1>1, <1>2

\* A task past its first write is in its section.
LEMMA NamingHolds ==
  ASSUME Standing, NEW t \in Tasks, job[t].op \in Brews,
         Command(t) \in {"name", "start"}
  PROVE  brewLock = t
<1>1. job[t].op \in AllOperations /\ job[t].op # None
  BY NamesAssumption DEF Brews, AllOperations
<1>2. at[t] # "idle" /\ at[t] # "off" /\ job[t].step \in 1..Len(Program[job[t].op])
  BY <1>1 DEF Standing, Core, Placed
<1>3. job[t].step > 1
  BY <1>1, <1>2, ProgramFacts DEF Command
<1>4. at[t] \in {"call", "channel", "sent"}
  BY <1>2, <1>3 DEF Standing, Core, CoreTypes, Placed, Actors
<1> QED
  BY <1>4 DEF Standing, Core, LocksAreHeldInUse, InSection, Gated

\* The machine obeys: what the ACK says is so, and nobody else's slot is lost.
LEMMA ObeyedTruth ==
  ASSUME Standing, Reading, UnderWay, TempHeld, reported \subseteq accepted,
         NEW m \in frames, MachineObeys(m)
  PROVE  reported' \subseteq accepted' /\ UnderWay' /\ TempHeld'
<1>1. /\ m.command \in Writes /\ m.valid /\ m.by \in Tasks /\ m.by \in Actors
      /\ frames' = frames \ {m}
      /\ answers' = answers \/ answers' = answers \cup {Answer(m, "ack")}
      /\ temp' = IF m.command = "temp" THEN m.by ELSE temp
      /\ accepted' = IF m.command = "start" THEN accepted \cup {m.by} ELSE accepted
      /\ UNCHANGED <<session, at, job, call, reported>>
  BY DEF MachineObeys, Answers, Standing, Messages, Reading, linkVars, Actors
<1>2. Awaited(m) /\ OverThisSession(m)
  BY <1>1 DEF UnderWay, FramesAwaited
<1>3. /\ Answer(m, "ack").by = m.by /\ Answer(m, "ack").command = m.command
      /\ Answer(m, "ack").kind = "ack"
  BY DEF Answer
<1>4. m.command = "temp" => brewLock = m.by
  BY <1>1, <1>2, CommandFacts DEF Awaited
<1>5. FramesAwaited'
  BY <1>1 DEF UnderWay, FramesAwaited, Awaited, OverThisSession, Command
<1>6. AnswersAwaited'
  BY <1>1, <1>2, <1>3 DEF UnderWay, AnswersAwaited, Awaited, OverThisSession, Command
<1>7. AcksTrue'
  <2>1. ASSUME NEW n \in answers, n.kind = "ack", n.command = "temp",
               m.command = "temp"
        PROVE  n.by = m.by
    <3>1. n.by \in Actors /\ Awaited(n)
      BY <2>1 DEF Standing, Messages, UnderWay, AnswersAwaited
    <3>2. brewLock = n.by
      BY <2>1, <3>1, CommandFacts DEF Awaited
    <3> QED
      BY <1>4, <2>1, <3>2
  <2> QED
    BY <1>1, <1>3, <2>1 DEF UnderWay, AcksTrue
<1>8. OneAtATime'
  BY <1>1, <1>3 DEF UnderWay, OneAtATime
<1>9. TempHeld'
  <2>1. ASSUME NEW t \in Tasks, job[t].op \in Brews, Command(t) \in {"name", "start"}
        PROVE  temp' = t
    <3>1. brewLock = t /\ temp = t
      BY <2>1, NamingHolds DEF TempHeld
    <3>2. m.command = "temp" => m.by = t
      BY <1>4, <3>1
    <3> QED
      BY <1>1, <3>1, <3>2
  <2> QED
    BY <1>1, <2>1 DEF TempHeld, Command
<1> QED
  BY <1>1, <1>5, <1>6, <1>7, <1>8, <1>9 DEF UnderWay

\* A frame that goes out is the only write of its sender.
LEMMA SentTruth ==
  ASSUME Standing, UnderWay, TempHeld, NEW a \in Actors, Sends(a)
  PROVE  UnderWay' /\ TempHeld'
<1>1. /\ at[a] = "channel" /\ at' = [at EXCEPT ![a] = "sent"]
      /\ frames' = frames \/ frames' = frames \cup {Frame(a)}
      /\ UNCHANGED <<session, job, call, answers, temp, accepted>>
  BY DEF Sends, linkVars, machineVars
<1>2. at'[a] = "sent" /\ \A b \in Actors : b # a => at'[b] = at[b]
  BY <1>1 DEF Standing, Core, CoreTypes
<1>3. \A m \in frames \cup answers : m.command \in Writes => m.by # a
  BY <1>1, NoneUnderWay
<1>4. /\ Frame(a).by = a /\ Frame(a).command = Command(a)
      /\ Frame(a).valid => call[a].protocol = session
  BY DEF Frame
<1>5. /\ \A m \in frames : m.by \in Actors
      /\ \A m \in answers : m.by \in Actors
  BY DEF Standing, Messages
<1>6. FramesAwaited'
  BY <1>1, <1>2, <1>4, <1>5
  DEF UnderWay, FramesAwaited, Awaited, OverThisSession, Command
<1>7. AnswersAwaited'
  BY <1>1, <1>2, <1>3, <1>5
  DEF UnderWay, AnswersAwaited, Awaited, OverThisSession, Command
<1>8. AcksTrue'
  BY <1>1 DEF UnderWay, AcksTrue
<1>9. OneAtATime'
  BY <1>1, <1>3, <1>4 DEF UnderWay, OneAtATime
<1>10. TempHeld'
  BY <1>1 DEF TempHeld, Command
<1> QED
  BY <1>6, <1>7, <1>8, <1>9, <1>10 DEF UnderWay

\* The end of a command whose sender has no write under way any more.
LEMMA CompletesTruth ==
  ASSUME Standing, UnderWay, TempHeld, reported \subseteq accepted,
         NEW a \in Actors, NEW ok \in BOOLEAN, NEW content,
         at[a] = "sent", Completes(a, ok, content),
         frames' \subseteq frames, answers' \subseteq answers,
         \A m \in frames' \cup answers' : m.command \in Writes => m.by # a,
         ok /\ Command(a) = "start" => a \in accepted,
         ok /\ Command(a) = "temp" => temp = a,
         UNCHANGED <<session, temp, accepted>>
  PROVE  reported' \subseteq accepted' /\ UnderWay' /\ TempHeld'
<1>0. /\ job[a].op \in AllOperations \cup {"poll"}
      /\ job[a].step \in 1..Len(Program[job[a].op])
  BY CommandFacts
<1>1. a = "poll" \/ a \in Tasks
  BY DEF Actors
<1>2. \A m \in frames' \cup answers' : m.command \in Writes => m.by \in Tasks /\ m.by # a
  <2>1. ASSUME NEW m \in frames' \cup answers', m.command \in Writes
        PROVE  m.by # "poll"
    <3>1. m.by \in Actors /\ Awaited(m)
      BY <2>1 DEF Standing, Messages, UnderWay, FramesAwaited, AnswersAwaited
    <3> QED
      BY <2>1, <3>1, CommandFacts DEF Awaited, Writes
  <2> QED
    BY <2>1 DEF Standing, Messages, Actors
<1>3. ASSUME a # "poll", ok, job[a].step < Len(Program[job[a].op])
      PROVE  reported' \subseteq accepted' /\ UnderWay' /\ TempHeld'
  <2>1. /\ at' = [at EXCEPT ![a] = "call"] /\ call' = [call EXCEPT ![a] = NoCall]
        /\ job' = [job EXCEPT ![a].step = @ + 1, ![a].read = content]
        /\ UNCHANGED reported
    BY <1>3 DEF Completes
  <2>2. /\ \A b \in Actors : b # a => /\ at'[b] = at[b] /\ job'[b] = job[b]
                                      /\ call'[b] = call[b]
        /\ job[a] \in Job
    BY <2>1 DEF Standing, Core, CoreTypes
  <2>3. job'[a].op = job[a].op /\ job'[a].step = job[a].step + 1
    BY <2>1, <2>2 DEF Standing, Core, CoreTypes, Job
  <2>4. UnderWay'
    BY <1>2, <2>2, UnderWayStays DEF Actors
  <2>5. ASSUME job'[a].op \in Brews, Command(a)' \in {"name", "start"}
        PROVE  temp' = a
    <3>1. job[a].step + 1 \in 1..Len(Program[job[a].op]) /\ job[a].op \in AllOperations
      BY <1>0, <1>3, <2>3, <2>5, ProgramFacts DEF Brews, AllOperations
    <3>2. Program[job[a].op][job[a].step + 1] \in {"name", "start"}
      BY <2>3, <2>5 DEF Command
    <3>3. Program[job[a].op][(job[a].step + 1) - 1] \in {"temp", "name"}
      BY <3>1, <3>2, ProgramFacts
    <3>4. Command(a) \in {"temp", "name"}
      BY <1>0, <3>3 DEF Command
    <3> QED
      BY <1>1, <1>3, <2>3, <2>5, <3>4 DEF TempHeld
  <2>6. TempHeld'
    <3>1. ASSUME NEW t \in Tasks, t # a
          PROVE  job'[t].op \in Brews /\ Command(t)' \in {"name", "start"} => temp' = t
      BY <2>2, <3>1, TempStays DEF Actors
    <3> QED
      BY <2>5, <3>1 DEF TempHeld
  <2> QED
    BY <2>1, <2>4, <2>6
<1>4. ASSUME a # "poll", ~ (ok /\ job[a].step < Len(Program[job[a].op]))
      PROVE  reported' \subseteq accepted' /\ UnderWay' /\ TempHeld'
  <2>1. a \in Tasks /\ Returns(a, ok)
    BY <1>1, <1>4 DEF Completes
  <2>2. /\ \A b \in Tasks : b # a => at'[b] = at[b] /\ job'[b] = job[b] /\ call'[b] = call[b]
        /\ job'[a] = NoJob
    BY <2>1, NamesAssumption DEF Returns, Standing, Core, CoreTypes, Actors
  <2>3. reported' \subseteq accepted'
    <3>1. ok /\ job[a].op \in Brews => Command(a) = "start"
      <4>1. ok => job[a].step = Len(Program[job[a].op])
        BY <1>0, <1>4, ProgramFacts
      <4> QED
        BY <1>0, <4>1, ProgramFacts DEF Command
    <3> QED
      BY <2>1, <3>1 DEF Returns
  <2>4. UnderWay'
    BY <1>2, <2>2, UnderWayStays
  <2>5. TempHeld'
    <3>1. NoJob.op \notin Brews
      BY NamesAssumption DEF NoJob, Brews, AllOperations
    <3> QED
      BY <2>2, <3>1, TempStays DEF TempHeld
  <2> QED
    BY <2>3, <2>4, <2>5
<1>5. ASSUME a = "poll"
      PROVE  reported' \subseteq accepted' /\ UnderWay' /\ TempHeld'
  <2>1. /\ at' = [at EXCEPT ![a] = "call"] /\ call' = [call EXCEPT ![a] = NoCall]
        /\ UNCHANGED <<job, reported>>
    BY <1>5 DEF Completes
  <2>2. \A b \in Tasks : b # a => at'[b] = at[b] /\ call'[b] = call[b]
    BY <2>1 DEF Standing, Core, CoreTypes, Actors
  <2>3. UnderWay'
    BY <1>2, <2>1, <2>2, UnderWayStays
  <2>4. TempHeld'
    BY <2>1, TempStays DEF TempHeld
  <2> QED
    BY <2>1, <2>3, <2>4
<1> QED
  BY <1>3, <1>4, <1>5

\* An answer resolves the command it answers, as long as none is stray.
LEMMA DeliveredTruth ==
  ASSUME Standing, UnderWay, TempHeld, reported \subseteq accepted,
         NEW m \in answers, Delivers(m)
  PROVE  reported' \subseteq accepted' /\ UnderWay' /\ TempHeld'
<1>1. /\ answers' = answers \ {m} /\ frames' = frames
      /\ UNCHANGED <<session, temp, accepted>>
  BY DEF Delivers, linkVars, machineVars
<1>2. CASE UNCHANGED <<brewLock, lock, at, job, call, reported>>
  BY <1>1, <1>2, UnderWayStays, TempStays DEF TempHeld
<1>3. ASSUME NEW a \in Actors, Resolves(a, m),
             Completes(a, IsOk(m.kind), IF m.kind = "data" THEN m.by ELSE job[a].read)
      PROVE  reported' \subseteq accepted' /\ UnderWay' /\ TempHeld'
  <2>1. /\ at[a] = "sent" /\ lock[session] = a /\ IsOk(m.kind) \in BOOLEAN
        /\ m.kind = "data" => Command(a) = m.command /\ m.command \in Reads
        /\ m.kind # "data" => Command(a) \in Writes /\ m.command \in Writes
    BY <1>3 DEF Resolves, IsOk, Standing, Messages, UnderWay, AnswersAwaited
  <2>2. m.command \in Writes => m.by = a
    <3>1. ASSUME m.command \in Writes PROVE lock[session] = m.by
      BY <3>1 DEF UnderWay, AnswersAwaited, Awaited, OverThisSession,
                  Standing, Messages, Core, LocksAreHeldInUse, World
    <3> QED
      BY <2>1, <3>1
  <2>3. \A n \in frames' \cup answers' : n.command \in Writes => n.by # a
    <3>1. CASE m.kind = "data"
      <4>1. Command(a) \notin Writes
        BY <2>1, <3>1 DEF Reads, Writes
      <4> QED
        BY <1>1, <4>1, NoneUnderWay
    <3>2. CASE m.kind # "data"
      BY <1>1, <2>1, <2>2, <3>2 DEF UnderWay, OneAtATime
    <3> QED
      BY <3>1, <3>2
  <2>4. /\ IsOk(m.kind) /\ Command(a) = "start" => a \in accepted
        /\ IsOk(m.kind) /\ Command(a) = "temp" => temp = a
    <3>1. ASSUME IsOk(m.kind), Command(a) \in {"start", "temp"}
          PROVE  m.kind = "ack" /\ m.by = a /\ m.command = Command(a)
      <4>1. m.kind # "data"
        BY <2>1, <3>1 DEF Reads
      <4>2. m.kind = "ack" /\ m.by = a
        BY <2>1, <2>2, <3>1, <4>1 DEF IsOk, Standing, Messages
      <4> QED
        BY <2>1, <4>1, <4>2 DEF UnderWay, AnswersAwaited, Awaited
    <3> QED
      BY <3>1 DEF UnderWay, AcksTrue
  <2> QED
    BY <1>1, <1>3, <2>1, <2>3, <2>4, CompletesTruth
<1> QED
  BY <1>2, <1>3 DEF Delivers

\* A timeout that leaves no ACK behind leaves nothing of its sender.
LEMMA TimedOutTruth ==
  ASSUME Standing, UnderWay, TempHeld, reported \subseteq accepted,
         NEW a \in Actors, TimesOut(a), ~ Unanswered(a)
  PROVE  reported' \subseteq accepted' /\ UnderWay' /\ TempHeld'
<1>1. /\ at[a] = "sent"
      /\ UNCHANGED <<session, temp, accepted, frames, answers>>
  BY DEF TimesOut, linkVars, machineVars
<1>2. \A m \in frames' \cup answers' : m.command \in Writes => m.by # a
  <2>1. CASE Command(a) \in Writes
    BY <1>1, <2>1 DEF Unanswered
  <2>2. CASE Command(a) \notin Writes
    BY <1>1, <2>2, NoneUnderWay
  <2> QED
    BY <2>1, <2>2
<1>3. CASE ~ MayRetry(a)
  <2>1. Completes(a, FALSE, None)
    BY <1>3 DEF TimesOut
  <2> QED
    BY <1>1, <1>2, <2>1, CompletesTruth
<1>4. CASE MayRetry(a)
  <2>1. /\ at' = [at EXCEPT ![a] = "channel"] /\ UNCHANGED <<job, reported>>
        /\ call' = [call EXCEPT ![a].attempt = @ + 1]
    BY <1>4 DEF TimesOut
  <2>2. \A b \in Actors : b # a => at'[b] = at[b] /\ call'[b] = call[b]
    BY <2>1 DEF Standing, Core, CoreTypes
  <2>3. UnderWay'
    BY <1>1, <1>2, <2>1, <2>2, UnderWayStays DEF Standing, Messages
  <2>4. TempHeld'
    BY <1>1, <2>1, TempStays DEF TempHeld
  <2> QED
    BY <1>1, <2>1, <2>3, <2>4
<1> QED
  BY <1>3, <1>4

\* The other steps of the machine tell no lies either.
LEMMA AnsweredTruth ==
  ASSUME Standing, UnderWay, TempHeld, reported \subseteq accepted, NEW m \in frames,
         MachineReads(m) \/ MachineRefuses(m) \/ (MachineRejects(m) /\ UNCHANGED stray),
         ~ stray
  PROVE  reported' \subseteq accepted' /\ UnderWay' /\ TempHeld'
<1>1. /\ frames' = frames \ {m}
      /\ UNCHANGED <<session, at, job, call, temp, accepted, reported>>
  BY DEF MachineReads, MachineRefuses, MachineRejects, linkVars, machineVars
<1>2. TempHeld'
  BY <1>1, TempStays DEF TempHeld
<1>3. CASE answers' = answers
  BY <1>1, <1>2, <1>3, UnderWayStays
<1>4. ASSUME NEW kind, answers' = answers \cup {Answer(m, kind)},
             \/ kind = "data" /\ m.command \in Reads
             \/ kind = "nack" /\ m.command \in Writes /\ m.valid
      PROVE  UnderWay'
  <2>1. /\ Answer(m, kind).by = m.by /\ Answer(m, kind).command = m.command
        /\ Answer(m, kind).kind = kind
    BY DEF Answer
  <2>2. m.command \in Writes => Awaited(m) /\ OverThisSession(m)
    BY <1>4 DEF UnderWay, FramesAwaited, Reads, Writes
  <2>3. FramesAwaited'
    BY <1>1 DEF UnderWay, FramesAwaited, Awaited, OverThisSession, Command
  <2>4. AnswersAwaited'
    BY <1>1, <1>4, <2>1, <2>2
    DEF UnderWay, AnswersAwaited, Awaited, OverThisSession, Command
  <2>5. AcksTrue'
    BY <1>1, <1>4, <2>1 DEF UnderWay, AcksTrue
  <2>6. OneAtATime'
    BY <1>1, <1>4, <2>1 DEF UnderWay, OneAtATime
  <2> QED
    BY <2>3, <2>4, <2>5, <2>6 DEF UnderWay
<1>5. \/ answers' = answers
      \/ answers' = answers \cup {Answer(m, "data")} /\ m.command \in Reads
      \/ answers' = answers \cup {Answer(m, "nack")} /\ m.command \in Writes /\ m.valid
  BY DEF MachineReads, MachineRefuses, MachineRejects, Answers
<1> QED
  BY <1>1, <1>2, <1>3, <1>4, <1>5

\* Every step keeps what is under way true, as long as no late ACK is about.
LEMMA TruthNext ==
  ASSUME Standing, Reading, stray \in BOOLEAN, Truth, [Next]_vars
  PROVE  Truth'
<1> DEFINE True == reported \subseteq accepted /\ UnderWay /\ TempHeld
<1> SUFFICES ASSUME ~ stray' PROVE True'
  BY DEF Truth
<1>0. ASSUME ~ stray PROVE True
  BY <1>0 DEF Truth
<1>1. ASSUME NEW t \in Tasks, NEW operation \in Operations, Request(t, operation)
      PROVE  True'
  <2>1. True /\ at[t] = "idle" /\ "poll" \notin Tasks
    BY <1>0, <1>1, NamesAssumption DEF Request
  <2>2. \A m \in frames \cup answers : m.command \in Writes => m.by # t /\ m.by # "poll"
    <3>1. at["poll"] = "sent" => Command("poll") \notin Writes
      BY CommandFacts DEF Actors, Writes
    <3> QED
      BY <2>1, <3>1, NoneUnderWay DEF Actors
  <2>3. /\ frames' = frames /\ answers' = answers /\ UNCHANGED <<session, temp>>
        /\ reported' = reported \ {t} /\ accepted' = accepted \ {t}
        /\ job'[t].op = operation /\ job'[t].step = 1
        /\ \A b \in Actors : b # t => job'[b] = job[b]
        /\ \A b \in Tasks : b # t => at'[b] = at[b] /\ call'[b] = call[b]
    BY <1>1, <2>1 DEF Request, EntersSection, linkVars, Standing, Core, CoreTypes, Actors
  <2>4. \A m \in frames \cup answers : m.by \in Actors
    BY DEF Standing, Messages
  <2>5. UnderWay'
    BY <2>1, <2>2, <2>3, <2>4, UnderWayStays DEF Actors
  <2>6. TempHeld'
    BY <2>1, <2>3, OperationsAssumption, TempStays DEF TempHeld, Actors
  <2> QED
    BY <2>1, <2>3, <2>5, <2>6
<1>2. ASSUME NEW t \in Tasks, QueuesForGate(t) \/ PassesGate(t)
      PROVE  True'
  <2>1. True /\ at[t] \in {"task", "gate"} /\ "poll" \notin Tasks
    BY <1>0, <1>2, NamesAssumption
    DEF QueuesForGate, PassesGate, Standing, Core, CoreTypes, Queued
  <2>2. \A m \in frames \cup answers : m.command \in Writes => m.by # t /\ m.by # "poll"
    <3>1. at["poll"] = "sent" => Command("poll") \notin Writes
      BY CommandFacts DEF Actors, Writes
    <3> QED
      BY <2>1, <3>1, NoneUnderWay DEF Actors
  <2>3. /\ frames' = frames /\ answers' = answers
        /\ UNCHANGED <<session, temp, reported, accepted>>
        /\ \/ job'[t] = NoJob
           \/ job'[t].op = job[t].op /\ job'[t].step = job[t].step
        /\ \A b \in Actors : b # t => job'[b] = job[b]
        /\ \A b \in Tasks : b # t => at'[b] = at[b] /\ call'[b] = call[b]
    <3>1. job[t] \in Job
      BY DEF Standing, Core, CoreTypes, Actors
    <3> QED
      BY <1>2, <2>1, <3>1
      DEF QueuesForGate, PassesGate, EntersSection, linkVars, machineVars,
          Standing, Core, CoreTypes, Actors, Job
  <2>4. \A m \in frames \cup answers : m.by \in Actors
    BY DEF Standing, Messages
  <2>5. UnderWay'
    BY <2>1, <2>2, <2>3, <2>4, UnderWayStays DEF Actors
  <2>6. TempHeld'
    <3>1. NoJob.op \notin Brews
      BY NamesAssumption DEF NoJob, Brews, AllOperations
    <3> QED
      BY <2>1, <2>3, <3>1, TempStays DEF TempHeld, Actors
  <2> QED
    BY <2>1, <2>3, <2>5, <2>6
<1>3. ASSUME NEW a \in Actors, Calls(a)
      PROVE  True'
  <2>1. /\ True /\ at[a] = "call"
        /\ UNCHANGED <<session, job, frames, answers, temp, accepted, reported>>
    BY <1>0, <1>3 DEF Calls, linkVars, machineVars
  <2>2. \A b \in Actors : b # a => at'[b] = at[b] /\ call'[b] = call[b]
    BY <1>3 DEF Calls, Standing, Core, CoreTypes
  <2>3. \A m \in frames \cup answers : m.command \in Writes => m.by # a
    BY <2>1, NoneUnderWay
  <2>4. UnderWay'
    BY <2>1, <2>2, <2>3, UnderWayStays DEF Standing, Messages
  <2> QED
    BY <2>1, <2>4, TempStays DEF TempHeld
<1>4. ASSUME NEW a \in Actors, Sends(a)
      PROVE  True'
  BY <1>0, <1>4, SentTruth DEF Sends, machineVars
<1>5. ASSUME NEW a \in Actors, SendRaises(a)
      PROVE  True'
  <2>1. /\ True /\ frames = {} /\ answers = {} /\ frames' = {} /\ answers' = {}
        /\ UNCHANGED <<session, temp, accepted>> /\ at[a] = "channel"
    BY <1>0, <1>5 DEF SendRaises, Standing, Messages, linkVars, machineVars
  <2>2. UnderWay'
    BY <2>1, UnderWayStays
  <2>3. reported' = reported
    BY <1>5 DEF SendRaises, Returns
  <2>4. \A t \in Tasks : job'[t] = NoJob \/ job'[t] = job[t]
    BY <1>5 DEF SendRaises, Returns, Standing, Core, CoreTypes, Actors
  <2>5. NoJob.op \notin Brews
    BY NamesAssumption DEF NoJob, Brews, AllOperations
  <2> QED
    BY <2>1, <2>2, <2>3, <2>4, <2>5, TempStays DEF TempHeld
<1>6. ASSUME NEW a \in Actors, TimesOut(a)
      PROVE  True'
  <2>1. ~ stray /\ ~ Unanswered(a)
    BY <1>6 DEF TimesOut
  <2> QED
    BY <1>0, <1>6, <2>1, TimedOutTruth
<1>7. ASSUME NEW m \in frames,
             \/ MachineRejects(m) \/ MachineReads(m)
             \/ MachineObeys(m) \/ MachineRefuses(m)
      PROVE  True'
  <2>1. ~ stray /\ (MachineRejects(m) => UNCHANGED stray)
    BY <1>7 DEF MachineRejects, MachineReads, MachineObeys, MachineRefuses
  <2>2. True
    BY <1>0, <2>1
  <2>3. CASE MachineObeys(m)
    BY <2>2, <2>3, ObeyedTruth
  <2>4. CASE ~ MachineObeys(m)
    BY <1>7, <2>1, <2>2, <2>4, AnsweredTruth
  <2> QED
    BY <2>3, <2>4
<1>8. ASSUME NEW m \in answers, Delivers(m)
      PROVE  True'
  BY <1>0, <1>8, DeliveredTruth DEF Delivers
<1>9. CASE HandshakeSucceeds \/ UNCHANGED vars
  <2>1. /\ True
        /\ UNCHANGED <<session, at, job, call, frames, answers, temp, accepted, reported>>
    BY <1>0, <1>9 DEF HandshakeSucceeds, vars, linkVars, machineVars
  <2>2. UnderWay'
    BY <2>1, UnderWayStays
  <2> QED
    BY <2>1, <2>2, TempStays DEF TempHeld
<1>10. CASE Dials \/ LinkDrops
  <2>1. /\ True /\ frames' = {} /\ answers' = {}
        /\ UNCHANGED <<job, temp, accepted, reported>>
    BY <1>0, <1>10 DEF Dials, LinkDrops, Standing, Messages, machineVars
  <2>2. UnderWay'
    BY <2>1 DEF UnderWay, FramesAwaited, AnswersAwaited, AcksTrue, OneAtATime
  <2> QED
    BY <2>1, <2>2, TempStays DEF TempHeld
<1>11. CASE ReadsEnd
  <2>1. /\ True /\ UNCHANGED <<session, job, frames, answers, temp, accepted, reported>>
        /\ \A b \in Actors : b # "poll" => at'[b] = at[b] /\ call'[b] = call[b]
    BY <1>0, <1>11 DEF ReadsEnd, Standing, Core, CoreTypes, machineVars
  <2>2. \A m \in frames \cup answers : m.command \in Writes => m.by # "poll"
    <3>1. at["poll"] = "sent" => Command("poll") \notin Writes
      BY CommandFacts DEF Actors, Writes
    <3> QED
      BY <2>1, <3>1, NoneUnderWay DEF Actors
  <2>3. UnderWay'
    BY <2>1, <2>2, UnderWayStays DEF Standing, Messages
  <2> QED
    BY <2>1, <2>3, TempStays DEF TempHeld
<1> QED
  BY <1>1, <1>2, <1>3, <1>4, <1>5, <1>6, <1>7, <1>8, <1>9, <1>10, <1>11 DEF Next

\* The ghost stays Boolean.
LEMMA StrayNext == ASSUME stray \in BOOLEAN, [Next]_vars PROVE stray' \in BOOLEAN
<1>1. ASSUME NEW t \in Tasks, \/ \E operation \in Operations : Request(t, operation)
                              \/ QueuesForGate(t) \/ PassesGate(t)
      PROVE  stray' = stray
  BY <1>1 DEF Request, QueuesForGate, PassesGate
<1>2. ASSUME NEW a \in Actors, Calls(a) \/ Sends(a) \/ SendRaises(a)
      PROVE  stray' = stray
  BY <1>2 DEF Calls, Sends, SendRaises
<1>3. ASSUME NEW a \in Actors, TimesOut(a)
      PROVE  stray' = (stray \/ Unanswered(a))
  BY <1>3 DEF TimesOut
<1>4. ASSUME NEW m \in frames, \/ MachineRejects(m) \/ MachineReads(m)
                               \/ MachineObeys(m) \/ MachineRefuses(m)
      PROVE  stray' = stray \/ stray' = TRUE
  BY <1>4 DEF MachineRejects, MachineReads, MachineObeys, MachineRefuses
<1>5. ASSUME NEW m \in answers, Delivers(m)
      PROVE  stray' = stray
  BY <1>5 DEF Delivers
<1>6. CASE Dials \/ HandshakeSucceeds \/ ReadsEnd \/ LinkDrops \/ UNCHANGED vars
  BY <1>6, Zenon DEF Dials, HandshakeSucceeds, ReadsEnd, LinkDrops, vars
<1> QED
  BY <1>1, <1>2, <1>3, <1>4, <1>5, <1>6, Zenon DEF Next

\* The three layers hold of every reachable state.
THEOREM ChannelInvariant == Spec => []ChannelInv
<1>1. Init => ChannelInv
  <2> SUFFICES ASSUME Init PROVE ChannelInv
    OBVIOUS
  <2>1. Standing
    BY StandingInit
  <2>2. Reading
    BY NamesAssumption
    DEF Reading, ReadRight, Init, NoJob, Actors, AllOperations
  <2>3. Truth
    <3>1. NoJob.op \notin Brews
      BY NamesAssumption DEF NoJob, Brews, AllOperations
    <3> QED
      BY <3>1, NamesAssumption
      DEF Truth, UnderWay, FramesAwaited, AnswersAwaited, AcksTrue, OneAtATime,
          TempHeld, Init, Actors
  <2>4. stray \in BOOLEAN
    BY Zenon DEF Init
  <2> QED
    BY <2>1, <2>2, <2>3, <2>4 DEF ChannelInv
<1>2. ChannelInv /\ [Next]_vars => ChannelInv'
  <2> SUFFICES ASSUME ChannelInv, [Next]_vars PROVE ChannelInv'
    OBVIOUS
  <2>1. Standing /\ Reading /\ Truth /\ stray \in BOOLEAN
    BY Zenon DEF ChannelInv
  <2>2. ReadsBelong
    BY <2>1 DEF Reading, ReadRight, ReadsBelong
  <2>3. Standing' /\ Reading' /\ stray' \in BOOLEAN
    BY <2>1, <2>2, StandingNext, ReadingNext, StrayNext
  <2>4. Truth'
    BY <2>1, TruthNext
  <2> QED
    BY <2>3, <2>4, Zenon DEF ChannelInv
<1> QED
  BY <1>1, <1>2, PTL DEF Spec

\* Type correctness of the channel.
THEOREM ChannelTypes == Spec => []TypeOK
<1>1. ChannelInv => TypeOK
  <2> SUFFICES ASSUME ChannelInv PROVE TypeOK
    OBVIOUS
  <2>1. CoreTypes /\ World /\ stray \in BOOLEAN
    BY Zenon DEF ChannelInv, Standing, Core
  <2> QED
    BY <2>1, Zenon DEF TypeOK, CoreTypes, World
<1> QED
  BY <1>1, ChannelInvariant, PTL

\* Mutual exclusion at the gate and on each channel, and no lock left behind
\* by a return, an exception, a timeout or a cancelled poll.
THEOREM LocksHeldInUse == Spec => []LocksAreHeldInUse
<1>1. ChannelInv => LocksAreHeldInUse
  BY DEF ChannelInv, Standing, Core
<1> QED
  BY <1>1, ChannelInvariant, PTL

\* The reads of the recipe operations (expected_id): a late answer to another
\* task's read is never taken for this one's.
THEOREM ReadsBelongToTheAsker == Spec => []ReadsBelong
<1>1. ChannelInv => ReadsBelong
  BY DEF ChannelInv, Reading, ReadRight, ReadsBelong
<1> QED
  BY <1>1, ChannelInvariant, PTL

\* A brew that returns True has been started, as long as no late ACK is about.
THEOREM StartsAreReportedTruly == Spec => []StartIsReportedTruly
<1>1. ChannelInv => StartIsReportedTruly
  BY DEF ChannelInv, Truth, StartIsReportedTruly
<1> QED
  BY <1>1, ChannelInvariant, PTL

\* What the machine starts for a task is what that task has written to the
\* temporary slot, as long as no late frame is about.
THEOREM StartsBrewWhatWasAsked == Spec => BrewsWhatWasAsked
<1>1. ASSUME ChannelInv, [Next]_vars
      PROVE  [\A t \in Tasks : t \in accepted' \ accepted /\ ~ stray => temp = t]_vars
  <2> SUFFICES ASSUME Next, NEW t \in Tasks, t \in accepted', t \notin accepted, ~ stray
               PROVE  temp = t
    BY <1>1
  <2>1. Standing /\ UnderWay /\ TempHeld
    BY <1>1 DEF ChannelInv, Truth
  <2>2. PICK m \in frames : MachineObeys(m) /\ m.command = "start" /\ m.by = t
    BY DEF Next, Request, QueuesForGate, PassesGate, Calls, Sends, SendRaises, TimesOut,
           MachineRejects, MachineReads, MachineObeys, MachineRefuses, Delivers,
           Dials, HandshakeSucceeds, ReadsEnd, LinkDrops, machineVars
  <2>3. at[t] = "sent" /\ Command(t) = "start" /\ t \in Actors
    BY <2>1, <2>2 DEF UnderWay, FramesAwaited, Awaited, Writes, Actors
  <2>4. job[t].op \in Brews
    BY <2>1, <2>3, CommandFacts
  <2> QED
    BY <2>1, <2>3, <2>4 DEF TempHeld
<1> QED
  BY <1>1, ChannelInvariant, PTL DEF Spec, BrewsWhatWasAsked
=============================================================================
