--------------------------- MODULE CommandChannel ---------------------------
(***************************************************************************)
(* The command channel to the machine (protocol.py) and the brew gate on   *)
(* top of it (_ble_commands.py, _ble_recipes.py, _ble_settings.py): tasks  *)
(* that run sequences of commands, the poll task, the frames and answers   *)
(* under way, the machine, and the link that comes and goes below them.    *)
(*                                                                         *)
(* An ACK or NACK says nothing of the command it answers; the answer to a  *)
(* read names the register.  Frames and answers may be lost, and they are  *)
(* taken in any order.  A connect makes a new protocol object, with a lock *)
(* and a session key of its own; who connects, and when, is module         *)
(* ReconnectSupervisor.                                                    *)
(***************************************************************************)
EXTENDS Integers, Sequences, FiniteSets

CONSTANTS Tasks,      \* callers: services, buttons, panel requests
          Operations, \* the operations they call
          Sessions,   \* how often the link may be dialled
          InFlight,   \* bound: frames and answers under way, the rest are lost
          None

AllOperations == {"brew", "freestyle", "save", "refresh", "setting"}

ASSUME OperationsAssumption == Operations \subseteq AllOperations

ASSUME BoundsAssumption == Sessions \in Nat /\ InFlight \in Nat

ASSUME NamesAssumption ==
  None \notin Tasks \cup AllOperations \cup {"poll"} /\ "poll" \notin Tasks

VARIABLES
  link,     \* no link, its handshake, the reads of connect(), or up
  session,  \* the link's number: _protocol is the object made for it
  brewLock, \* the holder of _brew_lock
  gate,     \* the tasks that wait for _brew_lock
  lock,     \* the holder of each protocol object's _lock
  at,       \* where each task, and the poll task, stands
  job,      \* the operation of each task, its next command, what it has read
  call,     \* the protocol object, key and attempt of each one's command
  frames,   \* commands on their way to the machine
  answers,  \* answers on their way back
  temp,     \* the machine's temporary recipe: whose it is
  \* History, which no code reads:
  accepted, \* tasks whose start command the machine has obeyed
  reported, \* tasks whose brew has returned True and staged its intent
  stray     \* an ACK or NACK may be under way that nobody waits for

linkVars    == <<link, session>>
gateVars    == <<brewLock, gate>>
machineVars == <<temp, accepted>>
vars == <<linkVars, gateVars, lock, at, job, call, frames, answers,
          machineVars, reported, stray>>

Actors == Tasks \cup {"poll"}

Protocols == 0..Sessions

\* Commands answered by ACK or NACK.
Writes == {"temp", "name", "start", "write", "value"}

Reads == {"read", "status"}

\* What each operation sends; a freestyle brew is given its recipe.
Program ==
  [brew      |-> <<"read", "temp", "name", "start">>,
   freestyle |-> <<"temp", "name", "start">>,
   save      |-> <<"read", "write">>,
   refresh   |-> <<"read">>,
   setting   |-> <<"value">>,
   poll      |-> <<"status">>]

Brews == {"brew", "freestyle"}

\* The operations that hold _brew_lock and pause polling.
Gated == Brews \cup {"save", "refresh"}

NoJob == [op |-> None, step |-> 1, read |-> None, polled |-> FALSE]

NoCall == [protocol |-> 0, keyed |-> FALSE, attempt |-> 1]

Command(a) == Program[job[a].op][job[a].step]

Connected == link \in {"reads", "up"}

Init ==
  /\ link = "down" /\ session = 0
  /\ brewLock = None /\ gate = <<>>
  /\ lock = [p \in Protocols |-> None]
  /\ at = [a \in Actors |-> IF a = "poll" THEN "off" ELSE "idle"]
  /\ job = [a \in Actors |-> IF a = "poll" THEN [NoJob EXCEPT !.op = "poll"]
                             ELSE NoJob]
  /\ call = [a \in Actors |-> NoCall]
  /\ frames = {} /\ answers = {}
  /\ temp = None
  /\ accepted = {} /\ reported = {} /\ stray = FALSE
----------------------------------------------------------------------------
(* The gate.                                                                *)

\* Variant: the gate is not looked at.
GateOpen_Always == TRUE

\* _brew_lock.locked() is False: the caller is not turned away.
GateOpen == brewLock = None

\* Variant: a cancelled poll keeps it.
Freed_NotByPoll(a) ==
  [p \in Protocols |-> IF lock[p] = a /\ a # "poll" THEN None ELSE lock[p]]

\* What is left of the channel locks when a gives its own up.
Freed(a) == [p \in Protocols |-> IF lock[p] = a THEN None ELSE lock[p]]

\* The holder of the gate stops the poll task, also within a command.
EntersSection(t) ==
  /\ brewLock' = t
  /\ at' = [at EXCEPT ![t] = "call", !["poll"] = "off"]
  /\ call' = [call EXCEPT !["poll"] = NoCall]
  /\ lock' = Freed("poll")

(* A call that finds the machine connected, by its last status ready, and   *)
(* the gate open.  The refresh of the recipe cache is one task, shared by    *)
(* its callers, which others may overtake; only behind it do they queue.     *)
Request(t, operation) ==
  /\ at[t] = "idle" /\ Connected
  /\ operation \in Gated => GateOpen
  /\ operation = "refresh" => \A u \in Tasks : job[u].op # "refresh"
  /\ job' = [job EXCEPT ![t] = [op |-> operation, step |-> 1,
                                read |-> IF operation = "freestyle" THEN t ELSE None,
                                polled |-> operation = "save" /\ at["poll"] # "off"]]
  /\ accepted' = accepted \ {t} /\ reported' = reported \ {t}
  /\ \/ /\ operation \in Gated \ {"refresh"} /\ gate = <<>>
        /\ EntersSection(t) /\ UNCHANGED gate
     \/ /\ operation \in Gated \ {"refresh"} /\ gate # <<>>
        /\ at' = [at EXCEPT ![t] = "gate"] /\ gate' = Append(gate, t)
        /\ UNCHANGED <<brewLock, lock, call>>
     \/ /\ operation \notin Gated \ {"refresh"}
        /\ at' = [at EXCEPT ![t] = IF operation = "refresh" THEN "task" ELSE "call"]
        /\ UNCHANGED <<gateVars, lock, call>>
  /\ UNCHANGED <<linkVars, frames, answers, temp, stray>>

\* The task of the refresh begins to run, and finds the lock held or awaited.
QueuesForGate(t) ==
  /\ at[t] = "task" /\ (brewLock # None \/ gate # <<>>)
  /\ at' = [at EXCEPT ![t] = "gate"] /\ gate' = Append(gate, t)
  /\ UNCHANGED <<linkVars, brewLock, lock, job, call, frames, answers, machineVars,
                 reported, stray>>

\* The lock goes to the first in the queue; a refresh looks again whether
\* it still makes sense, and whether the poll task is running.
PassesGate(t) ==
  /\ brewLock = None
  /\ \/ at[t] = "task" /\ gate = <<>> /\ UNCHANGED gate
     \/ gate # <<>> /\ t = Head(gate) /\ gate' = Tail(gate)
  /\ \/ /\ job[t].op = "refresh"
        /\ at' = [at EXCEPT ![t] = "idle"] /\ job' = [job EXCEPT ![t] = NoJob]
        /\ UNCHANGED <<brewLock, lock, call>>
     \/ /\ job[t].op = "refresh" => Connected
        /\ EntersSection(t)
        /\ job' = IF job[t].op = "refresh"
                  THEN [job EXCEPT ![t].polled = at["poll"] # "off"] ELSE job
  /\ UNCHANGED <<linkVars, frames, answers, machineVars, reported, stray>>

\* A brew always starts it again, the others only if it was running.
ResumesPolling(t) ==
  /\ job[t].op \in Brews \/ (job[t].op \in Gated /\ job[t].polled)
  /\ Connected

\* The operation returns: polling resumes, the gate opens.
Returns(t, ok) ==
  /\ job' = [job EXCEPT ![t] = NoJob]
  /\ brewLock' = IF brewLock = t THEN None ELSE brewLock
  /\ reported' = IF ok /\ job[t].op \in Brews THEN reported \cup {t} ELSE reported
  /\ IF ResumesPolling(t)
     THEN /\ at' = [at EXCEPT ![t] = "idle", !["poll"] = "call"]
          /\ call' = [call EXCEPT ![t] = NoCall, !["poll"] = NoCall]
          /\ lock' = [p \in Protocols |->
                        IF lock[p] \in {t, "poll"} THEN None ELSE lock[p]]
     ELSE /\ at' = [at EXCEPT ![t] = "idle"]
          /\ call' = [call EXCEPT ![t] = NoCall]
          /\ lock' = Freed(t)
----------------------------------------------------------------------------
(* One command.                                                             *)

\* The protocol object of the moment builds the frame, with its key if the
\* handshake is over.  The poll loop ends without a link.
Calls(a) ==
  /\ at[a] = "call"
  /\ IF a = "poll" /\ ~ Connected
     THEN at' = [at EXCEPT ![a] = "off"] /\ UNCHANGED call
     ELSE /\ at' = [at EXCEPT ![a] = "channel"]
          /\ call' = [call EXCEPT ![a] = [protocol |-> session,
                                          keyed |-> Connected, attempt |-> 1]]
  /\ UNCHANGED <<linkVars, gateVars, lock, job, frames, answers, machineVars,
                 reported, stray>>

\* The frame, over whatever link is there now; only the key of the link's own
\* session makes it valid.  A read is built under the lock, with the key of
\* that moment.
Frame(a) ==
  [by |-> a, command |-> Command(a), attempt |-> call[a].attempt,
   content |-> job[a].read,
   valid |-> /\ call[a].protocol = session
             /\ call[a].keyed \/ (Command(a) \in Reads /\ Connected)]

Sends(a) ==
  /\ at[a] = "channel" /\ lock[call[a].protocol] = None /\ link # "down"
  /\ lock' = [lock EXCEPT ![call[a].protocol] = a]
  /\ at' = [at EXCEPT ![a] = "sent"]
  /\ \/ frames' = frames
     \/ /\ Cardinality(frames \cup answers) < InFlight
        /\ frames' = frames \cup {Frame(a)}
  /\ UNCHANGED <<linkVars, gateVars, job, call, answers, machineVars, reported,
                 stray>>

\* "Not connected": the exception ends the operation, and one poll.
SendRaises(a) ==
  /\ at[a] = "channel" /\ lock[call[a].protocol] = None /\ link = "down"
  /\ IF a = "poll"
     THEN /\ at' = [at EXCEPT ![a] = "call"] /\ call' = [call EXCEPT ![a] = NoCall]
          /\ UNCHANGED <<brewLock, lock, job, reported>>
     ELSE Returns(a, FALSE)
  /\ UNCHANGED <<linkVars, gate, frames, answers, machineVars, stray>>

\* A command is over; a failed one ends its operation.
Completes(a, ok, content) ==
  IF a = "poll"
  THEN /\ at' = [at EXCEPT ![a] = "call"] /\ lock' = Freed(a)
       /\ call' = [call EXCEPT ![a] = NoCall]
       /\ UNCHANGED <<brewLock, job, reported>>
  ELSE IF ok /\ job[a].step < Len(Program[job[a].op])
  THEN /\ at' = [at EXCEPT ![a] = "call"] /\ lock' = Freed(a)
       /\ call' = [call EXCEPT ![a] = NoCall]
       /\ job' = [job EXCEPT ![a].step = @ + 1, ![a].read = content]
       /\ UNCHANGED <<brewLock, reported>>
  ELSE Returns(a, ok)

\* An answer of a's write may still come.
Unanswered(a) ==
  /\ Command(a) \in Writes
  /\ \E m \in frames \cup answers : m.by = a /\ m.command \in Writes

\* Variant: a third attempt.
MayRetry_OnceMore(a) == Command(a) \in Writes /\ call[a].attempt <= 2

MayRetry(a) == Command(a) \in Writes /\ call[a].attempt < 2

\* The timeout of one attempt; a write has a second one, for which it takes
\* the lock anew.
TimesOut(a) ==
  /\ at[a] = "sent"
  /\ IF MayRetry(a)
     THEN /\ at' = [at EXCEPT ![a] = "channel"] /\ lock' = Freed(a)
          /\ call' = [call EXCEPT ![a].attempt = @ + 1]
          /\ UNCHANGED <<brewLock, job, reported>>
     ELSE Completes(a, FALSE, None)
  /\ stray' = (stray \/ Unanswered(a))
  /\ UNCHANGED <<linkVars, gate, frames, answers, machineVars>>

----------------------------------------------------------------------------
(* The machine, and its answers.                                            *)

Answer(m, kind) ==
  [by |-> m.by, command |-> m.command, attempt |-> m.attempt, kind |-> kind]

\* An answer is on its way, or lost.
Answers(m, kind) == answers' \in {answers \cup {Answer(m, kind)}, answers}

\* A frame without the session's key is ignored, or refused.
MachineRejects(m) ==
  /\ m \in frames /\ ~ m.valid
  /\ frames' = frames \ {m}
  /\ \/ UNCHANGED <<answers, stray>>
     \/ answers' = answers \cup {Answer(m, "nack")} /\ stray' = TRUE
  /\ UNCHANGED <<linkVars, gateVars, lock, at, job, call, machineVars, reported>>

MachineReads(m) ==
  /\ m \in frames /\ m.valid /\ m.command \in Reads
  /\ frames' = frames \ {m}
  /\ Answers(m, "data")
  /\ UNCHANGED <<linkVars, gateVars, lock, at, job, call, machineVars, reported,
                 stray>>

MachineObeys(m) ==
  /\ m \in frames /\ m.valid /\ m.command \in Writes
  /\ frames' = frames \ {m}
  /\ Answers(m, "ack")
  /\ temp' = IF m.command = "temp" THEN m.content ELSE temp
  /\ accepted' = IF m.command = "start" THEN accepted \cup {m.by} ELSE accepted
  /\ UNCHANGED <<linkVars, gateVars, lock, at, job, call, reported, stray>>

MachineRefuses(m) ==
  /\ m \in frames /\ m.valid /\ m.command \in Writes
  /\ frames' = frames \ {m}
  /\ Answers(m, "nack")
  /\ UNCHANGED <<linkVars, gateVars, lock, at, job, call, machineVars, reported,
                 stray>>

\* Variant: the reply to any register of the command will do.
MatchesId_Any(a, m) == TRUE

\* expected_id; each task reads a register of its own.
MatchesId(a, m) == m.by = a

\* _dispatch_frame resolves a future of the present protocol object: the one
\* ACK future, or the future of the command.
Resolves(a, m) ==
  /\ lock[session] = a /\ at[a] = "sent"
  /\ IF m.kind = "data" THEN m.command = Command(a) /\ MatchesId(a, m)
                        ELSE Command(a) \in Writes

\* Variant: a NACK counts as an answer like any other.
IsOk_Answered(kind) == TRUE

\* A NACK resolves the future with False.
IsOk(kind) == kind # "nack"

Delivers(m) ==
  /\ m \in answers
  /\ answers' = answers \ {m}
  /\ \/ \E a \in Actors :
          /\ Resolves(a, m)
          /\ Completes(a, IsOk(m.kind), IF m.kind = "data" THEN m.by ELSE job[a].read)
     \/ /\ \A a \in Actors : ~ Resolves(a, m)
        /\ UNCHANGED <<brewLock, lock, at, job, call, reported>>
  /\ UNCHANGED <<linkVars, gate, frames, machineVars, stray>>
----------------------------------------------------------------------------
(* The link.                                                                *)

Dials ==
  /\ link = "down" /\ session < Sessions
  /\ link' = "handshake" /\ session' = session + 1
  /\ UNCHANGED <<gateVars, lock, at, job, call, frames, answers, machineVars,
                 reported, stray>>

HandshakeSucceeds ==
  /\ link = "handshake" /\ link' = "reads"
  /\ UNCHANGED <<session, gateVars, lock, at, job, call, frames, answers,
                 machineVars, reported, stray>>

\* The connect loop starts polling, whoever holds the gate.
ReadsEnd ==
  /\ link = "reads" /\ link' = "up"
  /\ at' = [at EXCEPT !["poll"] = "call"] /\ lock' = Freed("poll")
  /\ call' = [call EXCEPT !["poll"] = NoCall]
  /\ UNCHANGED <<session, gateVars, job, frames, answers, machineVars,
                 reported, stray>>

\* Whatever was under way is gone; who waits for it will time out.
LinkDrops ==
  /\ link # "down" /\ link' = "down"
  /\ frames' = {} /\ answers' = {}
  /\ UNCHANGED <<session, gateVars, lock, at, job, call, machineVars, reported,
                 stray>>
----------------------------------------------------------------------------
(* Properties.                                                              *)

Job == [op : AllOperations \cup {"poll", None}, step : 1..4,
        read : Tasks \cup {None}, polled : BOOLEAN]

Call == [protocol : Protocols, keyed : BOOLEAN, attempt : {1, 2}]

\* In its section: past the gate, and not yet returned.
InSection(t) ==
  job[t].op \in Gated /\ at[t] \in {"call", "channel", "sent"}

\* The types of the variables that carry state from step to step.
TypeOK ==
  /\ link \in {"down", "handshake", "reads", "up"}
  /\ session \in Protocols
  /\ brewLock \in Tasks \cup {None}
  /\ gate \in Seq(Tasks)
  /\ lock \in [Protocols -> Actors \cup {None}]
  /\ at \in [Actors -> {"idle", "off", "task", "gate", "call", "channel", "sent"}]
  /\ job \in [Actors -> Job]
  /\ call \in [Actors -> Call]
  /\ temp \in Tasks \cup {None}
  /\ accepted \subseteq Tasks /\ reported \subseteq Tasks
  /\ stray \in BOOLEAN

(* The brew lock is held exactly while its holder is in its section, and     *)
(* each channel lock exactly by the one command that is out on it: a lock    *)
(* survives no return, no exception and no cancelled poll.                   *)
LocksAreHeldInUse ==
  /\ \A t \in Tasks : brewLock = t <=> InSection(t)
  /\ \A a \in Actors, p \in Protocols :
       lock[p] = a <=> at[a] = "sent" /\ call[a].protocol = p

(* A brew that returns True was started, unless an ACK of an earlier,        *)
(* timed-out command was about: nothing in an ACK says what it acknowledges. *)
StartIsReportedTruly == ~ stray => reported \subseteq accepted

(* As the comment in _record_brew_intent has it: by the time it runs the     *)
(* machine has accepted the start command.                                   *)
ReportedMeansStarted == reported \subseteq accepted

(* A recipe that is read, and then written to the temporary slot or saved,   *)
(* is the one that was asked for, however late the answers come.             *)
ReadsBelong == \A t \in Tasks : job[t].read \in {None, t}

(* What the machine starts to brew for a task is what that task put into the *)
(* temporary slot, not another's, unless a late frame got between.           *)
BrewsWhatWasAsked ==
  [][\A t \in Tasks : t \in accepted' \ accepted /\ ~ stray => temp = t]_vars
----------------------------------------------------------------------------
Next ==
  \/ \E t \in Tasks : \/ \E operation \in Operations : Request(t, operation)
                      \/ QueuesForGate(t) \/ PassesGate(t)
  \/ \E a \in Actors : \/ Calls(a) \/ Sends(a) \/ SendRaises(a)
                       \/ TimesOut(a)
  \/ \E m \in frames : \/ MachineRejects(m) \/ MachineReads(m)
                       \/ MachineObeys(m) \/ MachineRefuses(m)
  \/ \E m \in answers : Delivers(m)
  \/ Dials \/ HandshakeSucceeds \/ ReadsEnd \/ LinkDrops

Spec == Init /\ [][Next]_vars
=============================================================================
