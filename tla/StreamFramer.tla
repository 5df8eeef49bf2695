---------------------------- MODULE StreamFramer ----------------------------
(***************************************************************************)
(* From notifications to frames: on_ble_data and _process_byte of          *)
(* protocol.py, below the questions and answers of module CommandChannel.  *)
(* An answer of the machine comes as one or more notifications, each of    *)
(* which may be lost.  Nothing marks the start of a frame for certain: the *)
(* encrypted bytes within it may look like a start, an end or a command.   *)
(*                                                                         *)
(* A byte is what the framer tells apart.  Time passes in ticks.           *)
(***************************************************************************)
EXTENDS Integers, Sequences, FiniteSets

CONSTANTS
  Byte,        \* what a byte may be
  Start, End,  \* the first and the last byte of a frame, FRAME_START, FRAME_END
  FrameLength, \* of each command that the machine sends, KNOWN_COMMANDS
  Frames,      \* the frames whose checksum is right
  BufferLimit, \* bytes kept of an unfinished frame
  Limit,       \* ticks an unfinished frame may be old: one second
  Wait,        \* ticks a caller waits for its answer, frame_timeout
  Lag,         \* ticks after a question in which its answer comes, or is lost
  Mtu,         \* bytes of a notification
  MaxUnderWay  \* bound: notifications under way

ASSUME FramesAssumption ==
  /\ Frames \subseteq Seq(Byte) /\ BufferLimit \in Nat \ {0}
  /\ \A frame \in Frames :
       /\ frame[1] = Start /\ Len(frame) >= 4 /\ Len(frame) <= BufferLimit
       /\ frame[Len(frame)] = End

(* A caller has 5 seconds, 2 at least, before its wait runs out; an answer  *)
(* whose notifications are further apart than an unfinished frame may be    *)
(* old is one that is lost.                                                 *)
ASSUME PatienceAssumption ==
  Limit \in Nat /\ Lag \in Nat /\ Wait \in Nat /\ Mtu \in Nat \ {0}
  /\ Lag <= Limit /\ Wait > Limit + Lag

VARIABLES
  buffer, \* _recv_buffer
  age,    \* ticks since its first byte
  asked,  \* a caller waits for an answer
  waited, \* ticks since its question
  coming, \* the notifications of answers that are under way
  intact, \* history: none of the last answer is lost, and it is asked for in order
  cut     \* history: a wait was cancelled, and there has been no pause since

framerVars == <<buffer, age, asked, waited, coming, intact, cut>>

FramerInit ==
  /\ buffer = <<>> /\ age = 0
  /\ asked = FALSE /\ waited = 0 /\ coming = <<>> /\ intact = FALSE /\ cut = FALSE

-----------------------------------------------------------------------------
(* _process_byte.                                                           *)

\* Variant: an unfinished frame never gets old.
Stale_Never(framer) == framer.buffer = <<>>

\* Nothing is kept, or too long ago.
Stale(framer) == framer.buffer = <<>> \/ framer.age > Limit

\* A start byte begins a frame, anything else is skipped.
Begins(framer, byte) ==
  IF byte = Start THEN [framer EXCEPT !.buffer = <<byte>>, !.age = 0]
                  ELSE [framer EXCEPT !.buffer = <<>>, !.age = 0]

\* Variant: a start byte always begins a frame.
Restarts_AtStart(framer, byte) == Stale(framer) \/ byte = Start

\* Within a frame a start byte is a byte like any other.
Restarts(framer, byte) == Stale(framer)

\* The commands are a prefix of what follows the start byte.
Complete(bytes) ==
  \E command \in DOMAIN FrameLength :
     /\ Len(bytes) = FrameLength[command]
     /\ SubSeq(bytes, 2, Len(command) + 1) = command

(* No command is the beginning of another: a frame is as long as its        *)
(* command wants, and complete no earlier.                                  *)
ASSUME CommandsAssumption ==
  \A frame \in Frames : \A n \in 1 .. Len(frame) :
    Complete(SubSeq(frame, 1, n)) <=> n = Len(frame)

(* _try_parse_frame: a buffer as long as its command wants is emptied, and  *)
(* handed on if the checksum is right.                                      *)
Parsed(framer) ==
  [buffer |-> <<>>, age |-> 0,
   out |-> IF framer.buffer \in Frames THEN Append(framer.out, framer.buffer)
                                       ELSE framer.out]

Appended(framer, byte) ==
  LET longer == [framer EXCEPT !.buffer = Append(@, byte)]
  IN  IF byte = End /\ Len(longer.buffer) >= 4 /\ Complete(longer.buffer)
      THEN Parsed(longer) ELSE longer

Processed(framer, byte) ==
  CASE Restarts(framer, byte)              -> Begins(framer, byte)
    [] ~ Restarts(framer, byte) /\ Len(framer.buffer) >= BufferLimit
                                           -> [framer EXCEPT !.buffer = <<>>, !.age = 0]
    [] OTHER                               -> Appended(framer, byte)

-----------------------------------------------------------------------------
(* chunk_for_ble, of which the machine's notifications are the mirror.      *)
Chunks(frame) ==
  [i \in 1 .. ((Len(frame) + Mtu - 1) \div Mtu) |->
     SubSeq(frame, (i - 1) * Mtu + 1,
            IF i * Mtu < Len(frame) THEN i * Mtu ELSE Len(frame))]

\* The places in the frame of the bytes of some of its notifications.
Places(frame, kept) ==
  {p \in DOMAIN frame : \E i \in kept : (i - 1) * Mtu < p /\ p <= i * Mtu}

\* The bytes at some places, in their order.
BytesAt(frame, places) ==
  LET Rank(p) == Cardinality({q \in places : q <= p})
  IN  [n \in 1 .. Cardinality(places) |->
         frame[CHOOSE p \in {q \in places : Rank(q) = n} : TRUE]]

(* A checksum is not right by chance: nothing that can be read out of what  *)
(* is left of an answer is a frame.                                         *)
ASSUME ChecksumAssumption ==
  \A frame \in Frames : \A kept \in (SUBSET DOMAIN Chunks(frame)) \ {DOMAIN Chunks(frame)} :
    \A from, to \in DOMAIN frame :
      BytesAt(frame, {p \in Places(frame, kept) : from <= p /\ p <= to}) \notin Frames

\* So long after the last question, what came of it is complete or too old.
Rested == waited > Limit + Lag

(* The channel's lock keeps the callers apart, one question at a time.  The *)
(* next caller does not wait for what is under way to a cancelled one.      *)
Asks(frame) ==
  /\ ~ asked /\ asked' = TRUE /\ waited' = 0
  /\ Len(coming) + Len(Chunks(frame)) <= MaxUnderWay
  /\ coming' = coming \o Chunks(frame)
  /\ cut' = (cut /\ ~ Rested) /\ intact' = (coming = <<>> /\ ~ cut')
  /\ UNCHANGED <<buffer, age>>

\* on_ble_data: byte by byte.
Received(bytes) ==
  LET after[i \in 0 .. Len(bytes)] ==
        IF i = 0 THEN [buffer |-> buffer, age |-> age, out |-> <<>>]
                 ELSE Processed(after[i - 1], bytes[i])
  IN  after[Len(bytes)]

(* A frame ends the wait.  One that is not the last under way answers an    *)
(* earlier question, which its command or id may tell (CommandChannel).     *)
NotificationArrives ==
  /\ coming # <<>> /\ coming' = Tail(coming)
  /\ LET after == Received(Head(coming))
     IN  /\ buffer' = after.buffer /\ age' = after.age
         /\ \/ asked' = (asked /\ after.out = <<>>)
            \/ after.out # <<>> /\ coming' # <<>> /\ asked' = asked
  /\ UNCHANGED <<waited, intact, cut>>

NotificationIsLost ==
  /\ coming # <<>> /\ coming' = Tail(coming) /\ intact' = FALSE
  /\ UNCHANGED <<buffer, age, asked, waited, cut>>

\* Nothing came in time.
RunsOut ==
  /\ asked /\ waited = Wait /\ asked' = FALSE
  /\ UNCHANGED <<buffer, age, waited, coming, intact, cut>>

(* The time of a refresh is over, or polling stops: the wait is cancelled   *)
(* at any moment, and the channel is free at once.                          *)
IsCancelled ==
  /\ asked /\ asked' = FALSE /\ cut' = TRUE
  /\ UNCHANGED <<buffer, age, waited, coming, intact>>

Tick ==
  /\ coming # <<>> => waited < Lag
  /\ age' = IF buffer # <<>> /\ age <= Limit THEN age + 1 ELSE age
  /\ waited' = IF waited < Wait THEN waited + 1 ELSE waited
  /\ <<age, waited>>' # <<age, waited>>
  /\ UNCHANGED <<buffer, asked, coming, intact, cut>>

FramerNext ==
  \/ \E frame \in Frames : Asks(frame)
  \/ NotificationArrives \/ NotificationIsLost \/ RunsOut \/ IsCancelled \/ Tick

FramerSpec == FramerInit /\ [][FramerNext]_framerVars
-----------------------------------------------------------------------------
FramerTypeOK ==
  /\ Len(buffer) <= BufferLimit /\ age \in 0 .. (Limit + 1)
  /\ asked \in BOOLEAN /\ waited \in 0 .. Wait /\ {intact, cut} \subseteq BOOLEAN

(* An answer of which no notification is lost reaches its caller, whatever  *)
(* its encrypted bytes look like and whatever was lost of the answers       *)
(* before it, unless a wait was cancelled: then answers may be lost until   *)
(* one has run out or the machine was left alone as long.  A lost           *)
(* notification costs one answer, a cancelled wait those that hurry after.  *)
IntactAnswersGetThrough ==
  [][NotificationArrives /\ intact /\ coming' = <<>> => ~ asked']_framerVars
=============================================================================
