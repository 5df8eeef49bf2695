------------------------- MODULE ConfigEntriesProofs -------------------------
(***************************************************************************)
(* For any flows, machines and connections: no two entries are of one      *)
(* machine, a pairing leaves nothing on the system bus, and what several   *)
(* entries share serves each of them as long as it is loaded.              *)
(*                                                                         *)
(* That the last entry alone takes panel and database with it needs to     *)
(* know that whoever is set up, or on the way there or back, has an entry; *)
(* that an unload closes nobody else's database, that connections which    *)
(* are being opened are told apart from those in use.                      *)
(***************************************************************************)
EXTENDS ConfigEntries, TLAPS

\* A flow that is under way has made no entry.
FlowInv == \A f \in Flows : step[f] # "idle" => entry[f] = None

\* Whoever is not absent has an entry.
EntryInv == \A e \in Flows : life[e] # "absent" => entry[e] # None

\* A connection that is being opened is open and nobody else's.
OpeningInv ==
  \A c \in Callers : opening[c] # Closed =>
    /\ opening[c] \in connected /\ opening[c] # domainDb
    /\ \A d \in Callers \ {c} : opening[d] # opening[c]

\* Entries that use the database, and those that rely on the panel.
UseDb    == {"forwarding", "static_paths", "loaded", "stuck", "unload_platforms",
             "disconnecting"}
UsePanel == {"loaded", "stuck", "unload_platforms"}

UseInv ==
  /\ panel = panelFlag
  /\ \A e \in Flows :
       /\ life[e] \in UsePanel => panel
       /\ life[e] \in UseDb =>
            probeDb[e] \in connected /\ \A c \in Callers : opening[c] # probeDb[e]

FlowPart  == FlowTypeOK /\ FlowInv /\ OneEntryPerMachine /\ PairingLeavesNothing
SharedInv == EntryInv /\ OpeningInv /\ UseInv /\ SharedDbIsOpen
IInv      == TypeOK /\ FlowPart /\ SharedInv

LEMMA ClosedIsNone == Closed \notin Connections
BY MaxConnectionsAssumption DEF Closed, Connections

-----------------------------------------------------------------------------
(* The flows.                                                               *)

Draft == [machine : Machines \cup {None}, telling : BOOLEAN, brand : Brands]

\* Where the brand is known.
Branded == {"pair"} \cup Pairing \cup Ends

\* One flow goes on, without making an entry.
LEMMA FlowMoves ==
  ASSUME FlowPart, NEW f \in Flows, NEW s \in Steps, NEW d \in Draft,
         NEW held \in SUBSET Resources,
         s # "idle" => entry[f] = None,
         s \in Branded => d.brand # "unknown",
         s \notin Pairing => held = {},
         step' = [step EXCEPT ![f] = s], draft' = [draft EXCEPT ![f] = d],
         bluez' = [bluez EXCEPT ![f] = held], open' \subseteq Flows, entry' = entry
  PROVE  FlowPart'
<1> USE DEF FlowPart, FlowTypeOK
<1>1. FlowTypeOK'
  BY DEF Draft, Branded
<1>2. FlowInv' /\ OneEntryPerMachine' /\ PairingLeavesNothing'
  BY DEF FlowInv, OneEntryPerMachine, PairingLeavesNothing
<1> QED BY <1>1, <1>2

LEMMA NoDraftIsOne == NoDraft \in Draft /\ "idle" \in Steps \ (Pairing \cup Branded)
BY DEF NoDraft, Draft, Brands, Steps, Forms, Pairing, Ends, Branded

LEMMA ClosesKeeps ==
  ASSUME FlowPart, NEW f \in Flows, step[f] \notin Pairing, Closes(f),
         UNCHANGED <<bluez, entry>>
  PROVE  FlowPart'
<1>1. bluez' = [bluez EXCEPT ![f] = {}] /\ {} \in SUBSET Resources
  BY DEF FlowPart, FlowTypeOK, PairingLeavesNothing
<1>2. open' \subseteq Flows
  BY DEF Closes, FlowPart, FlowTypeOK
<1> QED BY <1>1, <1>2, FlowMoves, NoDraftIsOne DEF Closes

\* A form is left for another, with or without a new draft.
LEMMA FormKeeps ==
  ASSUME FlowPart, NEW f \in Flows, step[f] \notin Pairing, entry[f] = None,
         NEW s \in Steps, s \notin Pairing, Goes(f, s), NEW d \in Draft,
         draft' = [draft EXCEPT ![f] = d], s \in Branded => d.brand # "unknown",
         open' \subseteq Flows, UNCHANGED <<bluez, entry>>
  PROVE  FlowPart'
<1>1. bluez' = [bluez EXCEPT ![f] = {}] /\ {} \in SUBSET Resources
  BY DEF FlowPart, FlowTypeOK, PairingLeavesNothing
<1> QED BY <1>1, FlowMoves DEF Goes

LEMMA SameDraft ==
  ASSUME FlowPart, NEW f \in Flows
  PROVE  draft[f] \in Draft /\ draft = [draft EXCEPT ![f] = draft[f]]
BY DEF FlowPart, FlowTypeOK, Draft

LEMMA IdentifiedKeeps ==
  ASSUME FlowPart, NEW f \in Flows, step[f] \in Forms, entry[f] = None,
         NEW m \in Machines \cup {None}, NEW telling \in BOOLEAN,
         Identified(f, m, telling), UNCHANGED <<open, bluez, entry>>
  PROVE  FlowPart'
<1> DEFINE d == [machine |-> m, telling |-> telling,
                 brand |-> IF telling THEN "told" ELSE "unknown"]
           s == IF telling THEN "pair" ELSE "brand"
<1>1. d \in Draft /\ s \in Steps \ Pairing /\ (s \in Branded => d.brand # "unknown")
  BY DEF Draft, Brands, Steps, Forms, Pairing, Ends, Branded
<1>2. step[f] \notin Pairing
  BY DEF Forms, Pairing
<1>3. Goes(f, s) /\ draft' = [draft EXCEPT ![f] = d]
  BY DEF Identified
<1>4. open' \subseteq Flows
  BY DEF FlowPart, FlowTypeOK
<1> HIDE DEF d, s
<1> QED BY <1>1, <1>2, <1>3, <1>4, FormKeeps

\* A pairing goes on, or ends with nothing on the bus.
LEMMA PairingKeeps ==
  ASSUME FlowPart, NEW f \in Flows, step[f] \in {"pair"} \cup Pairing,
         NEW s \in Pairing \cup Ends, Goes(f, s), NEW held \in SUBSET Resources,
         bluez' = [bluez EXCEPT ![f] = held], s \in Ends => held = {},
         UNCHANGED <<draft, open, entry>>
  PROVE  FlowPart'
<1>1. s \in Steps /\ s # "idle" /\ (s \notin Pairing => s \in Ends)
  BY DEF Steps, Pairing, Ends
<1>2. entry[f] = None
  BY DEF FlowPart, FlowInv, Pairing
<1>3. draft[f].brand # "unknown"
  BY DEF FlowPart, FlowTypeOK
<1>4. open' \subseteq Flows
  BY DEF FlowPart, FlowTypeOK
<1>5. draft' = [draft EXCEPT ![f] = draft[f]] /\ draft[f] \in Draft
  BY SameDraft
<1> QED BY <1>1, <1>2, <1>3, <1>4, <1>5, FlowMoves DEF Goes

LEMMA PairsKeeps ==
  ASSUME FlowPart, NEW f \in Flows, Pairs(f)
  PROVE  FlowPart' /\ entry' = entry
<1>1. bluez[f] \in SUBSET Resources /\ {} \in SUBSET Resources
  BY DEF FlowPart, FlowTypeOK
<1>2. step[f] \in Pairing /\ UNCHANGED <<draft, open, entry>>
  BY DEF Pairs, BusConnects, AgentRegisters, LooksUp, Discovers, PairCallEnds, Pairing
<1>3. \/ \E result \in Ends : Returns(f, result)
      \/ \E s \in Pairing, r \in Resources :
           Goes(f, s) /\ bluez' = [bluez EXCEPT ![f] = @ \cup {r}]
      \/ Goes(f, "pair_call") /\ UNCHANGED bluez
  BY DEF Pairs, BusConnects, AgentRegisters, LooksUp, Discovers, PairCallEnds, Pairing,
         Ends, Resources
<1>4. ASSUME NEW result \in Ends, Returns(f, result) PROVE FlowPart'
  BY <1>1, <1>2, <1>4, PairingKeeps DEF Returns, Cleaned
<1>5. ASSUME NEW s \in Pairing, NEW r \in Resources, Goes(f, s),
             bluez' = [bluez EXCEPT ![f] = @ \cup {r}]
      PROVE  FlowPart'
  <2>1. s \notin Ends
    BY DEF Pairing, Ends
  <2>2. bluez' = [bluez EXCEPT ![f] = bluez[f] \cup {r}]
    BY <1>5
  <2>3. bluez[f] \cup {r} \in SUBSET Resources
    BY <1>1
  <2> QED BY <1>2, <1>5, <2>1, <2>2, <2>3, PairingKeeps
<1>6. CASE Goes(f, "pair_call") /\ UNCHANGED bluez
  <2>1. "pair_call" \in Pairing \ Ends
    BY DEF Pairing, Ends
  <2>2. bluez' = [bluez EXCEPT ![f] = bluez[f]]
    BY <1>6 DEF FlowPart, FlowTypeOK
  <2> QED BY <1>1, <1>2, <1>6, <2>1, <2>2, PairingKeeps
<1> QED BY <1>2, <1>3, <1>4, <1>5, <1>6

LEMMA AnsweredKeeps ==
  ASSUME FlowPart, NEW f \in Flows, Answered(f)
  PROVE  FlowPart'
<1>1. step[f] \in Ends /\ step[f] \notin Pairing /\ bluez' = bluez /\ bluez[f] = {}
  BY DEF Answered, Pairing, Ends, FlowPart, PairingLeavesNothing
<1>2. CASE Closes(f) /\ UNCHANGED entry
  BY <1>1, <1>2, ClosesKeeps
<1>3. CASE Goes(f, "pair") /\ UNCHANGED <<draft, open, entry>>
  <2>1. "pair" \in Steps \ Pairing /\ step[f] # "idle"
    BY <1>1 DEF Steps, Forms, Pairing, Ends
  <2>2. entry[f] = None /\ draft[f].brand # "unknown" /\ open' \subseteq Flows
    BY <1>1, <1>3, <2>1 DEF FlowPart, FlowInv, FlowTypeOK
  <2> QED BY <1>1, <1>3, <2>1, <2>2, SameDraft, FormKeeps
<1>4. CASE /\ MayCreate(f) /\ Closes(f)
           /\ entry' = [entry EXCEPT ![f] = draft[f].machine]
  <2>1. \A g \in Flows : entry[g] # draft[f].machine
    BY <1>4 DEF MayCreate, Configured
  <2>2. draft[f].machine \in Machines \cup {None}
    BY DEF FlowPart, FlowTypeOK
  <2>3. FlowTypeOK'
    BY <1>1, <1>4, <2>2, NoDraftIsOne DEF FlowPart, FlowTypeOK, Closes, Draft, Branded
  <2>4. FlowInv' /\ OneEntryPerMachine' /\ PairingLeavesNothing'
    BY <1>1, <1>4, <2>1
    DEF FlowPart, FlowTypeOK, Closes, FlowInv, OneEntryPerMachine, PairingLeavesNothing
  <2> QED BY <2>3, <2>4 DEF FlowPart
<1> QED BY <1>2, <1>3, <1>4 DEF Answered

\* An entry that a step changes belongs to a flow that comes to its end.
LEMMA FlowStepKeeps ==
  ASSUME FlowPart, FlowNext
  PROVE  /\ FlowPart'
         /\ \A e \in Flows : entry'[e] = entry[e] \/ entry[e] = None
<1>1. PICK f \in Flows :
        \/ UserStarts(f) \/ AsksForManual(f) \/ Confirms(f) \/ Abandons(f)
        \/ \E m \in Machines :
             \/ Picks(f, m) \/ IsDiscovered(f, m)
             \/ \E telling \in BOOLEAN : TypesAddress(f, m, telling)
        \/ ChoosesBrand(f)
        \/ \E via \in Reaches : SubmitsPair(f, via)
        \/ Pairs(f) \/ Answered(f)
  BY DEF FlowNext
<1>2. draft[f] \in Draft /\ draft = [draft EXCEPT ![f] = draft[f]] /\ open \subseteq Flows
  BY SameDraft DEF FlowPart, FlowTypeOK
<1>3. /\ "idle" \notin Pairing /\ Forms \cap Pairing = {}
      /\ {"user", "manual", "bluetooth_confirm"} \cap Branded = {}
      /\ Forms \subseteq Steps
  BY DEF Forms, Pairing, Branded, Ends, Steps
<1>4. step[f] # "idle" => entry[f] = None
  BY DEF FlowPart, FlowInv
<1>5. CASE UserStarts(f)
  <2>1. PICK s \in {"manual", "user"} : Goes(f, s)
    BY <1>5 DEF UserStarts
  <2>2. s \in Forms /\ s \notin Branded
    BY <1>3 DEF Forms
  <2> QED BY <1>2, <1>3, <1>5, <2>1, <2>2, FormKeeps DEF UserStarts
<1>6. CASE AsksForManual(f)
  <2>1. "manual" \in Forms /\ "user" \in Forms /\ step[f] = "user" /\ step[f] # "idle"
    BY <1>6 DEF AsksForManual, Forms
  <2> QED BY <1>2, <1>3, <1>4, <1>6, <2>1, FormKeeps DEF AsksForManual
<1>7. CASE Confirms(f)
  <2>1. draft[f].machine \in Machines \cup {None} /\ draft[f].telling \in BOOLEAN
    BY <1>2 DEF Draft
  <2>2. step[f] \in Forms /\ step[f] # "idle"
    BY <1>7 DEF Confirms, Forms
  <2> QED BY <1>4, <1>7, <2>1, <2>2, IdentifiedKeeps DEF Confirms
<1>8. CASE Abandons(f)
  <2>1. CASE step[f] \in Forms /\ Closes(f)
    BY <1>3, <1>8, <2>1, ClosesKeeps DEF Abandons
  <2>2. CASE open' = open \ {f} /\ UNCHANGED <<step, draft>>
    BY <1>8, <2>2
    DEF Abandons, FlowPart, FlowTypeOK, FlowInv, OneEntryPerMachine, PairingLeavesNothing
  <2> QED BY <1>8, <2>1, <2>2 DEF Abandons
<1>9. ASSUME NEW m \in Machines, NEW telling \in BOOLEAN,
             \/ TypesAddress(f, m, telling)
             \/ Picks(f, m) /\ telling = (m \in Telling)
      PROVE  FlowPart' /\ UNCHANGED entry
  <2>1. step[f] \in Forms /\ step[f] # "idle" /\ UNCHANGED <<bluez, entry>>
    BY <1>9 DEF Picks, TypesAddress, Forms
  <2>2. CASE Closes(f)
    BY <1>3, <2>1, <2>2, ClosesKeeps
  <2>3. CASE Identified(f, m, telling) /\ UNCHANGED open
    BY <1>4, <2>1, <2>3, IdentifiedKeeps
  <2> QED BY <1>9, <2>1, <2>2, <2>3 DEF Picks, TypesAddress
<1>10. ASSUME NEW m \in Machines, IsDiscovered(f, m) PROVE FlowPart' /\ UNCHANGED entry
  <2> DEFINE d == [draft[f] EXCEPT !.machine = m, !.telling = (m \in Telling)]
  <2>1. d \in Draft
    <3>1. CASE m \in Telling
      <4>1. d = [draft[f] EXCEPT !.machine = m, !.telling = TRUE]
        BY <3>1
      <4> QED BY <1>2, <4>1 DEF Draft
    <3>2. CASE m \notin Telling
      <4>1. d = [draft[f] EXCEPT !.machine = m, !.telling = FALSE]
        <5>1. (m \in Telling) = FALSE
          BY <3>2
        <5> QED BY <5>1
      <4> QED BY <1>2, <4>1 DEF Draft
    <3> QED BY <3>1, <3>2
  <2>2. draft' = [draft EXCEPT ![f] = d]
    BY <1>10 DEF IsDiscovered
  <2>3. "bluetooth_confirm" \in Forms
    BY DEF Forms
  <2>4. "bluetooth_confirm" \in Steps /\ "bluetooth_confirm" \notin Pairing \cup Branded
    BY <1>3, <2>3
  <2> HIDE DEF d
  <2> QED BY <1>2, <1>3, <1>10, <2>1, <2>2, <2>4, FormKeeps DEF IsDiscovered
<1>11. CASE ChoosesBrand(f)
  <2> DEFINE d == [draft[f] EXCEPT !.brand = "chosen"]
  <2>1. d \in Draft /\ d.brand # "unknown"
    BY <1>2 DEF Draft, Brands
  <2>2. draft' = [draft EXCEPT ![f] = d]
    BY <1>11 DEF ChoosesBrand
  <2>3. "pair" \in Steps /\ "pair" \notin Pairing /\ step[f] \notin Pairing /\ step[f] # "idle"
    BY <1>11 DEF ChoosesBrand, Steps, Forms, Pairing
  <2> HIDE DEF d
  <2> QED BY <1>2, <1>4, <1>11, <2>1, <2>2, <2>3, FormKeeps DEF ChoosesBrand
<1>12. ASSUME NEW via \in Reaches, SubmitsPair(f, via) PROVE FlowPart' /\ UNCHANGED entry
  <2>1. PICK s \in {"ok", "connect"} : Goes(f, s)
    BY <1>12 DEF SubmitsPair
  <2>2. s \in Pairing \cup Ends
    BY DEF Pairing, Ends
  <2>3. bluez' = [bluez EXCEPT ![f] = {}] /\ {} \in SUBSET Resources
    BY <1>12 DEF SubmitsPair, FlowPart, FlowTypeOK, PairingLeavesNothing, Pairing
  <2> QED BY <1>12, <2>1, <2>2, <2>3, PairingKeeps DEF SubmitsPair
<1>13. CASE Pairs(f)
  BY <1>13, PairsKeeps
<1>14. CASE Answered(f)
  <2>1. \A e \in Flows \ {f} : entry'[e] = entry[e]
    BY <1>14 DEF Answered, FlowPart, FlowTypeOK
  <2>2. step[f] # "idle"
    BY <1>14 DEF Answered, Ends
  <2> QED BY <1>4, <1>14, <2>1, <2>2, AnsweredKeeps
<1>15. ASSUME NEW m \in Machines, Picks(f, m) PROVE FlowPart' /\ UNCHANGED entry
  <2>1. CASE m \in Telling
    <3>1. TRUE = (m \in Telling) /\ TRUE \in BOOLEAN
      BY <2>1
    <3> QED BY <1>9, <1>15, <3>1
  <2>2. CASE m \notin Telling
    <3>1. FALSE = (m \in Telling) /\ FALSE \in BOOLEAN
      BY <2>2
    <3> QED BY <1>9, <1>15, <3>1
  <2> QED BY <2>1, <2>2
<1> QED
  BY <1>1, <1>5, <1>6, <1>7, <1>8, <1>9, <1>10, <1>11, <1>12, <1>13, <1>14, <1>15
  DEF UserStarts, AsksForManual, Confirms, Abandons, ChoosesBrand

\* An entry goes, or none does; the flows are left alone.
LEMMA RemovalKeeps ==
  ASSUME FlowPart, UNCHANGED <<step, draft, open, bluez>>,
         entry' = entry \/ \E e \in Flows : entry' = [entry EXCEPT ![e] = None]
  PROVE  FlowPart'
BY DEF FlowPart, FlowTypeOK, FlowInv, OneEntryPerMachine, PairingLeavesNothing

-----------------------------------------------------------------------------
(* The entries.                                                             *)

LEMMA EntriesInit == Init => IInv
<1> SUFFICES ASSUME Init PROVE IInv OBVIOUS
<1>1. FlowPart
  BY DEF Init, FlowInit, FlowPart, FlowTypeOK, FlowInv, OneEntryPerMachine,
         PairingLeavesNothing, NoDraft, Steps, Forms, Pairing, Ends, Brands, Resources
<1>2. TypeOK
  BY <1>1 DEF Init, TypeOK, FlowPart, Lives
<1>3. SharedInv
  BY DEF Init, SharedInv, EntryInv, OpeningInv, UseInv, UseDb, UsePanel, SharedDbIsOpen
<1> QED BY <1>1, <1>2, <1>3 DEF IInv

\* What the components of an entry see of a step of the flows.
LEMMA FlowsStep ==
  ASSUME IInv, FlowNext,
         UNCHANGED <<life, then, forwarded, sharedVars, dbVars, optionVars>>
  PROVE  IInv'
<1>1. FlowPart' /\ \A e \in Flows : entry'[e] = entry[e] \/ entry[e] = None
  BY FlowStepKeeps DEF IInv
<1>2. TypeOK'
  BY <1>1 DEF IInv, TypeOK, FlowPart, sharedVars, dbVars, optionVars
<1>3. SharedInv'
  BY <1>1
  DEF IInv, SharedInv, EntryInv, OpeningInv, UseInv, SharedDbIsOpen, sharedVars, dbVars
<1> QED BY <1>1, <1>2, <1>3 DEF IInv

-----------------------------------------------------------------------------
(* The database.                                                            *)

DbTypes ==
  /\ domainDb \in Connections \cup {Closed} /\ connected \subseteq Connections
  /\ opening \in [Callers -> Connections \cup {Closed}]

DbInv == DbTypes /\ OpeningInv /\ SharedDbIsOpen

\* What an entry that uses the database relies on.
Served(n) == n \in connected /\ \A c \in Callers : opening[c] # n

LEMMA OpensKeeps ==
  ASSUME DbInv, NEW c \in Callers, Opens(c)
  PROVE  DbInv' /\ \A n : Served(n) => Served(n)'
<1>1. PICK n \in Connections \ connected :
        connected' = connected \cup {n} /\ opening' = [opening EXCEPT ![c] = n]
  BY DEF Opens
<1>2. n # Closed
  BY ClosedIsNone
<1>3. DbTypes' /\ SharedDbIsOpen'
  BY <1>1 DEF Opens, DbInv, DbTypes, SharedDbIsOpen
<1>4. OpeningInv'
  BY <1>1, <1>2 DEF Opens, DbInv, DbTypes, OpeningInv
<1>5. \A k : Served(k) => Served(k)'
  BY <1>1 DEF Served, DbInv, DbTypes
<1> QED BY <1>3, <1>4, <1>5 DEF DbInv

LEMMA OpenedKeeps ==
  ASSUME DbInv, NEW c \in Callers, Opened(c)
  PROVE  DbInv' /\ \A n : Served(n) \/ n = opening[c] => Served(n)'
<1>1. DbTypes' /\ SharedDbIsOpen'
  BY DEF Opened, DbInv, DbTypes, OpeningInv, SharedDbIsOpen
<1>2. OpeningInv'
  BY DEF Opened, DbInv, DbTypes, OpeningInv
<1>3. \A n : Served(n) /\ n # Closed => Served(n)'
  BY DEF Served, Opened, DbInv, DbTypes
<1>4. \A n : Served(n) => n # Closed
  BY ClosedIsNone DEF Served, DbInv, DbTypes
<1>5. \A n : n = opening[c] => Served(n)'
  BY DEF Served, Opened, DbInv, DbTypes, OpeningInv
<1> QED BY <1>1, <1>2, <1>3, <1>4, <1>5 DEF DbInv

LEMMA OpenFailsKeeps ==
  ASSUME DbInv, NEW c \in Callers, OpenFails(c)
  PROVE  DbInv' /\ \A n : Served(n) => Served(n)'
<1>1. DbTypes' /\ SharedDbIsOpen'
  BY DEF OpenFails, DbInv, DbTypes, OpeningInv, SharedDbIsOpen
<1>2. OpeningInv'
  BY DEF OpenFails, DbInv, DbTypes, OpeningInv
<1>3. \A n : Served(n) => n # Closed
  BY ClosedIsNone DEF Served, DbInv, DbTypes
<1>4. \A n : Served(n) => Served(n)'
  BY <1>3 DEF Served, OpenFails, DbInv, DbTypes
<1> QED BY <1>1, <1>2, <1>4 DEF DbInv

LEMMA CommandKeeps == IInv /\ CommandAsks => IInv'
<1> SUFFICES ASSUME IInv, CommandAsks PROVE IInv' OBVIOUS
<1>1. UNCHANGED <<flowVars, life, then, forwarded, sharedVars, optionVars, probeDb>>
  BY DEF CommandAsks, Opens, OpenFails
<1>2. "command" \in Callers /\ DbInv
  BY DEF Callers, IInv, TypeOK, SharedInv, DbInv, DbTypes
<1>3. DbInv' /\ \A n : Served(n) => Served(n)'
  BY <1>2, OpensKeeps, OpenedKeeps, OpenFailsKeeps DEF CommandAsks
<1>4. FlowPart' /\ FlowTypeOK'
  BY <1>1
  DEF IInv, flowVars, FlowPart, FlowTypeOK, FlowInv, OneEntryPerMachine,
      PairingLeavesNothing
<1>5. TypeOK'
  BY <1>1, <1>3, <1>4 DEF IInv, TypeOK, DbInv, DbTypes, sharedVars, optionVars
<1>6. SharedInv'
  BY <1>1, <1>3
  DEF IInv, SharedInv, EntryInv, UseInv, Served, DbInv, flowVars, sharedVars
<1> QED BY <1>4, <1>5, <1>6 DEF IInv

-----------------------------------------------------------------------------
(* Set-ups and unloads.                                                     *)

\* A step of one entry that leaves the flows and the database alone, and the
\* panel unless it comes.
LEMMA LifeMoves ==
  ASSUME IInv, NEW e \in Flows, NEW l \in Lives, Becomes(e, l),
         UNCHANGED <<flowVars, dbVars>>,
         entry[e] # None,
         l \in UseDb => life[e] \in UseDb,
         l \in UsePanel => panel',
         panel => panel', panel' = panelFlag',
         TypeOK'
  PROVE  IInv'
<1>1. FlowPart'
  BY DEF IInv, flowVars, FlowPart, FlowTypeOK, FlowInv, OneEntryPerMachine,
         PairingLeavesNothing
<1>2. life'[e] = l /\ \A g \in Flows \ {e} : life'[g] = life[g]
  BY DEF IInv, TypeOK, Becomes
<1>3. EntryInv'
  BY <1>2 DEF IInv, SharedInv, EntryInv, flowVars
<1>4. OpeningInv' /\ SharedDbIsOpen'
  BY DEF IInv, SharedInv, OpeningInv, SharedDbIsOpen, dbVars
<1>5. UseInv'
  BY <1>2 DEF IInv, SharedInv, UseInv, dbVars
<1> QED BY <1>1, <1>3, <1>4, <1>5 DEF IInv, SharedInv

LEMMA StartsKeeps ==
  ASSUME IInv, NEW e \in Flows, Starts(e)
  PROVE  IInv'
<1>1. "starting" \in Lives /\ "starting" \notin UseDb \cup UsePanel
  BY DEF Lives, SettingUp, UseDb, UsePanel
<1>2. TypeOK'
  BY <1>1 DEF IInv, TypeOK, FlowTypeOK, flowVars, Starts, Becomes, sharedVars, dbVars
<1>3. panel' = panelFlag' /\ panel' = panel
  BY DEF Starts, sharedVars, IInv, SharedInv, UseInv
<1> QED BY <1>1, <1>2, <1>3, LifeMoves DEF Starts

LEMMA ForwardsKeeps ==
  ASSUME IInv, NEW e \in Flows, Forwards(e)
  PROVE  IInv'
<1>1. /\ {"failed", "static_paths", "loaded"} \subseteq Lives
      /\ "failed" \notin UseDb \cup UsePanel /\ "static_paths" \notin UsePanel
      /\ "forwarding" \in UseDb /\ "forwarding" # "absent"
  BY DEF Lives, SettingUp, AtRest, UseDb, UsePanel
<1>2. panel' = panelFlag' /\ panel' = panel
  BY DEF Forwards, sharedVars, IInv, SharedInv, UseInv
<1>3. entry[e] # None
  BY <1>1 DEF Forwards, IInv, SharedInv, EntryInv
<1>4. PICK l \in {"failed", "static_paths", "loaded"} :
        Becomes(e, l) /\ (l = "loaded" => panelFlag)
  BY DEF Forwards
<1>5. TypeOK'
  <2>1. life' \in [Flows -> Lives]
    BY <1>1, <1>4 DEF IInv, TypeOK, Becomes
  <2>2. {panelFlag', panel', services', commands'} \subseteq BOOLEAN
        /\ forwarded' \in SUBSET Flows
    BY DEF IInv, TypeOK, Forwards, sharedVars
  <2>3. UNCHANGED <<flowVars, then, dbVars, optionVars>>
    BY DEF Forwards
  <2> QED
    BY <2>1, <2>2, <2>3 DEF IInv, TypeOK, FlowTypeOK, flowVars, dbVars, optionVars
<1> QED
  BY <1>1, <1>2, <1>3, <1>4, <1>5, LifeMoves DEF Forwards, IInv, SharedInv, UseInv

LEMMA RegistersKeeps ==
  ASSUME IInv, NEW e \in Flows, RegistersPanel(e)
  PROVE  IInv'
<1>1. /\ {"failed", "loaded"} \subseteq Lives
      /\ "failed" \notin UseDb \cup UsePanel
      /\ "static_paths" \in UseDb /\ "static_paths" # "absent"
  BY DEF Lives, AtRest, UseDb, UsePanel
<1>2. entry[e] # None
  BY <1>1 DEF RegistersPanel, IInv, SharedInv, EntryInv
<1>3. PICK l \in {"failed", "loaded"} :
        Becomes(e, l) /\ (l = "loaded" => panel' /\ panelFlag')
        /\ (l = "failed" => UNCHANGED <<panel, panelFlag>>)
  BY DEF RegistersPanel
<1>4. panel' = panelFlag' /\ (panel => panel') /\ {panel', panelFlag'} \subseteq BOOLEAN
  BY DEF RegistersPanel, IInv, TypeOK, SharedInv, UseInv
<1>5. TypeOK'
  BY <1>1, <1>3, <1>4
  DEF IInv, TypeOK, FlowTypeOK, flowVars, RegistersPanel, Becomes, dbVars, optionVars
<1> QED BY <1>1, <1>2, <1>3, <1>4, <1>5, LifeMoves DEF RegistersPanel

\* The step from loaded to an unload, and what else leaves the shared alone.
LEMMA UnloadStarts ==
  ASSUME IInv, NEW e \in Flows, life[e] = "loaded",
         \E next \in {"set-up", "rest", "removal"} : UnloadFor(e, next),
         {stale', again'} \subseteq SUBSET Flows,
         UNCHANGED <<flowVars, forwarded, sharedVars, dbVars>>
  PROVE  IInv'
<1>1. "unload_platforms" \in Lives /\ "loaded" \in UseDb \cap UsePanel /\ "loaded" # "absent"
  BY DEF Lives, Unloading, UseDb, UsePanel
<1>2. panel' /\ panel' = panelFlag' /\ entry[e] # None
  BY <1>1 DEF IInv, SharedInv, UseInv, EntryInv, sharedVars
<1>3. TypeOK'
  BY <1>1
  DEF IInv, TypeOK, FlowTypeOK, flowVars, UnloadFor, Becomes, sharedVars, dbVars
<1> QED BY <1>1, <1>2, <1>3, LifeMoves DEF UnloadFor

LEMMA PlatformsKeeps ==
  ASSUME IInv, NEW e \in Flows, PlatformsUnloaded(e)
  PROVE  IInv'
<1>1. /\ {"disconnecting", "stuck"} \subseteq Lives
      /\ "disconnecting" \notin UsePanel
      /\ "unload_platforms" \in UseDb \cap UsePanel /\ "unload_platforms" # "absent"
  BY DEF Lives, Unloading, AtRest, UseDb, UsePanel
<1>2. panel' /\ panel' = panelFlag' /\ entry[e] # None
  BY <1>1 DEF IInv, SharedInv, UseInv, EntryInv, sharedVars, PlatformsUnloaded
<1>3. PICK l \in {"disconnecting", "stuck"} : Becomes(e, l)
  BY DEF PlatformsUnloaded, Refused
<1>4. TypeOK'
  BY <1>1, <1>3, SMTT(30)
  DEF IInv, TypeOK, FlowTypeOK, flowVars, PlatformsUnloaded, Refused, Becomes,
      sharedVars, dbVars
<1> QED BY <1>1, <1>2, <1>3, <1>4, LifeMoves DEF PlatformsUnloaded

LEMMA EnablesKeeps ==
  ASSUME IInv, NEW e \in Flows, life[e] \in {"unloaded", "failed"}, Becomes(e, "created"),
         {again'} \subseteq SUBSET Flows,
         UNCHANGED <<flowVars, then, forwarded, sharedVars, dbVars, stale>>
  PROVE  IInv'
<1>1. "created" \in Lives /\ "created" \notin UseDb \cup UsePanel
  BY DEF Lives, UseDb, UsePanel
<1>2. panel' = panel /\ panel' = panelFlag' /\ entry[e] # None
  BY DEF IInv, SharedInv, UseInv, EntryInv, sharedVars
<1>3. TypeOK'
  BY <1>1 DEF IInv, TypeOK, FlowTypeOK, flowVars, Becomes, sharedVars, dbVars
<1> QED BY <1>1, <1>2, <1>3, LifeMoves

\* A set-up gets the database, or goes for it.
LEMMA GetsDbKeeps ==
  ASSUME IInv, NEW e \in Flows, GetsDb(e) \/ DbOpened(e)
  PROVE  IInv'
<1>1. UNCHANGED <<flowVars, then, forwarded, sharedVars, optionVars>>
  BY DEF GetsDb, DbOpened
<1>2. /\ {"forwarding", "opening", "failed"} \subseteq Lives
      /\ {"forwarding", "opening", "failed"} \cap UsePanel = {}
      /\ {"starting", "opening", "failed"} \cap UseDb = {}
      /\ "absent" \notin {"starting", "opening"}
  BY DEF Lives, SettingUp, AtRest, UseDb, UsePanel
<1>3. entry[e] # None
  BY <1>2 DEF GetsDb, DbOpened, IInv, SharedInv, EntryInv
<1>4. DbInv /\ e \in Callers
  BY DEF Callers, IInv, TypeOK, SharedInv, DbInv, DbTypes
<1>5. domainDb # Closed => Served(domainDb)
  BY <1>4 DEF DbInv, DbTypes, OpeningInv, SharedDbIsOpen, Served
<1>6. /\ DbInv' /\ \A n : Served(n) => Served(n)'
      /\ \/ /\ probeDb' = probeDb
            /\ \E l \in {"opening", "failed"} : Becomes(e, l)
         \/ \E n \in Connections : /\ Served(n)' /\ Becomes(e, "forwarding")
                                   /\ probeDb' = [probeDb EXCEPT ![e] = n]
  <2>1. CASE /\ domainDb # Closed /\ probeDb' = [probeDb EXCEPT ![e] = domainDb]
             /\ Becomes(e, "forwarding") /\ UNCHANGED <<domainDb, connected, opening>>
    <3>1. DbInv' /\ \A n : Served(n) => Served(n)'
      BY <1>4, <2>1
      DEF DbInv, DbTypes, OpeningInv, SharedDbIsOpen, Served
    <3>2. domainDb \in Connections
      BY <1>4, <2>1 DEF DbInv, DbTypes
    <3> QED BY <1>5, <2>1, <3>1, <3>2
  <2>2. CASE Opens(e) /\ Becomes(e, "opening")
    BY <1>4, <2>2, OpensKeeps DEF Opens
  <2>3. CASE /\ Opened(e) /\ probeDb' = [probeDb EXCEPT ![e] = opening[e]]
             /\ Becomes(e, "forwarding")
    <3>1. opening[e] \in Connections
      BY <1>4, <2>3 DEF Opened, DbInv, DbTypes
    <3> QED BY <1>4, <2>3, <3>1, OpenedKeeps
  <2>4. CASE OpenFails(e) /\ Becomes(e, "failed")
    BY <1>4, <2>4, OpenFailsKeeps DEF OpenFails
  <2> QED BY <2>1, <2>2, <2>3, <2>4 DEF GetsDb, DbOpened
<1>7. FlowPart'
  BY <1>1
  DEF IInv, flowVars, FlowPart, FlowTypeOK, FlowInv, OneEntryPerMachine,
      PairingLeavesNothing
<1>8. TypeOK'
  <2>1. life' \in [Flows -> Lives]
    BY <1>2, <1>6 DEF IInv, TypeOK, Becomes
  <2>2. probeDb' \in [Flows -> Connections \cup {Closed}]
    BY <1>6 DEF IInv, TypeOK
  <2> QED
    BY <1>1, <1>6, <1>7, <2>1, <2>2
    DEF IInv, TypeOK, FlowPart, DbInv, DbTypes, sharedVars, optionVars
<1>9. EntryInv'
  BY <1>1, <1>3, <1>6 DEF IInv, TypeOK, SharedInv, EntryInv, Becomes, flowVars
<1>10. UseInv'
  <2>1. \A g \in Flows \ {e} : life'[g] = life[g] /\ probeDb'[g] = probeDb[g]
    BY <1>6 DEF IInv, TypeOK, Becomes
  <2>2. /\ life'[e] \notin UsePanel
        /\ life'[e] \in UseDb => \A n : n = probeDb'[e] => Served(n)'
    <3>1. life'[e] \in {"opening", "failed"} \/ life'[e] = "forwarding"
      BY <1>6 DEF IInv, TypeOK, Becomes
    <3>2. life'[e] = "forwarding" => \A n : n = probeDb'[e] => Served(n)'
      BY <1>6 DEF IInv, TypeOK, Becomes
    <3> QED BY <1>2, <3>1, <3>2
  <2> QED
    BY <1>1, <1>6, <2>1, <2>2 DEF IInv, SharedInv, UseInv, Served, sharedVars
<1> QED BY <1>6, <1>7, <1>8, <1>9, <1>10 DEF IInv, SharedInv, DbInv

\* An entry rests or goes, with its row or without; panel and database go when
\* all the others are absent.
LEMMA LeavesKeeps ==
  ASSUME IInv, NEW e \in Flows, entry[e] # None,
         NEW l \in Lives \ (UseDb \cup UsePanel), Becomes(e, l),
         UNCHANGED <<step, draft, open, bluez>>,
         \/ l # "absent" /\ entry' = entry
         \/ l = "absent" /\ entry' = [entry EXCEPT ![e] = None],
         probeDb' \in {probeDb, [probeDb EXCEPT ![e] = Closed]}, DbInv',
         panel' = panelFlag',
         \/ (panel => panel') /\ \A n : Served(n) => Served(n)'
         \/ \A g \in Flows \ {e} : life[g] = "absent",
         {then'} \subseteq [Flows -> {"set-up", "rest", "removal"}],
         {forwarded', stale', again'} \subseteq SUBSET Flows,
         {panelFlag', panel', services', commands'} \subseteq BOOLEAN
  PROVE  IInv'
<1>1. FlowPart'
  BY RemovalKeeps DEF IInv
<1>2. life'[e] = l /\ \A g \in Flows \ {e} : life'[g] = life[g]
  BY DEF IInv, TypeOK, Becomes
<1>3. TypeOK'
  <2>1. probeDb' \in [Flows -> Connections \cup {Closed}]
    BY DEF IInv, TypeOK
  <2>2. life' \in [Flows -> Lives]
    BY DEF IInv, TypeOK, Becomes
  <2> QED BY <1>1, <2>1, <2>2 DEF TypeOK, FlowPart, DbInv, DbTypes
<1>4. EntryInv'
  BY <1>2 DEF IInv, TypeOK, FlowTypeOK, SharedInv, EntryInv
<1>5. UseInv'
  <2>1. \A g \in Flows \ {e} : probeDb'[g] = probeDb[g]
    BY DEF IInv, TypeOK
  <2>2. "absent" \notin UseDb \cup UsePanel
    BY DEF UseDb, UsePanel
  <2> QED BY <1>2, <2>1, <2>2 DEF IInv, SharedInv, UseInv, Served
<1> QED BY <1>1, <1>3, <1>4, <1>5 DEF IInv, SharedInv, DbInv

LEMMA RestLives ==
  /\ {"absent", "created", "unloaded", "closing"} \subseteq Lives \ (UseDb \cup UsePanel)
  /\ "disconnecting" # "absent" /\ "closing" # "absent"
BY DEF Lives, AtRest, Unloading, UseDb, UsePanel

\* What the end of an unload does to entry and life.
LEMMA UnloadedEnds ==
  ASSUME IInv, NEW e \in Flows, Unloaded(e)
  PROVE  /\ UNCHANGED <<step, draft, open, bluez>>
         /\ \E l \in {"absent", "created", "unloaded"} :
              /\ Becomes(e, l)
              /\ \/ l # "absent" /\ entry' = entry
                 \/ l = "absent" /\ entry' = [entry EXCEPT ![e] = None]
         /\ {then'} \subseteq [Flows -> {"set-up", "rest", "removal"}]
         /\ {stale', again'} \subseteq SUBSET Flows
<1>1. {then'} \subseteq [Flows -> {"set-up", "rest", "removal"}]
  BY DEF Unloaded, IInv, TypeOK
<1>2. {stale', again'} \subseteq SUBSET Flows
  BY DEF Unloaded, IInv, TypeOK
<1> QED BY <1>1, <1>2 DEF Unloaded, flowVars

LEMMA DisconnectedKeeps ==
  ASSUME IInv, NEW e \in Flows, Disconnected(e)
  PROVE  IInv'
<1>1. entry[e] # None
  BY RestLives DEF Disconnected, IInv, SharedInv, EntryInv
<1>2. probeDb' \in {probeDb, [probeDb EXCEPT ![e] = Closed]}
  BY DEF Disconnected
<1>3. DbInv /\ panel = panelFlag
  BY DEF IInv, TypeOK, SharedInv, UseInv, DbInv, DbTypes
<1>4. CASE Unloaded(e) /\ UNCHANGED <<panelFlag, panel, domainDb, connected>>
  <2>1. DbInv' /\ \A n : Served(n) => Served(n)'
    BY <1>3, <1>4
    DEF Disconnected, DbInv, DbTypes, OpeningInv, SharedDbIsOpen, Served
  <2>2. /\ {forwarded'} \subseteq SUBSET Flows
        /\ {panelFlag', panel', services', commands'} \subseteq BOOLEAN
    BY <1>4 DEF Disconnected, IInv, TypeOK
  <2> QED
    BY <1>1, <1>2, <1>3, <1>4, <2>1, <2>2, RestLives, UnloadedEnds, LeavesKeeps
<1>5. CASE /\ Remaining(e) = {}
           /\ panel' = (panel /\ ~ panelFlag) /\ panelFlag' = FALSE
           /\ domainDb' = Forgotten /\ connected' = connected \ {domainDb}
           /\ Becomes(e, "closing") /\ UNCHANGED <<flowVars, then, optionVars>>
  <2>1. \A g \in Flows \ {e} : life[g] = "absent"
    BY <1>5 DEF Remaining, IInv, SharedInv, EntryInv
  <2>2. DbInv'
    BY <1>3, <1>5
    DEF Disconnected, DbInv, DbTypes, OpeningInv, SharedDbIsOpen, Forgotten
  <2>3. panel' = panelFlag'
    BY <1>3, <1>5
  <2>4. /\ {then'} \subseteq [Flows -> {"set-up", "rest", "removal"}]
        /\ {forwarded', stale', again'} \subseteq SUBSET Flows
        /\ {panelFlag', panel', services', commands'} \subseteq BOOLEAN
    BY <1>3, <1>5 DEF Disconnected, IInv, TypeOK, optionVars
  <2>5. UNCHANGED <<step, draft, open, bluez>> /\ entry' = entry /\ "closing" # "absent"
    BY <1>5 DEF flowVars
  <2> QED
    BY <1>1, <1>2, <1>5, <2>1, <2>2, <2>3, <2>4, <2>5, RestLives, LeavesKeeps
<1> QED BY <1>4, <1>5 DEF Disconnected

LEMMA DbClosedKeeps ==
  ASSUME IInv, NEW e \in Flows, DbClosed(e)
  PROVE  IInv'
<1>1. entry[e] # None
  BY RestLives DEF DbClosed, IInv, SharedInv, EntryInv
<1>2. DbInv /\ panel = panelFlag
  BY DEF IInv, TypeOK, SharedInv, UseInv, DbInv, DbTypes
<1>3. domainDb' = domainDb
  BY <1>2 DEF DbClosed, DbInv, SharedDbIsOpen
<1>4. DbInv' /\ \A n : Served(n) => Served(n)'
  BY <1>2, <1>3
  DEF DbClosed, DbInv, DbTypes, OpeningInv, SharedDbIsOpen, Served
<1>5. /\ {forwarded'} \subseteq SUBSET Flows
      /\ {panelFlag', panel', services', commands'} \subseteq BOOLEAN
  BY DEF DbClosed, IInv, TypeOK
<1>6. Unloaded(e) /\ UNCHANGED <<panel, panelFlag>> /\ probeDb' = probeDb
  BY DEF DbClosed
<1> QED BY <1>1, <1>2, <1>4, <1>5, <1>6, RestLives, UnloadedEnds, LeavesKeeps

LEMMA RemovesKeeps ==
  ASSUME IInv, NEW e \in Flows, UserRemoves(e)
  PROVE  IInv'
<1>1. entry[e] # None
  BY DEF UserRemoves, IInv, SharedInv, EntryInv
<1>2. DbInv /\ panel = panelFlag
  BY DEF IInv, TypeOK, SharedInv, UseInv, DbInv, DbTypes
<1>3. DbInv' /\ \A n : Served(n) => Served(n)'
  BY <1>2
  DEF UserRemoves, dbVars, DbInv, DbTypes, OpeningInv, SharedDbIsOpen, Served
<1>4. /\ {then'} \subseteq [Flows -> {"set-up", "rest", "removal"}]
      /\ {forwarded', stale', again'} \subseteq SUBSET Flows
      /\ {panelFlag', panel', services', commands'} \subseteq BOOLEAN
  BY DEF UserRemoves, IInv, TypeOK, sharedVars
<1>5. /\ UNCHANGED <<step, draft, open, bluez, panel, panelFlag, probeDb>>
      /\ Becomes(e, "absent") /\ entry' = [entry EXCEPT ![e] = None]
  BY DEF UserRemoves, sharedVars, dbVars
<1> QED BY <1>1, <1>2, <1>3, <1>4, <1>5, RestLives, LeavesKeeps

\* A step that moves no entry.
LEMMA NobodyMoves ==
  ASSUME IInv, {stale', again'} \subseteq SUBSET Flows,
         UNCHANGED <<flowVars, life, then, forwarded, sharedVars, dbVars>>
  PROVE  IInv'
<1>1. FlowPart'
  BY DEF IInv, flowVars, FlowPart, FlowTypeOK, FlowInv, OneEntryPerMachine,
         PairingLeavesNothing
<1>2. TypeOK'
  BY <1>1 DEF IInv, TypeOK, FlowPart, sharedVars, dbVars
<1>3. SharedInv'
  BY DEF IInv, SharedInv, EntryInv, OpeningInv, UseInv, SharedDbIsOpen, flowVars,
         sharedVars, dbVars
<1> QED BY <1>1, <1>2, <1>3 DEF IInv

LEMMA EntriesStep == IInv /\ [Next]_vars => IInv'
<1> SUFFICES ASSUME IInv, [Next]_vars PROVE IInv' OBVIOUS
<1>1. stale \subseteq Flows /\ again \subseteq Flows
  BY DEF IInv, TypeOK
<1>2. ASSUME NEW e \in Flows, UserUnloads(e) PROVE IInv'
  BY <1>1, <1>2, UnloadStarts DEF UserUnloads, optionVars
<1>3. ASSUME NEW e \in Flows, UserEnables(e) PROVE IInv'
  BY <1>1, <1>3, EnablesKeeps DEF UserEnables, optionVars
<1>4. ASSUME NEW e \in Flows, Saves(e) PROVE IInv'
  <2>1. {stale', again'} \subseteq SUBSET Flows
    BY <1>1, <1>4 DEF Saves
  <2>2. CASE life[e] = "loaded" /\ UnloadFor(e, "set-up")
    BY <1>4, <2>1, <2>2, UnloadStarts DEF Saves
  <2>3. CASE UNCHANGED <<life, then>>
    BY <1>4, <2>1, <2>3, NobodyMoves DEF Saves
  <2> QED BY <1>4, <2>2, <2>3 DEF Saves
<1>5. ASSUME NEW e \in Flows, ReloadsAgain(e) PROVE IInv'
  <2>1. {stale', again'} \subseteq SUBSET Flows
    BY <1>1, <1>5 DEF ReloadsAgain
  <2>2. CASE life[e] = "loaded" /\ UnloadFor(e, "set-up")
    BY <1>5, <2>1, <2>2, UnloadStarts DEF ReloadsAgain
  <2>3. CASE life[e] = "failed" /\ Becomes(e, "created") /\ UNCHANGED then
    BY <1>5, <2>1, <2>3, EnablesKeeps DEF ReloadsAgain
  <2> QED BY <1>5, <2>2, <2>3 DEF ReloadsAgain
<1>6. CASE UNCHANGED vars
  BY <1>1, <1>6, NobodyMoves DEF vars, optionVars
<1>7. CASE FlowNext /\ UNCHANGED <<life, then, forwarded, sharedVars, dbVars, optionVars>>
  BY <1>7, FlowsStep
<1>8. CASE CommandAsks
  BY <1>8, CommandKeeps
<1> QED
  BY <1>2, <1>3, <1>4, <1>5, <1>6, <1>7, <1>8, StartsKeeps, GetsDbKeeps, ForwardsKeeps,
     RegistersKeeps, PlatformsKeeps, DisconnectedKeeps, DbClosedKeeps, RemovesKeeps
  DEF Next

(* Every reachable state satisfies the invariant.                           *)
THEOREM EntriesInvariance == Spec => []IInv
BY EntriesInit, EntriesStep, PTL DEF Spec

(* Every variable keeps its type.                                           *)
THEOREM EntriesTypeCorrect == Spec => []TypeOK
BY EntriesInvariance, PTL DEF IInv

(* However long pairings take and whichever flows and removals interleave,  *)
(* no machine gets a second entry.                                          *)
THEOREM OneEntry == Spec => []OneEntryPerMachine
<1>1. IInv => OneEntryPerMachine
  BY DEF IInv, FlowPart
<1> QED BY EntriesInvariance, <1>1, PTL

(* A pairing that has ended, or that nobody waits for any more, leaves no   *)
(* agent, discovery or connection behind.                                   *)
THEOREM NothingIsLeft == Spec => []PairingLeavesNothing
<1>1. IInv => PairingLeavesNothing
  BY DEF IInv, FlowPart
<1> QED BY EntriesInvariance, <1>1, PTL

(* With any number of entries set up and unloaded beside one another, a     *)
(* loaded one has the panel and an open database.                           *)
THEOREM LoadedIsServed == Spec => []ServedWhileLoaded
<1>1. IInv => ServedWhileLoaded
  BY DEF IInv, SharedInv, UseInv, UseDb, UsePanel, ServedWhileLoaded
<1> QED BY EntriesInvariance, <1>1, PTL

(* As long as the shared handle is not taken down, it is no connection that *)
(* was closed: this is what _async_get_db hands out without opening.        *)
THEOREM DbIsOpen == Spec => []SharedDbIsOpen
<1>1. IInv => SharedDbIsOpen
  BY DEF IInv, SharedInv
<1> QED BY EntriesInvariance, <1>1, PTL
=============================================================================
