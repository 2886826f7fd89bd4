------------------------- MODULE ServiceNamesProofs -------------------------
(***************************************************************************)
(* How old a name of a service may be, for every lifetime of the map and   *)
(* every duration of its reading: of ServiceNames, as StreamEvents uses it.*)
(***************************************************************************)
EXTENDS StreamEvents, TLAPS

(* What a stream does with the names is what any thread may do. *)
NamesStep ==
  \/ Environment
  \/ \E t \in Threads : Lock(t) \/ Read(t) \/ \E s \in Services : Lookup(t, s)

LEMMA StreamTakesNamesSteps ==
  ASSUME [StreamNext]_streamVars
  PROVE  NamesStep \/ UNCHANGED namesVars
<1>1. CASE PushVerdict \/ PushPacket \/ TwoSeconds
      BY <1>1 DEF PushVerdict, PushPacket, TwoSeconds
<1>2. CASE ClientReads \/ ClientStallsOrResumes \/ ClientCloses
      BY <1>2 DEF ClientReads, ClientStallsOrResumes, ClientCloses
<1>3. CASE Loop
  <2>1. CASE TakeVerdict
        BY <2>1, StreamAssumption DEF TakeVerdict, NamesStep
  <2>2. CASE ~TakeVerdict
        BY <1>3, <2>2 DEF Loop, VerdictsEmpty, TakePacket, PacketsEmpty,
           Disconnected, StatsCheck, Write
  <2> QED BY <2>1, <2>2
<1>4. CASE Names
      BY <1>4 DEF Names, NamesStep
<1>5. CASE UNCHANGED streamVars
      BY <1>5 DEF streamVars
<1> QED BY <1>1, <1>2, <1>3, <1>4, <1>5 DEF StreamNext

-----------------------------------------------------------------------------
(* A service in the map was defined no longer ago than the map and its     *)
(* reading, and one that is not was then undefined or failed to be read;   *)
(* of the reading under way the same is true of what it has looked at.     *)
NamesInv ==
  /\ NamesTypeOK
  /\ \A s \in Services : IF s \in defined THEN sinceDefined[s] = 0
                         ELSE sinceExcused[s] = 0
  /\ \A s \in Services : age <= TTL =>
       /\ s \in by_sid => sinceDefined[s] <= age + ReadTicks
       /\ s \notin by_sid => sinceExcused[s] <= age + ReadTicks
  /\ \A s \in Services : holder # None =>
       /\ s \in got => sinceDefined[s] <= reading
       /\ s \notin got \cup unread => sinceExcused[s] <= reading

LEMMA LongestIsNat == Longest \in Nat /\ 0 \in 0 .. Longest
BY NamesAssumption DEF Longest

LEMMA OlderBounded ==
  ASSUME NEW top \in Nat, NEW n \in 0 .. top
  PROVE  Older(n, top) \in 0 .. top /\ Older(n, top) <= n + 1
BY DEF Older

(* The registry and the clock. *)
LEMMA EnvironmentKeepsNames ==
  ASSUME NamesInv, Environment
  PROVE  NamesInv'
<1> USE NamesAssumption, LongestIsNat DEF NamesInv, NamesTypeOK
<1>1. ASSUME NEW s \in Services, Define(s) PROVE NamesInv'
      BY <1>1 DEF Define, readVars
<1>2. ASSUME NEW s \in Services, Remove(s) PROVE NamesInv'
      BY <1>2 DEF Remove, readVars
<1>3. CASE Tick
  <2>1. age' \in 0 .. TTL + 1 /\ (age' <= TTL => age' = age + 1)
        BY <1>3 DEF Tick, Older
  <2>2. reading' \in 0 .. ReadTicks
        BY <1>3 DEF Tick
  <2>3. ASSUME NEW s \in Services
        PROVE  /\ sinceDefined'[s] \in 0 .. Longest
               /\ sinceExcused'[s] \in 0 .. Longest
               /\ sinceDefined'[s] <= sinceDefined[s] + 1
               /\ sinceExcused'[s] <= sinceExcused[s] + 1
               /\ IF s \in defined THEN sinceDefined'[s] = 0
                  ELSE sinceExcused'[s] = 0
    <3>1. sinceDefined[s] \in 0 .. Longest /\ sinceExcused[s] \in 0 .. Longest
          OBVIOUS
    <3>2. /\ Older(sinceDefined[s], Longest) \in 0 .. Longest
          /\ Older(sinceDefined[s], Longest) <= sinceDefined[s] + 1
          /\ Older(sinceExcused[s], Longest) \in 0 .. Longest
          /\ Older(sinceExcused[s], Longest) <= sinceExcused[s] + 1
          BY <3>1, OlderBounded
    <3> QED BY <1>3, <3>1, <3>2 DEF Tick
  <2>4. /\ sinceDefined' \in [Services -> 0 .. Longest]
        /\ sinceExcused' \in [Services -> 0 .. Longest]
        BY <1>3, <2>3 DEF Tick
  <2>5. ASSUME NEW s \in Services, age' <= TTL
        PROVE  /\ s \in by_sid => sinceDefined'[s] <= age' + ReadTicks
               /\ s \notin by_sid => sinceExcused'[s] <= age' + ReadTicks
        BY <2>1, <2>3, <2>5
  <2>6. ASSUME NEW s \in Services, holder # None
        PROVE  /\ s \in got => sinceDefined'[s] <= reading'
               /\ s \notin got \cup unread => sinceExcused'[s] <= reading'
    <3>1. reading' = reading + 1
          BY <1>3, <2>6 DEF Tick
    <3> QED BY <2>3, <2>6, <3>1
  <2>7. UNCHANGED <<defined, by_sid, want, holder, unread, got>>
        BY <1>3 DEF Tick
  <2>8. holder = None => reading' = 0
        BY <1>3 DEF Tick
  <2> QED BY <2>1, <2>2, <2>3, <2>4, <2>5, <2>6, <2>7, <2>8
<1> QED BY <1>1, <1>2, <1>3 DEF Environment

(* Looking up, and reading. *)
LEMMA LookupKeepsNames ==
  ASSUME NamesInv, NEW t \in Threads,
         Lock(t) \/ Read(t) \/ \E s \in Services : Lookup(t, s)
  PROVE  NamesInv'
<1> USE NamesAssumption, LongestIsNat DEF NamesInv, NamesTypeOK
<1>1. ASSUME NEW s \in Services, Lookup(t, s) PROVE NamesInv'
      BY <1>1 DEF Lookup, registryVars, readVars
<1>2. CASE FromTheMap(t)
      BY <1>2 DEF FromTheMap, Answered, registryVars
<1>3. CASE StartReading(t)
      BY <1>3 DEF StartReading, registryVars
<1>4. ASSUME NEW s \in Services, ReadKey(t, s) PROVE NamesInv'
      BY <1>4 DEF ReadKey, registryVars
<1>5. ASSUME NEW s \in Services, ReadKeyFails(t, s) PROVE NamesInv'
      BY <1>5 DEF ReadKeyFails, registryVars
<1>6. CASE EndReading(t)
      BY <1>6 DEF EndReading, Answered, registryVars
<1>7. CASE OpenFails(t)
      BY <1>7 DEF OpenFails, Answered, registryVars
<1> QED BY <1>1, <1>2, <1>3, <1>4, <1>5, <1>6, <1>7 DEF Lock, Read

LEMMA NamesInvariant == StreamSpec => []NamesInv
<1>1. StreamInit => NamesInv
  <2>1. NamesInit => NamesInv
        BY NamesAssumption, LongestIsNat DEF NamesInit, NamesInv, NamesTypeOK
  <2> QED BY <2>1 DEF StreamInit
<1>2. NamesInv /\ [StreamNext]_streamVars => NamesInv'
  <2> SUFFICES ASSUME NamesInv, [StreamNext]_streamVars PROVE NamesInv'
      OBVIOUS
  <2>1. CASE UNCHANGED namesVars
        BY <2>1 DEF namesVars, registryVars, readVars, NamesInv, NamesTypeOK
  <2>2. CASE NamesStep
        BY <2>2, EnvironmentKeepsNames, LookupKeepsNames DEF NamesStep
  <2> QED BY <2>1, <2>2, StreamTakesNamesSteps
<1> QED BY <1>1, <1>2, PTL DEF StreamSpec

-----------------------------------------------------------------------------
(* Whatever the registry does and whoever reads it, a name is answered, or *)
(* not, as was right no longer ago than the map may be old and its reading *)
(* have taken (sid.rs:107-146).                                            *)
THEOREM NamesAreRecent == StreamSpec => AnswersAreRecent
<1> DEFINE Recent(t) ==
      want[t] # None /\ want'[t] = None =>
        IF want[t] \in by_sid' THEN sinceDefined[want[t]] <= TTL + ReadTicks
        ELSE sinceExcused'[want[t]] <= TTL + ReadTicks
<1>1. ASSUME NamesInv, [StreamNext]_streamVars, NEW t \in Threads
      PROVE  Recent(t)
  <2> SUFFICES ASSUME want[t] # None, want'[t] = None PROVE Recent(t)
      OBVIOUS
  <2> USE NamesAssumption, LongestIsNat DEF NamesInv, NamesTypeOK
  <2>1. want[t] \in Services
        BY <1>1
  <2>2. FromTheMap(t) \/ EndReading(t) \/ OpenFails(t)
    <3>1. want' # want
          OBVIOUS
    <3>2. ~Environment /\ ~UNCHANGED namesVars
          BY <3>1 DEF Environment, Tick, Define, Remove, namesVars
    <3>3. PICK u \in Threads : \/ Lock(u) \/ Read(u)
                              \/ \E s \in Services : Lookup(u, s)
          BY <1>1, <3>2, StreamTakesNamesSteps DEF NamesStep
    <3>4. ~\E s \in Services : Lookup(u, s)
          BY <1>1 DEF Lookup
    <3>5. FromTheMap(u) \/ EndReading(u) \/ OpenFails(u)
          BY <3>1, <3>3, <3>4 DEF Lock, Read, StartReading, ReadKey, ReadKeyFails
    <3>6. u = t
          BY <1>1, <3>5 DEF FromTheMap, EndReading, OpenFails, Answered
    <3> QED BY <3>5, <3>6
  <2>3. CASE FromTheMap(t)
        BY <1>1, <2>1, <2>3 DEF FromTheMap, Stale, Answered, registryVars
  <2>4. CASE EndReading(t)
        BY <1>1, <2>1, <2>4 DEF EndReading, Answered, registryVars
  <2>5. CASE OpenFails(t)
        BY <1>1, <2>1, <2>5 DEF OpenFails, Answered, registryVars
  <2> QED BY <2>2, <2>3, <2>4, <2>5
<1>2. NamesInv /\ [StreamNext]_streamVars
        => [\A t \in Threads : Recent(t)]_namesVars
      BY <1>1
<1> QED BY <1>2, NamesInvariant, PTL DEF StreamSpec, AnswersAreRecent

-----------------------------------------------------------------------------
(* The connection's part of the state, and where its thread may be waiting *)
(* for a name.                                                             *)
PcOK == pc \in {"verdicts", "wait", "packets", "stats", "over",
               "write header", "write verdict", "write packet", "write stats",
               "write engine"}

QueuesOK ==
  verdicts \in 0 .. VCap /\ packets \in 0 .. PCap /\ socket \in 0 .. SockCap

FlagsOK ==
  /\ subscribed \in BOOLEAN /\ due \in BOOLEAN
  /\ client \in {"reads", "stalls", "closed", "reset"}

ConnOK == PcOK /\ QueuesOK /\ FlagsOK

WaitsOnlyForVerdict == want[Conn] # None => pc = "write verdict"

LEMMA CapsAreNat == VCap \in Nat /\ PCap \in Nat /\ SockCap \in Nat
BY StreamAssumption

(* One more where there is room, and one less where there is one. *)
LEMMA RoomIsKept ==
  ASSUME NEW cap \in Nat, NEW n \in 0 .. cap
  PROVE  /\ n < cap => n + 1 \in 0 .. cap
         /\ n > 0 => n - 1 \in 0 .. cap
         /\ 0 \in 0 .. cap
OBVIOUS

LEMMA PcStays ==
  ASSUME PcOK, [StreamNext]_streamVars
  PROVE  PcOK'
<1>1. CASE pc' = pc
      BY <1>1 DEF PcOK
<1>2. CASE PushVerdict \/ PushPacket \/ TwoSeconds \/ ClientReads
            \/ ClientStallsOrResumes \/ ClientCloses \/ UNCHANGED streamVars
      BY <1>1, <1>2 DEF PushVerdict, PushPacket, TwoSeconds, ClientReads,
         ClientStallsOrResumes, ClientCloses, streamVars
<1>3. CASE Loop
  <2>1. CASE Write
        BY <2>1 DEF Write, Over, After, PcOK
  <2>2. CASE ~Write
        BY <1>3, <2>2 DEF Loop, TakeVerdict, VerdictsEmpty, TakePacket, PacketsEmpty,
           Disconnected, StatsCheck, Over, Goto, PcOK
  <2> QED BY <2>1, <2>2
<1> QED BY <1>1, <1>2, <1>3 DEF StreamNext

LEMMA QueuesStay ==
  ASSUME QueuesOK, FlagsOK, [StreamNext]_streamVars
  PROVE  QueuesOK'
<1>1. /\ verdicts' \in {verdicts, 0} \/ (verdicts < VCap /\ verdicts' = verdicts + 1)
            \/ (verdicts > 0 /\ verdicts' = verdicts - 1)
      /\ packets' \in {packets, 0} \/ (packets < PCap /\ packets' = packets + 1)
            \/ (packets > 0 /\ packets' = packets - 1)
      /\ socket' \in {socket, 0} \/ (socket < SockCap /\ socket' = socket + 1)
            \/ (socket > 0 /\ socket' = socket - 1)
  <2>1. CASE PushVerdict \/ PushPacket
        BY <2>1 DEF PushVerdict, PushPacket, HasRoom, connVars
  <2>2. CASE TwoSeconds \/ ClientReads \/ ClientStallsOrResumes \/ ClientCloses
        BY <2>2 DEF TwoSeconds, ClientReads, ClientStallsOrResumes, ClientCloses,
           channels, connVars
  <2>3. CASE TakeVerdict \/ TakePacket
        BY <2>3 DEF TakeVerdict, TakePacket, connVars
  <2>4. CASE VerdictsEmpty \/ PacketsEmpty \/ Disconnected \/ StatsCheck
        BY <2>4 DEF VerdictsEmpty, PacketsEmpty, Disconnected, StatsCheck, Over, Goto,
           channels, connVars
  <2>5. CASE Write
    <3>1. CASE client = "reset"
          BY <2>5, <3>1 DEF Write, Over, connVars
    <3>2. CASE client = "closed"
          BY <2>5, <3>2 DEF Write, channels
    <3>3. CASE client \notin {"reset", "closed"}
      <4>1. UNCHANGED channels /\ socket' = socket + 1
            BY <2>5, <3>3 DEF Write
      <4>2. CASE client \in {"reads", "stalls"}
            BY <2>5, <4>1, <4>2 DEF Write, HasRoom, channels
      <4>3. CASE client \notin {"reads", "stalls"}
            BY <3>3, <4>3 DEF FlagsOK
      <4> QED BY <4>2, <4>3
    <3> QED BY <3>1, <3>2, <3>3
  <2>6. CASE UNCHANGED <<channels, connVars>>
        BY <2>6 DEF channels, connVars
  <2>7. CASE UNCHANGED streamVars
        BY <2>6, <2>7 DEF streamVars
  <2> QED BY <2>1, <2>2, <2>3, <2>4, <2>5, <2>6, <2>7 DEF StreamNext, Loop
<1>2. verdicts' \in 0 .. VCap
      BY <1>1, CapsAreNat, RoomIsKept DEF QueuesOK
<1>3. packets' \in 0 .. PCap
      BY <1>1, CapsAreNat, RoomIsKept DEF QueuesOK
<1>4. socket' \in 0 .. SockCap
      BY <1>1, CapsAreNat, RoomIsKept DEF QueuesOK
<1> QED BY <1>2, <1>3, <1>4 DEF QueuesOK

LEMMA FlagsStay ==
  ASSUME FlagsOK, [StreamNext]_streamVars
  PROVE  FlagsOK'
<1>1. subscribed' = subscribed \/ subscribed' = FALSE
  <2>1. CASE PushVerdict \/ TwoSeconds \/ ClientReads \/ ClientStallsOrResumes
             \/ ClientCloses \/ (Names /\ UNCHANGED <<pc, channels, due, connVars>>)
             \/ UNCHANGED streamVars
        BY <2>1 DEF PushVerdict, TwoSeconds, ClientReads, ClientStallsOrResumes,
           ClientCloses, channels, streamVars
  <2>2. CASE PushPacket
        BY <2>2 DEF PushPacket
  <2>3. CASE Loop
        BY <2>3 DEF Loop, TakeVerdict, VerdictsEmpty, TakePacket, PacketsEmpty,
           Disconnected, StatsCheck, Write, Over, Goto, channels
  <2> QED BY <2>1, <2>2, <2>3 DEF StreamNext
<1>2. due' = due \/ due' = TRUE \/ due' = FALSE
  <2>1. CASE PushVerdict \/ PushPacket \/ TwoSeconds \/ ClientReads
             \/ ClientStallsOrResumes \/ ClientCloses
             \/ (Names /\ UNCHANGED <<pc, channels, due, connVars>>) \/ UNCHANGED streamVars
        BY <2>1 DEF PushVerdict, PushPacket, TwoSeconds, ClientReads,
           ClientStallsOrResumes, ClientCloses, streamVars
  <2>2. CASE Write
    <3>1. due' = due \/ due' = (due /\ pc # "write engine")
      <4>1. CASE client = "reset"
            BY <2>2, <4>1 DEF Write, Over
      <4>2. CASE client # "reset"
            BY <2>2, <4>2, Zenon DEF Write
      <4> QED BY <4>1, <4>2
    <3>2. (due /\ pc # "write engine") = TRUE \/ (due /\ pc # "write engine") = FALSE
          BY Zenon
    <3> QED BY <3>1, <3>2, Zenon
  <2>3. CASE Loop /\ ~Write
        BY <2>3 DEF Loop, TakeVerdict, VerdictsEmpty, TakePacket, PacketsEmpty,
           Disconnected, StatsCheck, Over, Goto
  <2> QED BY <2>1, <2>2, <2>3 DEF StreamNext
<1>3. client' \in {client, "reads", "stalls", "closed", "reset"}
  <2>1. CASE PushVerdict \/ PushPacket \/ TwoSeconds \/ ClientReads
             \/ ClientStallsOrResumes \/ ClientCloses
             \/ (Names /\ UNCHANGED <<pc, channels, due, connVars>>) \/ UNCHANGED streamVars
        BY <2>1 DEF PushVerdict, PushPacket, TwoSeconds, ClientReads,
           ClientStallsOrResumes, ClientCloses, connVars, streamVars
  <2>2. CASE Write
    <3>1. UNCHANGED connVars \/ client' = "reset" \/ UNCHANGED client
          BY <2>2, Zenon DEF Write, Over
    <3> QED BY <3>1 DEF connVars
  <2>3. CASE Loop /\ ~Write
        BY <2>3 DEF Loop, TakeVerdict, VerdictsEmpty, TakePacket, PacketsEmpty,
           Disconnected, StatsCheck, Over, Goto, connVars
  <2> QED BY <2>1, <2>2, <2>3 DEF StreamNext
<1> QED BY <1>1, <1>2, <1>3 DEF FlagsOK

LEMMA ConnStays ==
  ASSUME ConnOK, [StreamNext]_streamVars
  PROVE  ConnOK'
BY PcStays, QueuesStay, FlagsStay DEF ConnOK

LEMMA WaitStays ==
  ASSUME NamesInv, ConnOK, WaitsOnlyForVerdict, [StreamNext]_streamVars
  PROVE  WaitsOnlyForVerdict'
<1> USE DEF WaitsOnlyForVerdict
<1>1. CASE PushVerdict \/ PushPacket \/ TwoSeconds \/ ClientReads
            \/ ClientStallsOrResumes \/ ClientCloses
      BY <1>1 DEF PushVerdict, PushPacket, TwoSeconds, ClientReads, ClientStallsOrResumes,
         ClientCloses, namesVars
<1>2. CASE TakeVerdict
      BY <1>2 DEF TakeVerdict
<1>3. CASE Loop /\ ~TakeVerdict
  <2>1. want' = want /\ (pc = "write verdict" => want[Conn] = None)
        BY <1>3 DEF Loop, VerdictsEmpty, TakePacket, PacketsEmpty, Disconnected, StatsCheck,
           Write, namesVars
  <2> QED BY <2>1
<1>4. CASE Names /\ UNCHANGED <<pc, channels, due, connVars>>
  <2>1. want'[Conn] = want[Conn] \/ want'[Conn] = None
    <3>1. want \in [Threads -> Services \cup {None}] /\ Conn \in Threads
          BY StreamAssumption DEF NamesInv, NamesTypeOK
    <3>2. CASE Environment
          BY <3>2 DEF Environment, Tick, Define, Remove
    <3>3. ASSUME NEW t \in Threads, Lock(t) \/ Read(t)
          PROVE  want'[Conn] = want[Conn] \/ want'[Conn] = None
          BY <3>1, <3>3 DEF Lock, Read, FromTheMap, StartReading, EndReading, OpenFails,
             ReadKey, ReadKeyFails, Answered
    <3>4. ASSUME NEW t \in Threads \ {Conn}, NEW s \in Services, Lookup(t, s)
          PROVE  want'[Conn] = want[Conn]
          BY <3>1, <3>4 DEF Lookup
    <3> QED BY <1>4, <3>2, <3>3, <3>4 DEF Names
  <2> QED BY <1>4, <2>1
<1>5. CASE UNCHANGED streamVars
      BY <1>5 DEF streamVars, namesVars
<1> QED BY <1>1, <1>2, <1>3, <1>4, <1>5 DEF StreamNext

(* The channels and the socket stay within their bounds, and the stream's  *)
(* thread waits for a name only with a verdict in hand (http.rs:222-248).  *)
THEOREM StreamTypeCorrect == StreamSpec => []StreamTypeOK
<1>1. StreamInit => ConnOK /\ WaitsOnlyForVerdict
  <2> SUFFICES ASSUME StreamInit PROVE ConnOK /\ WaitsOnlyForVerdict
      OBVIOUS
  <2>1. PcOK /\ FlagsOK
        BY DEF StreamInit, PcOK, FlagsOK
  <2>2. QueuesOK
    <3>1. verdicts = 0 /\ packets = 0 /\ socket = 0
          BY DEF StreamInit
    <3>2. \A cap \in Nat : 0 \in 0 .. cap
          OBVIOUS
    <3>3. 0 \in 0 .. VCap /\ 0 \in 0 .. PCap /\ 0 \in 0 .. SockCap
          BY <3>2, CapsAreNat
    <3> QED BY <3>1, <3>3 DEF QueuesOK
  <2>3. WaitsOnlyForVerdict
        BY StreamAssumption DEF StreamInit, NamesInit, WaitsOnlyForVerdict
  <2> QED BY <2>1, <2>2, <2>3 DEF ConnOK
<1>2. NamesInv /\ ConnOK /\ WaitsOnlyForVerdict /\ [StreamNext]_streamVars
        => (ConnOK /\ WaitsOnlyForVerdict)'
      BY ConnStays, WaitStays
<1>3. NamesInv /\ ConnOK /\ WaitsOnlyForVerdict => StreamTypeOK
      BY DEF NamesInv, ConnOK, PcOK, QueuesOK, FlagsOK, WaitsOnlyForVerdict, StreamTypeOK,
         After
<1> QED BY <1>1, <1>2, <1>3, NamesInvariant, PTL DEF StreamSpec
=============================================================================
