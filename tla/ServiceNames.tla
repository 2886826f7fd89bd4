---------------------------- MODULE ServiceNames ----------------------------
(***************************************************************************)
(* pnpd/src/sid.rs, service_name: which service a per-service SID belongs  *)
(* to, from a map of the service definitions in the registry that is read  *)
(* again when it is older than SERVICES_TTL.                               *)
(*                                                                         *)
(* The map is behind one mutex, which the thread that finds it stale holds *)
(* while it reads the registry, key by key and outside any transaction.    *)
(* A service is identified with its SID: the hash in between is left out,  *)
(* as are SIDs that are not a service's, which are answered at once.       *)
(*                                                                         *)
(* Time is counted in ticks; what only matters up to some age is counted   *)
(* up to there.                                                            *)
(***************************************************************************)
EXTENDS Integers

CONSTANTS
  Threads,    \* HTTP threads that look up names
  Services,
  TTL,        \* SERVICES_TTL, in ticks
  ReadTicks,  \* model bound: ticks that a reading of the registry takes
  None

ASSUME NamesAssumption ==
  /\ TTL \in Nat /\ ReadTicks \in Nat
  /\ None \notin Threads \cup Services

VARIABLES
  defined,       \* services with a definition in the registry
  by_sid,        \* the map
  age,           \* ticks since read_at; more than TTL, or never: TTL + 1
  want,          \* want[t]: the service whose name thread t is looking up
  holder,        \* the thread that reads the registry, holding the mutex
  unread,        \* of that reading: keys it has still to come upon,
  got,           \* services it has found,
  reading,       \* and ticks since it began
  sinceDefined,  \* history: ticks since a service was defined,
  sinceExcused   \* and since it was not, or a reading of it failed

registryVars == <<defined, sinceDefined>>
readVars == <<unread, got, reading>>
namesVars == <<registryVars, by_sid, age, want, holder, readVars, sinceExcused>>

Longest == TTL + ReadTicks + 1
Older(n, top) == IF n < top THEN n + 1 ELSE n

NamesInit ==
  /\ defined \in SUBSET Services
  /\ by_sid = {}
  /\ age = TTL + 1
  /\ want = [t \in Threads |-> None]
  /\ holder = None
  /\ unread = {} /\ got = {} /\ reading = 0
  /\ sinceDefined = [s \in Services |-> IF s \in defined THEN 0 ELSE Longest]
  /\ sinceExcused = [s \in Services |-> IF s \in defined THEN Longest ELSE 0]

-----------------------------------------------------------------------------
(* The registry, and time *)

Define(s) ==
  /\ s \notin defined
  /\ defined' = defined \cup {s}
  /\ sinceDefined' = [sinceDefined EXCEPT ![s] = 0]
  /\ UNCHANGED <<by_sid, age, want, holder, readVars, sinceExcused>>

Remove(s) ==
  /\ s \in defined
  /\ defined' = defined \ {s}
  /\ sinceExcused' = [sinceExcused EXCEPT ![s] = 0]
  /\ UNCHANGED <<by_sid, age, want, holder, readVars, sinceDefined>>

Tick ==
  /\ holder # None => reading < ReadTicks
  /\ age' = Older(age, TTL + 1)
  /\ reading' = IF holder = None THEN reading ELSE reading + 1
  /\ sinceDefined' = [s \in Services |->
       IF s \in defined THEN 0 ELSE Older(sinceDefined[s], Longest)]
  /\ sinceExcused' = [s \in Services |->
       IF s \in defined THEN Older(sinceExcused[s], Longest) ELSE 0]
  /\ UNCHANGED <<defined, by_sid, want, holder, unread, got>>

-----------------------------------------------------------------------------
(* service_name *)

Stale == age > TTL

Lookup(t, s) ==
  /\ want[t] = None
  /\ want' = [want EXCEPT ![t] = s]
  /\ UNCHANGED <<registryVars, by_sid, age, holder, readVars, sinceExcused>>

(* The answer is in the map when the mutex is let go: want[t] \in by_sid'. *)
Answered(t) ==
  /\ want' = [want EXCEPT ![t] = None]
  /\ holder' = None
  /\ unread' = {} /\ got' = {} /\ reading' = 0

FromTheMapKeepingIt(t) ==
  /\ want[t] # None /\ holder = None
  /\ ~Stale
  /\ Answered(t)
  /\ age' = 0
  /\ UNCHANGED <<registryVars, by_sid, sinceExcused>>

FromTheMap(t) ==
  /\ want[t] # None /\ holder = None
  /\ ~Stale
  /\ Answered(t)
  /\ UNCHANGED <<registryVars, by_sid, age, sinceExcused>>

StartReading(t) ==
  /\ want[t] # None /\ holder = None
  /\ Stale
  /\ holder' = t
  /\ unread' = Services /\ got' = {} /\ reading' = 0
  /\ UNCHANGED <<registryVars, by_sid, age, want, sinceExcused>>

ReadKey(t, s) ==
  /\ holder = t
  /\ s \in unread
  /\ unread' = unread \ {s}
  /\ got' = got \cup ({s} \cap defined)
  /\ UNCHANGED <<registryVars, by_sid, age, want, holder, reading, sinceExcused>>

(* A key that cannot be read is skipped. *)
ReadKeyFails(t, s) ==
  /\ holder = t
  /\ s \in unread
  /\ unread' = unread \ {s}
  /\ sinceExcused' = [sinceExcused EXCEPT ![s] = 0]
  /\ UNCHANGED <<registryVars, by_sid, age, want, holder, got, reading>>

EndReading(t) ==
  /\ holder = t
  /\ unread = {}
  /\ by_sid' = got
  /\ age' = 0
  /\ Answered(t)
  /\ UNCHANGED <<registryVars, sinceExcused>>

OpenFailsHoldingOn(t) ==
  /\ holder = t
  /\ unread = Services /\ got = {}
  /\ by_sid' = {}
  /\ age' = 0
  /\ want' = [want EXCEPT ![t] = None]
  /\ sinceExcused' = [s \in Services |-> 0]
  /\ UNCHANGED <<registryVars, holder, readVars>>

(* The key of the services cannot be opened: an empty map is kept as long  *)
(* as any other.                                                           *)
OpenFails(t) ==
  /\ holder = t
  /\ unread = Services
  /\ by_sid' = {}
  /\ age' = 0
  /\ Answered(t)
  /\ sinceExcused' = [s \in Services |-> 0]
  /\ UNCHANGED registryVars

Lock(t) == FromTheMap(t) \/ StartReading(t)

Read(t) == EndReading(t) \/ OpenFails(t)
           \/ \E s \in Services : ReadKey(t, s) \/ ReadKeyFails(t, s)

Environment == Tick \/ \E s \in Services : Define(s) \/ Remove(s)

-----------------------------------------------------------------------------
NamesTypeOK ==
  /\ defined \subseteq Services /\ by_sid \subseteq Services
  /\ age \in 0 .. TTL + 1
  /\ want \in [Threads -> Services \cup {None}]
  /\ holder \in Threads \cup {None}
  /\ holder # None => want[holder] # None
  /\ unread \subseteq Services /\ got \subseteq Services \ unread
  /\ reading \in 0 .. ReadTicks
  /\ holder = None => unread = {} /\ got = {} /\ reading = 0
  /\ sinceDefined \in [Services -> 0 .. Longest]
  /\ sinceExcused \in [Services -> 0 .. Longest]

(* "The service name behind a per-service SID, from the service            *)
(* definitions; None when no definition derives to it" (sid.rs:107-109) is *)
(* true of a moment no longer ago than the map may be old and its reading  *)
(* have taken, except that a failed reading also makes it None, and no     *)
(* longer: whatever the registry did meanwhile and whoever read it.        *)
AnswersAreRecent ==
  [][\A t \in Threads : want[t] # None /\ want'[t] = None =>
       IF want[t] \in by_sid' THEN sinceDefined[want[t]] <= TTL + ReadTicks
       ELSE sinceExcused'[want[t]] <= TTL + ReadTicks]_namesVars
=============================================================================
