----------------------------- MODULE DeviceLink -----------------------------
(***************************************************************************)
(* pnpd/src/engine.rs, the engine thread's hold on /dev/peios-ntfe: open,  *)
(* check, lend a duplicate descriptor to the HTTP threads, stream, take it *)
(* back, and start over; with the HTTP threads that borrow the duplicate   *)
(* for the COUNTERS, FLOWS and LISTENERS ioctls.                           *)
(*                                                                         *)
(* Descriptors are numbers in one table of the process, the lowest free    *)
(* one is given out next, and connections open and close theirs meanwhile. *)
(* The device admits one reader (:417) and may be absent, answer STATUS or *)
(* not, speak another ABI, and come and go under an open file.  A file     *)
(* opened before the device went is stale: what is done with it fails.     *)
(*                                                                         *)
(* Left out: sleeps, which only delay; the events themselves (VerdictRing) *)
(* and the counters in the status; and the 1 s refresh while streaming,    *)
(* which sets what is already set.                                         *)
(***************************************************************************)
EXTENDS Integers, FiniteSets

CONSTANTS
  MaxFd,       \* descriptors are 1 .. MaxFd
  MaxSockets,  \* how many of them connections use at most
  Threads      \* HTTP threads that ask for a dump

(* The process is far from its descriptor limit when it reopens the device, *)
(* though maybe not when it duplicates the descriptor.                      *)
ASSUME LinkAssumption ==
  /\ MaxFd \in Nat \ {0}
  /\ MaxSockets \in 0 .. MaxFd - 1

Fds == 1 .. MaxFd
NoFd == 0

VARIABLES
  dev,        \* what is at /dev/peios-ntfe
  stale,      \* the device has changed since it was opened
  fdtab,      \* what each descriptor refers to
  pc,         \* where the engine thread is in run()
  file,       \* its File
  dup,        \* the duplicate, until it is published
  dev_fd,     \* Inner::dev_fd
  connected,  \* Inner::connected
  tfd,        \* tfd[t]: the copy of dev_fd thread t took, NoFd when it has none
  lostOn      \* history: threads that hold a copy and had the device change on them

engineVars == <<pc, file, dup, dev_fd, connected>>
linkVars == <<dev, stale, fdtab, engineVars, tfd, lostOn>>

LinkInit ==
  /\ dev \in {"absent", "good"}
  /\ stale = FALSE
  /\ fdtab = [n \in Fds |-> "free"]
  /\ pc = "open"
  /\ file = NoFd
  /\ dup = NoFd
  /\ dev_fd = NoFd
  /\ connected = FALSE
  /\ tfd = [t \in Threads |-> NoFd]
  /\ lostOn = {}

Using(what) == {n \in Fds : fdtab[n] = what}
LowestFree == CHOOSE n \in Using("free") : \A m \in Using("free") : n <= m
Taken(n, what) == [fdtab EXCEPT ![n] = what]
Closed(n) == IF n = NoFd THEN fdtab ELSE [fdtab EXCEPT ![n] = "free"]

-----------------------------------------------------------------------------
(* The world: the device, and the other descriptors of the process. *)

DeviceChange ==
  /\ \E d \in {"absent", "good", "stranger", "mute"} \ {dev} : dev' = d
  /\ stale' = (Using("device") # {})
  /\ lostOn' = {t \in Threads : tfd[t] # NoFd}
  /\ UNCHANGED <<fdtab, engineVars, tfd>>

SocketOpen ==
  /\ Cardinality(Using("socket")) < MaxSockets
  /\ Using("free") # {}
  /\ fdtab' = Taken(LowestFree, "socket")
  /\ UNCHANGED <<dev, stale, engineVars, tfd, lostOn>>

SocketClose ==
  /\ \E n \in Using("socket") : fdtab' = Closed(n)
  /\ UNCHANGED <<dev, stale, engineVars, tfd, lostOn>>

-----------------------------------------------------------------------------
(* The engine thread: run(). *)

(* The device's single-reader gate opens when the last descriptor of the   *)
(* reader is closed; a device that came back may be the one that was open. *)
GateFree == Using("device") = {}

(* OpenOptions::open; a failure sleeps and tries again, a stuttering step. *)
Open ==
  /\ pc = "open"
  /\ dev # "absent"
  /\ GateFree
  /\ Using("free") # {}
  /\ file' = LowestFree
  /\ fdtab' = Taken(LowestFree, "device")
  /\ stale' = FALSE
  /\ pc' = "status"
  /\ UNCHANGED <<dev, dup, dev_fd, connected, tfd, lostOn>>

(* refresh_status marks the link connected before run() looks at the ABI. *)
StatusAnswers == ~stale /\ dev \in {"good", "stranger"}

Status ==
  /\ pc = "status"
  /\ StatusAnswers
  /\ connected' = TRUE
  /\ pc' = IF dev = "good" THEN "dup" ELSE "drop"
  /\ UNCHANGED <<dev, stale, fdtab, file, dup, dev_fd, tfd, lostOn>>

StatusFailsConnected ==
  /\ pc = "status"
  /\ ~StatusAnswers
  /\ connected' = TRUE
  /\ pc' = "drop"
  /\ UNCHANGED <<dev, stale, fdtab, file, dup, dev_fd, tfd, lostOn>>

StatusFails ==
  /\ pc = "status"
  /\ ~StatusAnswers
  /\ pc' = "drop"
  /\ UNCHANGED <<dev, stale, fdtab, file, dup, dev_fd, connected, tfd, lostOn>>

DupIsFile ==
  /\ pc = "dup"
  /\ dup' = file
  /\ pc' = "publish"
  /\ UNCHANGED <<dev, stale, fdtab, file, dev_fd, connected, tfd, lostOn>>

(* libc::dup; when the table is full it fails, and None is published. *)
Dup ==
  /\ pc = "dup"
  /\ \/ /\ Using("free") # {}
        /\ dup' = LowestFree
        /\ fdtab' = Taken(LowestFree, "device")
     \/ /\ Using("free") = {}
        /\ UNCHANGED <<dup, fdtab>>
  /\ pc' = "publish"
  /\ UNCHANGED <<dev, stale, file, dev_fd, connected, tfd, lostOn>>

SetDevFdClosesNew(fd) == fdtab' = Closed(fd) /\ dev_fd' = fd

(* set_dev_fd, under the lock: close what was there and put fd in its place. *)
SetDevFd(fd) == fdtab' = Closed(dev_fd) /\ dev_fd' = fd

Publish ==
  /\ pc = "publish"
  /\ SetDevFd(dup)
  /\ dup' = NoFd
  /\ pc' = "stream"
  /\ UNCHANGED <<dev, stale, file, connected, tfd, lostOn>>

StreamEndsWithoutUnpublish ==
  /\ pc = "stream"
  /\ stale
  /\ pc' = "clear"
  /\ UNCHANGED <<dev, stale, fdtab, file, dup, dev_fd, connected, tfd, lostOn>>

(* stream() returns: a read or the status refresh failed, or end of file. *)
StreamEnds ==
  /\ pc = "stream"
  /\ stale
  /\ pc' = "unpublish"
  /\ UNCHANGED <<dev, stale, fdtab, file, dup, dev_fd, connected, tfd, lostOn>>

Unpublish ==
  /\ pc = "unpublish"
  /\ SetDevFd(NoFd)
  /\ pc' = "clear"
  /\ UNCHANGED <<dev, stale, file, dup, connected, tfd, lostOn>>

ClearForgotten ==
  /\ pc = "clear"
  /\ pc' = "drop"
  /\ UNCHANGED <<dev, stale, fdtab, file, dup, dev_fd, connected, tfd, lostOn>>

(* engine.set_status(engine.status().0, false) *)
Clear ==
  /\ pc = "clear"
  /\ connected' = FALSE
  /\ pc' = "drop"
  /\ UNCHANGED <<dev, stale, fdtab, file, dup, dev_fd, tfd, lostOn>>

(* The File goes out of scope at the end of the loop body, after the sleep. *)
Drop ==
  /\ pc = "drop"
  /\ fdtab' = Closed(file)
  /\ file' = NoFd
  /\ pc' = "open"
  /\ UNCHANGED <<dev, stale, dup, dev_fd, connected, tfd, lostOn>>

EngineThread ==
  \/ Open \/ Status \/ StatusFails \/ Dup \/ Publish
  \/ StreamEnds \/ Unpublish \/ Clear \/ Drop

-----------------------------------------------------------------------------
(* HTTP threads: counters(), flows(), listeners().  dev_fd is copied under *)
(* the lock, and the ioctl is made after it has been released.             *)

TakeFd(t) ==
  /\ tfd[t] = NoFd
  /\ dev_fd # NoFd
  /\ tfd' = [tfd EXCEPT ![t] = dev_fd]
  /\ lostOn' = IF stale THEN lostOn \cup {t} ELSE lostOn
  /\ UNCHANGED <<dev, stale, fdtab, engineVars>>

(* It goes to whatever the number refers to now; a failure is an answer too. *)
Ioctl(t) ==
  /\ tfd[t] # NoFd
  /\ tfd' = [tfd EXCEPT ![t] = NoFd]
  /\ lostOn' = lostOn \ {t}
  /\ UNCHANGED <<dev, stale, fdtab, engineVars>>

LinkNext ==
  \/ DeviceChange
  \/ SocketOpen
  \/ SocketClose
  \/ EngineThread
  \/ \E t \in Threads : TakeFd(t) \/ Ioctl(t)

(* The engine thread "runs forever" (:593) and is scheduled like any other. *)
LinkSpec == LinkInit /\ [][LinkNext]_linkVars /\ WF_linkVars(EngineThread)

-----------------------------------------------------------------------------
LinkTypeOK ==
  /\ dev \in {"absent", "good", "stranger", "mute"}
  /\ {stale, connected} \subseteq BOOLEAN
  /\ fdtab \in [Fds -> {"free", "device", "socket"}]
  /\ pc \in {"open", "status", "dup", "publish", "stream", "unpublish",
             "clear", "drop"}
  /\ {file, dup, dev_fd} \subseteq Fds \cup {NoFd}
  /\ tfd \in [Threads -> Fds \cup {NoFd}]
  /\ lostOn \subseteq {t \in Threads : tfd[t] # NoFd}

(* Each descriptor on the device has exactly one owner: the File, the      *)
(* duplicate about to be published, or dev_fd.  So nothing is leaked, what *)
(* set_dev_fd and the File's drop close is theirs to close, never a        *)
(* connection that got the number since, what is published is open, and    *)
(* the single-reader gate is free again when the device is reopened (:416).*)
DescriptorsOwned ==
  LET owned == {file, dup, dev_fd} \ {NoFd}
  IN /\ LinkTypeOK
     /\ owned = Using("device")
     /\ file # NoFd => file \notin {dup, dev_fd}
     /\ dup # NoFd => dup # dev_fd
     /\ pc = "open" => owned = {}

(* The ioctl of counters, flows or listeners is made on a number copied     *)
(* under a lock that has been released since (:511-524).  That number can   *)
(* mean something else by then, a closed descriptor or a connection, only   *)
(* if the device was lost before the ioctl: while it stays, nothing the     *)
(* engine thread does, reconnecting included, pulls it from under a thread. *)
StrayOnlyAfterLoss ==
  \A t \in Threads : tfd[t] # NoFd /\ t \notin lostOn => fdtab[tfd[t]] = "device"

(* A device that stays in order is eventually, and then for good, streamed *)
(* from, whatever it and the descriptor table went through before (:593).  *)
Reconnects ==
  <>[](dev = "good") => <>[](pc = "stream" /\ connected /\ ~stale)

(* A device that goes away under the stream is noticed: the status stops   *)
(* saying connected (:635-639).                                            *)
LossIsNoticed == (pc = "stream" /\ stale) ~> ~connected

(* "Whether the device is currently open and streaming" (:411): once there *)
(* is no device any more the status says so and stays so, however far the   *)
(* thread was.  Only a device of another ABI is excepted: connected is set  *)
(* before the ABI is compared (:651) and that branch (:621) leaves it set.  *)
StatusSettles ==
  <>[](dev = "absent") /\ [](dev # "stranger") => <>[](~connected)
=============================================================================
