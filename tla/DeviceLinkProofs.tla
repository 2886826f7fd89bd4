-------------------------- MODULE DeviceLinkProofs --------------------------
(***************************************************************************)
(* What DeviceLink guarantees for every size of the descriptor table and   *)
(* any number of HTTP threads.                                             *)
(***************************************************************************)
EXTENDS DeviceLink, Lemmas

(* What the table gives out is a free descriptor. *)
LEMMA LowestFreeIsFree ==
  ASSUME Using("free") # {}
  PROVE  LowestFree \in Using("free")
<1>1. Using("free") \in SUBSET Nat
      BY DEF Using, Fds
<1>2. \E n \in Using("free") : \A m \in Using("free") : n <= m
      BY <1>1, LeastNatural
<1> QED BY <1>2 DEF LowestFree

-----------------------------------------------------------------------------
(* Which of the three descriptors exist follows the thread's place. *)
PlaceOK ==
  /\ file = NoFd <=> pc = "open"
  /\ dup # NoFd => pc = "publish"
  /\ dev_fd # NoFd => pc \in {"stream", "unpublish"}
  /\ pc = "unpublish" => stale

(* A thread that took its copy from a device that has been there since     *)
(* holds what is lent now.                                                 *)
LentOK ==
  /\ stale => \A t \in Threads : tfd[t] # NoFd => t \in lostOn
  /\ \A t \in Threads : tfd[t] # NoFd /\ t \notin lostOn => tfd[t] = dev_fd

LinkInv == DescriptorsOwned /\ PlaceOK /\ LentOK

-----------------------------------------------------------------------------
(* How an entry of the table that is overwritten shows in what is in use. *)
LEMMA UsingAfter ==
  ASSUME fdtab \in [Fds -> {"free", "device", "socket"}],
         NEW n \in Fds, NEW what,
         fdtab' = [fdtab EXCEPT ![n] = what],
         NEW w
  PROVE  Using(w)' = IF w = what THEN Using(w) \cup {n} ELSE Using(w) \ {n}
BY DEF Using

(* The device and the descriptors of connections are no business of the    *)
(* link's own three descriptors.                                           *)
LEMMA WorldStep ==
  ASSUME LinkInv, DeviceChange \/ SocketOpen \/ SocketClose
  PROVE  LinkInv'
<1> USE DEF LinkInv, DescriptorsOwned, PlaceOK, LentOK, LinkTypeOK, NoFd
<1>1. CASE DeviceChange
  <2>1. Using("device")' = Using("device")
        BY <1>1 DEF DeviceChange, Using
  <2>2. pc = "unpublish" => stale'
        BY <1>1 DEF DeviceChange
  <2> QED BY <1>1, <2>1, <2>2 DEF DeviceChange, engineVars
<1>2. CASE SocketOpen
  <2>1. LowestFree \in Using("free")
        BY <1>2, LowestFreeIsFree DEF SocketOpen
  <2>2. LowestFree \in Fds \ Using("device")
        BY <2>1 DEF Using
  <2>3. Using("device")' = Using("device") \ {LowestFree}
        BY <1>2, <2>2, UsingAfter DEF SocketOpen, Taken
  <2> QED BY <1>2, <2>2, <2>3 DEF SocketOpen, engineVars, Taken
<1>3. CASE SocketClose
  <2>1. PICK n \in Using("socket") : fdtab' = Closed(n)
        BY <1>3 DEF SocketClose
  <2>2. n \in Fds \ Using("device") /\ fdtab' = [fdtab EXCEPT ![n] = "free"]
        BY <2>1 DEF Using, Closed, Fds
  <2>3. Using("device")' = Using("device") \ {n}
        BY <2>2, UsingAfter
  <2> QED BY <1>3, <2>2, <2>3 DEF SocketClose, engineVars
<1> QED BY <1>1, <1>2, <1>3

(* The engine thread's steps. *)
LEMMA EngineStep ==
  ASSUME LinkInv, EngineThread
  PROVE  LinkInv'
<1> USE DEF LinkInv, DescriptorsOwned, PlaceOK, LentOK, LinkTypeOK, NoFd
<1>1. CASE Open
  <2>1. LowestFree \in Using("free")
        BY <1>1, LowestFreeIsFree DEF Open
  <2>2. LowestFree \in Fds /\ LowestFree # NoFd
        BY <2>1 DEF Using, Fds
  <2>3. Using("device")' = Using("device") \cup {LowestFree}
        BY <1>1, <2>2, UsingAfter DEF Open, Taken
  <2>4. Using("device") = {}
        BY <1>1 DEF Open, GateFree
  <2> QED BY <1>1, <2>2, <2>3, <2>4 DEF Open, Taken
<1>2. CASE Status
  <2>1. Using("device")' = Using("device")
        BY <1>2 DEF Status, Using
  <2> QED BY <1>2, <2>1 DEF Status
<1>3. CASE StatusFails
  <2>1. Using("device")' = Using("device")
        BY <1>3 DEF StatusFails, Using
  <2> QED BY <1>3, <2>1 DEF StatusFails
<1>4. CASE Dup
  <2>1. dup = NoFd /\ dev_fd = NoFd
        BY <1>4 DEF Dup
  <2>2. CASE Using("free") # {} /\ dup' = LowestFree
             /\ fdtab' = Taken(LowestFree, "device")
    <3>1. LowestFree \in Using("free")
          BY <2>2, LowestFreeIsFree
    <3>2. LowestFree \in Fds \ Using("device") /\ LowestFree # NoFd
          BY <3>1 DEF Using, Fds
    <3>3. Using("device")' = Using("device") \cup {LowestFree}
          BY <2>2, <3>2, UsingAfter DEF Taken
    <3> QED BY <1>4, <2>1, <2>2, <3>2, <3>3 DEF Dup, Taken
  <2>3. CASE Using("free") = {} /\ UNCHANGED <<dup, fdtab>>
    <3>1. Using("device")' = Using("device")
          BY <2>3 DEF Using
    <3> QED BY <1>4, <2>1, <2>3, <3>1 DEF Dup
  <2> QED BY <1>4, <2>2, <2>3 DEF Dup
<1>5. CASE Publish
  <2>1. dev_fd = NoFd
        BY <1>5 DEF Publish
  <2>2. fdtab' = fdtab /\ dev_fd' = dup
        BY <1>5, <2>1 DEF Publish, SetDevFd, Closed
  <2>3. Using("device")' = Using("device")
        BY <2>2 DEF Using
  <2> QED BY <1>5, <2>1, <2>2, <2>3 DEF Publish
<1>6. CASE StreamEnds
  <2>1. Using("device")' = Using("device")
        BY <1>6 DEF StreamEnds, Using
  <2> QED BY <1>6, <2>1 DEF StreamEnds
<1>7. CASE Unpublish
  <2>1. dev_fd' = NoFd /\ fdtab' = Closed(dev_fd)
        BY <1>7 DEF Unpublish, SetDevFd
  <2>2. CASE dev_fd = NoFd
    <3>1. fdtab' = fdtab
          BY <2>1, <2>2 DEF Closed
    <3>2. Using("device")' = Using("device")
          BY <3>1 DEF Using
    <3> QED BY <1>7, <2>1, <2>2, <3>1, <3>2 DEF Unpublish
  <2>3. CASE dev_fd # NoFd
    <3>1. dev_fd \in Fds /\ fdtab' = [fdtab EXCEPT ![dev_fd] = "free"]
          BY <2>1, <2>3 DEF Closed
    <3>2. Using("device")' = Using("device") \ {dev_fd}
          BY <3>1, UsingAfter
    <3> QED BY <1>7, <2>1, <2>3, <3>1, <3>2 DEF Unpublish
  <2> QED BY <2>2, <2>3
<1>8. CASE Clear
  <2>1. Using("device")' = Using("device")
        BY <1>8 DEF Clear, Using
  <2> QED BY <1>8, <2>1 DEF Clear
<1>9. CASE Drop
  <2>1. file \in Fds /\ file # NoFd
        BY <1>9 DEF Drop
  <2>2. fdtab' = [fdtab EXCEPT ![file] = "free"]
        BY <1>9, <2>1 DEF Drop, Closed
  <2>3. Using("device") = {file} /\ dup = NoFd /\ dev_fd = NoFd
        BY <1>9 DEF Drop
  <2>4. Using("device")' = Using("device") \ {file}
    <3>1. fdtab \in [Fds -> {"free", "device", "socket"}]
          OBVIOUS
    <3> HIDE DEF LinkInv
    <3> QED BY <2>1, <2>2, <3>1, UsingAfter
  <2>5. Using("device")' = {}
        BY <2>3, <2>4
  <2> QED BY <1>9, <2>1, <2>2, <2>3, <2>5 DEF Drop
<1> QED BY <1>1, <1>2, <1>3, <1>4, <1>5, <1>6, <1>7, <1>8, <1>9
        DEF EngineThread

(* An HTTP thread takes its copy and uses it. *)
LEMMA ThreadStep ==
  ASSUME LinkInv, NEW t \in Threads, TakeFd(t) \/ Ioctl(t)
  PROVE  LinkInv'
<1> USE DEF LinkInv, DescriptorsOwned, PlaceOK, LentOK, LinkTypeOK, NoFd
<1>1. Using("device")' = Using("device")
      BY DEF TakeFd, Ioctl, Using
<1>2. CASE TakeFd(t)
      BY <1>1, <1>2 DEF TakeFd, engineVars
<1>3. CASE Ioctl(t)
      BY <1>1, <1>3 DEF Ioctl, engineVars
<1> QED BY <1>2, <1>3

LEMMA LinkStep == LinkInv /\ [LinkNext]_linkVars => LinkInv'
<1> SUFFICES ASSUME LinkInv, [LinkNext]_linkVars
             PROVE  LinkInv'
    OBVIOUS
<1>1. CASE UNCHANGED linkVars
  <2>1. Using("device")' = Using("device")
        BY <1>1 DEF linkVars, Using
  <2> QED BY <1>1, <2>1 DEF linkVars, engineVars, LinkInv, DescriptorsOwned,
             PlaceOK, LentOK, LinkTypeOK
<1> QED BY <1>1, WorldStep, EngineStep, ThreadStep DEF LinkNext

LEMMA LinkInvariant == LinkSpec => []LinkInv
<1>1. LinkInit => LinkInv
  <2>1. LinkInit => Using("device") = {}
        BY DEF LinkInit, Using
  <2> QED BY <2>1 DEF LinkInit, LinkInv, DescriptorsOwned, PlaceOK, LentOK,
             LinkTypeOK, NoFd
<1> QED BY <1>1, LinkStep, PTL DEF LinkSpec

-----------------------------------------------------------------------------
(* However the device comes and goes and connections recycle numbers, no   *)
(* descriptor is leaked or closed for another, and the single-reader gate  *)
(* is free when the device is reopened (engine.rs:416, 497-509, 593-641).  *)
THEOREM NoDescriptorLeaks == LinkSpec => []DescriptorsOwned
<1>1. LinkInv => DescriptorsOwned
      BY DEF LinkInv
<1> QED BY <1>1, LinkInvariant, PTL

(* A borrowed number means another file only after a loss of the device    *)
(* (engine.rs:511-524).                                                    *)
THEOREM LentDescriptorStays == LinkSpec => []StrayOnlyAfterLoss
<1>1. LinkInv => StrayOnlyAfterLoss
      BY DEF LinkInv, DescriptorsOwned, LentOK, StrayOnlyAfterLoss, Using
<1> QED BY <1>1, LinkInvariant, PTL
=============================================================================
