--------------------------- MODULE ViewerRestart ---------------------------
(***************************************************************************)
(* A daemon that goes away and is started again under an open page, as     *)
(* registry.d/pnpd-service.reg asks for ("always").  Its rings are empty   *)
(* and its packets numbered from 1, while lastSeq (ui/index.html:1344) is  *)
(* still that of the daemon before.  Verdicts are numbered by the kernel,  *)
(* so their numbers go on.                                                 *)
(*                                                                         *)
(* The histories of packets are those of the daemon that runs now.  What   *)
(* an older one has sent and the page processes late only touches numbers  *)
(* up to carried, of which nothing is claimed.                             *)
(***************************************************************************)
EXTENDS Viewer, FiniteSetsExt

CONSTANT MaxRestarts   \* model bound

VARIABLES
  restarts,
  carried    \* history: the largest number of an older daemon's packet that
             \* the page has or may still process
restartVars == <<viewerVars, restarts, carried>>

RestartInit == ViewerInit /\ restarts = 0 /\ carried = 0

(* Of the backfills under way those in lost fail with their connection.  A *)
(* request that was not sent yet goes to the new daemon, and an answer     *)
(* that has come is processed.                                             *)
Restart ==
  /\ restarts < MaxRestarts
  /\ restarts' = restarts + 1
  /\ published' = 0 /\ held' = 0
  /\ st' = [c \in Conns |-> "none"]
  /\ got' = [c \in Conns |-> 0]
  /\ due' = [c \in Conns |-> 0]
  /\ vheld' = 0 /\ vstream' = <<>>
  /\ open' = FALSE
  /\ seen' = {} /\ excused' = {}
  /\ \E lost \in SUBSET {b \in Slots : backfills[b] # None} :
       LET late == {b \in Slots \ lost : backfills[b].at = "packets answered"} IN
       /\ backfills' = [b \in Slots |-> IF b \in lost THEN None ELSE backfills[b]]
       /\ vexcused' = vexcused \cup UNION {VForgone(b) : b \in lost}
       /\ carried' = Max({lastSeq} \cup {backfills[b].to : b \in late})
       /\ healed' = (healed /\ lost = {})
  /\ UNCHANGED <<vpublished, lastSeq, lastVerdictSeq, bounds, vseen>>

Running(A) == A /\ UNCHANGED <<restarts, carried>>

RestartNext == Running(ViewerNext) \/ Restart

(* The fairness of ViewerSpec; that the service is started again is a step *)
(* of Restart itself.                                                      *)
RestartSpec ==
  /\ RestartInit
  /\ [][RestartNext]_restartVars
  /\ WF_restartVars(Running(Subscribe))
  /\ WF_restartVars(Running(OnOpen))
  /\ WF_restartVars(Running(OnPacket))
  /\ WF_restartVars(Running(EndOfStream))
  /\ WF_restartVars(Running(Backfilling))

-----------------------------------------------------------------------------
(* A restart costs the page only numbers that it had already counted past: *)
(* above the last it had of the older daemon no packet of the new one is   *)
(* missing without the reasons PacketHolesExplained knows, and no verdict  *)
(* at all (:1344-1346).                                                    *)
LossesEndAtCarried ==
  /\ lastSeq <= Larger(published, carried)
  /\ \A m \in carried + 1 .. lastSeq :
       \/ m \in seen \cup excused
       \/ \E b \in Slots : Pending(m, b, "packets asked", "packets answered")
  /\ VerdictHolesExplained

(* The page comes back by itself: every packet of the daemon that runs is  *)
(* shown in the end, above what the older one had reached, or the daemon   *)
(* is restarted once more.                                                 *)
ShownAfterRestart ==
  \A n \in 1 .. MaxPackets, r \in 0 .. MaxRestarts :
    restarts = r /\ published >= n
      ~> n \in seen \cup excused \cup 1 .. carried \/ restarts > r
=============================================================================
