----------------------------- MODULE PolicyWalk -----------------------------
(***************************************************************************)
(* pnpd/src/policy.rs, read_policy: how one rule gets into the answer of   *)
(* GET /policy while other requests edit and delete.                       *)
(*                                                                         *)
(* No transaction is used: every name, every open and every read of values *)
(* is a registry call of its own, and what other requests commit in        *)
(* between shows.  The loop over a layer (:141-164) treats its rules one   *)
(* after the other, so one round of it, for any rule, is what is modelled. *)
(*                                                                         *)
(* Of the registry it is taken that calls on a dead key fail, that calls   *)
(* on others do not, and that an enumeration of a rule nobody is changing  *)
(* gives every name.  Of a rule that is being changed it may give some.    *)
(***************************************************************************)
EXTENDS Policy

VARIABLES
  rule,     \* the rule being read, whose name the layer's enumeration gave
  at,       \* the innermost key that is open, <<>> when none is
  named,    \* the name just enumerated and not opened yet, or <<>>
  listed,   \* the keys in the answer so far
  deadOpen, \* open keys that have been deleted
  touched   \* history: keys of the rule have come or gone since it was named

readVars == <<rule, at, named, listed, deadOpen, touched>>
walkVars == <<policyVars, readVars>>

WalkInit ==
  /\ PolicyInit
  /\ rule = <<>> /\ at = <<>> /\ named = <<>>
  /\ listed = {} /\ deadOpen = {}
  /\ touched = FALSE

Parent(p) == SubSeq(p, 1, Len(p) - 1)
Children(p) == {q \in Keys : q # <<>> /\ Parent(q) = p}

(* The round ends, with the rule written as it was read or as an error. *)
Finish ==
  /\ rule' = <<>> /\ at' = <<>> /\ named' = <<>>
  /\ listed' = {} /\ deadOpen' = {}
  /\ touched' = FALSE
  /\ UNCHANGED policyVars

(* The layer's enumeration gives a rule's name. *)
NameRule ==
  /\ rule = <<>>
  /\ \E r \in Keys : Len(r) = 2 /\ rule' = r /\ named' = r
  /\ UNCHANGED <<policyVars, at, listed, deadOpen, touched>>

Openable == named \in Keys /\ Parent(named) \notin deadOpen

(* Key::open below the key that is open. *)
OpenNamed ==
  /\ named # <<>> /\ Openable
  /\ at' = named
  /\ named' = <<>>
  /\ UNCHANGED <<policyVars, rule, listed, deadOpen, touched>>

(* A rule that is gone is left out (:150); an exception that is gone makes *)
(* its whole rule an error (:98).                                          *)
OpenNamedFails ==
  /\ named # <<>> /\ ~Openable
  /\ Finish

(* query_values_batch *)
QueryValues ==
  /\ at # <<>> /\ at \notin listed \cup deadOpen
  /\ listed' = listed \cup {at}
  /\ UNCHANGED <<policyVars, rule, at, named, deadOpen, touched>>

GoesDeeperFromTheLayer(p) == Len(p) < MaxDepth

(* rule_to_json counts its depth from the rule (:88). *)
GoesDeeper(p) == Len(p) - 2 < MaxDepth

(* The key's enumeration gives another name. *)
NameException ==
  /\ at \in listed \ deadOpen /\ named = <<>>
  /\ GoesDeeper(at)
  /\ named' \in Children(at) \ listed
  /\ UNCHANGED <<policyVars, rule, at, listed, deadOpen, touched>>

(* It has no more, or none were wanted. *)
NoMoreNames ==
  /\ at \in listed /\ named = <<>>
  /\ GoesDeeper(at) => /\ at \notin deadOpen
                       /\ touched \/ Children(at) \subseteq listed

CloseException ==
  /\ NoMoreNames /\ at # rule
  /\ at' = Parent(at)
  /\ deadOpen' = deadOpen \ {at}
  /\ UNCHANGED <<policyVars, rule, named, listed, touched>>

RuleShown == NoMoreNames /\ at = rule /\ Finish

(* The key that is open is dead: `?` leaves every level (:72, :91). *)
DeadKey ==
  /\ at \in deadOpen /\ named = <<>>
  /\ at \in listed => GoesDeeper(at)
  /\ Finish

ReadStep ==
  \/ NameRule \/ OpenNamed \/ OpenNamedFails \/ QueryValues
  \/ NameException \/ CloseException \/ RuleShown \/ DeadKey

(* Another request's step under the walk. *)
OtherRequests ==
  /\ PolicyNext
  /\ UNCHANGED <<rule, at, named, listed>>
  /\ deadOpen' = deadOpen \cup ((Keys \ Keys') \cap Above(at))
  /\ touched' = (touched \/ (rule # <<>> /\ Subtree(rule) # Subtree(rule)'))

WalkNext == ReadStep \/ OtherRequests

WalkSpec == WalkInit /\ [][WalkNext]_walkVars

-----------------------------------------------------------------------------
(* A rule that nobody adds to or deletes from while it is read is answered *)
(* whole, with every exception set_rule has accepted below it, though the  *)
(* two limits on depth count from different ends (:88, :251): "error" and  *)
(* a missing or shorter rule are only ever the work of another request.    *)
ReadAnswers ==
  [][rule # <<>> /\ rule' = <<>> /\ ~touched =>
       RuleShown /\ listed = Subtree(rule)]_walkVars
=============================================================================
