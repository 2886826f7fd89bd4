------------------------------- MODULE Policy -------------------------------
(***************************************************************************)
(* pnpd/src/policy.rs: clients create, replace and delete rules below the  *)
(* registry's Rules key, each request on an HTTP thread of its own.        *)
(*                                                                         *)
(* A rule is a path: a layer, then a rule's name, then those of exceptions *)
(* within exceptions.  Its values are a function from value names; how a   *)
(* value is typed is left out, and so is what the kernel makes of a rule   *)
(* and the order in which read_policy comes upon the keys it shows.        *)
(*                                                                         *)
(* The registry is external.  A transaction is taken to be serializable:   *)
(* it commits as one step or not at all, which is what the header of       *)
(* policy.rs counts on.  A key that is open when it is deleted is dead,    *)
(* even if another is created at its path.  set_rule opens all it writes   *)
(* inside its transaction, so all of it is one step; delete_rule opens the *)
(* rule first and deletes what it opened later, so it is two.  A request   *)
(* that is malformed or refused drops its transaction and changes nothing: *)
(* a stuttering step, unless a key was open.                               *)
(***************************************************************************)
EXTENDS Integers, Sequences, FiniteSets

CONSTANTS
  Layers,    \* first segments that clients use
  Names,     \* the other ones
  MaxDepth,  \* MAX_DEPTH, 12 in the program
  Edits,     \* sets of values that clients give a rule
  Threads    \* HTTP threads that delete

ASSUME PolicyAssumption ==
  /\ MaxDepth \in Nat \ {0, 1}
  /\ Layers # {}
  /\ \A e \in Edits : e = [v \in DOMAIN e |-> e[v]]

NoValues == [v \in {} |-> 0]

(* Paths that clients ask for, longer ones than are accepted among them. *)
Requests == {<<l>> : l \in Layers}
            \cup {<<l>> \o rest : l \in Layers,
                    rest \in UNION {[1 .. n -> Names] : n \in 1 .. MaxDepth + 1}}

VARIABLES
  present,  \* the Rules key exists
  tree,     \* tree[p]: the values of the key at p, for every key below Rules
  opened,   \* opened[t]: the rule whose key thread t holds open, or <<>>
  dead      \* threads whose open key has been deleted

policyVars == <<present, tree, opened, dead>>

Keys == DOMAIN tree
Above(p) == {SubSeq(p, 1, n) : n \in 1 .. Len(p)}
Subtree(p) == {q \in Keys : p \in Above(q)}

PolicyInit ==
  /\ present \in BOOLEAN
  /\ tree = NoValues
  /\ opened = [t \in Threads |-> <<>>]
  /\ dead = {}

(* Rules is created by someone else: nothing here does. *)
RulesKeyAppears ==
  /\ ~present
  /\ present' = TRUE
  /\ UNCHANGED <<tree, opened, dead>>

-----------------------------------------------------------------------------
(* set_rule *)

ValuesOf(q) == IF q \in Keys THEN tree[q] ELSE NoValues

Overwrite(old, new) ==
  [v \in DOMAIN old \cup DOMAIN new |->
     IF v \in DOMAIN new THEN new[v] ELSE old[v]]

(* Existing values that are not given again are deleted, then the given    *)
(* ones are set.                                                           *)
ReplaceValues(old, new) ==
  Overwrite([v \in DOMAIN old \cap DOMAIN new |-> old[v]], new)

Settable(path) == Len(path) >= 2 /\ Len(path) <= MaxDepth + 1

SetRuleResetsChain(path, values) ==
  /\ present /\ Settable(path)
  /\ tree' = [q \in Keys \cup Above(path) |->
                IF q = path THEN values
                ELSE IF q \in Above(path) THEN NoValues ELSE tree[q]]
  /\ UNCHANGED <<present, opened, dead>>

(* The chain of keys is created where it is missing. *)
SetRule(path, values) ==
  /\ present /\ Settable(path)
  /\ tree' = [q \in Keys \cup Above(path) |->
                IF q = path THEN ReplaceValues(ValuesOf(q), values)
                ELSE ValuesOf(q)]
  /\ UNCHANGED <<present, opened, dead>>

-----------------------------------------------------------------------------
(* delete_rule *)

(* Up to the transaction: refuse a layer, open the rule's key. *)
DeleteOpens(t, path) ==
  /\ opened[t] = <<>>
  /\ Len(path) >= 2 /\ path \in Keys
  /\ opened' = [opened EXCEPT ![t] = path]
  /\ UNCHANGED <<present, tree, dead>>

(* delete_recursive checks every key of the subtree against the limit. *)
Deletable(path) == \A q \in Subtree(path) : Len(q) <= MaxDepth

DeleteRunsKeepingExceptions(t) ==
  /\ opened[t] # <<>>
  /\ t \notin dead
  /\ opened' = [opened EXCEPT ![t] = <<>>]
  /\ tree' = [q \in Keys \ {opened[t]} |-> tree[q]]
  /\ dead' = {u \in Threads \ {t} : u \in dead \/ opened[u] = opened[t]}
  /\ UNCHANGED present

(* The transaction: the opened key and all below it are deleted. *)
DeleteRuns(t) ==
  /\ opened[t] # <<>>
  /\ t \notin dead
  /\ Deletable(opened[t])
  /\ LET gone == Subtree(opened[t]) IN
       /\ tree' = [q \in Keys \ gone |-> tree[q]]
       /\ dead' = dead \cup {u \in Threads \ {t} : opened[u] \in gone}
  /\ opened' = [opened EXCEPT ![t] = <<>>]
  /\ UNCHANGED present

(* The key is dead, a key is too deep, or the registry refuses a step. *)
DeleteFails(t) ==
  /\ opened[t] # <<>>
  /\ opened' = [opened EXCEPT ![t] = <<>>]
  /\ dead' = dead \ {t}
  /\ UNCHANGED <<present, tree>>

PolicyNext ==
  \/ RulesKeyAppears
  \/ \E p \in Requests, e \in Edits : SetRule(p, e)
  \/ \E t \in Threads : \/ \E p \in Requests : DeleteOpens(t, p)
                        \/ DeleteRuns(t)
                        \/ DeleteFails(t)

PolicySpec == PolicyInit /\ [][PolicyNext]_policyVars

-----------------------------------------------------------------------------
(* Types, and that no exception is left without the rule it is one of:     *)
(* deletion goes to the bottom (:326) and creation starts at the top.      *)
PolicyTypeOK ==
  /\ {present} \subseteq BOOLEAN
  /\ Keys \subseteq Requests
  /\ \A p \in Keys : Above(p) \subseteq Keys
  /\ opened \in [Threads -> Requests \cup {<<>>}]
  /\ dead \subseteq {t \in Threads : opened[t] # <<>>}

(* A rule's values are those of one request, or none where it was created  *)
(* on the way to an exception: whatever was there before, two edits never  *)
(* mix (:245, "Creates or replaces one rule's own values").                *)
NeverMixed == \A p \in Keys : tree[p] \in Edits \cup {NoValues}

(* A request changes one thing: the values of one rule, "children          *)
(* untouched" (:245), or one rule and all its exceptions are gone (:329),  *)
(* while no other request is disturbed.                                    *)
OneRule ==
  LET lost    == Keys \ Keys'
      changed == {q \in Keys \cap Keys' : tree'[q] # tree[q]}
  IN /\ Cardinality(changed) <= 1
     /\ lost # {} =>
          /\ changed = {} /\ Keys' \subseteq Keys
          /\ \E p \in lost : Len(p) >= 2 /\ lost = Subtree(p)

OneRuleAtATime == [][OneRule]_policyVars

(* "Deletes one rule and its exceptions" (:329): the limit on depth leaves *)
(* no rule behind that can never be deleted.                               *)
AllDeletable == \A p \in Keys : Len(p) >= 2 => Deletable(p)
=============================================================================
