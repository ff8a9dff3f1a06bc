------------------------------ MODULE Lifecycle ------------------------------
(***************************************************************************)
(* The status machine of an annotation (core/src/core/lifecycle.ts).       *)
(*                                                                         *)
(* An annotation carries a status and the list of events that led to it.   *)
(* Browsers, the public API of the widget and the agent tools all move it  *)
(* through `transition`; a merge re-applies recorded events through        *)
(* `replayEvent`.  Both are one table, kept here as the two functions      *)
(* Sources (where an action is allowed) and Target (where it leads).       *)
(*                                                                         *)
(* An event is a record [type, id]: `id` stands for all that tells two     *)
(* events apart (actor, timestamp, reason, opId).                          *)
(***************************************************************************)
EXTENDS Naturals, Sequences, SequencesExt

Statuses == {"draft", "pending", "in_progress", "fixed_unverified", "verified", "dismissed"}

Actions == {"submit", "acknowledge", "claimFix", "verify", "reject", "dismiss", "reopen"}

\* The statuses an action may start from.
Sources ==
  [ submit      |-> {"draft"},
    acknowledge |-> {"pending"},
    claimFix    |-> {"pending", "in_progress"},
    verify      |-> {"fixed_unverified", "in_progress"},
    reject      |-> {"fixed_unverified"},
    dismiss     |-> {"pending", "in_progress", "fixed_unverified"},
    reopen      |-> {"dismissed", "verified"} ]

Target ==
  [ submit      |-> "pending",
    acknowledge |-> "in_progress",
    claimFix    |-> "fixed_unverified",
    verify      |-> "verified",
    reject      |-> "pending",
    dismiss     |-> "dismissed",
    reopen      |-> "pending" ]

\* ACTION_TO_EVENT; EVENT_TO_ACTION is its inverse on its range.
EventOf ==
  [ submit      |-> "submitted",
    acknowledge |-> "acknowledged",
    claimFix    |-> "fix_claimed",
    verify      |-> "verified",
    reject      |-> "rejected",
    dismiss     |-> "dismissed",
    reopen      |-> "reopened" ]

TransitionEvents == {EventOf[a] : a \in Actions}

EventTypes == TransitionEvents \cup {"created", "migrated"}

NoStatus == "none"

NextStatus(from, action) == IF from \in Sources[action] THEN Target[action] ELSE NoStatus

\* The status an already recorded event leads to, or NoStatus.
ReplayEvent(from, type) ==
  IF \E a \in Actions : EventOf[a] = type
  THEN NextStatus(from, CHOOSE a \in Actions : EventOf[a] = type)
  ELSE NoStatus

\* What is left of a history when every event is checked against the table:
\* the status it ends in, or NoStatus as soon as one event is not allowed.
StatusAfter(start, events) ==
  FoldLeft(LAMBDA s, e : IF e.type = "created" THEN s ELSE ReplayEvent(s, e.type), start, events)

\* A status is explained by its history when the history, read from the status
\* a new annotation is given (draft or pending), ends in that status.
Explained(status, events) == \E start \in {"draft", "pending"} : StatusAfter(start, events) = status

=============================================================================
