---------------------------- MODULE ResultStream ----------------------------
(***************************************************************************)
(* What an EventStream promises to the one who reads its flow and to the   *)
(* one who awaits its result, whoever writes to it: events are only ever   *)
(* appended, the result is settled once, and the flow ends after that and  *)
(* stays as it is.                                                         *)
(***************************************************************************)
EXTENDS Sequences

CONSTANTS
  Events,    (* what may be pushed                                         *)
  Outcomes   (* what result() may return or throw; "pending" is none        *)

VARIABLES
  log,       (* the events the stream accepted, in order                   *)
  outcome,   (* "pending", or what result() returns                        *)
  ended      (* nothing more will be accepted                              *)

vars == <<log, outcome, ended>>

TypeOK ==
  /\ log \in Seq(Events)
  /\ outcome \in Outcomes \cup {"pending"}
  /\ ended \in BOOLEAN

Init ==
  /\ log = <<>>
  /\ outcome = "pending"
  /\ ended = FALSE

Accept(e) ==
  /\ ~ended
  /\ log' = Append(log, e)
  /\ UNCHANGED <<outcome, ended>>

Settle(r) ==
  /\ outcome = "pending" /\ ~ended
  /\ outcome' = r
  /\ UNCHANGED <<log, ended>>

End ==
  /\ outcome # "pending"
  /\ ended' = TRUE
  /\ UNCHANGED <<log, outcome>>

Next ==
  \/ \E e \in Events : Accept(e)
  \/ \E r \in Outcomes : Settle(r)
  \/ End

Spec == Init /\ [][Next]_vars
=============================================================================
