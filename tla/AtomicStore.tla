----------------------------- MODULE AtomicStore -----------------------------
(***************************************************************************)
(* What the annotation store promises its callers: each call takes effect  *)
(* at one instant between its arrival and its answer, on the records as    *)
(* they are at that instant, and is answered what it did.  A persist that  *)
(* throws answers "failed" and changes nothing.  A crash of the server     *)
(* loses the calls it has not answered, never a record.                    *)
(***************************************************************************)
EXTENDS StoreOps

CONSTANT Calls   \* call slots, each used once

VARIABLES
  records,   \* the store
  call,      \* what a call asks for, Null before it is composed
  stage,     \* where a call is
  answer     \* what a call was answered, Null before

absVars == <<records, call, stage, answer>>

AbsInit ==
  /\ records \in Stores
  /\ call = [c \in Calls |-> Null]
  /\ stage = [c \in Calls |-> "idle"]
  /\ answer = [c \in Calls |-> Null]

AbsCompose(c) ==
  /\ stage[c] = "idle"
  /\ call'[c] \in CallRecords
  /\ call' = [call EXCEPT ![c] = call'[c]]
  /\ stage' = [stage EXCEPT ![c] = "sent"]
  /\ UNCHANGED <<records, answer>>

AbsArrive(c) ==
  /\ stage[c] = "sent"
  /\ stage' = [stage EXCEPT ![c] = "arrived"]
  /\ UNCHANGED <<records, call, answer>>

AbsTakeEffect(c) ==
  /\ stage[c] = "arrived"
  /\ stage' = [stage EXCEPT ![c] = "done"]
  /\ \/ /\ records' = After(records, call[c])
        /\ answer' = [answer EXCEPT ![c] = Outcome(records, call[c])]
     \/ /\ records' = records
        /\ answer' = [answer EXCEPT ![c] = "failed"]
  /\ UNCHANGED call

AbsCrash ==
  /\ stage' = [c \in Calls |-> IF stage[c] = "arrived" THEN "lost" ELSE stage[c]]
  /\ UNCHANGED <<records, call, answer>>

AbsNext ==
  \/ \E c \in Calls : AbsCompose(c) \/ AbsArrive(c) \/ AbsTakeEffect(c)
  \/ AbsCrash

AbsSpec == AbsInit /\ [][AbsNext]_absVars
=============================================================================
