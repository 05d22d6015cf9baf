--------------------------- MODULE FrameContract ---------------------------
(***************************************************************************)
(* What the frame pump promises a client, with no objects and no queue     *)
(* (docs/PORT_NOTES.md, "Frame pump choreography"): a commit hands over    *)
(* the callbacks requested since the last one and lends at most one        *)
(* buffer; update() answers every callback once and gives the buffer back; *)
(* nothing handed over is ever dropped.                                    *)
(***************************************************************************)
EXTENDS FiniteSets

CONSTANT Ids   \* names of callbacks and buffers

VARIABLES
  phase,   \* callback -> "idle", "requested" or "committed"
  lent     \* buffers the compositor holds

vars == <<phase, lent>>

Init ==
  /\ phase = [c \in Ids |-> "idle"]
  /\ lent = {}

Request(c) ==
  /\ phase[c] = "idle"
  /\ phase' = [phase EXCEPT ![c] = "requested"]
  /\ UNCHANGED lent

Commit(C, B) ==
  /\ C # {}
  /\ \A c \in C : phase[c] = "requested"
  /\ phase' = [c \in Ids |-> IF c \in C THEN "committed" ELSE phase[c]]
  /\ B \cap lent = {}
  /\ lent' = lent \cup B

Answer(c) ==
  /\ phase[c] = "committed"
  /\ phase' = [phase EXCEPT ![c] = "idle"]
  /\ UNCHANGED lent

GiveBack(b) ==
  /\ b \in lent
  /\ lent' = lent \ {b}
  /\ UNCHANGED phase

Next ==
  \/ \E c \in Ids : Request(c)
  \/ \E C \in SUBSET Ids, B \in {{}} \cup {{b} : b \in Ids} : Commit(C, B)
  \/ \E c \in Ids : Answer(c)
  \/ \E b \in Ids : GiveBack(b)

Spec ==
  /\ Init
  /\ [][Next]_vars
  /\ \A c \in Ids : WF_vars(Answer(c))
  /\ \A b \in Ids : WF_vars(GiveBack(b))
=============================================================================
