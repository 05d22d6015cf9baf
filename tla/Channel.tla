------------------------------ MODULE Channel ------------------------------
(***************************************************************************)
(* What a connection promises for the events queued on it: while it is     *)
(* open each is delivered, in order and whole. Once closed, events still   *)
(* in the socket may arrive or be lost.                                    *)
(***************************************************************************)
EXTENDS Naturals, Sequences

CONSTANT Messages

VARIABLES open, sent, delivered

vars == <<open, sent, delivered>>

Init ==
  /\ open = TRUE
  /\ sent = <<>>
  /\ delivered = <<>>

Put(m) ==
  /\ open
  /\ sent' = Append(sent, m)
  /\ UNCHANGED <<open, delivered>>

\* The last message of a connection that is shut with it.
PutLast(m) ==
  /\ open
  /\ sent' = Append(sent, m)
  /\ open' = FALSE
  /\ UNCHANGED delivered

Deliver ==
  /\ Len(delivered) < Len(sent)
  /\ delivered' = Append(delivered, sent[Len(delivered) + 1])
  /\ UNCHANGED <<open, sent>>

Close ==
  /\ open
  /\ open' = FALSE
  /\ UNCHANGED <<sent, delivered>>

Next == (\E m \in Messages : Put(m) \/ PutLast(m)) \/ Deliver \/ Close

Spec == Init /\ [][Next]_vars /\ WF_vars(open /\ Deliver)
=============================================================================
