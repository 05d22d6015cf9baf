-------------------------------- MODULE Drag --------------------------------
(***************************************************************************)
(* The ids of drag offers (compositor/DataDevice.cpp). While the game moves*)
(* a drag over surfaces, the client below is made an offer, an object the  *)
(* compositor creates; its id comes of a counter of the connection, which  *)
(* starts where the ids of the client's own objects do (Client.cpp, nextId)*)
(*                                                                         *)
(* A request and its handler are one step, a call of the game another.     *)
(* Nothing calls the game's part yet: it is what DataDevice offers to it.  *)
(* A move does not ask whether a drag was started or is still under way,   *)
(* so sources and start_drag are left out but for the ids sources take;    *)
(* events, mime types, actions and the clipboard are left out too.         *)
(***************************************************************************)
EXTENDS Naturals

CONSTANTS
  Conns,      \* connections
  Surfaces,   \* surfaces of each
  MaxId,      \* bound: the ids a client uses
  MaxOffers   \* bound: offers made to a connection

FirstId == 2   \* nextObjectId_; 1 is wl_display
Ids == FirstId..MaxId
Handed == FirstId..(FirstId + MaxOffers - 1)

VARIABLES
  objects,   \* objects_: the kind of each id
  mine,      \* client: the kind of each id it has made an object of
  next,      \* nextObjectId_
  hasDevice, \* gDevice names a connection
  target,    \* gDragTarget: a surface and its connection, or Outside
  offer      \* gDragOfferConn, gDragOfferId, or NoOffer

vars == <<objects, mine, next, hasDevice, target, offer>>

Outside == <<>>
NoOffer == <<>>

Init ==
  /\ objects = [c \in Conns |-> [i \in Ids |-> "none"]]
  /\ mine = objects
  /\ next = [c \in Conns |-> FirstId]
  /\ hasDevice = FALSE
  /\ target = Outside
  /\ offer = NoOffer

Is(c, i, kind) == objects[c][i] = kind

----------------------------------------------------------------------------
(* Requests.                                                               *)

\* create_data_source and get_data_device. A client takes ids of which it has
\* no object, and which the compositor has given to none either.
Create(c, i, kind) ==
  /\ mine[c][i] = "none" /\ ~Is(c, i, "offer")
  /\ objects' = [objects EXCEPT ![c][i] = kind]
  /\ mine' = [mine EXCEPT ![c][i] = kind]
  /\ hasDevice' = (hasDevice \/ kind = "device")
  /\ UNCHANGED <<next, target, offer>>

\* Any of the three may be destroyed at any time; gDevice is kept.
Destroy(c, i) ==
  /\ ~Is(c, i, "none")
  /\ Is(c, i, "offer") \/ Is(c, i, mine[c][i])
  /\ objects' = [objects EXCEPT ![c][i] = "none"]
  /\ mine' = [mine EXCEPT ![c][i] = "none"]
  /\ UNCHANGED <<next, hasDevice, target, offer>>

\* The drag is forgotten, the offer's object is not.
KillDrag ==
  /\ target' = Outside /\ offer' = NoOffer
  /\ UNCHANGED <<objects, mine, next, hasDevice>>

\* Whichever drag the offer was made for.
Finish(c, o) == Is(c, o, "offer") /\ KillDrag

----------------------------------------------------------------------------
(* Calls of the game.                                                      *)

\* Over no surface: an implicit leave.
MoveOff ==
  /\ hasDevice
  /\ target' = Outside
  /\ UNCHANGED <<objects, mine, next, hasDevice, offer>>

Offered(c) == [objects EXCEPT ![c][next[c]] = "offer"]
Withdrawn(table) ==
  IF offer = NoOffer THEN table
  ELSE [table EXCEPT ![offer[1]][offer[2]] = "none"]

\* Over another surface than before: the new offer is made, then the former
\* is withdrawn. Over the same one nothing but a motion is sent.
MoveTo(c, s) ==
  /\ hasDevice /\ target # <<c, s>>
  /\ next[c] \in Handed \cap Ids
  /\ objects' = Withdrawn(Offered(c))
  /\ next' = [next EXCEPT ![c] = @ + 1]
  /\ offer' = <<c, next[c]>>
  /\ target' = <<c, s>>
  /\ UNCHANGED <<mine, hasDevice>>

Cancel == KillDrag

----------------------------------------------------------------------------
Request(c, i) ==
  \/ \E kind \in {"source", "device"} : Create(c, i, kind)
  \/ Destroy(c, i) \/ Finish(c, i)

Next ==
  \/ \E c \in Conns : \/ \E i \in Ids : Request(c, i)
                      \/ \E s \in Surfaces : MoveTo(c, s)
  \/ MoveOff \/ Cancel

Spec == Init /\ [][Next]_vars

----------------------------------------------------------------------------
(* Properties.                                                             *)

(***************************************************************************)
(* The ids the compositor hands out are its own, as WireProtocol.h:33      *)
(* says, "kReservedIdBase = 0xff000000u; // server-reserved ids": what a   *)
(* client has made and not destroyed is what the compositor has under that *)
(* id. No offer is put in its place, and none that was there before is     *)
(* withdrawn from it.                                                      *)
(***************************************************************************)
OwnObjectsKept ==
  \A c \in Conns : \A i \in Ids : mine[c][i] # "none" => Is(c, i, mine[c][i])
=============================================================================
