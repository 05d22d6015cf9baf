----------------------------- MODULE Toplevels -----------------------------
(***************************************************************************)
(* The windows of one client: the roles its surfaces take                  *)
(* (compositor/XdgShell.cpp), the requests its windows queue for the game, *)
(* and the window registry (core/WindowRegistry.cpp) that drains the       *)
(* queue, configures windows and keeps one display per window.             *)
(*                                                                         *)
(* The event loop runs the request handlers under updateMutex_; the        *)
(* registry reads and answers on the game thread without it, so its steps  *)
(* fall between any two requests.                                          *)
(*                                                                         *)
(* The client is tidy: it destroys a role's object before the xdg_surface  *)
(* and that before the surface, and gives a surface one role. It may       *)
(* destroy a window at any moment, and reuses an id once it has read its   *)
(* delete_id, whatever of the former window the game still holds. The      *)
(* connection's end is left out.                                           *)
(***************************************************************************)
EXTENDS Naturals, FiniteSets, SequencesExt

CONSTANTS
  SurfaceIds,   \* ids of wl_surface objects
  XdgIds,       \* ids of xdg_surface objects
  ToplevelIds,  \* ids of xdg_toplevel and xdg_popup objects
  NoId,         \* the null id 0
  MaxRequests,  \* bound: window requests the game has not handled
  MaxOut        \* bound: unread events at which the client asks for no more

\* The kinds of object share one id space in the code; that an id moves from
\* one kind to another is the subject of Surface.
Ids == SurfaceIds \cup XdgIds \cup ToplevelIds

ASSUME IdsAssumption ==
  /\ NoId \notin Ids
  /\ SurfaceIds \cap XdgIds = {}
  /\ SurfaceIds \cap ToplevelIds = {}
  /\ XdgIds \cap ToplevelIds = {}
ASSUME BoundsAssumption == {MaxRequests, MaxOut} \subseteq Nat \ {0}

VARIABLES
  objects,      \* objects_: id -> whether it names an object
  state,        \* SurfaceState of a surface: role and xdgSurfaceId
  surfaceOf,    \* the surface an xdg_surface was made for
  toplevel,     \* ToplevelState of a toplevel
  requests,     \* requests_: waiting for the game
  displays,     \* displays_: root surface -> "none", "visible" or "hidden"
  game,         \* where the game thread is in WindowRegistry::update
  out,          \* events queued to or in flight to the client
  wants,        \* client: toplevel -> the shape it last asked for, or "new"
  latched,      \* client: toplevel -> the configure it is reading
  told          \* client: toplevel -> what it was last configured to be

loopVars == <<objects, state, surfaceOf, toplevel>>
clientVars == <<wants, latched, told>>
vars == <<loopVars, requests, displays, game, out, clientVars>>

----------------------------------------------------------------------------
(* State.                                                                  *)

NoState == [role |-> "none", xdg |-> NoId]
NoToplevel == [surface |-> NoId, xdg |-> NoId, fullscreen |-> FALSE]

RequestKinds == {"minimize", "maximize", "fullscreen", "unfullscreen", "grab"}
Request == [kind : RequestKinds, surface : SurfaceIds]

\* What a toplevel was configured to be; "new" before its first configure.
Shapes == {"new", "window", "fullscreen"}
ShapeOf(fullscreen) == IF fullscreen THEN "fullscreen" ELSE "window"

Configure(t, shape) == [type |-> "configure", id |-> t, shape |-> shape]
Configured(x) == [type |-> "configured", id |-> x, shape |-> "new"]
DeleteId(i) == [type |-> "delete_id", id |-> i, shape |-> "new"]
Event == [type : {"configure", "configured", "delete_id"}, id : Ids,
          shape : Shapes]

\* The game thread is idle, handles the requests it drained, is about to
\* configure a toplevel, or to finish that configure on its xdg_surface.
Game == [at : {"idle", "handling", "configuring", "finishing"},
         drained : Seq(Request), id : Ids \cup {NoId}, fullscreen : BOOLEAN]
Idle == [at |-> "idle", drained |-> <<>>, id |-> NoId, fullscreen |-> FALSE]

LiveToplevels == {t \in ToplevelIds : toplevel[t] # NoToplevel}
ToplevelsOn(s) == {t \in LiveToplevels : toplevel[t].surface = s}

Init ==
  /\ objects = [i \in Ids |-> FALSE]
  /\ state = [s \in SurfaceIds |-> NoState]
  /\ surfaceOf = [x \in XdgIds |-> NoId]
  /\ toplevel = [t \in ToplevelIds |-> NoToplevel]
  /\ requests = <<>>
  /\ displays = [s \in SurfaceIds |-> "none"]
  /\ game = Idle
  /\ out = <<>>
  /\ wants = [t \in ToplevelIds |-> "new"]
  /\ latched = [t \in ToplevelIds |-> "new"]
  /\ told = [t \in ToplevelIds |-> "new"]

----------------------------------------------------------------------------
(* The event loop: objects and roles.                                      *)

\* The client's library hands out an id again once it has read its
\* delete_id.
Allocate(i) ==
  /\ ~objects[i]
  /\ DeleteId(i) \notin Range(out)
  /\ objects' = [objects EXCEPT ![i] = TRUE]

\* destroyObject, the client's proxy going with it.
Destroy(i) ==
  /\ objects[i]
  /\ Len(out) < MaxOut
  /\ objects' = [objects EXCEPT ![i] = FALSE]
  /\ out' = Append(out, DeleteId(i))

\* The state is made with the object, and the registry looks at neither
\* before the surface has a role.
CreateSurface(s) ==
  /\ Allocate(s)
  /\ UNCHANGED <<state, surfaceOf, toplevel, requests, displays, game, out,
                 clientVars>>

DestroySurface(s) ==
  /\ \A x \in XdgIds : surfaceOf[x] # s
  /\ Destroy(s)
  /\ state' = [state EXCEPT ![s] = NoState]
  /\ UNCHANGED <<surfaceOf, toplevel, requests, displays, game, clientVars>>

GetXdgSurface(x, s) ==
  /\ objects[s]
  /\ Allocate(x)
  /\ surfaceOf' = [surfaceOf EXCEPT ![x] = s]
  /\ UNCHANGED <<state, toplevel, requests, displays, game, out, clientVars>>

DestroyXdgSurface(x) ==
  /\ \A t \in LiveToplevels : toplevel[t].xdg # x
  /\ Destroy(x)
  /\ surfaceOf' = [surfaceOf EXCEPT ![x] = NoId]
  /\ UNCHANGED <<state, toplevel, requests, displays, game, clientVars>>

\* Wrong variant: without the check of the role.
TakeAnyRole(x, t, role) ==
  /\ objects[x]
  /\ Allocate(t)
  /\ state' = [state EXCEPT ![surfaceOf[x]] = [role |-> role, xdg |-> x]]
  /\ UNCHANGED <<surfaceOf, requests, displays, game, out, clientVars>>

\* get_toplevel and get_popup take the surface's role, which stays when the
\* role's object goes.
TakeRole(x, t, role) ==
  /\ objects[x]
  /\ state[surfaceOf[x]].role = "none"
  /\ Allocate(t)
  /\ state' = [state EXCEPT ![surfaceOf[x]] = [role |-> role, xdg |-> x]]
  /\ UNCHANGED <<surfaceOf, requests, displays, game, out, clientVars>>

GetToplevel(x, t) ==
  /\ TakeRole(x, t, "toplevel")
  /\ toplevel' = [toplevel EXCEPT
       ![t] = [surface |-> surfaceOf[x], xdg |-> x, fullscreen |-> FALSE]]

GetPopup(x, t) ==
  /\ TakeRole(x, t, "popup")
  /\ UNCHANGED toplevel

\* The client forgets the window with its proxy.
DestroyToplevel(t) ==
  /\ Destroy(t)
  /\ toplevel' = [toplevel EXCEPT ![t] = NoToplevel]
  /\ wants' = [wants EXCEPT ![t] = "new"]
  /\ latched' = [latched EXCEPT ![t] = "new"]
  /\ told' = [told EXCEPT ![t] = "new"]
  /\ UNCHANGED <<state, surfaceOf, requests, displays, game>>

----------------------------------------------------------------------------
(* The event loop: requests queued for the game.                           *)

Push(t, kind) ==
  /\ t \in LiveToplevels
  /\ Len(requests) + Len(game.drained) < MaxRequests
  /\ Len(out) < MaxOut
  /\ requests' = Append(requests, [kind |-> kind, surface |-> toplevel[t].surface])
  /\ UNCHANGED <<loopVars, displays, game, out, latched, told>>

AskFullscreen(t) ==
  /\ Push(t, "fullscreen")
  /\ wants' = [wants EXCEPT ![t] = "fullscreen"]

AskUnfullscreen(t) ==
  /\ Push(t, "unfullscreen")
  /\ wants' = [wants EXCEPT ![t] = "window"]

\* set_maximized and unset_maximized, which differ in the size they get:
\* ToplevelState's maximized is never set.
AskMaximize(t) ==
  /\ Push(t, "maximize")
  /\ UNCHANGED wants

AskMinimize(t) ==
  /\ Push(t, "minimize")
  /\ UNCHANGED wants

\* move, resize and show_window_menu.
AskGrab(t) ==
  /\ Push(t, "grab")
  /\ UNCHANGED wants

----------------------------------------------------------------------------
(* The game thread: WindowRegistry::update.                                *)

Send(event) == out' = Append(out, event)

Drain ==
  /\ game = Idle
  /\ game' = [Idle EXCEPT !.at = "handling", !.drained = requests]
  /\ requests' = <<>>
  /\ UNCHANGED <<loopVars, displays, out, clientVars>>

Handling(kinds) ==
  /\ game.at = "handling"
  /\ game.drained # <<>>
  /\ Head(game.drained).kind \in kinds

Asked == Head(game.drained).surface
Handled == [game EXCEPT !.drained = Tail(game.drained)]

\* displayFor finds something.
HasDisplay(s) == displays[s] # "none"

\* A window minimised before its display exists is shown all the same.
HandleMinimize ==
  /\ Handling({"minimize"})
  /\ displays' = [displays EXCEPT ![Asked] = IF HasDisplay(Asked) THEN "hidden" ELSE @]
  /\ game' = Handled
  /\ UNCHANGED <<loopVars, requests, out, clientVars>>

\* Nothing handles a grab: onRequestUnhandled is not set.
HandleGrab ==
  /\ Handling({"grab"})
  /\ game' = Handled
  /\ UNCHANGED <<loopVars, requests, displays, out, clientVars>>

\* toplevelForSurface: a toplevel of the xdg_surface the role came by.
ToplevelsFor(s) ==
  {t \in LiveToplevels : state[s].role = "toplevel" /\ toplevel[t].xdg = state[s].xdg}

\* Wrong variant: the configure of the new size forgets fullscreen.
HandleMaximizeAsWindow ==
  /\ Handling({"maximize"})
  /\ game' \in IF ToplevelsFor(Asked) = {} THEN {Handled}
               ELSE {[Handled EXCEPT !.at = "configuring", !.id = t]
                       : t \in ToplevelsFor(Asked)}
  /\ UNCHANGED <<loopVars, requests, displays, out, clientVars>>

\* resizeToplevel and fullscreenToplevel find the toplevel...
HandleMaximize ==
  /\ Handling({"maximize"})
  /\ game' \in IF ToplevelsFor(Asked) = {} THEN {Handled}
               ELSE {[Handled EXCEPT !.at = "configuring", !.id = t,
                                     !.fullscreen = toplevel[t].fullscreen]
                       : t \in ToplevelsFor(Asked)}
  /\ UNCHANGED <<loopVars, requests, displays, out, clientVars>>

HandleFullscreen(fullscreen) ==
  /\ Handling({IF fullscreen THEN "fullscreen" ELSE "unfullscreen"})
  /\ \/ /\ ToplevelsFor(Asked) = {}
        /\ game' = Handled
        /\ UNCHANGED toplevel
     \/ \E t \in ToplevelsFor(Asked) :
          /\ game' = [Handled EXCEPT !.at = "configuring", !.id = t,
                                     !.fullscreen = fullscreen]
          /\ toplevel' = [toplevel EXCEPT ![t].fullscreen = fullscreen]
  /\ UNCHANGED <<objects, state, surfaceOf, requests, displays,
                 out, clientVars>>

\* Wrong variant: a toplevel that is gone is not noticed.
SendConfigureUnchecked ==
  /\ game.at = "configuring"
  /\ Send(Configure(game.id, ShapeOf(game.fullscreen)))
  /\ game' = [game EXCEPT !.at = "finishing", !.id = toplevel[game.id].xdg]
  /\ UNCHANGED <<loopVars, requests, displays, clientVars>>

\* ... and sendToplevelConfigure sends it two events, the event loop free to
\* handle requests before, between and after them.
SendConfigure ==
  /\ game.at = "configuring"
  /\ IF game.id \in LiveToplevels
     THEN /\ Send(Configure(game.id, ShapeOf(game.fullscreen)))
          /\ toplevel' = [toplevel EXCEPT ![game.id].fullscreen = game.fullscreen]
          /\ game' = [game EXCEPT !.at = "finishing", !.id = toplevel[game.id].xdg]
     ELSE /\ game' = [game EXCEPT !.at = "handling", !.id = NoId]
          /\ UNCHANGED <<out, toplevel>>
  /\ UNCHANGED <<objects, state, surfaceOf, requests, displays,
                 clientVars>>

\* Wrong variant: the second event is not sent.
FinishConfigureSilently ==
  /\ game.at = "finishing"
  /\ game' = [game EXCEPT !.at = "handling", !.id = NoId]
  /\ UNCHANGED <<loopVars, requests, displays, out, clientVars>>

FinishConfigure ==
  /\ game.at = "finishing"
  /\ Send(Configured(game.id))
  /\ game' = [game EXCEPT !.at = "handling", !.id = NoId]
  /\ UNCHANGED <<loopVars, requests, displays, clientVars>>

\* Wrong variant: displays of windows that died stay.
SyncDisplaysKeeping ==
  /\ game.at = "handling"
  /\ game.drained = <<>>
  /\ displays' = [s \in SurfaceIds |->
       IF displays[s] = "none" /\ ToplevelsOn(s) # {} THEN "visible"
       ELSE displays[s]]
  /\ game' = Idle
  /\ UNCHANGED <<loopVars, requests, out, clientVars>>

\* syncDisplays: a display for every window, none for a window that died.
SyncDisplays ==
  /\ game.at = "handling"
  /\ game.drained = <<>>
  /\ displays' = [s \in SurfaceIds |->
       IF ToplevelsOn(s) = {} THEN "none"
       ELSE IF HasDisplay(s) THEN displays[s]
       ELSE "visible"]
  /\ game' = Idle
  /\ UNCHANGED <<loopVars, requests, out, clientVars>>

----------------------------------------------------------------------------
(* The client reads its socket. A configure takes effect with the          *)
(* xdg_surface event that ends it.                                         *)

Receive ==
  LET event == Head(out) IN
  /\ out # <<>>
  /\ out' = Tail(out)
  /\ \/ /\ event.type = "configure"
        /\ latched' = [latched EXCEPT ![event.id] =
                        IF objects[event.id] THEN event.shape ELSE @]
        /\ UNCHANGED told
     \/ /\ event.type = "configured"
        /\ LET ended == {t \in LiveToplevels :
                          toplevel[t].xdg = event.id /\ latched[t] # "new"}
           IN /\ told' = [t \in ToplevelIds |->
                            IF t \in ended THEN latched[t] ELSE told[t]]
              /\ latched' = [t \in ToplevelIds |->
                               IF t \in ended THEN "new" ELSE latched[t]]
     \/ /\ event.type = "delete_id"
        /\ UNCHANGED <<latched, told>>
  /\ UNCHANGED <<loopVars, requests, displays, game, wants>>

----------------------------------------------------------------------------
ClientRequest ==
  \/ \E s \in SurfaceIds : CreateSurface(s) \/ DestroySurface(s)
  \/ \E x \in XdgIds :
       \/ \E s \in SurfaceIds : GetXdgSurface(x, s)
       \/ \E t \in ToplevelIds : GetToplevel(x, t) \/ GetPopup(x, t)
       \/ DestroyXdgSurface(x)
  \/ \E t \in ToplevelIds :
       \/ DestroyToplevel(t)
       \/ AskFullscreen(t)
       \/ AskUnfullscreen(t)
       \/ AskMaximize(t)
       \/ AskMinimize(t)
       \/ AskGrab(t)

Update ==
  \/ Drain
  \/ HandleMinimize
  \/ HandleGrab
  \/ HandleMaximize
  \/ \E fullscreen \in BOOLEAN : HandleFullscreen(fullscreen)
  \/ SendConfigure
  \/ FinishConfigure
  \/ SyncDisplays

Next == ClientRequest \/ Update \/ Receive

Spec == Init /\ [][Next]_vars

\* The game calls update() on every rendered frame; the loop flushes and the
\* client reads.
FairSpec == Spec /\ WF_vars(Update) /\ WF_vars(Receive)

----------------------------------------------------------------------------
(* Properties.                                                             *)

\* Every variable holds a value of its type.
TypeOK ==
  /\ objects \in [Ids -> BOOLEAN]
  /\ state \in [SurfaceIds -> [role : {"none", "toplevel", "popup"},
                               xdg : XdgIds \cup {NoId}]]
  /\ surfaceOf \in [XdgIds -> SurfaceIds \cup {NoId}]
  /\ toplevel \in [ToplevelIds -> [surface : SurfaceIds \cup {NoId},
                                    xdg : XdgIds \cup {NoId},
                                    fullscreen : BOOLEAN]]
  /\ requests \in Seq(Request)
  /\ displays \in [SurfaceIds -> {"none", "visible", "hidden"}]
  /\ game \in Game
  /\ out \in Seq(Event)
  /\ wants \in [ToplevelIds -> Shapes]
  /\ latched \in [ToplevelIds -> Shapes]
  /\ told \in [ToplevelIds -> Shapes]

\* A surface carries one window at most, so that no two are drawn on one
\* plane, and the registry finds that window, not another that came to its
\* xdg_surface's id.
OneWindowPerSurface ==
  \A s \in SurfaceIds :
    /\ Cardinality(ToplevelsOn(s)) <= 1
    /\ ToplevelsOn(s) # {} => ToplevelsFor(s) = ToplevelsOn(s)

\* Once all is answered and read, a window that asked for a shape was last
\* configured to have the one it asked for last: what former windows of its
\* ids asked comes before, a resize does not undo it, and a configure that
\* was due to a former window is followed by its own.
QuietIsAsAsked ==
  requests = <<>> /\ game = Idle /\ out = <<>> =>
    \A t \in LiveToplevels : wants[t] # "new" => told[t] = wants[t]

\* A window that asks for fullscreen or for its end gets a configure that
\* says so, or is destroyed or asks for something else.
AsksAreAnswered ==
  \A t \in ToplevelIds :
    \A shape \in {"window", "fullscreen"} :
      wants[t] = shape ~> told[t] = shape \/ wants[t] # shape

\* Displays follow windows: every window gets one, and the display of a
\* window that died goes.
DisplaysFollow ==
  \A s \in SurfaceIds :
    /\ ToplevelsOn(s) # {} ~> displays[s] # "none" \/ ToplevelsOn(s) = {}
    /\ ToplevelsOn(s) = {} ~> displays[s] = "none" \/ ToplevelsOn(s) # {}
=============================================================================
