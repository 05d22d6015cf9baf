-------------------------- MODULE ToplevelsProofs --------------------------
(***************************************************************************)
(* Safety of windows, for every set of ids and every bound: types, one     *)
(* window per surface, and the shape a window ends up with once all its    *)
(* requests are answered.                                                  *)
(***************************************************************************)
EXTENDS Toplevels, FiniteSetTheorems, TLAPS

----------------------------------------------------------------------------
(* Roles: what an xdg_surface and a window hang on.                        *)

\* An xdg_surface belongs to a live surface.
XdgOnSurface ==
  \A x \in XdgIds :
    /\ objects[x] => surfaceOf[x] \in SurfaceIds /\ objects[surfaceOf[x]]
    /\ ~objects[x] => surfaceOf[x] = NoId

\* A window is the role of its surface, by a live xdg_surface.
WindowIsRole ==
  \A t \in LiveToplevels :
    LET x == toplevel[t].xdg
        s == toplevel[t].surface
    IN /\ objects[t]
       /\ x \in XdgIds /\ objects[x] /\ surfaceOf[x] = s
       /\ s \in SurfaceIds /\ objects[s]
       /\ state[s].role = "toplevel" /\ state[s].xdg = x

OneEach ==
  \A t, u \in LiveToplevels : toplevel[t].surface = toplevel[u].surface => t = u

\* The game thread configures toplevels and finishes on xdg_surfaces.
GameNames ==
  /\ game.at = "configuring" => game.id \in ToplevelIds
  /\ game.at = "finishing" => game.id \in XdgIds

RolesInv == TypeOK /\ XdgOnSurface /\ WindowIsRole /\ OneEach /\ GameNames

----------------------------------------------------------------------------
(* Shapes: from what the client asked for to what it is told.              *)

ShapeKinds == {"fullscreen", "unfullscreen"}
KindOf(shape) == IF shape = "fullscreen" THEN "fullscreen" ELSE "unfullscreen"
AskedFor(kind) == IF kind = "fullscreen" THEN "fullscreen" ELSE "window"

\* Queue q asks for a shape of s; it does so last at k.
AsksShape(q, k, s) == q[k].kind \in ShapeKinds /\ q[k].surface = s
AsksNone(q, s) == \A k \in DOMAIN q : ~AsksShape(q, k, s)
AsksLast(q, k, s) ==
  /\ k \in DOMAIN q
  /\ AsksShape(q, k, s)
  /\ \A j \in DOMAIN q : j > k => ~AsksShape(q, j, s)

\* The last request for a window's shape is what the client wants, and once
\* none is left the server has it.
LastAskIsWanted(t) ==
  LET s == toplevel[t].surface IN
  wants[t] # "new" =>
    /\ \A k \in Nat : AsksLast(requests, k, s) => requests[k].kind = KindOf(wants[t])
    /\ AsksNone(requests, s) =>
         \A k \in Nat : AsksLast(game.drained, k, s) =>
           game.drained[k].kind = KindOf(wants[t])
    /\ AsksNone(requests, s) /\ AsksNone(game.drained, s) =>
         ShapeOf(toplevel[t].fullscreen) = wants[t]

\* A request for s finds t: t is on s, or s is a surface whose former role
\* came by an xdg_surface that had the id of t's.
Finds(s, t) == state[s].role = "toplevel" /\ state[s].xdg = toplevel[t].xdg
AsksFor(q, k, t) == q[k].kind \in ShapeKinds /\ Finds(q[k].surface, t)

\* What former windows asked reaches a window before what it asks itself.
FormerFirst(t) ==
  LET s == toplevel[t].surface IN
  wants[t] # "new" =>
    /\ \A j \in DOMAIN requests : AsksFor(requests, j, t) =>
         \E k \in DOMAIN requests : k >= j /\ AsksShape(requests, k, s)
    /\ \A j \in DOMAIN game.drained : AsksFor(game.drained, j, t) =>
         \/ ~AsksNone(requests, s)
         \/ \E k \in DOMAIN game.drained : k >= j /\ AsksShape(game.drained, k, s)

Configuring(t) == game.at = "configuring" /\ game.id = t
Configures(k, t) == out[k].type = "configure" /\ out[k].id = t

\* The game thread is about to send what the server has, or the window has
\* asked for more.
SendsWhatIsStored(t) ==
  Configuring(t) /\ wants[t] # "new" /\ AsksNone(requests, toplevel[t].surface) =>
    game.fullscreen = toplevel[t].fullscreen

\* A window whose requests are answered has been told, or is about to be.
Told(t) ==
  \/ Configuring(t)
  \/ \E k \in DOMAIN out : Configures(k, t)
  \/ latched[t] # "new"
  \/ told[t] # "new"
AnsweredIsTold(t) ==
  LET s == toplevel[t].surface IN
  wants[t] # "new" /\ AsksNone(requests, s) /\ AsksNone(game.drained, s) => Told(t)

\* A configure on its way is for a live window, or its delete_id follows.
ConfiguresLive ==
  /\ \A k \in DOMAIN out :
       out[k].type = "configure" => out[k].id \in ToplevelIds /\ out[k].shape # "new"
  /\ \A t \in ToplevelIds \ LiveToplevels : \A k \in DOMAIN out :
       Configures(k, t) => \E j \in DOMAIN out : j > k /\ out[j] = DeleteId(t)

DeletesDead == \A i \in Ids : DeleteId(i) \in Range(out) => ~objects[i]

\* The client knows nothing of a window before it makes one.
DeadAreNew ==
  \A t \in ToplevelIds \ LiveToplevels :
    latched[t] = "new" /\ told[t] = "new" /\ wants[t] = "new"

\* The last configure sent to a window says what the server has.
LastIsStored(t) ==
  LET shape == ShapeOf(toplevel[t].fullscreen) IN
  \/ Configuring(t)
  \/ /\ \A k \in DOMAIN out :
          Configures(k, t) /\ (\A j \in DOMAIN out : j > k => ~Configures(j, t)) =>
            out[k].shape = shape
     /\ (\A k \in DOMAIN out : ~Configures(k, t)) =>
          \/ latched[t] = shape
          \/ /\ latched[t] = "new"
             /\ told[t] = shape \/ (told[t] = "new" /\ ~toplevel[t].fullscreen)

Finishing(x) == game.at = "finishing" /\ game.id = x
Finishes(j, x) == out[j].type = "configured" /\ out[j].id = x

\* The event that ends a configure follows it.
EndFollows(t) ==
  LET x == toplevel[t].xdg IN
  /\ \A k \in DOMAIN out : Configures(k, t) =>
       Finishing(x) \/ \E j \in DOMAIN out : j > k /\ Finishes(j, x)
  /\ latched[t] # "new" => Finishing(x) \/ \E j \in DOMAIN out : Finishes(j, x)

ShapeInv ==
  /\ ConfiguresLive
  /\ DeletesDead
  /\ DeadAreNew
  /\ \A t \in LiveToplevels :
       /\ LastAskIsWanted(t) /\ FormerFirst(t) /\ SendsWhatIsStored(t) /\ AnsweredIsTold(t)
       /\ LastIsStored(t) /\ EndFollows(t)

----------------------------------------------------------------------------
(* Types.                                                                  *)

\* The ids and the fields a window's state holds.
LEMMA WindowFields ==
  ASSUME TypeOK, NEW t \in ToplevelIds
  PROVE  /\ toplevel[t].surface \in SurfaceIds \cup {NoId}
         /\ toplevel[t].xdg \in XdgIds \cup {NoId}
         /\ toplevel[t].fullscreen \in BOOLEAN
         /\ toplevel[t].xdg # NoId => t \in LiveToplevels
         /\ t \notin LiveToplevels => toplevel[t].xdg = NoId
BY DEF TypeOK, LiveToplevels, NoToplevel

\* What the game thread holds while it handles requests.
LEMMA GameFields ==
  ASSUME TypeOK
  PROVE  /\ game.at \in {"idle", "handling", "configuring", "finishing"}
         /\ game.drained \in Seq(Request)
         /\ game.id \in Ids \cup {NoId}
         /\ game.fullscreen \in BOOLEAN
         /\ game = [at |-> game.at, drained |-> game.drained, id |-> game.id,
                    fullscreen |-> game.fullscreen]
BY DEF TypeOK, Game

\* What handling the first drained request makes of it.
LEMMA HandledFields ==
  ASSUME TypeOK, game.drained # <<>>
  PROVE  /\ Head(game.drained) \in Request
         /\ Asked \in SurfaceIds
         /\ Tail(game.drained) \in Seq(Request)
         /\ Handled = [at |-> game.at, drained |-> Tail(game.drained), id |-> game.id,
                       fullscreen |-> game.fullscreen]
         /\ Handled \in Game
<1>1. /\ Head(game.drained) \in Request
      /\ Tail(game.drained) \in Seq(Request)
  BY GameFields
<1>2. Asked \in SurfaceIds
  BY <1>1 DEF Asked, Request
<1>3. Handled = [at |-> game.at, drained |-> Tail(game.drained), id |-> game.id,
                 fullscreen |-> game.fullscreen]
  BY GameFields DEF Handled
<1>4. Handled \in Game
  BY <1>1, <1>3, GameFields DEF Game
<1> QED BY <1>1, <1>2, <1>3, <1>4

\* Events are well typed.
LEMMA EventTypes ==
  /\ \A i \in Ids : DeleteId(i) \in Event
  /\ \A t \in ToplevelIds : \A f \in BOOLEAN : Configure(t, ShapeOf(f)) \in Event
  /\ \A x \in XdgIds : Configured(x) \in Event
BY DEF DeleteId, Configure, Configured, Event, Shapes, ShapeOf, Ids

LEMMA TypeStep == RolesInv /\ [Next]_vars => TypeOK' /\ GameNames'
<1> SUFFICES ASSUME RolesInv, [Next]_vars
             PROVE  TypeOK' /\ GameNames'
  OBVIOUS
<1> USE DEF RolesInv
<1>1. ASSUME NEW s \in SurfaceIds, CreateSurface(s)
      PROVE  TypeOK' /\ GameNames'
  BY <1>1 DEF CreateSurface, Allocate, TypeOK, GameNames, clientVars
<1>2. ASSUME NEW s \in SurfaceIds, DestroySurface(s)
      PROVE  TypeOK' /\ GameNames'
  <2>1. s \in Ids
    BY DEF Ids
  <2>2. out' \in Seq(Event)
    BY <1>2, <2>1, EventTypes DEF DestroySurface, Destroy, TypeOK
  <2> QED BY <1>2, <2>2 DEF DestroySurface, Destroy, TypeOK, GameNames, clientVars, NoState
<1>3. ASSUME NEW x \in XdgIds, NEW s \in SurfaceIds, GetXdgSurface(x, s)
      PROVE  TypeOK' /\ GameNames'
  BY <1>3 DEF GetXdgSurface, Allocate, TypeOK, GameNames, clientVars
<1>4. ASSUME NEW x \in XdgIds, DestroyXdgSurface(x)
      PROVE  TypeOK' /\ GameNames'
  <2>1. x \in Ids
    BY DEF Ids
  <2>2. out' \in Seq(Event)
    BY <1>4, <2>1, EventTypes DEF DestroyXdgSurface, Destroy, TypeOK
  <2> QED BY <1>4, <2>2 DEF DestroyXdgSurface, Destroy, TypeOK, GameNames, clientVars
<1>5. ASSUME NEW x \in XdgIds, NEW t \in ToplevelIds, NEW role \in {"toplevel", "popup"},
             TakeRole(x, t, role),
             toplevel' = [toplevel EXCEPT
               ![t] = [surface |-> surfaceOf[x], xdg |-> x, fullscreen |-> FALSE]]
             \/ UNCHANGED toplevel
      PROVE  TypeOK' /\ GameNames'
  <2>1. toplevel' \in [ToplevelIds -> [surface : SurfaceIds \cup {NoId},
                                       xdg : XdgIds \cup {NoId}, fullscreen : BOOLEAN]]
    <3>1. surfaceOf[x] \in SurfaceIds \cup {NoId}
      BY DEF TypeOK
    <3>2. CASE UNCHANGED toplevel
      BY <3>2 DEF TypeOK
    <3>3. CASE toplevel' = [toplevel EXCEPT
                 ![t] = [surface |-> surfaceOf[x], xdg |-> x, fullscreen |-> FALSE]]
      BY <3>1, <3>3 DEF TypeOK
    <3> QED BY <1>5, <3>2, <3>3
  <2>2. state' \in [SurfaceIds -> [role : {"none", "toplevel", "popup"},
                                   xdg : XdgIds \cup {NoId}]]
    BY <1>5 DEF TypeOK, TakeRole
  <2>3. objects' \in [Ids -> BOOLEAN]
    BY <1>5 DEF TypeOK, TakeRole, Allocate
  <2> QED BY <1>5, <2>1, <2>2, <2>3 DEF TakeRole, TypeOK, GameNames, clientVars
<1>6. ASSUME NEW t \in ToplevelIds, DestroyToplevel(t)
      PROVE  TypeOK' /\ GameNames'
  <2>1. t \in Ids
    BY DEF Ids
  <2>2. out' \in Seq(Event)
    BY <1>6, <2>1, EventTypes DEF DestroyToplevel, Destroy, TypeOK
  <2>3. toplevel' \in [ToplevelIds -> [surface : SurfaceIds \cup {NoId},
                                       xdg : XdgIds \cup {NoId}, fullscreen : BOOLEAN]]
    BY <1>6 DEF DestroyToplevel, TypeOK, NoToplevel
  <2> QED BY <1>6, <2>2, <2>3 DEF DestroyToplevel, Destroy, TypeOK, GameNames, Shapes
<1>7. ASSUME NEW t \in ToplevelIds, NEW kind \in RequestKinds, Push(t, kind),
             wants' \in [ToplevelIds -> Shapes]
      PROVE  TypeOK' /\ GameNames'
  <2>1. toplevel[t].surface \in SurfaceIds
    BY <1>7 DEF Push, WindowIsRole
  <2>2. [kind |-> kind, surface |-> toplevel[t].surface] \in Request
    BY <2>1 DEF Request
  <2>3. requests' \in Seq(Request)
    BY <1>7, <2>2 DEF Push, TypeOK
  <2> QED BY <1>7, <2>3 DEF Push, TypeOK, GameNames, loopVars
<1>8. ASSUME Drain
      PROVE  TypeOK' /\ GameNames'
  <2>1. /\ game' = [at |-> "handling", drained |-> requests, id |-> NoId,
                    fullscreen |-> FALSE]
        /\ requests' = <<>>
    BY <1>8 DEF Drain, Idle
  <2>2. game' \in Game /\ requests' \in Seq(Request)
    BY <2>1 DEF TypeOK, Game
  <2> QED BY <1>8, <2>1, <2>2 DEF Drain, TypeOK, GameNames, loopVars, clientVars
<1>9. ASSUME HandleMinimize
      PROVE  TypeOK' /\ GameNames'
  <2>1. game' = Handled /\ game.drained # <<>> /\ game.at = "handling"
    BY <1>9 DEF HandleMinimize, Handling
  <2>2. Asked \in SurfaceIds /\ game' \in Game /\ game'.at = "handling"
    BY <2>1, HandledFields
  <2>3. displays' \in [SurfaceIds -> {"none", "visible", "hidden"}]
    BY <1>9, <2>2 DEF HandleMinimize, TypeOK
  <2> QED BY <1>9, <2>2, <2>3 DEF HandleMinimize, TypeOK, GameNames, loopVars, clientVars
<1>10. ASSUME HandleGrab
       PROVE  TypeOK' /\ GameNames'
  <2>1. game' = Handled /\ game.drained # <<>> /\ game.at = "handling"
    BY <1>10 DEF HandleGrab, Handling
  <2>2. game' \in Game /\ game'.at = "handling"
    BY <2>1, HandledFields
  <2> QED BY <1>10, <2>2 DEF HandleGrab, TypeOK, GameNames, loopVars, clientVars
<1>11. ASSUME HandleMaximize
       PROVE  TypeOK' /\ GameNames'
  <2>1. game.drained # <<>> /\ game.at = "handling"
    BY <1>11 DEF HandleMaximize, Handling
  <2>2. /\ game' \in Game
        /\ \/ game'.at = "handling"
           \/ game'.at = "configuring" /\ game'.id \in ToplevelIds
    <3>1. CASE game' = Handled
      BY <2>1, <3>1, HandledFields
    <3>2. ASSUME NEW t \in ToplevelsFor(Asked),
                 game' = [Handled EXCEPT !.at = "configuring", !.id = t,
                                         !.fullscreen = toplevel[t].fullscreen]
          PROVE  game' \in Game /\ game'.at = "configuring" /\ game'.id \in ToplevelIds
      <4>1. t \in ToplevelIds /\ toplevel[t].fullscreen \in BOOLEAN
        BY WindowFields DEF ToplevelsFor, LiveToplevels
      <4>2. game' = [at |-> "configuring", drained |-> Tail(game.drained), id |-> t,
                     fullscreen |-> toplevel[t].fullscreen]
        BY <2>1, <3>2, GameFields DEF Handled
      <4> QED BY <2>1, <4>1, <4>2, HandledFields DEF Game, Ids
    <3> QED BY <1>11, <3>1, <3>2 DEF HandleMaximize
  <2> QED BY <1>11, <2>2 DEF HandleMaximize, TypeOK, GameNames, loopVars, clientVars
<1>12. ASSUME NEW fullscreen \in BOOLEAN, HandleFullscreen(fullscreen)
       PROVE  TypeOK' /\ GameNames'
  <2>1. game.drained # <<>> /\ game.at = "handling"
    BY <1>12 DEF HandleFullscreen, Handling
  <2>2. CASE game' = Handled /\ UNCHANGED toplevel
    <3>1. game' \in Game /\ game'.at = "handling"
      BY <2>1, <2>2, HandledFields
    <3> QED BY <1>12, <2>2, <3>1 DEF HandleFullscreen, TypeOK, GameNames, clientVars
  <2>3. ASSUME NEW t \in ToplevelsFor(Asked),
               game' = [Handled EXCEPT !.at = "configuring", !.id = t,
                                       !.fullscreen = fullscreen],
               toplevel' = [toplevel EXCEPT ![t].fullscreen = fullscreen]
        PROVE  TypeOK' /\ GameNames'
    <3>1. t \in ToplevelIds
      BY DEF ToplevelsFor, LiveToplevels
    <3>2. game' = [at |-> "configuring", drained |-> Tail(game.drained), id |-> t,
                   fullscreen |-> fullscreen]
      BY <2>1, <2>3, GameFields DEF Handled
    <3>3. game' \in Game
      BY <2>1, <3>1, <3>2, HandledFields DEF Game, Ids
    <3>4. toplevel' \in [ToplevelIds -> [surface : SurfaceIds \cup {NoId},
                                         xdg : XdgIds \cup {NoId}, fullscreen : BOOLEAN]]
      BY <2>3, ZenonT(40) DEF TypeOK
    <3> QED BY <1>12, <3>1, <3>2, <3>3, <3>4
            DEF HandleFullscreen, TypeOK, GameNames, clientVars
  <2> QED BY <1>12, <2>2, <2>3 DEF HandleFullscreen
<1>13. ASSUME SendConfigure
       PROVE  TypeOK' /\ GameNames'
  <2>1. game.at = "configuring" /\ game.id \in ToplevelIds
    BY <1>13 DEF SendConfigure, GameNames
  <2>2. CASE game.id \in LiveToplevels
    <3>1. /\ out' = Append(out, Configure(game.id, ShapeOf(game.fullscreen)))
          /\ toplevel' = [toplevel EXCEPT ![game.id].fullscreen = game.fullscreen]
          /\ game' = [game EXCEPT !.at = "finishing", !.id = toplevel[game.id].xdg]
      BY <1>13, <2>2 DEF SendConfigure, Send
    <3>2. toplevel[game.id].xdg \in XdgIds
      BY <2>2 DEF WindowIsRole
    <3>3. game' = [at |-> "finishing", drained |-> game.drained,
                   id |-> toplevel[game.id].xdg, fullscreen |-> game.fullscreen]
      BY <3>1, GameFields
    <3>4. game' \in Game
      BY <3>2, <3>3, GameFields DEF Game, Ids
    <3>5. out' \in Seq(Event)
      BY <2>1, <3>1, EventTypes, GameFields DEF TypeOK
    <3>6. toplevel' \in [ToplevelIds -> [surface : SurfaceIds \cup {NoId},
                                         xdg : XdgIds \cup {NoId}, fullscreen : BOOLEAN]]
      BY <3>1, GameFields, ZenonT(40) DEF TypeOK
    <3> QED BY <1>13, <3>2, <3>3, <3>4, <3>5, <3>6
            DEF SendConfigure, TypeOK, GameNames, clientVars
  <2>3. CASE game.id \notin LiveToplevels
    <3>1. game' = [at |-> "handling", drained |-> game.drained, id |-> NoId,
                   fullscreen |-> game.fullscreen]
      BY <1>13, <2>3, GameFields DEF SendConfigure
    <3>2. game' \in Game
      BY <3>1, GameFields DEF Game
    <3> QED BY <1>13, <2>3, <3>1, <3>2 DEF SendConfigure, TypeOK, GameNames, clientVars
  <2> QED BY <2>2, <2>3
<1>14. ASSUME FinishConfigure
       PROVE  TypeOK' /\ GameNames'
  <2>1. game' = [at |-> "handling", drained |-> game.drained, id |-> NoId,
                 fullscreen |-> game.fullscreen]
    BY <1>14, GameFields DEF FinishConfigure
  <2>2. game' \in Game
    BY <2>1, GameFields DEF Game
  <2>3. out' \in Seq(Event)
    BY <1>14, EventTypes DEF FinishConfigure, Send, GameNames, TypeOK
  <2> QED BY <1>14, <2>1, <2>2, <2>3 DEF FinishConfigure, TypeOK, GameNames, loopVars, clientVars
<1>15. ASSUME SyncDisplays
       PROVE  TypeOK' /\ GameNames'
  <2>1. game' = [at |-> "idle", drained |-> <<>>, id |-> NoId, fullscreen |-> FALSE]
    BY <1>15 DEF SyncDisplays, Idle
  <2>2. game' \in Game
    BY <2>1 DEF Game
  <2>3. displays' \in [SurfaceIds -> {"none", "visible", "hidden"}]
    BY <1>15 DEF SyncDisplays, TypeOK
  <2> QED BY <1>15, <2>1, <2>2, <2>3 DEF SyncDisplays, TypeOK, GameNames, loopVars, clientVars
<1>16. ASSUME Receive
       PROVE  TypeOK' /\ GameNames'
  <2>1. Head(out) \in Event /\ out' \in Seq(Event)
    BY <1>16 DEF Receive, TypeOK
  <2>2. Head(out).shape \in Shapes
    BY <2>1 DEF Event
  <2>3. latched' \in [ToplevelIds -> Shapes] /\ told' \in [ToplevelIds -> Shapes]
    BY <1>16, <2>2, ZenonT(40) DEF Receive, TypeOK, Shapes
  <2> QED BY <1>16, <2>1, <2>3 DEF Receive, TypeOK, GameNames, loopVars
<1>17. CASE UNCHANGED vars
  BY <1>17 DEF vars, loopVars, clientVars, TypeOK, GameNames
<1>18. ASSUME NEW t \in ToplevelIds,
              \/ AskFullscreen(t) \/ AskUnfullscreen(t) \/ AskMaximize(t)
              \/ AskMinimize(t) \/ AskGrab(t)
       PROVE  TypeOK' /\ GameNames'
  <2>1. wants' \in [ToplevelIds -> Shapes]
    BY <1>18 DEF AskFullscreen, AskUnfullscreen, AskMaximize, AskMinimize, AskGrab, TypeOK,
                 Shapes
  <2>2. \E kind \in RequestKinds : Push(t, kind)
    BY <1>18 DEF AskFullscreen, AskUnfullscreen, AskMaximize, AskMinimize, AskGrab,
                 RequestKinds
  <2> QED BY <1>7, <2>1, <2>2
<1>19. ASSUME NEW x \in XdgIds, NEW t \in ToplevelIds, GetToplevel(x, t) \/ GetPopup(x, t)
       PROVE  TypeOK' /\ GameNames'
  BY <1>5, <1>19 DEF GetToplevel, GetPopup
<1> QED
  BY <1>1, <1>2, <1>3, <1>4, <1>6, <1>8, <1>9, <1>10, <1>11, <1>12, <1>13, <1>14,
     <1>15, <1>16, <1>17, <1>18, <1>19
     DEF Next, ClientRequest, Update


----------------------------------------------------------------------------
(* Steps that leave windows where they are.                                *)

KeepsWindows ==
  /\ UNCHANGED <<objects, state, surfaceOf>>
  /\ \A t \in ToplevelIds :
       /\ toplevel'[t] = NoToplevel <=> toplevel[t] = NoToplevel
       /\ toplevel'[t].surface = toplevel[t].surface
       /\ toplevel'[t].xdg = toplevel[t].xdg

\* Such a step leaves what depends on windows alone.
LEMMA KeptWindows ==
  ASSUME KeepsWindows
  PROVE  /\ LiveToplevels' = LiveToplevels
         /\ \A s : ToplevelsOn(s)' = ToplevelsOn(s)
         /\ XdgOnSurface /\ WindowIsRole /\ OneEach =>
              XdgOnSurface' /\ WindowIsRole' /\ OneEach'
<1>1. LiveToplevels' = LiveToplevels
  BY DEF KeepsWindows, LiveToplevels
<1>2. \A t \in LiveToplevels : t \in ToplevelIds
  BY DEF LiveToplevels
<1>3. \A s : ToplevelsOn(s)' = ToplevelsOn(s)
  BY <1>1, <1>2 DEF KeepsWindows, ToplevelsOn
<1>4. XdgOnSurface => XdgOnSurface'
  BY DEF KeepsWindows, XdgOnSurface
<1>5. WindowIsRole => WindowIsRole'
  BY <1>1, <1>2 DEF KeepsWindows, WindowIsRole
<1>6. OneEach => OneEach'
  BY <1>1, <1>2 DEF KeepsWindows, OneEach
<1> QED BY <1>1, <1>3, <1>4, <1>5, <1>6

\* The game and the client's socket make and destroy no window, and neither
\* does a request for the game.
LEMMA WindowsStay ==
  ASSUME RolesInv,
         \/ \E t \in ToplevelIds, kind \in RequestKinds : Push(t, kind)
         \/ Update
         \/ Receive
         \/ UNCHANGED vars
  PROVE  KeepsWindows
<1>1. ASSUME NEW t \in LiveToplevels, NEW f,
             toplevel' = [toplevel EXCEPT ![t].fullscreen = f],
             UNCHANGED <<objects, state, surfaceOf>>
      PROVE  KeepsWindows
  <2>1. t \in ToplevelIds /\ toplevel[t].xdg \in XdgIds
    BY DEF RolesInv, WindowIsRole, LiveToplevels
  <2>2. \A u \in ToplevelIds \ {t} : toplevel'[u] = toplevel[u]
    BY <1>1 DEF RolesInv, TypeOK
  <2>3. /\ toplevel'[t].surface = toplevel[t].surface
        /\ toplevel'[t].xdg = toplevel[t].xdg
    BY <1>1, <2>1 DEF RolesInv, TypeOK
  <2>4. toplevel[t] # NoToplevel /\ toplevel'[t] # NoToplevel
    <3>1. toplevel[t].xdg # NoToplevel.xdg
      BY <2>1, IdsAssumption DEF NoToplevel, Ids
    <3> QED BY <2>3, <3>1
  <2> QED BY <1>1, <2>2, <2>3, <2>4 DEF KeepsWindows
<1>2. ASSUME UNCHANGED loopVars
      PROVE  KeepsWindows
  BY <1>2 DEF KeepsWindows, loopVars
<1>3. ASSUME NEW fullscreen, HandleFullscreen(fullscreen)
      PROVE  KeepsWindows
  <2>1. CASE UNCHANGED toplevel
    BY <1>2, <1>3, <2>1 DEF HandleFullscreen, loopVars
  <2> QED BY <1>1, <1>3, <2>1 DEF HandleFullscreen, ToplevelsFor
<1>4. ASSUME SendConfigure
      PROVE  KeepsWindows
  <2>1. CASE UNCHANGED toplevel
    BY <1>2, <1>4, <2>1 DEF SendConfigure, loopVars
  <2> QED BY <1>1, <1>4, <2>1 DEF SendConfigure
<1> QED
  BY <1>2, <1>3, <1>4
     DEF Update, Push, Receive, vars, Drain, HandleMinimize, HandleGrab, HandleMaximize,
         FinishConfigure, SyncDisplays

\* The client's requests, by what they do to windows: none of the others
\* touches one.
LEMMA StepKinds ==
  ASSUME [Next]_vars
  PROVE  \/ \E s \in SurfaceIds : CreateSurface(s) \/ DestroySurface(s)
         \/ \E x \in XdgIds, s \in SurfaceIds : GetXdgSurface(x, s)
         \/ \E x \in XdgIds : DestroyXdgSurface(x)
         \/ \E x \in XdgIds, t \in ToplevelIds : GetToplevel(x, t) \/ GetPopup(x, t)
         \/ \E t \in ToplevelIds : DestroyToplevel(t)
         \/ \E t \in ToplevelIds :
              \/ AskFullscreen(t) \/ AskUnfullscreen(t)
              \/ AskMaximize(t) \/ AskMinimize(t) \/ AskGrab(t)
         \/ Update
         \/ Receive
         \/ UNCHANGED vars
BY DEF Next, ClientRequest

\* A request for the game is queued for a live window.
LEMMA AskPushes ==
  ASSUME NEW t,
         \/ AskFullscreen(t) \/ AskUnfullscreen(t)
         \/ AskMaximize(t) \/ AskMinimize(t) \/ AskGrab(t)
  PROVE  \E kind \in RequestKinds :
           /\ Push(t, kind)
           /\ wants' = IF kind \in ShapeKinds
                       THEN [wants EXCEPT ![t] = AskedFor(kind)]
                       ELSE wants
BY DEF AskFullscreen, AskUnfullscreen, AskMaximize, AskMinimize, AskGrab, RequestKinds,
       ShapeKinds, AskedFor

\* Surfaces and xdg_surfaces made or destroyed: no window hangs on them.
LEMMA SurfaceSteps ==
  ASSUME RolesInv,
         \/ \E s \in SurfaceIds : CreateSurface(s) \/ DestroySurface(s)
         \/ \E x \in XdgIds, s \in SurfaceIds : GetXdgSurface(x, s)
         \/ \E x \in XdgIds : DestroyXdgSurface(x)
  PROVE  /\ XdgOnSurface' /\ WindowIsRole' /\ OneEach'
         /\ LiveToplevels' = LiveToplevels
         /\ toplevel' = toplevel
         /\ \A t \in LiveToplevels : state'[toplevel[t].surface] = state[toplevel[t].surface]
<1> DEFINE StatesKept == \A t \in LiveToplevels :
                           state'[toplevel[t].surface] = state[toplevel[t].surface]
<1> USE DEF RolesInv
<1>1. toplevel' = toplevel /\ LiveToplevels' = LiveToplevels
  BY DEF CreateSurface, DestroySurface, GetXdgSurface, DestroyXdgSurface, LiveToplevels,
         clientVars
<1>2. OneEach'
  BY <1>1 DEF OneEach
<1>3. ASSUME NEW s \in SurfaceIds, CreateSurface(s)
      PROVE  XdgOnSurface' /\ WindowIsRole' /\ StatesKept
  <2>1. /\ \A i \in Ids \ {s} : objects'[i] = objects[i]
        /\ objects'[s] /\ s \in Ids
        /\ UNCHANGED <<state, surfaceOf>>
    BY <1>3 DEF CreateSurface, Allocate, TypeOK, Ids
  <2>2. XdgOnSurface'
    BY <2>1, IdsAssumption DEF XdgOnSurface, Ids
  <2>3. WindowIsRole'
    BY <1>1, <2>1, IdsAssumption DEF WindowIsRole, Ids, LiveToplevels
  <2> QED BY <2>1, <2>2, <2>3
<1>4. ASSUME NEW s \in SurfaceIds, DestroySurface(s)
      PROVE  XdgOnSurface' /\ WindowIsRole' /\ StatesKept
  <2>1. /\ \A i \in Ids \ {s} : objects'[i] = objects[i]
        /\ \A r \in SurfaceIds \ {s} : state'[r] = state[r]
        /\ surfaceOf' = surfaceOf
        /\ \A y \in XdgIds : surfaceOf[y] # s
    BY <1>4 DEF DestroySurface, Destroy, TypeOK
  <2>2. XdgOnSurface'
    BY <2>1, IdsAssumption DEF XdgOnSurface, Ids
  <2>3. WindowIsRole'
    BY <1>1, <2>1, IdsAssumption DEF WindowIsRole, Ids, LiveToplevels
  <2> QED BY <2>1, <2>2, <2>3 DEF WindowIsRole
<1>5. ASSUME NEW x \in XdgIds, NEW s \in SurfaceIds, GetXdgSurface(x, s)
      PROVE  XdgOnSurface' /\ WindowIsRole' /\ StatesKept
  <2>1. /\ \A i \in Ids \ {x} : objects'[i] = objects[i]
        /\ ~objects[x] /\ objects'[x] /\ x \in Ids /\ objects[s] /\ s # x
        /\ \A y \in XdgIds \ {x} : surfaceOf'[y] = surfaceOf[y]
        /\ surfaceOf'[x] = s
        /\ state' = state
    BY <1>5, IdsAssumption DEF GetXdgSurface, Allocate, TypeOK, Ids
  <2>2. XdgOnSurface'
    BY <2>1, IdsAssumption DEF XdgOnSurface, Ids
  <2>3. WindowIsRole'
    BY <1>1, <2>1, IdsAssumption DEF WindowIsRole, Ids, LiveToplevels
  <2> QED BY <2>1, <2>2, <2>3
<1>6. ASSUME NEW x \in XdgIds, DestroyXdgSurface(x)
      PROVE  XdgOnSurface' /\ WindowIsRole' /\ StatesKept
  <2>1. /\ \A i \in Ids \ {x} : objects'[i] = objects[i]
        /\ ~objects'[x] /\ x \in Ids
        /\ \A y \in XdgIds \ {x} : surfaceOf'[y] = surfaceOf[y]
        /\ surfaceOf'[x] = NoId
        /\ state' = state
        /\ \A t \in LiveToplevels : toplevel[t].xdg # x
    BY <1>6 DEF DestroyXdgSurface, Destroy, TypeOK, Ids
  <2>2. XdgOnSurface'
    BY <2>1, IdsAssumption DEF XdgOnSurface, Ids
  <2>3. WindowIsRole'
    BY <1>1, <2>1, IdsAssumption DEF WindowIsRole, Ids, LiveToplevels
  <2> QED BY <2>1, <2>2, <2>3
<1> QED BY <1>1, <1>2, <1>3, <1>4, <1>5, <1>6

\* What taking a role does: the surface had none, so no window either.
LEMMA RoleTaken ==
  ASSUME RolesInv, NEW x \in XdgIds, NEW t \in ToplevelIds,
         NEW role \in {"toplevel", "popup"}, TakeRole(x, t, role)
  PROVE  /\ surfaceOf[x] \in SurfaceIds /\ objects[surfaceOf[x]]
         /\ objects[x] /\ x # NoId
         /\ state[surfaceOf[x]].role = "none"
         /\ \A u \in LiveToplevels : toplevel[u].surface # surfaceOf[x]
         /\ t \notin LiveToplevels /\ ~objects[t]
         /\ objects'[t] /\ \A i \in Ids \ {t} : objects'[i] = objects[i]
         /\ \A i \in XdgIds \cup SurfaceIds : objects'[i] = objects[i]
         /\ state'[surfaceOf[x]] = [role |-> role, xdg |-> x]
         /\ \A s \in SurfaceIds \ {surfaceOf[x]} : state'[s] = state[s]
         /\ surfaceOf' = surfaceOf
<1> USE DEF RolesInv
<1>1. /\ surfaceOf[x] \in SurfaceIds /\ objects[surfaceOf[x]]
      /\ objects[x] /\ x # NoId
      /\ state[surfaceOf[x]].role = "none"
  BY IdsAssumption DEF TakeRole, XdgOnSurface, Ids
<1>2. \A u \in LiveToplevels : toplevel[u].surface # surfaceOf[x]
  BY <1>1 DEF WindowIsRole
<1>3. t \notin LiveToplevels /\ ~objects[t]
  BY DEF TakeRole, Allocate, WindowIsRole
<1>4. /\ objects'[t] /\ \A i \in Ids \ {t} : objects'[i] = objects[i]
      /\ \A i \in XdgIds \cup SurfaceIds : objects'[i] = objects[i]
  BY IdsAssumption, ZenonT(40) DEF TakeRole, Allocate, TypeOK, Ids
<1>5. /\ state'[surfaceOf[x]] = [role |-> role, xdg |-> x]
      /\ \A s \in SurfaceIds \ {surfaceOf[x]} : state'[s] = state[s]
      /\ surfaceOf' = surfaceOf
  BY <1>1 DEF TakeRole, TypeOK
<1> QED BY <1>1, <1>2, <1>3, <1>4, <1>5

\* A new window, alone on its surface.
LEMMA WindowMade ==
  ASSUME RolesInv, NEW x \in XdgIds, NEW t \in ToplevelIds, GetToplevel(x, t)
  PROVE  /\ t \notin LiveToplevels
         /\ LiveToplevels' = LiveToplevels \cup {t}
         /\ toplevel'[t] = [surface |-> surfaceOf[x], xdg |-> x, fullscreen |-> FALSE]
         /\ \A u \in LiveToplevels : toplevel'[u] = toplevel[u]
         /\ XdgOnSurface' /\ WindowIsRole' /\ OneEach'
<1> USE DEF RolesInv
<1>1. TakeRole(x, t, "toplevel")
  BY DEF GetToplevel
<1>role. /\ surfaceOf[x] \in SurfaceIds /\ objects[surfaceOf[x]]
         /\ objects[x] /\ x # NoId
         /\ state[surfaceOf[x]].role = "none"
         /\ \A u \in LiveToplevels : toplevel[u].surface # surfaceOf[x]
         /\ t \notin LiveToplevels /\ ~objects[t]
         /\ objects'[t] /\ \A i \in Ids \ {t} : objects'[i] = objects[i]
         /\ \A i \in XdgIds \cup SurfaceIds : objects'[i] = objects[i]
         /\ state'[surfaceOf[x]] = [role |-> "toplevel", xdg |-> x]
         /\ \A s \in SurfaceIds \ {surfaceOf[x]} : state'[s] = state[s]
         /\ surfaceOf' = surfaceOf
  BY <1>1, RoleTaken
<1>2. /\ toplevel'[t] = [surface |-> surfaceOf[x], xdg |-> x, fullscreen |-> FALSE]
      /\ \A u \in ToplevelIds \ {t} : toplevel'[u] = toplevel[u]
  BY DEF GetToplevel, TypeOK
<1>3. toplevel'[t] # NoToplevel
  <2>1. toplevel'[t].xdg # NoToplevel.xdg
    BY <1>1, <1>2, <1>role DEF NoToplevel
  <2> QED BY <2>1
<1>4. t \notin LiveToplevels /\ LiveToplevels' = LiveToplevels \cup {t}
  BY <1>1, <1>2, <1>3, <1>role DEF LiveToplevels
<1>5. XdgOnSurface'
  BY <1>1, <1>role DEF XdgOnSurface
<1>6. WindowIsRole'
  <2> SUFFICES ASSUME NEW u \in LiveToplevels'
               PROVE  /\ objects'[u]
                      /\ toplevel'[u].xdg \in XdgIds /\ objects'[toplevel'[u].xdg]
                      /\ surfaceOf'[toplevel'[u].xdg] = toplevel'[u].surface
                      /\ toplevel'[u].surface \in SurfaceIds
                      /\ objects'[toplevel'[u].surface]
                      /\ state'[toplevel'[u].surface].role = "toplevel"
                      /\ state'[toplevel'[u].surface].xdg = toplevel'[u].xdg
    BY DEF WindowIsRole
  <2>1. CASE u = t
    <3>1. /\ toplevel'[u].xdg = x /\ toplevel'[u].surface = surfaceOf[x]
          /\ state'[surfaceOf[x]].role = "toplevel" /\ state'[surfaceOf[x]].xdg = x
      BY <1>2, <2>1, <1>role
    <3>2. objects'[x] /\ objects'[surfaceOf[x]]
      BY <1>role
    <3> QED BY <2>1, <3>1, <3>2, <1>role
  <2>2. CASE u # t
    <3>1. u \in LiveToplevels /\ u \in ToplevelIds /\ toplevel'[u] = toplevel[u]
      BY <1>2, <1>4, <2>2 DEF LiveToplevels
    <3> QED BY <1>1, <2>2, <3>1, <1>role DEF WindowIsRole, Ids
  <2> QED BY <2>1, <2>2
<1>7. OneEach'
  BY <1>1, <1>2, <1>4, <1>role DEF OneEach, LiveToplevels
<1> QED BY <1>2, <1>4, <1>5, <1>6, <1>7 DEF LiveToplevels

\* A popup leaves windows alone.
LEMMA PopupMade ==
  ASSUME RolesInv, NEW x \in XdgIds, NEW t \in ToplevelIds, GetPopup(x, t)
  PROVE  /\ LiveToplevels' = LiveToplevels /\ toplevel' = toplevel
         /\ XdgOnSurface' /\ WindowIsRole' /\ OneEach'
<1> USE DEF RolesInv
<1>1. TakeRole(x, t, "popup") /\ toplevel' = toplevel
  BY DEF GetPopup
<1>role. /\ surfaceOf[x] \in SurfaceIds /\ objects[surfaceOf[x]]
         /\ objects[x] /\ x # NoId
         /\ state[surfaceOf[x]].role = "none"
         /\ \A u \in LiveToplevels : toplevel[u].surface # surfaceOf[x]
         /\ t \notin LiveToplevels /\ ~objects[t]
         /\ objects'[t] /\ \A i \in Ids \ {t} : objects'[i] = objects[i]
         /\ \A i \in XdgIds \cup SurfaceIds : objects'[i] = objects[i]
         /\ state'[surfaceOf[x]] = [role |-> "popup", xdg |-> x]
         /\ \A s \in SurfaceIds \ {surfaceOf[x]} : state'[s] = state[s]
         /\ surfaceOf' = surfaceOf
  BY <1>1, RoleTaken
<1>2. LiveToplevels' = LiveToplevels
  BY <1>1 DEF LiveToplevels
<1>3. XdgOnSurface'
  BY <1>1, <1>role DEF XdgOnSurface
<1>4. WindowIsRole'
  BY <1>1, <1>2, <1>role DEF WindowIsRole, Ids, LiveToplevels
<1>5. OneEach'
  BY <1>1, <1>2 DEF OneEach
<1> QED BY <1>1, <1>2, <1>3, <1>4, <1>5

\* A window that goes leaves the others.
LEMMA WindowGone ==
  ASSUME RolesInv, NEW t \in ToplevelIds, DestroyToplevel(t)
  PROVE  /\ LiveToplevels' = LiveToplevels \ {t}
         /\ \A u \in ToplevelIds \ {t} : toplevel'[u] = toplevel[u]
         /\ XdgOnSurface' /\ WindowIsRole' /\ OneEach'
<1> USE DEF RolesInv
<1>1. /\ \A u \in ToplevelIds \ {t} : toplevel'[u] = toplevel[u]
      /\ toplevel'[t] = NoToplevel
      /\ \A i \in Ids \ {t} : objects'[i] = objects[i]
      /\ UNCHANGED <<state, surfaceOf>>
  BY DEF DestroyToplevel, Destroy, TypeOK
<1>2. LiveToplevels' = LiveToplevels \ {t}
  BY <1>1 DEF LiveToplevels
<1>3. XdgOnSurface'
  BY <1>1, IdsAssumption DEF XdgOnSurface, Ids
<1>4. WindowIsRole'
  BY <1>1, <1>2, IdsAssumption DEF WindowIsRole, Ids, LiveToplevels
<1>5. OneEach'
  BY <1>1, <1>2 DEF OneEach, LiveToplevels
<1> QED BY <1>1, <1>2, <1>3, <1>4, <1>5

LEMMA RolesStep == RolesInv /\ [Next]_vars => RolesInv'
<1> SUFFICES ASSUME RolesInv, [Next]_vars
             PROVE  RolesInv'
  OBVIOUS
<1>1. TypeOK' /\ GameNames'
  BY TypeStep
<1>2. XdgOnSurface' /\ WindowIsRole' /\ OneEach'
  <2>1. ASSUME KeepsWindows
        PROVE  XdgOnSurface' /\ WindowIsRole' /\ OneEach'
    BY <2>1, KeptWindows DEF RolesInv
  <2> QED BY <2>1, StepKinds, SurfaceSteps, WindowMade, PopupMade, WindowGone,
             WindowsStay, AskPushes
<1> QED BY <1>1, <1>2 DEF RolesInv

LEMMA RolesInit == Init => RolesInv
<1> SUFFICES ASSUME Init
             PROVE  RolesInv
  OBVIOUS
<1>1. LiveToplevels = {}
  BY DEF Init, LiveToplevels
<1>2. Idle \in Game /\ Idle.at = "idle"
  BY DEF Idle, Game
<1>3. TypeOK
  BY <1>2 DEF Init, TypeOK, NoState, NoToplevel, Shapes
<1>4. XdgOnSurface
  BY DEF Init, XdgOnSurface, Ids
<1> QED BY <1>1, <1>2, <1>3, <1>4
        DEF RolesInv, WindowIsRole, OneEach, GameNames, Init

\* Whatever is destroyed between two steps of an update, windows, roles and
\* what the registry holds refer to one another as the handlers left them.
THEOREM RolesHold == Spec => []RolesInv
BY RolesInit, RolesStep, PTL DEF Spec

\* Every variable of the window registry and of the client's windows keeps
\* its type: what the registry sends is an event for an id, never for a window
\* state that died in between.
THEOREM TypeCorrect == Spec => []TypeOK
<1>1. RolesInv => TypeOK
  BY DEF RolesInv
<1> QED BY <1>1, RolesHold, PTL

\* With one role for life per surface, a surface carries one window at most,
\* and toplevelForSurface finds that one.
THEOREM OneWindow == Spec => []OneWindowPerSurface
<1>1. RolesInv => OneWindowPerSurface
  <2> SUFFICES ASSUME RolesInv, NEW s \in SurfaceIds
               PROVE  /\ Cardinality(ToplevelsOn(s)) <= 1
                      /\ ToplevelsOn(s) # {} => ToplevelsFor(s) = ToplevelsOn(s)
    BY DEF OneWindowPerSurface
  <2> USE DEF RolesInv
  <2>1. CASE ToplevelsOn(s) = {}
    BY <2>1, FS_EmptySet
  <2>2. CASE ToplevelsOn(s) # {}
    <3>1. PICK t : t \in ToplevelsOn(s)
      BY <2>2
    <3>2. ToplevelsOn(s) = {t}
      BY <3>1 DEF ToplevelsOn, OneEach
    <3>3. Cardinality(ToplevelsOn(s)) = 1
      BY <3>2, FS_Singleton
    <3>4. ToplevelsFor(s) = {t}
      BY <3>1, <3>2 DEF ToplevelsOn, ToplevelsFor, WindowIsRole
    <3> QED BY <3>2, <3>3, <3>4
  <2> QED BY <2>1, <2>2
<1> QED BY <1>1, RolesHold, PTL

----------------------------------------------------------------------------
(* Shapes: what the client asked for.                                      *)

\* Queues of requests, read as functions.
LEMMA QueueFields ==
  ASSUME NEW q \in Seq(Request)
  PROVE  /\ Len(q) \in Nat /\ DOMAIN q = 1..Len(q)
         /\ \A r : /\ DOMAIN Append(q, r) = 1..(Len(q) + 1)
                   /\ Append(q, r)[Len(q) + 1] = r
                   /\ \A k \in 1..Len(q) : Append(q, r)[k] = q[k]
         /\ q # <<>> => /\ Len(q) > 0 /\ Head(q) = q[1]
                        /\ DOMAIN Tail(q) = 1..(Len(q) - 1)
                        /\ \A k \in 1..(Len(q) - 1) : Tail(q)[k] = q[k + 1]
OBVIOUS

\* A request that asks no shape of s changes nothing for s.
LEMMA OtherAppended ==
  ASSUME NEW q \in Seq(Request), NEW r, NEW s,
         r.kind \notin ShapeKinds \/ r.surface # s
  PROVE  /\ AsksNone(Append(q, r), s) => AsksNone(q, s)
         /\ \A k \in Nat : AsksLast(Append(q, r), k, s) =>
              AsksLast(q, k, s) /\ Append(q, r)[k] = q[k]
<1> PICK p : p = Append(q, r)
  OBVIOUS
<1>1. /\ Len(q) \in Nat /\ DOMAIN q = 1..Len(q)
      /\ DOMAIN p = 1..(Len(q) + 1) /\ p[Len(q) + 1] = r
      /\ \A k \in 1..Len(q) : p[k] = q[k]
  BY QueueFields
<1>2. AsksNone(p, s) => AsksNone(q, s)
  BY <1>1 DEF AsksNone, AsksShape
<1>3. ASSUME NEW k \in Nat, AsksLast(p, k, s)
      PROVE  AsksLast(q, k, s) /\ p[k] = q[k]
  <2>1. k \in 1..Len(q)
    BY <1>1, <1>3 DEF AsksLast, AsksShape
  <2> QED BY <1>1, <1>3, <2>1 DEF AsksLast, AsksShape
<1> QED BY <1>2, <1>3

\* A request that asks a shape of s is the last that does.
LEMMA ShapeAppended ==
  ASSUME NEW q \in Seq(Request), NEW r, r.kind \in ShapeKinds
  PROVE  /\ ~AsksNone(Append(q, r), r.surface)
         /\ \A k \in Nat : AsksLast(Append(q, r), k, r.surface) => Append(q, r)[k] = r
<1> PICK p : p = Append(q, r)
  OBVIOUS
<1>1. /\ Len(q) \in Nat /\ DOMAIN q = 1..Len(q)
      /\ DOMAIN p = 1..(Len(q) + 1) /\ p[Len(q) + 1] = r
  BY QueueFields
<1>2. AsksShape(p, Len(q) + 1, r.surface)
  BY <1>1 DEF AsksShape
<1>3. ~AsksNone(p, r.surface)
  BY <1>1, <1>2 DEF AsksNone
<1>4. ASSUME NEW k \in Nat, AsksLast(p, k, r.surface)
      PROVE  p[k] = r
  BY <1>1, <1>2, <1>4 DEF AsksLast
<1> QED BY <1>3, <1>4

\* Taking the first request leaves the last one last, unless it was the first.
LEMMA FirstTaken ==
  ASSUME NEW q \in Seq(Request), q # <<>>, NEW s
  PROVE  /\ AsksNone(q, s) => AsksNone(Tail(q), s)
         /\ \A k \in Nat : AsksLast(Tail(q), k, s) =>
              AsksLast(q, k + 1, s) /\ Tail(q)[k] = q[k + 1]
         /\ AsksNone(Tail(q), s) =>
              AsksNone(q, s) \/ (AsksLast(q, 1, s) /\ q[1] = Head(q))
<1> PICK p : p = Tail(q)
  OBVIOUS
<1>1. /\ Len(q) \in Nat /\ Len(q) > 0 /\ DOMAIN q = 1..Len(q)
      /\ DOMAIN p = 1..(Len(q) - 1)
      /\ \A k \in 1..(Len(q) - 1) : p[k] = q[k + 1]
      /\ Head(q) = q[1]
  BY QueueFields
<1>2. ASSUME NEW k \in DOMAIN q, k # 1
      PROVE  k - 1 \in DOMAIN p /\ p[k - 1] = q[k]
  BY <1>1, <1>2
<1>3. AsksNone(q, s) => AsksNone(p, s)
  BY <1>1 DEF AsksNone, AsksShape
<1>4. ASSUME NEW k \in Nat, AsksLast(p, k, s)
      PROVE  AsksLast(q, k + 1, s) /\ p[k] = q[k + 1]
  <2>1. k \in 1..(Len(q) - 1) /\ AsksShape(p, k, s) /\ p[k] = q[k + 1]
    BY <1>1, <1>4 DEF AsksLast
  <2>2. AsksShape(q, k + 1, s)
    BY <2>1 DEF AsksShape
  <2>3. ASSUME NEW j \in DOMAIN q, j > k + 1
        PROVE  ~AsksShape(q, j, s)
    <3>1. j - 1 \in DOMAIN p /\ p[j - 1] = q[j] /\ j - 1 > k
      BY <1>1, <2>1, <2>3
    <3>2. ~AsksShape(p, j - 1, s)
      BY <1>4, <3>1 DEF AsksLast
    <3> QED BY <3>1, <3>2 DEF AsksShape
  <2>4. k + 1 \in DOMAIN q
    BY <1>1, <2>1
  <2> QED BY <2>1, <2>2, <2>3, <2>4 DEF AsksLast
<1>5. ASSUME AsksNone(p, s), ~AsksNone(q, s)
      PROVE  AsksLast(q, 1, s)
  <2>1. \A k \in DOMAIN q \ {1} : ~AsksShape(q, k, s)
    BY <1>2, <1>5 DEF AsksNone, AsksShape
  <2>2. AsksShape(q, 1, s)
    BY <1>5, <2>1 DEF AsksNone
  <2> QED BY <1>1, <2>1, <2>2 DEF AsksLast
<1> QED BY <1>1, <1>3, <1>4, <1>5

\* A configure on its way means the window is alive: no id is free whose
\* configure the client has still to read.
LEMMA FreshUnheard ==
  ASSUME ShapeInv, NEW t \in ToplevelIds \ LiveToplevels, DeleteId(t) \notin Range(out)
  PROVE  \A k \in DOMAIN out : ~Configures(k, t)
BY DEF ShapeInv, ConfiguresLive, Range

\* A step leaves alone what is asked of the game for window u; it keeps the
\* window's shape or sends it the configure that was due.
KeepsQueues(u) ==
  /\ wants'[u] = wants[u] /\ requests' = requests /\ game'.drained = game.drained
  /\ \/ /\ toplevel'[u].fullscreen = toplevel[u].fullscreen
        /\ game' = game \/ ~Configuring(u)'
     \/ /\ Configuring(u) /\ ~Configuring(u)'
        /\ toplevel'[u].fullscreen = game.fullscreen

\* The game handles a request that is not for the shape of u, or one that is.
Handles(u) ==
  /\ game.drained # <<>> /\ game'.drained = Tail(game.drained)
  /\ requests' = requests /\ wants' = wants
  /\ Configuring(u)' => game'.fullscreen = toplevel'[u].fullscreen
  /\ IF AsksFor(game.drained, 1, u)
     THEN /\ Head(game.drained).kind = KindOf(ShapeOf(toplevel'[u].fullscreen))
          /\ Configuring(u)'
     ELSE toplevel'[u].fullscreen = toplevel[u].fullscreen

Asks(t, kind) ==
  /\ Push(t, kind)
  /\ wants' = IF kind \in ShapeKinds THEN [wants EXCEPT ![t] = AskedFor(kind)] ELSE wants

\* Whose window a surface's role finds.
LEMMA FindsOne ==
  ASSUME RolesInv, NEW u \in LiveToplevels, NEW s \in SurfaceIds
  PROVE  /\ Finds(s, u) <=> u \in ToplevelsFor(s)
         /\ \A t \in ToplevelsFor(s) : Finds(s, u) => t = u
         /\ Finds(toplevel[u].surface, u)
         /\ \A t \in LiveToplevels : Finds(toplevel[t].surface, u) => t = u
<1> USE DEF RolesInv
<1>1. Finds(s, u) <=> u \in ToplevelsFor(s)
  BY DEF Finds, ToplevelsFor
<1>2. ASSUME NEW t \in LiveToplevels, toplevel[t].xdg = toplevel[u].xdg
      PROVE  t = u
  BY <1>2 DEF WindowIsRole, OneEach
<1>3. Finds(toplevel[u].surface, u)
  BY DEF Finds, WindowIsRole
<1>4. ASSUME NEW t \in LiveToplevels, Finds(toplevel[t].surface, u)
      PROVE  t = u
  BY <1>2, <1>4 DEF Finds, WindowIsRole
<1> QED BY <1>1, <1>2, <1>3, <1>4 DEF Finds, ToplevelsFor

\* What handling a request does to a window.
LEMMA HandleStep ==
  ASSUME RolesInv, TypeOK', NEW u \in LiveToplevels,
         \/ HandleMinimize \/ HandleGrab \/ HandleMaximize
         \/ \E fullscreen \in BOOLEAN : HandleFullscreen(fullscreen)
  PROVE  Handles(u)
<1>0. /\ TypeOK /\ u \in ToplevelIds /\ game.drained # <<>> /\ game.at = "handling"
      /\ \A t \in LiveToplevels : t \in ToplevelIds
  BY DEF RolesInv, LiveToplevels, HandleMinimize, HandleGrab, HandleMaximize,
         HandleFullscreen, Handling
<1>1. /\ Head(game.drained) = game.drained[1] /\ Asked \in SurfaceIds
      /\ Asked = game.drained[1].surface
  BY <1>0, GameFields, HandledFields, QueueFields DEF Asked
<1>2. requests' = requests /\ wants' = wants
  BY DEF HandleMinimize, HandleGrab, HandleMaximize, HandleFullscreen, clientVars
<1>3. game' = Handled => game'.drained = Tail(game.drained) /\ game'.at = "handling"
  BY <1>0, GameFields DEF Handled
<1>4. ASSUME NEW t, NEW f, game' = [Handled EXCEPT !.at = "configuring", !.id = t,
                                                   !.fullscreen = f]
      PROVE  /\ game'.drained = Tail(game.drained)
             /\ game'.at = "configuring" /\ game'.id = t /\ game'.fullscreen = f
  BY <1>0, <1>4, GameFields DEF Handled
<1>5. CASE HandleMinimize \/ HandleGrab
  <2>1. game' = Handled /\ toplevel' = toplevel /\ Head(game.drained).kind \notin ShapeKinds
    BY <1>5 DEF HandleMinimize, HandleGrab, Handling, ShapeKinds, loopVars
  <2> QED BY <1>0, <1>1, <1>2, <1>3, <2>1 DEF Handles, AsksFor, Configuring
<1>6. CASE HandleMaximize
  <2>1. toplevel' = toplevel /\ Head(game.drained).kind \notin ShapeKinds
    BY <1>6 DEF HandleMaximize, Handling, ShapeKinds, loopVars
  <2>2. CASE game' = Handled
    BY <1>0, <1>1, <1>2, <1>3, <2>1, <2>2 DEF Handles, AsksFor, Configuring
  <2>3. ASSUME NEW t, game' = [Handled EXCEPT !.at = "configuring", !.id = t,
                                              !.fullscreen = toplevel[t].fullscreen]
        PROVE  Handles(u)
    <3>1. /\ game'.drained = Tail(game.drained)
          /\ game'.id = t /\ game'.fullscreen = toplevel[t].fullscreen
      BY <1>4, <2>3
    <3> QED BY <1>0, <1>1, <1>2, <2>1, <3>1 DEF Handles, AsksFor, Configuring
  <2> QED BY <1>6, <2>2, <2>3 DEF HandleMaximize
<1>7. ASSUME NEW fullscreen \in BOOLEAN, HandleFullscreen(fullscreen)
      PROVE  Handles(u)
  <2>1. /\ Head(game.drained).kind = KindOf(ShapeOf(fullscreen))
        /\ Head(game.drained).kind \in ShapeKinds
    BY <1>7 DEF HandleFullscreen, Handling, KindOf, ShapeOf, ShapeKinds
  <2>2. AsksFor(game.drained, 1, u) <=> u \in ToplevelsFor(Asked)
    BY <1>1, <2>1, FindsOne DEF AsksFor
  <2>3. CASE ToplevelsFor(Asked) = {} /\ game' = Handled /\ UNCHANGED toplevel
    BY <1>0, <1>2, <1>3, <2>2, <2>3 DEF Handles, Configuring
  <2>4. ASSUME NEW t \in ToplevelsFor(Asked),
               game' = [Handled EXCEPT !.at = "configuring", !.id = t,
                                       !.fullscreen = fullscreen],
               toplevel' = [toplevel EXCEPT ![t].fullscreen = fullscreen]
        PROVE  Handles(u)
    <3>1. /\ game'.drained = Tail(game.drained)
          /\ game'.at = "configuring" /\ game'.id = t /\ game'.fullscreen = fullscreen
      BY <1>4, <2>4
    <3>2. CASE u = t
      <4>1. toplevel'[u].fullscreen = fullscreen
        BY <1>0, <2>4, <3>2 DEF TypeOK
      <4>2. AsksFor(game.drained, 1, u)
        BY <2>2, <2>4, <3>2
      <4> QED BY <1>0, <1>2, <2>1, <3>1, <3>2, <4>1, <4>2 DEF Handles, Configuring
    <3>3. CASE u # t
      <4>1. u \notin ToplevelsFor(Asked)
        BY <1>1, <2>4, <3>3, FindsOne
      <4>2. toplevel'[u] = toplevel[u]
        BY <1>0, <2>4, <3>3 DEF TypeOK
      <4> QED BY <1>0, <1>2, <2>2, <3>1, <3>3, <4>1, <4>2 DEF Handles, Configuring
    <3> QED BY <3>2, <3>3
  <2> QED BY <1>7, <2>3, <2>4 DEF HandleFullscreen
<1> QED BY <1>5, <1>6, <1>7

\* What the other steps of an update do to it.
LEMMA UpdateKeeps ==
  ASSUME RolesInv, NEW u \in LiveToplevels, SendConfigure \/ FinishConfigure \/ SyncDisplays
  PROVE  KeepsQueues(u)
<1>0. TypeOK /\ u \in ToplevelIds
  BY DEF RolesInv, LiveToplevels
<1>1. requests' = requests /\ wants' = wants
  BY DEF SendConfigure, FinishConfigure, SyncDisplays, clientVars
<1>2. game'.drained = game.drained /\ game'.at # "configuring"
  <2>1. SendConfigure \/ FinishConfigure =>
          game'.drained = game.drained /\ game'.at # "configuring"
    BY <1>0, GameFields DEF SendConfigure, FinishConfigure
  <2>2. SyncDisplays => game'.drained = game.drained /\ game'.at # "configuring"
    BY DEF SyncDisplays, Idle
  <2> QED BY <2>1, <2>2
<1>3. \/ toplevel'[u].fullscreen = toplevel[u].fullscreen
      \/ Configuring(u) /\ toplevel'[u].fullscreen = game.fullscreen
  <2>1. toplevel' = toplevel \/
          /\ game.at = "configuring"
          /\ toplevel' = [toplevel EXCEPT ![game.id].fullscreen = game.fullscreen]
    BY DEF SendConfigure, FinishConfigure, SyncDisplays, loopVars
  <2> QED BY <1>0, <2>1 DEF TypeOK, Configuring
<1> QED BY <1>1, <1>2, <1>3 DEF KeepsQueues, Configuring

\* What a step does to the requests for a window that stays.
LEMMA QueueStep ==
  ASSUME RolesInv, TypeOK', ShapeInv, [Next]_vars, NEW u \in LiveToplevels',
         wants'[u] # "new"
  PROVE  /\ u \in LiveToplevels /\ toplevel'[u].surface = toplevel[u].surface
         /\ \A s \in SurfaceIds : Finds(s, u)' => Finds(s, u)
         /\ \/ KeepsQueues(u)
            \/ \E t \in ToplevelIds, kind \in RequestKinds : Asks(t, kind)
            \/ Drain
            \/ Handles(u)
<1>0. TypeOK /\ u \in ToplevelIds /\ WindowIsRole
  BY DEF RolesInv, LiveToplevels
<1> DEFINE Good == /\ u \in LiveToplevels /\ toplevel'[u].surface = toplevel[u].surface
                   /\ \A s \in SurfaceIds : Finds(s, u)' => Finds(s, u)
           Before == \/ KeepsQueues(u)
                     \/ \E t \in ToplevelIds, kind \in RequestKinds : Asks(t, kind)
                     \/ Drain
                     \/ Handles(u)
<1>1. ASSUME toplevel'[u].fullscreen = toplevel[u].fullscreen, wants'[u] = wants[u],
             requests' = requests, game' = game
      PROVE  Before
  BY <1>1 DEF KeepsQueues
<1>2. ASSUME \/ \E s \in SurfaceIds : CreateSurface(s) \/ DestroySurface(s)
             \/ \E x \in XdgIds, s \in SurfaceIds : GetXdgSurface(x, s)
             \/ \E x \in XdgIds : DestroyXdgSurface(x)
      PROVE  Good /\ Before
  <2>1. LiveToplevels' = LiveToplevels /\ toplevel' = toplevel
    BY <1>2, SurfaceSteps
  <2>2. wants' = wants /\ requests' = requests /\ game' = game
    BY <1>2 DEF CreateSurface, DestroySurface, GetXdgSurface, DestroyXdgSurface, clientVars
  <2>3. \A s \in SurfaceIds : state'[s] = state[s] \/ state'[s].role = "none"
    BY <1>0, <1>2 DEF CreateSurface, DestroySurface, GetXdgSurface, DestroyXdgSurface, TypeOK,
                      NoState
  <2> QED BY <1>1, <2>1, <2>2, <2>3 DEF Finds
<1>3. ASSUME NEW y \in XdgIds, NEW t \in ToplevelIds, GetToplevel(y, t) \/ GetPopup(y, t)
      PROVE  Good /\ Before
  <2>1. PICK role \in {"toplevel", "popup"} : TakeRole(y, t, role)
    BY <1>3 DEF GetToplevel, GetPopup
  <2>2. wants' = wants /\ requests' = requests /\ game' = game
    BY <2>1 DEF TakeRole, clientVars
  <2>3. /\ state[surfaceOf[y]].role = "none"
        /\ state'[surfaceOf[y]] = [role |-> role, xdg |-> y]
        /\ \A s \in SurfaceIds \ {surfaceOf[y]} : state'[s] = state[s]
    <3>1. CASE role = "toplevel"
      BY <2>1, <3>1, RoleTaken
    <3>2. CASE role = "popup"
      BY <2>1, <3>2, RoleTaken
    <3> QED BY <3>1, <3>2
  <2>4. u \in LiveToplevels /\ toplevel'[u] = toplevel[u]
    <3>1. u \in LiveToplevels
      BY <1>0, <2>2 DEF ShapeInv, DeadAreNew
    <3>2. CASE GetToplevel(y, t)
      BY <3>1, <3>2, WindowMade
    <3>3. CASE GetPopup(y, t)
      BY <3>1, <3>3, PopupMade
    <3> QED BY <1>3, <3>1, <3>2, <3>3
  <2>5. toplevel[u].xdg # y
    BY <1>0, <2>3, <2>4 DEF WindowIsRole
  <2>6. Good
    <3>1. state'[surfaceOf[y]].xdg = y
      BY <2>3
    <3> QED BY <2>3, <2>4, <2>5, <3>1 DEF Finds
  <2> QED BY <1>1, <2>2, <2>4, <2>6
<1>4. ASSUME NEW t \in ToplevelIds, DestroyToplevel(t)
      PROVE  Good /\ Before
  <2>1. u \in LiveToplevels \ {t} /\ toplevel'[u] = toplevel[u]
    BY <1>0, <1>4, WindowGone
  <2>2. wants'[u] = wants[u] /\ requests' = requests /\ game' = game /\ state' = state
    BY <1>0, <1>4, <2>1 DEF DestroyToplevel, TypeOK
  <2> QED BY <1>1, <2>1, <2>2 DEF Finds
<1>5. ASSUME \/ \E t \in ToplevelIds, kind \in RequestKinds : Push(t, kind)
             \/ Update \/ Receive \/ UNCHANGED vars
      PROVE  Good
  <2>1. KeepsWindows /\ LiveToplevels' = LiveToplevels
    BY <1>5, WindowsStay, KeptWindows
  <2> QED BY <1>0, <2>1 DEF KeepsWindows, Finds
<1>6. ASSUME NEW t \in ToplevelIds,
             \/ AskFullscreen(t) \/ AskUnfullscreen(t)
             \/ AskMaximize(t) \/ AskMinimize(t) \/ AskGrab(t)
      PROVE  Good /\ Before
  <2>1. \E kind \in RequestKinds : Asks(t, kind)
    BY <1>6, AskPushes DEF Asks
  <2> QED BY <1>5, <2>1 DEF Asks
<1>7. CASE Update
  BY <1>5, <1>7, HandleStep, UpdateKeeps DEF Update
<1>8. CASE Receive \/ UNCHANGED vars
  <2>1. /\ toplevel' = toplevel /\ requests' = requests /\ wants' = wants /\ game' = game
    BY <1>8 DEF Receive, vars, loopVars, clientVars
  <2> QED BY <1>1, <1>5, <1>8, <2>1
<1> QED BY <1>2, <1>3, <1>4, <1>6, <1>7, <1>8, StepKinds

\* A new request is the last of its window's, and not another's.
LEMMA AskPushed ==
  ASSUME RolesInv, NEW t \in ToplevelIds, NEW kind \in RequestKinds, Asks(t, kind),
         NEW u \in LiveToplevels
  PROVE  /\ t \in LiveToplevels /\ toplevel' = toplevel /\ state' = state
         /\ game' = game /\ requests \in Seq(Request)
         /\ \E r \in Request : /\ requests' = Append(requests, r)
                               /\ r.kind = kind /\ r.surface = toplevel[t].surface
         /\ IF kind \in ShapeKinds /\ u = t
            THEN wants'[u] = AskedFor(kind)
            ELSE /\ wants'[u] = wants[u]
                 /\ kind \notin ShapeKinds \/ toplevel[t].surface # toplevel[u].surface
                 /\ kind \notin ShapeKinds \/ ~Finds(toplevel[t].surface, u)
<1>1. /\ t \in LiveToplevels /\ u \in ToplevelIds
      /\ game' = game /\ toplevel' = toplevel /\ state' = state
      /\ requests \in Seq(Request)
      /\ wants \in [ToplevelIds -> Shapes]
  BY DEF Asks, Push, loopVars, LiveToplevels, RolesInv, TypeOK
<1>2. PICK r : /\ r = [kind |-> kind, surface |-> toplevel[t].surface]
               /\ requests' = Append(requests, r)
  BY DEF Asks, Push
<1>3. r \in Request /\ r.kind = kind /\ r.surface = toplevel[t].surface
  BY <1>1, <1>2 DEF RolesInv, WindowIsRole, Request
<1>4. kind \in ShapeKinds /\ u = t => wants'[u] = AskedFor(kind)
  BY <1>1 DEF Asks
<1>5. ASSUME ~(kind \in ShapeKinds /\ u = t)
      PROVE  /\ wants'[u] = wants[u]
             /\ kind \notin ShapeKinds \/ toplevel[t].surface # toplevel[u].surface
             /\ kind \notin ShapeKinds \/ ~Finds(toplevel[t].surface, u)
  <2>1. wants'[u] = wants[u]
    BY <1>1, <1>5 DEF Asks
  <2>2. t # u => toplevel[t].surface # toplevel[u].surface /\ ~Finds(toplevel[t].surface, u)
    <3>1. toplevel[t].surface \in SurfaceIds
      BY <1>1 DEF RolesInv, WindowIsRole
    <3> QED BY <1>1, <3>1, FindsOne DEF RolesInv, OneEach
  <2> QED BY <1>5, <2>1, <2>2
<1> QED BY <1>1, <1>2, <1>3, <1>4, <1>5

LEMMA LastAskStep ==
  ASSUME RolesInv, TypeOK', ShapeInv, [Next]_vars, NEW u \in LiveToplevels'
  PROVE  LastAskIsWanted(u)'
<1> SUFFICES ASSUME wants'[u] # "new"
             PROVE  LastAskIsWanted(u)'
  BY DEF LastAskIsWanted
<1> PICK s : s = toplevel[u].surface
  OBVIOUS
<1>1. /\ u \in LiveToplevels /\ toplevel'[u].surface = s
      /\ \/ KeepsQueues(u)
         \/ \E t \in ToplevelIds, kind \in RequestKinds : Asks(t, kind)
         \/ Drain
         \/ Handles(u)
  BY QueueStep
<1>2. /\ LastAskIsWanted(u) /\ FormerFirst(u) /\ SendsWhatIsStored(u)
      /\ TypeOK /\ u \in ToplevelIds
  BY <1>1 DEF ShapeInv, RolesInv, LiveToplevels
<1>3. CASE KeepsQueues(u)
  <2>1. AsksNone(requests, s) => toplevel'[u].fullscreen = toplevel[u].fullscreen
    BY <1>2, <1>3 DEF KeepsQueues, SendsWhatIsStored
  <2>2. wants'[u] = wants[u] /\ requests' = requests /\ game'.drained = game.drained
    BY <1>3 DEF KeepsQueues
  <2> QED BY <1>1, <1>2, <2>1, <2>2 DEF LastAskIsWanted, AsksLast, AsksNone, AsksShape
<1>4. ASSUME NEW t \in ToplevelIds, NEW kind \in RequestKinds, Asks(t, kind)
      PROVE  LastAskIsWanted(u)'
  <2>1. /\ t \in LiveToplevels /\ toplevel' = toplevel /\ game' = game
        /\ requests \in Seq(Request)
        /\ IF kind \in ShapeKinds /\ u = t
           THEN wants'[u] = AskedFor(kind)
           ELSE /\ wants'[u] = wants[u]
                /\ kind \notin ShapeKinds \/ toplevel[t].surface # s
    BY <1>1, <1>4, AskPushed
  <2>2. PICK r \in Request : /\ requests' = Append(requests, r)
                             /\ r.kind = kind /\ r.surface = toplevel[t].surface
    BY <1>1, <1>4, AskPushed
  <2>3. CASE kind \in ShapeKinds /\ u = t
    <3>1. /\ ~AsksNone(requests', s)
          /\ \A k \in Nat : AsksLast(requests', k, s) => requests'[k] = r
      BY <2>1, <2>2, <2>3, ShapeAppended
    <3>2. kind = KindOf(wants'[u])
      BY <2>1, <2>3 DEF ShapeKinds, KindOf, AskedFor
    <3> QED BY <2>1, <2>2, <3>1, <3>2 DEF LastAskIsWanted
  <2>4. CASE ~(kind \in ShapeKinds /\ u = t)
    <3>1. /\ AsksNone(requests', s) => AsksNone(requests, s)
          /\ \A k \in Nat : AsksLast(requests', k, s) =>
               AsksLast(requests, k, s) /\ requests'[k] = requests[k]
      BY <2>1, <2>2, <2>4, OtherAppended
    <3>2. wants'[u] = wants[u]
      BY <2>1, <2>4
    <3> QED BY <1>2, <2>1, <3>1, <3>2 DEF LastAskIsWanted
  <2> QED BY <2>3, <2>4
<1>5. CASE Drain
  <2>1. /\ requests' = <<>> /\ game.drained = <<>> /\ game'.drained = requests
        /\ toplevel' = toplevel /\ wants' = wants
    BY <1>5 DEF Drain, Idle, loopVars, clientVars
  <2>2. AsksNone(<<>>, s) /\ \A k : ~AsksLast(<<>>, k, s)
    BY DEF AsksNone, AsksLast
  <2> QED BY <1>2, <2>1, <2>2 DEF LastAskIsWanted
<1>6. CASE Handles(u)
  <2> PICK q : q = game.drained
    OBVIOUS
  <2>1. /\ q \in Seq(Request) /\ q # <<>> /\ game'.drained = Tail(q)
        /\ requests' = requests /\ wants' = wants /\ Head(q) = q[1]
        /\ toplevel'[u].fullscreen \in BOOLEAN
    BY <1>2, <1>6, GameFields, QueueFields DEF Handles, TypeOK
  <2>2. /\ \A k \in Nat : AsksLast(Tail(q), k, s) =>
             AsksLast(q, k + 1, s) /\ Tail(q)[k] = q[k + 1]
        /\ AsksNone(Tail(q), s) => AsksNone(q, s) \/ (AsksLast(q, 1, s) /\ q[1] = Head(q))
    BY <2>1, FirstTaken
  <2>3. \A k \in Nat : AsksLast(requests, k, s) => requests[k].kind = KindOf(wants[u])
    BY <1>2, <2>1 DEF LastAskIsWanted
  <2>4. ASSUME AsksNone(requests, s), NEW k \in Nat, AsksLast(Tail(q), k, s)
        PROVE  Tail(q)[k].kind = KindOf(wants[u])
    <3>1. k + 1 \in Nat
      BY <2>4
    <3>2. AsksLast(q, k + 1, s) /\ Tail(q)[k] = q[k + 1]
      BY <2>2, <2>4
    <3> QED BY <1>2, <2>1, <2>4, <3>1, <3>2 DEF LastAskIsWanted
  <2>5. ASSUME AsksNone(requests, s), AsksNone(Tail(q), s)
        PROVE  ShapeOf(toplevel'[u].fullscreen) = wants[u]
    <3>1. CASE AsksLast(q, 1, s) /\ q[1] = Head(q)
      <4>1. Head(q).kind = KindOf(wants[u])
        BY <1>2, <2>1, <2>5, <3>1 DEF LastAskIsWanted
      <4>2. AsksFor(q, 1, u)
        BY <1>1, <3>1, FindsOne DEF AsksLast, AsksShape, AsksFor, RolesInv, WindowIsRole
      <4>3. KindOf(ShapeOf(toplevel'[u].fullscreen)) = KindOf(wants[u])
        BY <1>6, <4>1, <4>2 DEF Handles
      <4>4. wants[u] \in {"window", "fullscreen"}
        BY <1>2, <2>1 DEF TypeOK, Shapes
      <4> QED BY <2>1, <4>3, <4>4 DEF KindOf, ShapeOf
    <3>2. CASE AsksNone(q, s)
      <4>1. ShapeOf(toplevel[u].fullscreen) = wants[u]
        BY <1>2, <2>1, <2>5, <3>2 DEF LastAskIsWanted
      <4>2. ~AsksFor(q, 1, u)
        <5>1. 1 \in DOMAIN q
          BY <2>1, QueueFields
        <5> QED BY <1>2, <2>1, <2>5, <3>2, <5>1 DEF FormerFirst, AsksNone
      <4> QED BY <1>6, <4>1, <4>2 DEF Handles
    <3> QED BY <2>2, <2>5, <3>1, <3>2
  <2> QED BY <1>1, <2>1, <2>3, <2>4, <2>5 DEF LastAskIsWanted
<1> QED BY <1>1, <1>3, <1>4, <1>5, <1>6

LEMMA FormerStep ==
  ASSUME RolesInv, TypeOK', ShapeInv, [Next]_vars, NEW u \in LiveToplevels'
  PROVE  FormerFirst(u)'
<1> SUFFICES ASSUME wants'[u] # "new"
             PROVE  FormerFirst(u)'
  BY DEF FormerFirst
<1> PICK s : s = toplevel[u].surface
  OBVIOUS
<1>1. /\ u \in LiveToplevels /\ toplevel'[u].surface = s
      /\ \A r \in SurfaceIds : Finds(r, u)' => Finds(r, u)
      /\ \/ KeepsQueues(u)
         \/ \E t \in ToplevelIds, kind \in RequestKinds : Asks(t, kind)
         \/ Drain
         \/ Handles(u)
  BY QueueStep
<1>2. /\ FormerFirst(u) /\ TypeOK /\ u \in ToplevelIds
      /\ requests \in Seq(Request) /\ game.drained \in Seq(Request)
      /\ requests' \in Seq(Request) /\ game'.drained \in Seq(Request)
  BY <1>1 DEF ShapeInv, RolesInv, LiveToplevels, TypeOK, Game
<1>3. ASSUME NEW q \in Seq(Request), NEW j \in DOMAIN q,
             q[j].kind \in ShapeKinds,
             state'[q[j].surface].role = "toplevel",
             state'[q[j].surface].xdg = toplevel'[u].xdg
      PROVE  AsksFor(q, j, u)
  <2> PICK r \in Request : r = q[j]
    OBVIOUS
  <2>1. r.surface \in SurfaceIds
    BY DEF Request
  <2> QED BY <1>1, <1>3, <2>1 DEF AsksFor, Finds
<1>4. CASE KeepsQueues(u)
  <2>1. /\ wants'[u] = wants[u] /\ requests' = requests /\ game'.drained = game.drained
    BY <1>4 DEF KeepsQueues
  <2>2. \A j \in DOMAIN requests' : AsksFor(requests, j, u)' => AsksFor(requests, j, u)
    BY <1>2, <1>3, <2>1 DEF AsksFor, Finds
  <2>3. \A j \in DOMAIN game.drained : AsksFor(game.drained, j, u)' => AsksFor(game.drained, j, u)
    BY <1>2, <1>3, <2>1 DEF AsksFor, Finds
  <2> QED BY <1>1, <1>2, <2>1, <2>2, <2>3 DEF FormerFirst, AsksNone, AsksShape
<1>5. ASSUME NEW t \in ToplevelIds, NEW kind \in RequestKinds, Asks(t, kind)
      PROVE  FormerFirst(u)'
  <2>1. /\ t \in LiveToplevels /\ toplevel' = toplevel /\ game' = game /\ state' = state
        /\ IF kind \in ShapeKinds /\ u = t
           THEN wants'[u] = AskedFor(kind)
           ELSE /\ wants'[u] = wants[u]
                /\ kind \notin ShapeKinds \/ ~Finds(toplevel[t].surface, u)
    BY <1>1, <1>5, AskPushed
  <2>2. PICK r \in Request : /\ requests' = Append(requests, r)
                             /\ r.kind = kind /\ r.surface = toplevel[t].surface
    BY <1>1, <1>5, AskPushed
  <2> PICK n : n = Len(requests) + 1
    OBVIOUS
  <2>3. /\ n \in DOMAIN requests' /\ requests'[n] = r
        /\ \A k \in DOMAIN requests' : k = n \/ k \in DOMAIN requests
        /\ \A k \in DOMAIN requests : k \in DOMAIN requests' /\ requests'[k] = requests[k] /\ n > k
        /\ n \in Nat
    BY <1>2, <2>2, QueueFields
  <2>4. CASE kind \in ShapeKinds /\ u = t
    <3>1. AsksShape(requests', n, s) /\ ~AsksNone(requests', s)
      BY <2>2, <2>3, <2>4 DEF AsksShape, AsksNone
    <3>2. \A j \in DOMAIN requests' : n >= j
      BY <2>3, <1>2, QueueFields
    <3> QED BY <1>1, <2>1, <2>3, <3>1, <3>2 DEF FormerFirst
  <2>5. CASE ~(kind \in ShapeKinds /\ u = t)
    <3>1. wants[u] # "new"
      BY <2>1, <2>5
    <3>2. ASSUME NEW j \in DOMAIN requests', AsksFor(requests, j, u)'
          PROVE  \E k \in DOMAIN requests' : k >= j /\ AsksShape(requests', k, s)
      <4>1. j # n
        BY <2>1, <2>2, <2>3, <2>5, <3>2 DEF AsksFor, Finds
      <4>2. j \in DOMAIN requests /\ AsksFor(requests, j, u)
        BY <2>1, <2>3, <3>2, <4>1 DEF AsksFor, Finds
      <4>3. PICK k \in DOMAIN requests : k >= j /\ AsksShape(requests, k, s)
        BY <1>2, <3>1, <4>2 DEF FormerFirst
      <4> QED BY <2>3, <4>3 DEF AsksShape
    <3>3. ~AsksNone(requests, s) => ~AsksNone(requests', s)
      BY <2>3 DEF AsksNone, AsksShape
    <3>4. ASSUME NEW j \in DOMAIN game.drained, AsksFor(game.drained, j, u)'
          PROVE  \/ ~AsksNone(requests', s)
                 \/ \E k \in DOMAIN game.drained : k >= j /\ AsksShape(game.drained, k, s)
      BY <1>2, <2>1, <3>1, <3>3, <3>4 DEF FormerFirst, AsksFor, Finds
    <3> QED BY <1>1, <2>1, <3>2, <3>4 DEF FormerFirst
  <2> QED BY <2>4, <2>5
<1>6. CASE Drain
  <2>1. /\ requests' = <<>> /\ game'.drained = requests /\ toplevel' = toplevel
        /\ wants' = wants /\ state' = state
    BY <1>6 DEF Drain, Idle, loopVars, clientVars
  <2> QED BY <1>2, <2>1 DEF FormerFirst, AsksFor, Finds
<1>7. CASE Handles(u)
  <2> PICK q : q = game.drained
    OBVIOUS
  <2> PICK p : p = Tail(q)
    OBVIOUS
  <2>1. /\ q \in Seq(Request) /\ q # <<>> /\ game'.drained = p
        /\ requests' = requests /\ wants' = wants
    BY <1>2, <1>7 DEF Handles
  <2>2. /\ DOMAIN q = 1..Len(q) /\ DOMAIN p = 1..(Len(q) - 1) /\ Len(q) \in Nat
        /\ \A k \in 1..(Len(q) - 1) : p[k] = q[k + 1]
    BY <2>1, QueueFields
  <2>3. \A j \in DOMAIN requests : AsksFor(requests, j, u)' => AsksFor(requests, j, u)
    BY <1>2, <1>3, <2>1 DEF AsksFor, Finds
  <2>4. ASSUME NEW j \in DOMAIN p, AsksFor(game.drained, j, u)', AsksNone(requests, s)
        PROVE  \E k \in DOMAIN p : k >= j /\ AsksShape(p, k, s)
    <3>1. j \in Nat /\ j + 1 \in DOMAIN q /\ p[j] = q[j + 1]
      BY <2>2
    <3>2. AsksFor(q, j + 1, u)
      BY <1>3, <2>1, <2>4, <3>1 DEF AsksFor, Finds
    <3>3. PICK k \in DOMAIN q : k >= j + 1 /\ AsksShape(q, k, s)
      BY <1>2, <2>1, <2>4, <3>1, <3>2 DEF FormerFirst
    <3>4. k - 1 \in DOMAIN p /\ p[k - 1] = q[k] /\ k - 1 >= j
      BY <2>2, <3>1, <3>3
    <3> QED BY <3>3, <3>4 DEF AsksShape
  <2> QED BY <1>1, <1>2, <2>1, <2>3, <2>4 DEF FormerFirst
<1> QED BY <1>1, <1>4, <1>5, <1>6, <1>7

LEMMA SendsStep ==
  ASSUME RolesInv, TypeOK', ShapeInv, [Next]_vars, NEW u \in LiveToplevels'
  PROVE  SendsWhatIsStored(u)'
<1> SUFFICES ASSUME wants'[u] # "new"
             PROVE  SendsWhatIsStored(u)'
  BY DEF SendsWhatIsStored
<1> PICK s : s = toplevel[u].surface
  OBVIOUS
<1>1. /\ u \in LiveToplevels /\ toplevel'[u].surface = s
      /\ \/ KeepsQueues(u)
         \/ \E t \in ToplevelIds, kind \in RequestKinds : Asks(t, kind)
         \/ Drain
         \/ Handles(u)
  BY QueueStep
<1>2. SendsWhatIsStored(u)
  BY <1>1 DEF ShapeInv
<1>3. CASE KeepsQueues(u)
  BY <1>1, <1>2, <1>3 DEF KeepsQueues, SendsWhatIsStored, Configuring, AsksNone, AsksShape
<1>4. ASSUME NEW t \in ToplevelIds, NEW kind \in RequestKinds, Asks(t, kind)
      PROVE  SendsWhatIsStored(u)'
  <2>1. /\ toplevel' = toplevel /\ game' = game /\ requests \in Seq(Request)
        /\ IF kind \in ShapeKinds /\ u = t
           THEN wants'[u] = AskedFor(kind)
           ELSE /\ wants'[u] = wants[u]
                /\ kind \notin ShapeKinds \/ toplevel[t].surface # s
    BY <1>1, <1>4, AskPushed
  <2>2. PICK r \in Request : /\ requests' = Append(requests, r)
                             /\ r.kind = kind /\ r.surface = toplevel[t].surface
    BY <1>1, <1>4, AskPushed
  <2>3. CASE kind \in ShapeKinds /\ u = t
    <3>1. ~AsksNone(requests', s)
      BY <2>1, <2>2, <2>3, ShapeAppended
    <3> QED BY <1>1, <3>1 DEF SendsWhatIsStored
  <2>4. CASE ~(kind \in ShapeKinds /\ u = t)
    <3>1. AsksNone(requests', s) => AsksNone(requests, s)
      BY <2>1, <2>2, <2>4, OtherAppended
    <3> QED BY <1>2, <2>1, <2>4, <3>1 DEF SendsWhatIsStored, Configuring
  <2> QED BY <2>3, <2>4
<1>5. CASE Drain
  <2>1. game'.at = "handling"
    BY <1>5 DEF Drain, Idle
  <2> QED BY <2>1 DEF SendsWhatIsStored, Configuring
<1>6. CASE Handles(u)
  BY <1>6 DEF Handles, SendsWhatIsStored
<1> QED BY <1>1, <1>3, <1>4, <1>5, <1>6

----------------------------------------------------------------------------
(* Shapes: what the client is told.                                        *)

\* What a step does to the ids and to the events on their way.
LEMMA StepEffects ==
  ASSUME RolesInv, [Next]_vars
  PROVE  \/ \E i \in Ids : Allocate(i) /\ out' = out
         \/ \E i \in Ids : Destroy(i)
         \/ objects' = objects /\ out' = out
         \/ SendConfigure /\ game.id \in LiveToplevels /\ objects' = objects
         \/ FinishConfigure /\ objects' = objects
         \/ Receive /\ objects' = objects
<1> USE DEF Ids
<1>1. ASSUME \/ \E s \in SurfaceIds : CreateSurface(s) \/ DestroySurface(s)
             \/ \E x \in XdgIds, s \in SurfaceIds : GetXdgSurface(x, s)
             \/ \E x \in XdgIds : DestroyXdgSurface(x)
             \/ \E x \in XdgIds, t \in ToplevelIds : GetToplevel(x, t) \/ GetPopup(x, t)
             \/ \E t \in ToplevelIds : DestroyToplevel(t)
      PROVE  \/ \E i \in Ids : Allocate(i) /\ out' = out
             \/ \E i \in Ids : Destroy(i)
  BY <1>1 DEF CreateSurface, DestroySurface, GetXdgSurface, DestroyXdgSurface, GetToplevel,
              GetPopup, TakeRole, DestroyToplevel
<1>2. ASSUME NEW t \in ToplevelIds, NEW kind, Push(t, kind)
      PROVE  objects' = objects /\ out' = out
  BY <1>2 DEF Push, loopVars
<1>3. CASE Update
  <2>1. objects' = objects
    BY <1>3, WindowsStay DEF KeepsWindows
  <2>2. \/ out' = out
        \/ SendConfigure /\ game.id \in LiveToplevels
        \/ FinishConfigure
    BY <1>3 DEF Update, Drain, HandleMinimize, HandleGrab, HandleMaximize, HandleFullscreen,
                SendConfigure, SyncDisplays
  <2> QED BY <2>1, <2>2
<1>4. CASE Receive \/ UNCHANGED vars
  BY <1>4 DEF Receive, vars, loopVars
<1> QED BY <1>1, <1>2, <1>3, <1>4, StepKinds, AskPushes

\* The events on their way, read as a function.
LEMMA OutGrown ==
  ASSUME TypeOK, NEW e, out' = Append(out, e)
  PROVE  /\ Len(out) \in Nat /\ DOMAIN out = 1..Len(out)
         /\ DOMAIN out' = 1..(Len(out) + 1)
         /\ out'[Len(out) + 1] = e
         /\ \A k \in 1..Len(out) : out'[k] = out[k]
         /\ Range(out') = Range(out) \cup {e}
<1>1. out \in Seq(Event)
  BY DEF TypeOK
<1>2. /\ Len(out) \in Nat /\ DOMAIN out = 1..Len(out)
      /\ DOMAIN out' = 1..(Len(out) + 1)
      /\ out'[Len(out) + 1] = e
      /\ \A k \in 1..Len(out) : out'[k] = out[k]
  BY <1>1
<1>3. Range(out') = Range(out) \cup {e}
  BY <1>2 DEF Range
<1> QED BY <1>2, <1>3

LEMMA OutRead ==
  ASSUME TypeOK, out # <<>>, out' = Tail(out)
  PROVE  /\ Len(out) \in Nat /\ Len(out) > 0 /\ DOMAIN out = 1..Len(out)
         /\ Head(out) = out[1]
         /\ DOMAIN out' = 1..(Len(out) - 1)
         /\ \A k \in 1..(Len(out) - 1) : out'[k] = out[k + 1]
         /\ Range(out') \subseteq Range(out)
<1>1. out \in Seq(Event)
  BY DEF TypeOK
<1>2. /\ Len(out) \in Nat /\ Len(out) > 0 /\ DOMAIN out = 1..Len(out)
      /\ Head(out) = out[1]
      /\ DOMAIN out' = 1..(Len(out) - 1)
      /\ \A k \in 1..(Len(out) - 1) : out'[k] = out[k + 1]
  BY <1>1
<1>3. \A k \in DOMAIN out' : k + 1 \in DOMAIN out /\ out'[k] = out[k + 1]
  BY <1>2
<1>4. Range(out') \subseteq Range(out)
  BY <1>3 DEF Range
<1> QED BY <1>2, <1>4

\* The kinds of events differ.
LEMMA EventKinds ==
  /\ \A i : DeleteId(i).type = "delete_id" /\ DeleteId(i).id = i
  /\ \A t, f : LET e == Configure(t, f) IN e.type = "configure" /\ e.id = t /\ e.shape = f
  /\ \A x : Configured(x).type = "configured" /\ Configured(x).id = x
BY DEF DeleteId, Configure, Configured

LEMMA DeletesStep ==
  ASSUME RolesInv, ShapeInv, [Next]_vars
  PROVE  DeletesDead'
<1>0. TypeOK
  BY DEF RolesInv
<1> SUFFICES ASSUME NEW i \in Ids, DeleteId(i) \in Range(out')
             PROVE  ~objects'[i]
  BY DEF DeletesDead
<1>1. DeleteId(i) \in Range(out) => ~objects[i]
  BY DEF ShapeInv, DeletesDead
<1>2. ASSUME NEW j \in Ids, Allocate(j), out' = out
      PROVE  ~objects'[i]
  BY <1>0, <1>1, <1>2 DEF Allocate, TypeOK
<1>3. ASSUME NEW j \in Ids, Destroy(j)
      PROVE  ~objects'[i]
  <2>1. DeleteId(i) \in Range(out) \/ DeleteId(i) = DeleteId(j)
    BY <1>0, <1>3, OutGrown DEF Destroy
  <2>2. DeleteId(i) \in Range(out) \/ i = j
    BY <2>1, EventKinds
  <2> QED BY <1>0, <1>1, <1>3, <2>2 DEF Destroy, TypeOK
<1>4. ASSUME SendConfigure, game.id \in LiveToplevels
      PROVE  DeleteId(i) \in Range(out)
  <2>1. PICK e : e = Configure(game.id, ShapeOf(game.fullscreen))
    OBVIOUS
  <2>2. DeleteId(i) \in Range(out) \/ DeleteId(i) = e
    BY <1>0, <1>4, <2>1, OutGrown DEF SendConfigure, Send
  <2>3. e.type = "configure" /\ DeleteId(i).type = "delete_id"
    BY <2>1, EventKinds
  <2> QED BY <2>2, <2>3
<1>5. ASSUME FinishConfigure
      PROVE  DeleteId(i) \in Range(out)
  <2>1. DeleteId(i) \in Range(out) \/ DeleteId(i) = Configured(game.id)
    BY <1>0, <1>5, OutGrown DEF FinishConfigure, Send
  <2>2. Configured(game.id).type = "configured" /\ DeleteId(i).type = "delete_id"
    BY EventKinds
  <2> QED BY <2>1, <2>2
<1>6. ASSUME Receive
      PROVE  DeleteId(i) \in Range(out)
  BY <1>0, <1>6, OutRead DEF Receive
<1> QED BY <1>1, <1>2, <1>3, <1>4, <1>5, <1>6, StepEffects

\* What a step does to the set of windows.
LEMMA LiveStep ==
  ASSUME RolesInv, [Next]_vars
  PROVE  \/ LiveToplevels' = LiveToplevels
         \/ \E x \in XdgIds, t \in ToplevelIds :
              GetToplevel(x, t) /\ LiveToplevels' = LiveToplevels \cup {t}
         \/ \E t \in ToplevelIds :
              DestroyToplevel(t) /\ LiveToplevels' = LiveToplevels \ {t}
<1>1. ASSUME NEW t \in ToplevelIds, NEW kind \in RequestKinds, Push(t, kind)
      PROVE  LiveToplevels' = LiveToplevels
  BY <1>1, WindowsStay, KeptWindows
<1>2. CASE Update \/ Receive \/ UNCHANGED vars
  BY <1>2, WindowsStay, KeptWindows
<1> QED
  BY <1>1, <1>2, StepKinds, SurfaceSteps, WindowMade, PopupMade, WindowGone, AskPushes

LEMMA ConfiguresStep ==
  ASSUME RolesInv, ShapeInv, [Next]_vars
  PROVE  ConfiguresLive'
<1>0. TypeOK /\ ConfiguresLive
  BY DEF RolesInv, ShapeInv
<1>1. ASSUME NEW k \in DOMAIN out', out'[k].type = "configure"
      PROVE  \/ out'[k].id \in LiveToplevels /\ out'[k].shape # "new"
             \/ k \in DOMAIN out /\ out'[k] = out[k]
             \/ Receive /\ k + 1 \in DOMAIN out /\ out'[k] = out[k + 1]
  <2>1. ASSUME NEW i \in Ids, Destroy(i)
        PROVE  k \in DOMAIN out /\ out'[k] = out[k]
    BY <1>0, <1>1, <2>1, OutGrown, EventKinds DEF Destroy
  <2>2. ASSUME FinishConfigure
        PROVE  k \in DOMAIN out /\ out'[k] = out[k]
    BY <1>0, <1>1, <2>2, OutGrown, EventKinds DEF FinishConfigure, Send
  <2>3. ASSUME SendConfigure, game.id \in LiveToplevels
        PROVE  \/ out'[k].id \in LiveToplevels /\ out'[k].shape # "new"
               \/ k \in DOMAIN out /\ out'[k] = out[k]
    <3> PICK e : e = Configure(game.id, ShapeOf(game.fullscreen))
      OBVIOUS
    <3>1. out' = Append(out, e) /\ e.id = game.id /\ e.shape # "new"
      BY <2>3, EventKinds DEF SendConfigure, Send, ShapeOf
    <3>2. out'[k] = e \/ (k \in DOMAIN out /\ out'[k] = out[k])
      BY <1>0, <3>1, OutGrown
    <3> QED BY <2>3, <3>1, <3>2
  <2>4. ASSUME Receive
        PROVE  k + 1 \in DOMAIN out /\ out'[k] = out[k + 1]
    BY <1>0, <2>4, OutRead DEF Receive
  <2> QED BY <1>1, <2>1, <2>2, <2>3, <2>4, StepEffects
<1>2. ASSUME NEW k \in DOMAIN out', out'[k].type = "configure"
      PROVE  out'[k].id \in ToplevelIds /\ out'[k].shape # "new"
  BY <1>0, <1>1, <1>2 DEF ConfiguresLive, LiveToplevels
<1>3. ASSUME NEW t \in ToplevelIds \ LiveToplevels', NEW k \in DOMAIN out', Configures(k, t)'
      PROVE  \E j \in DOMAIN out' : j > k /\ out'[j] = DeleteId(t)
  <2>1. CASE t \in LiveToplevels
    <3>1. DestroyToplevel(t)
      BY <1>3, <2>1, LiveStep
    <3>2. /\ out' = Append(out, DeleteId(t))
      BY <3>1 DEF DestroyToplevel, Destroy
    <3> PICK n : n = Len(out) + 1
      OBVIOUS
    <3>3. out'[n] = DeleteId(t) /\ n \in DOMAIN out' /\ \A j \in DOMAIN out' : j <= n
      BY <1>0, <3>2, OutGrown
    <3>4. k # n
      BY <1>3, <3>3, EventKinds DEF Configures
    <3>5. k \in Nat /\ n \in Nat
      BY <1>0, <3>2, OutGrown
    <3> QED BY <3>3, <3>4, <3>5
  <2>2. CASE t \notin LiveToplevels
    <3>1. out'[k].type = "configure" /\ out'[k].id = t
      BY <1>3 DEF Configures
    <3>2. CASE k \in DOMAIN out /\ out'[k] = out[k] /\ ~Receive
      <4>1. PICK j \in DOMAIN out : j > k /\ out[j] = DeleteId(t)
        BY <1>0, <1>3, <2>2, <3>1, <3>2 DEF ConfiguresLive, Configures
      <4>2. \A m \in DOMAIN out : m \in DOMAIN out' /\ out'[m] = out[m]
        <5>1. ASSUME NEW e, out' = Append(out, e)
              PROVE  \A m \in DOMAIN out : m \in DOMAIN out' /\ out'[m] = out[m]
          BY <1>0, <5>1, OutGrown
        <5>2. out' = out \/ \E e : out' = Append(out, e)
          BY <3>2, StepEffects DEF Destroy, SendConfigure, FinishConfigure, Send
        <5> QED BY <5>1, <5>2
      <4> QED BY <4>1, <4>2
    <3>3. CASE Receive
      <4>1. /\ DOMAIN out = 1..Len(out) /\ Len(out) \in Nat
            /\ DOMAIN out' = 1..(Len(out) - 1)
            /\ \A m \in 1..(Len(out) - 1) : out'[m] = out[m + 1]
        BY <1>0, <3>3, OutRead DEF Receive
      <4>2. k \in Nat /\ k + 1 \in DOMAIN out /\ out'[k] = out[k + 1]
        BY <1>3, <4>1
      <4>3. Configures(k + 1, t)
        BY <3>1, <4>2 DEF Configures
      <4>4. PICK j \in DOMAIN out : j > k + 1 /\ out[j] = DeleteId(t)
        BY <1>0, <1>3, <2>2, <4>2, <4>3 DEF ConfiguresLive
      <4>5. j - 1 \in DOMAIN out' /\ out'[j - 1] = out[j] /\ j - 1 > k
        BY <4>1, <4>2, <4>4
      <4> QED BY <4>4, <4>5
    <3> QED BY <1>1, <2>2, <3>1, <3>2, <3>3
  <2> QED BY <2>1, <2>2
<1> QED BY <1>2, <1>3 DEF ConfiguresLive

\* What the client remembers of windows changes with its own requests for
\* them and with what it reads.
LEMMA ClientStep ==
  ASSUME RolesInv, [Next]_vars
  PROVE  \/ UNCHANGED <<latched, told>>
         \/ \E t \in ToplevelIds :
              /\ DestroyToplevel(t)
              /\ latched' = [latched EXCEPT ![t] = "new"]
              /\ told' = [told EXCEPT ![t] = "new"]
         \/ Receive
<1>1. ASSUME NEW t, NEW kind, Push(t, kind)
      PROVE  UNCHANGED <<latched, told>>
  BY <1>1 DEF Push
<1>2. Update => UNCHANGED <<latched, told>>
  BY DEF Update, Drain, HandleMinimize, HandleGrab, HandleMaximize, HandleFullscreen,
         SendConfigure, FinishConfigure, SyncDisplays, clientVars
<1> QED
  BY <1>1, <1>2, StepKinds, AskPushes
     DEF CreateSurface, DestroySurface, GetXdgSurface, DestroyXdgSurface, GetToplevel,
         GetPopup, TakeRole, DestroyToplevel, clientVars, vars

LEMMA DeadStep ==
  ASSUME RolesInv, ShapeInv, [Next]_vars
  PROVE  DeadAreNew'
<1>0. TypeOK /\ DeadAreNew /\ \A t \in LiveToplevels : t \in ToplevelIds
  BY DEF RolesInv, ShapeInv, LiveToplevels
<1> SUFFICES ASSUME NEW t \in ToplevelIds \ LiveToplevels'
             PROVE  latched'[t] = "new" /\ told'[t] = "new" /\ wants'[t] = "new"
  BY DEF DeadAreNew
<1>1. CASE DestroyToplevel(t)
  BY <1>0, <1>1 DEF DestroyToplevel, TypeOK
<1>2. CASE ~DestroyToplevel(t)
  <2>1. t \notin LiveToplevels
    BY <1>2, LiveStep
  <2>2. latched[t] = "new" /\ told[t] = "new" /\ wants[t] = "new"
    BY <1>0, <2>1 DEF DeadAreNew
  <2>3. ASSUME NEW u \in ToplevelIds, DestroyToplevel(u)
        PROVE  latched'[t] = "new" /\ told'[t] = "new" /\ wants'[t] = "new"
    <3>1. u # t
      BY <1>2, <2>3
    <3> QED BY <1>0, <2>2, <2>3, <3>1 DEF DestroyToplevel, TypeOK
  <2>4. ASSUME NEW u, NEW kind, Push(u, kind),
               wants' = IF kind \in ShapeKinds
                        THEN [wants EXCEPT ![u] = AskedFor(kind)]
                        ELSE wants
        PROVE  wants'[t] = "new"
    <3>1. u # t
      BY <2>1, <2>4 DEF Push
    <3> QED BY <1>0, <2>2, <2>4, <3>1 DEF TypeOK
  <2>5. \/ \E u \in ToplevelIds : DestroyToplevel(u)
        \/ wants'[t] = "new"
    <3>1. Update \/ Receive \/ UNCHANGED vars => wants' = wants
      BY DEF Update, Drain, HandleMinimize, HandleGrab, HandleMaximize, HandleFullscreen,
             SendConfigure, FinishConfigure, SyncDisplays, Receive, clientVars, vars
    <3> QED
      BY <2>2, <2>4, <3>1, StepKinds, AskPushes
         DEF CreateSurface, DestroySurface, GetXdgSurface, DestroyXdgSurface, GetToplevel,
             GetPopup, TakeRole, clientVars
  <2>6. ASSUME Receive
        PROVE  latched'[t] = "new" /\ told'[t] = "new"
    <3> DEFINE event == Head(out)
    <3>1. ASSUME event.type = "configure",
                 latched' = [latched EXCEPT ![event.id] =
                              IF objects[event.id] THEN event.shape ELSE @],
                 told' = told
          PROVE  latched'[t] = "new" /\ told'[t] = "new"
      <4>1. CASE event.id = t
        <5>1. 1 \in DOMAIN out /\ event = out[1]
          BY <1>0, <2>6, OutRead DEF Receive
        <5>2. Configures(1, t)
          BY <3>1, <4>1, <5>1 DEF Configures
        <5>3. \E j \in DOMAIN out : out[j] = DeleteId(t)
          BY <2>1, <5>1, <5>2 DEF ShapeInv, ConfiguresLive
        <5>4. ~objects[t]
          BY <5>3 DEF ShapeInv, DeletesDead, Range, Ids
        <5> QED BY <1>0, <2>2, <3>1, <4>1, <5>4 DEF TypeOK
      <4>2. CASE event.id # t
        BY <1>0, <2>2, <3>1, <4>2 DEF TypeOK
      <4> QED BY <4>1, <4>2
    <3>2. ASSUME event.type = "configured",
                 NEW ended \in SUBSET LiveToplevels,
                 told' = [u \in ToplevelIds |-> IF u \in ended THEN latched[u] ELSE told[u]],
                 latched' = [u \in ToplevelIds |-> IF u \in ended THEN "new" ELSE latched[u]]
          PROVE  latched'[t] = "new" /\ told'[t] = "new"
      BY <2>1, <2>2, <3>2
    <3>3. CASE UNCHANGED <<latched, told>>
      BY <2>2, <3>3
    <3> QED BY <2>6, <3>1, <3>2, <3>3 DEF Receive
  <2> QED BY <2>2, <2>3, <2>5, <2>6, ClientStep
<1> QED BY <1>1, <1>2

\* A window that is sent no configure keeps its last one.
LEMMA LastKept ==
  ASSUME TypeOK, NEW t, LastIsStored(t),
         toplevel'[t].fullscreen = toplevel[t].fullscreen,
         latched'[t] = latched[t], told'[t] = told[t],
         Configuring(t) => Configuring(t)',
         \/ out' = out
         \/ \E e : out' = Append(out, e) /\ ~(e.type = "configure" /\ e.id = t)
  PROVE  LastIsStored(t)'
<1>1. CASE Configuring(t)
  BY <1>1 DEF LastIsStored
<1>2. CASE ~Configuring(t) /\ out' = out
  BY <1>2 DEF LastIsStored, Configures
<1>3. ASSUME ~Configuring(t), NEW e, out' = Append(out, e),
             ~(e.type = "configure" /\ e.id = t)
      PROVE  LastIsStored(t)'
  <2>1. /\ Len(out) \in Nat /\ DOMAIN out = 1..Len(out)
        /\ DOMAIN out' = 1..(Len(out) + 1)
        /\ out'[Len(out) + 1] = e
        /\ \A k \in 1..Len(out) : out'[k] = out[k]
    BY <1>3, OutGrown
  <2>2. \A k \in DOMAIN out : k \in DOMAIN out' /\ out'[k] = out[k]
    BY <2>1
  <2>3. \A k \in DOMAIN out' : out'[k].type = "configure" /\ out'[k].id = t =>
          k \in DOMAIN out /\ out'[k] = out[k]
    <3> PICK n : n = Len(out) + 1
      OBVIOUS
    <3>1. out'[n] = e /\ \A k \in DOMAIN out' : k = n \/ k \in 1..Len(out)
      BY <2>1
    <3> QED BY <1>3, <2>1, <3>1
  <2> QED BY <1>3, <2>2, <2>3 DEF LastIsStored, Configures
<1> QED BY <1>1, <1>2, <1>3

\* A window that is sent a configure has it as its last one.
LEMMA LastSent ==
  ASSUME TypeOK, NEW t, toplevel'[t].fullscreen = game.fullscreen,
         out' = Append(out, Configure(t, ShapeOf(game.fullscreen)))
  PROVE  LastIsStored(t)'
<1> PICK e : e = Configure(t, ShapeOf(game.fullscreen))
  OBVIOUS
<1>1. e.type = "configure" /\ e.id = t /\ e.shape = ShapeOf(game.fullscreen)
  BY EventKinds
<1> PICK n : n = Len(out) + 1
  OBVIOUS
<1>2. n \in Nat /\ DOMAIN out' = 1..n /\ n \in DOMAIN out' /\ out'[n] = e
  BY OutGrown
<1>3. ASSUME NEW k \in DOMAIN out',
             \A j \in DOMAIN out' : j > k => ~(out'[j].type = "configure" /\ out'[j].id = t)
      PROVE  k = n
  BY <1>1, <1>2, <1>3
<1> QED BY <1>1, <1>2, <1>3 DEF LastIsStored, Configures

\* What the client reads, for one live window.
LEMMA ReadWindow ==
  ASSUME RolesInv, Receive, NEW t \in LiveToplevels
  PROVE  \/ /\ Head(out).type = "configure" /\ Head(out).id = t
            /\ latched'[t] = Head(out).shape /\ told'[t] = told[t]
         \/ /\ Head(out).type = "configured" /\ Head(out).id = toplevel[t].xdg
            /\ latched[t] # "new"
            /\ latched'[t] = "new" /\ told'[t] = latched[t]
         \/ /\ ~(Head(out).type = "configure" /\ Head(out).id = t)
            /\ Head(out).type = "configured" /\ Head(out).id = toplevel[t].xdg =>
                 latched[t] = "new"
            /\ latched'[t] = latched[t] /\ told'[t] = told[t]
<1> DEFINE event == Head(out)
<1>0. TypeOK /\ t \in ToplevelIds /\ objects[t]
  BY DEF RolesInv, LiveToplevels, WindowIsRole
<1>1. ASSUME event.type = "configure",
             latched' = [latched EXCEPT ![event.id] =
                          IF objects[event.id] THEN event.shape ELSE @],
             told' = told
      PROVE  /\ told'[t] = told[t]
             /\ event.id = t => latched'[t] = event.shape
             /\ event.id # t => latched'[t] = latched[t]
  BY <1>0, <1>1 DEF TypeOK
<1>2. ASSUME event.type = "configured", NEW ended,
             ended = {u \in LiveToplevels : toplevel[u].xdg = event.id /\ latched[u] # "new"},
             told' = [u \in ToplevelIds |-> IF u \in ended THEN latched[u] ELSE told[u]],
             latched' = [u \in ToplevelIds |-> IF u \in ended THEN "new" ELSE latched[u]]
      PROVE  IF event.id = toplevel[t].xdg /\ latched[t] # "new"
             THEN latched'[t] = "new" /\ told'[t] = latched[t]
             ELSE latched'[t] = latched[t] /\ told'[t] = told[t]
  <2>1. t \in ended <=> (event.id = toplevel[t].xdg /\ latched[t] # "new")
    BY <1>2
  <2> QED BY <1>0, <1>2, <2>1
<1>3. CASE event.type = "configure"
  BY <1>1, <1>3 DEF Receive
<1>4. CASE event.type = "configured"
  BY <1>2, <1>4 DEF Receive
<1>5. CASE event.type = "delete_id"
  BY <1>5 DEF Receive
<1> QED BY <1>3, <1>4, <1>5 DEF Receive

LEMMA LastRead ==
  ASSUME RolesInv, Receive, NEW t \in LiveToplevels, LastIsStored(t)
  PROVE  LastIsStored(t)'
<1> PICK shape : shape = ShapeOf(toplevel[t].fullscreen)
  OBVIOUS
<1>0. /\ TypeOK /\ game' = game /\ toplevel' = toplevel
      /\ shape # "new"
  BY DEF RolesInv, Receive, loopVars, ShapeOf
<1>1. /\ Len(out) \in Nat /\ DOMAIN out = 1..Len(out) /\ 1 \in DOMAIN out
      /\ Head(out) = out[1]
      /\ DOMAIN out' = 1..(Len(out) - 1)
      /\ \A k \in 1..(Len(out) - 1) : out'[k] = out[k + 1]
  BY <1>0, OutRead DEF Receive
<1>2. \A k \in DOMAIN out' : k + 1 \in DOMAIN out /\ out'[k] = out[k + 1]
  BY <1>1
<1>3. CASE Configuring(t)
  BY <1>0, <1>3 DEF LastIsStored, Configuring
<1>4. CASE ~Configuring(t)
  <2>1. ASSUME NEW k \in DOMAIN out', out'[k].type = "configure", out'[k].id = t,
               \A j \in DOMAIN out' : j > k => ~(out'[j].type = "configure" /\ out'[j].id = t)
        PROVE  out'[k].shape = shape
    <3>1. k + 1 \in DOMAIN out /\ Configures(k + 1, t) /\ out'[k] = out[k + 1]
      BY <1>2, <2>1 DEF Configures
    <3>2. ASSUME NEW j \in DOMAIN out, j > k + 1
          PROVE  ~Configures(j, t)
      <4>1. j - 1 \in DOMAIN out' /\ j - 1 > k /\ out'[j - 1] = out[j]
        BY <1>1, <2>1, <3>2
      <4> QED BY <2>1, <4>1 DEF Configures
    <3>3. out[k + 1].shape = shape
      BY <1>4, <3>1, <3>2 DEF LastIsStored
    <3> QED BY <3>1, <3>3
  <2>2. ASSUME \A k \in DOMAIN out' : ~(out'[k].type = "configure" /\ out'[k].id = t)
        PROVE  \/ latched'[t] = shape
               \/ /\ latched'[t] = "new"
                  /\ told'[t] = shape \/ (told'[t] = "new" /\ ~toplevel[t].fullscreen)
    <3>1. ASSUME NEW j \in DOMAIN out, j # 1
          PROVE  ~Configures(j, t)
      <4>1. j - 1 \in DOMAIN out' /\ out'[j - 1] = out[j]
        BY <1>1, <3>1
      <4> QED BY <2>2, <4>1 DEF Configures
    <3>2. CASE Configures(1, t)
      <4>1. \A j \in DOMAIN out : j > 1 => ~Configures(j, t)
        BY <3>1
      <4>2. out[1].shape = shape
        BY <1>1, <1>4, <3>2, <4>1 DEF LastIsStored
      <4>3. latched'[t] = Head(out).shape
        BY <1>1, <3>2, ReadWindow DEF Configures
      <4> QED BY <1>1, <4>2, <4>3
    <3>3. CASE ~Configures(1, t)
      <4>1. \/ latched[t] = shape
            \/ /\ latched[t] = "new"
               /\ told[t] = shape \/ (told[t] = "new" /\ ~toplevel[t].fullscreen)
        BY <1>4, <3>1, <3>3 DEF LastIsStored
      <4>2. ~(Head(out).type = "configure" /\ Head(out).id = t)
        BY <1>1, <3>3 DEF Configures
      <4> QED BY <4>1, <4>2, ReadWindow
    <3> QED BY <3>2, <3>3
  <2> QED BY <1>0, <2>1, <2>2 DEF LastIsStored, Configures
<1> QED BY <1>3, <1>4

\* The end of a window's configures stays on its way.
LEMMA EndKept ==
  ASSUME TypeOK, NEW t, EndFollows(t),
         toplevel'[t].xdg = toplevel[t].xdg, latched'[t] = latched[t],
         Finishing(toplevel[t].xdg) => Finishing(toplevel[t].xdg)',
         \/ out' = out
         \/ \E e : out' = Append(out, e) /\ ~(e.type = "configure" /\ e.id = t)
  PROVE  EndFollows(t)'
<1> PICK x : x = toplevel[t].xdg
  OBVIOUS
<1>1. /\ \A k \in DOMAIN out' : out'[k].type = "configure" /\ out'[k].id = t =>
           k \in DOMAIN out /\ out'[k] = out[k]
      /\ \A k \in DOMAIN out : k \in DOMAIN out' /\ out'[k] = out[k]
  <2>1. CASE out' = out
    BY <2>1
  <2>2. ASSUME NEW e, out' = Append(out, e), ~(e.type = "configure" /\ e.id = t)
        PROVE  /\ \A k \in DOMAIN out' : out'[k].type = "configure" /\ out'[k].id = t =>
                    k \in DOMAIN out /\ out'[k] = out[k]
               /\ \A k \in DOMAIN out : k \in DOMAIN out' /\ out'[k] = out[k]
    <3> PICK n : n = Len(out) + 1
      OBVIOUS
    <3>1. /\ DOMAIN out = 1..Len(out) /\ \A k \in DOMAIN out' : k = n \/ k \in 1..Len(out)
          /\ out'[n] = e
          /\ \A k \in 1..Len(out) : k \in DOMAIN out' /\ out'[k] = out[k]
      BY <2>2, OutGrown
    <3> QED BY <2>2, <3>1
  <2> QED BY <2>1, <2>2
<1>2. Finishing(x) => game'.at = "finishing" /\ game'.id = x
  BY DEF Finishing
<1>3. ASSUME NEW k \in DOMAIN out', out'[k].type = "configure", out'[k].id = t
      PROVE  \/ game'.at = "finishing" /\ game'.id = x
             \/ \E j \in DOMAIN out' : j > k /\ out'[j].type = "configured" /\ out'[j].id = x
  <2>1. k \in DOMAIN out /\ Configures(k, t)
    BY <1>1, <1>3 DEF Configures
  <2>2. Finishing(x) \/ \E j \in DOMAIN out : j > k /\ Finishes(j, x)
    BY <2>1 DEF EndFollows
  <2> QED BY <1>1, <1>2, <2>2 DEF Finishes
<1>4. ASSUME latched[t] # "new"
      PROVE  \/ game'.at = "finishing" /\ game'.id = x
             \/ \E j \in DOMAIN out' : out'[j].type = "configured" /\ out'[j].id = x
  <2>1. Finishing(x) \/ \E j \in DOMAIN out : Finishes(j, x)
    BY <1>4 DEF EndFollows
  <2> QED BY <1>1, <1>2, <2>1 DEF Finishes
<1> QED BY <1>3, <1>4 DEF EndFollows, Configures, Finishes, Finishing

LEMMA EndRead ==
  ASSUME RolesInv, Receive, NEW t \in LiveToplevels, EndFollows(t)
  PROVE  EndFollows(t)'
<1> PICK x : x = toplevel[t].xdg
  OBVIOUS
<1>0. TypeOK /\ game' = game /\ toplevel' = toplevel
  BY DEF RolesInv, Receive, loopVars
<1>1. /\ Len(out) \in Nat /\ DOMAIN out = 1..Len(out) /\ 1 \in DOMAIN out
      /\ Head(out) = out[1]
      /\ DOMAIN out' = 1..(Len(out) - 1)
      /\ \A k \in 1..(Len(out) - 1) : out'[k] = out[k + 1]
  BY <1>0, OutRead DEF Receive
<1>2. \A k \in DOMAIN out' : k + 1 \in DOMAIN out /\ out'[k] = out[k + 1]
  BY <1>1
<1>3. ASSUME NEW j \in DOMAIN out, NEW k \in Nat, j > k + 1
      PROVE  j - 1 \in DOMAIN out' /\ out'[j - 1] = out[j] /\ j - 1 > k
  BY <1>1, <1>3
<1>4. ASSUME NEW k \in DOMAIN out', out'[k].type = "configure", out'[k].id = t
      PROVE  \/ game.at = "finishing" /\ game.id = x
             \/ \E j \in DOMAIN out' : j > k /\ out'[j].type = "configured" /\ out'[j].id = x
  <2>1. k + 1 \in DOMAIN out /\ Configures(k + 1, t) /\ k \in Nat
    BY <1>1, <1>2, <1>4 DEF Configures
  <2>2. Finishing(x) \/ \E j \in DOMAIN out : j > k + 1 /\ Finishes(j, x)
    BY <2>1 DEF EndFollows
  <2> QED BY <1>3, <2>1, <2>2 DEF Finishes, Finishing
<1>5. ASSUME latched'[t] # "new"
      PROVE  \/ game.at = "finishing" /\ game.id = x
             \/ \E j \in DOMAIN out' : out'[j].type = "configured" /\ out'[j].id = x
  <2>1. ASSUME NEW j \in DOMAIN out, j > 1, Finishes(j, x)
        PROVE  \E i \in DOMAIN out' : out'[i].type = "configured" /\ out'[i].id = x
    BY <1>3, <2>1 DEF Finishes
  <2>2. CASE Configures(1, t)
    <3>1. Finishing(x) \/ \E j \in DOMAIN out : j > 1 /\ Finishes(j, x)
      BY <1>1, <2>2 DEF EndFollows
    <3> QED BY <2>1, <3>1 DEF Finishing
  <2>3. CASE ~Configures(1, t)
    <3>1. /\ latched[t] # "new"
          /\ ~(Head(out).type = "configured" /\ Head(out).id = x)
      BY <1>1, <1>5, <2>3, ReadWindow DEF Configures
    <3>2. Finishing(x) \/ \E j \in DOMAIN out : Finishes(j, x)
      BY <3>1 DEF EndFollows
    <3>3. \A j \in DOMAIN out : Finishes(j, x) => j > 1
      BY <1>1, <3>1 DEF Finishes
    <3> QED BY <2>1, <3>2, <3>3 DEF Finishing
  <2> QED BY <2>2, <2>3
<1> QED BY <1>0, <1>4, <1>5 DEF EndFollows, Configures, Finishes, Finishing

\* Sending the event that ends a configure.
LEMMA EndSent ==
  ASSUME TypeOK, FinishConfigure, NEW t, EndFollows(t)
  PROVE  EndFollows(t)'
<1> PICK x : x = toplevel[t].xdg
  OBVIOUS
<1> PICK n : n = Len(out) + 1
  OBVIOUS
<1> PICK e : e = Configured(game.id)
  OBVIOUS
<1>1. /\ toplevel' = toplevel /\ latched' = latched
      /\ out' = Append(out, e)
      /\ e.type = "configured" /\ e.id = game.id
  BY EventKinds DEF FinishConfigure, Send, loopVars, clientVars
<1>2. /\ DOMAIN out = 1..Len(out) /\ n \in DOMAIN out' /\ out'[n] = e
      /\ \A k \in DOMAIN out' : k = n \/ k \in DOMAIN out
      /\ \A k \in DOMAIN out : k \in DOMAIN out' /\ out'[k] = out[k] /\ n > k
  BY <1>1, OutGrown
<1>3. Finishing(x) => out'[n].type = "configured" /\ out'[n].id = x
  BY <1>1, <1>2 DEF Finishing
<1>4. ASSUME NEW k \in DOMAIN out', out'[k].type = "configure", out'[k].id = t
      PROVE  \E j \in DOMAIN out' : j > k /\ out'[j].type = "configured" /\ out'[j].id = x
  <2>1. k \in DOMAIN out /\ Configures(k, t)
    BY <1>1, <1>2, <1>4 DEF Configures
  <2>2. Finishing(x) \/ \E j \in DOMAIN out : j > k /\ Finishes(j, x)
    BY <2>1 DEF EndFollows
  <2> QED BY <1>2, <1>3, <2>1, <2>2 DEF Finishes
<1>5. ASSUME latched[t] # "new"
      PROVE  \E j \in DOMAIN out' : out'[j].type = "configured" /\ out'[j].id = x
  <2>1. Finishing(x) \/ \E j \in DOMAIN out : Finishes(j, x)
    BY <1>5 DEF EndFollows
  <2> QED BY <1>2, <1>3, <2>1 DEF Finishes
<1> QED BY <1>1, <1>4, <1>5 DEF EndFollows, Configures, Finishes

\* A window that stays does not come to be untold.
LEMMA ToldKept ==
  ASSUME RolesInv, ShapeInv, [Next]_vars, NEW u \in LiveToplevels, u \in LiveToplevels', Told(u)
  PROVE  Told(u)'
<1>0. /\ TypeOK /\ u \in ToplevelIds /\ ConfiguresLive
  BY DEF RolesInv, ShapeInv, LiveToplevels
<1>1. CASE Receive
  <2>0. /\ game' = game
        /\ Len(out) \in Nat /\ DOMAIN out = 1..Len(out) /\ Head(out) = out[1]
        /\ Len(out) > 0
        /\ DOMAIN out' = 1..(Len(out) - 1)
        /\ \A k \in 1..(Len(out) - 1) : out'[k] = out[k + 1]
    BY <1>0, <1>1, OutRead DEF Receive
  <2>1. Head(out).type = "configure" => Head(out).shape # "new"
    <3>1. 1 \in DOMAIN out
      BY <2>0
    <3> QED BY <1>0, <2>0, <3>1 DEF ConfiguresLive
  <2>2. /\ latched[u] # "new" => latched'[u] # "new" \/ told'[u] # "new"
        /\ told[u] # "new" => told'[u] # "new"
        /\ Configures(1, u) => latched'[u] # "new"
    BY <1>1, <2>0, <2>1, ReadWindow DEF Configures
  <2>3. ASSUME NEW k \in DOMAIN out, Configures(k, u), k # 1
        PROVE  \E j \in DOMAIN out' : out'[j].type = "configure" /\ out'[j].id = u
    <3>1. k - 1 \in DOMAIN out' /\ out'[k - 1] = out[k]
      BY <2>0, <2>3
    <3> QED BY <2>3, <3>1 DEF Configures
  <2> QED BY <2>0, <2>2, <2>3 DEF Told, Configuring, Configures
<1>2. CASE ~Receive
  <2>1. latched'[u] = latched[u] /\ told'[u] = told[u]
    <3>1. ASSUME NEW t \in ToplevelIds, DestroyToplevel(t),
                 latched' = [latched EXCEPT ![t] = "new"], told' = [told EXCEPT ![t] = "new"]
          PROVE  latched'[u] = latched[u] /\ told'[u] = told[u]
      <4>1. t # u
        BY <3>1, WindowGone
      <4> QED BY <1>0, <3>1, <4>1 DEF TypeOK
    <3> QED BY <1>2, <3>1, ClientStep
  <2>2. \A k \in DOMAIN out : k \in DOMAIN out' /\ out'[k] = out[k]
    <3>1. out' = out \/ \E e : out' = Append(out, e)
      BY <1>2, StepEffects DEF Destroy, SendConfigure, FinishConfigure, Send
    <3> QED BY <1>0, <3>1, OutGrown
  <2>3. (\E k \in DOMAIN out : Configures(k, u)) =>
          \E k \in DOMAIN out' : out'[k].type = "configure" /\ out'[k].id = u
    BY <2>2 DEF Configures
  <2>4. ASSUME Configuring(u)
        PROVE  \/ Configuring(u)'
               \/ \E k \in DOMAIN out' : out'[k].type = "configure" /\ out'[k].id = u
    <3>1. CASE SendConfigure
      <4> PICK e : e = Configure(u, ShapeOf(game.fullscreen))
        OBVIOUS
      <4>1. out' = Append(out, e) /\ e.type = "configure" /\ e.id = u
        BY <2>4, <3>1, EventKinds DEF SendConfigure, Send, Configuring
      <4> QED BY <1>0, <4>1, OutGrown
    <3>2. CASE ~SendConfigure
      <4>1. game' = game
        <5>1. ASSUME NEW t, NEW kind, Push(t, kind)
              PROVE  game' = game
          BY <5>1 DEF Push
        <5>2. ~Drain /\ ~HandleMinimize /\ ~HandleGrab /\ ~HandleMaximize /\ ~FinishConfigure
              /\ ~SyncDisplays /\ \A f : ~HandleFullscreen(f)
          BY <2>4 DEF Configuring, Drain, Idle, HandleMinimize, HandleGrab, HandleMaximize,
                      HandleFullscreen, Handling, FinishConfigure, SyncDisplays
        <5> QED
          BY <1>2, <3>2, <5>1, <5>2, StepKinds, AskPushes
             DEF Update, CreateSurface, DestroySurface, GetXdgSurface, DestroyXdgSurface,
                 GetToplevel, GetPopup, TakeRole, DestroyToplevel, vars
      <4> QED BY <2>4, <4>1 DEF Configuring
    <3> QED BY <3>1, <3>2
  <2> QED BY <2>1, <2>3, <2>4 DEF Told, Configures
<1> QED BY <1>1, <1>2

LEMMA ToldStep ==
  ASSUME RolesInv, TypeOK', ShapeInv, [Next]_vars, NEW u \in LiveToplevels'
  PROVE  AnsweredIsTold(u)'
<1> PICK s : s = toplevel[u].surface
  OBVIOUS
<1> SUFFICES ASSUME wants'[u] # "new", toplevel'[u].surface = s,
                    AsksNone(requests', s), AsksNone(game'.drained, s)
             PROVE  Told(u)'
  <2>1. wants'[u] # "new" => toplevel'[u].surface = s
    BY QueueStep
  <2> QED BY <2>1 DEF AnsweredIsTold
<1>1. /\ u \in LiveToplevels
      /\ \/ KeepsQueues(u)
         \/ \E t \in ToplevelIds, kind \in RequestKinds : Asks(t, kind)
         \/ Drain
         \/ Handles(u)
  BY QueueStep
<1>2. AnsweredIsTold(u) /\ TypeOK
  BY <1>1 DEF ShapeInv, RolesInv
<1>3. ASSUME wants[u] # "new", AsksNone(requests, s), AsksNone(game.drained, s)
      PROVE  Told(u)'
  BY <1>1, <1>2, <1>3, ToldKept DEF AnsweredIsTold
<1>4. CASE KeepsQueues(u)
  BY <1>3, <1>4 DEF KeepsQueues
<1>5. ASSUME NEW t \in ToplevelIds, NEW kind \in RequestKinds, Asks(t, kind)
      PROVE  Told(u)'
  <2>1. /\ game' = game /\ requests \in Seq(Request)
        /\ ~(kind \in ShapeKinds /\ u = t) =>
             /\ wants'[u] = wants[u]
             /\ kind \notin ShapeKinds \/ toplevel[t].surface # s
    BY <1>1, <1>5, AskPushed
  <2>2. PICK r \in Request : /\ requests' = Append(requests, r)
                             /\ r.kind = kind /\ r.surface = toplevel[t].surface
    BY <1>1, <1>5, AskPushed
  <2>3. ~(kind \in ShapeKinds /\ u = t)
    BY <2>1, <2>2, ShapeAppended
  <2>4. AsksNone(requests, s)
    BY <2>1, <2>2, <2>3, OtherAppended
  <2> QED BY <1>3, <2>1, <2>3, <2>4
<1>6. CASE Drain
  <2>1. game.drained = <<>> /\ game'.drained = requests /\ wants' = wants
    BY <1>6 DEF Drain, Idle, clientVars
  <2> QED BY <1>3, <2>1 DEF AsksNone
<1>7. CASE Handles(u)
  <2> PICK q : q = game.drained
    OBVIOUS
  <2>1. /\ q \in Seq(Request) /\ q # <<>> /\ game'.drained = Tail(q)
        /\ requests' = requests /\ wants' = wants
    BY <1>2, <1>7, GameFields DEF Handles
  <2>2. AsksNone(q, s) \/ (AsksLast(q, 1, s) /\ q[1] = Head(q))
    BY <2>1, FirstTaken
  <2>3. CASE AsksNone(q, s)
    BY <1>3, <2>1, <2>3
  <2>4. CASE AsksLast(q, 1, s)
    <3>1. AsksFor(q, 1, u)
      BY <1>1, <2>4, FindsOne DEF AsksLast, AsksShape, AsksFor, RolesInv, WindowIsRole
    <3> QED BY <1>7, <3>1 DEF Handles, Told
  <2> QED BY <2>2, <2>3, <2>4
<1> QED BY <1>1, <1>4, <1>5, <1>6, <1>7

\* What a step makes of the windows that stay, and of the one that comes.
LEMMA TellStep ==
  ASSUME RolesInv, ShapeInv, [Next]_vars, NEW t \in LiveToplevels'
  PROVE  LastIsStored(t)' /\ EndFollows(t)'
<1>0. TypeOK /\ t \in ToplevelIds /\ \A u \in LiveToplevels : u \in ToplevelIds
  BY DEF RolesInv, LiveToplevels
<1>1. t \in LiveToplevels => LastIsStored(t) /\ EndFollows(t)
  BY DEF ShapeInv
<1>2. ASSUME t \in LiveToplevels, game' = game, toplevel'[t] = toplevel[t],
             latched'[t] = latched[t], told'[t] = told[t],
             out' = out \/ \E i \in Ids : out' = Append(out, DeleteId(i))
      PROVE  LastIsStored(t)' /\ EndFollows(t)'
  <2>1. \/ out' = out
        \/ \E e : out' = Append(out, e) /\ ~(e.type = "configure" /\ e.id = t)
    BY <1>2, EventKinds
  <2>2. /\ Configuring(t) => Configuring(t)'
        /\ Finishing(toplevel[t].xdg) => Finishing(toplevel[t].xdg)'
    BY <1>2 DEF Configuring, Finishing
  <2> QED BY <1>0, <1>1, <1>2, <2>1, <2>2, LastKept, EndKept
<1>3. ASSUME \/ \E s \in SurfaceIds : CreateSurface(s) \/ DestroySurface(s)
             \/ \E x \in XdgIds, s \in SurfaceIds : GetXdgSurface(x, s)
             \/ \E x \in XdgIds : DestroyXdgSurface(x)
      PROVE  LastIsStored(t)' /\ EndFollows(t)'
  <2>1. LiveToplevels' = LiveToplevels /\ toplevel' = toplevel
    BY <1>3, SurfaceSteps
  <2>2. /\ game' = game /\ latched' = latched /\ told' = told
        /\ out' = out \/ \E i \in Ids : out' = Append(out, DeleteId(i))
    BY <1>3 DEF CreateSurface, DestroySurface, GetXdgSurface, DestroyXdgSurface, Destroy,
                clientVars, Ids
  <2> QED BY <1>2, <2>1, <2>2
<1>4. ASSUME NEW x \in XdgIds, NEW u \in ToplevelIds, GetToplevel(x, u)
      PROVE  LastIsStored(t)' /\ EndFollows(t)'
  <2>1. /\ u \notin LiveToplevels /\ LiveToplevels' = LiveToplevels \cup {u}
        /\ toplevel'[u] = [surface |-> surfaceOf[x], xdg |-> x, fullscreen |-> FALSE]
        /\ \A v \in LiveToplevels : toplevel'[v] = toplevel[v]
    BY <1>4, WindowMade
  <2>2. game' = game /\ latched' = latched /\ told' = told /\ out' = out
    BY <1>4 DEF GetToplevel, TakeRole, clientVars
  <2>3. CASE t = u
    <3>1. DeleteId(t) \notin Range(out)
      BY <1>4, <2>3 DEF GetToplevel, TakeRole, Allocate
    <3>2. \A k \in DOMAIN out : ~Configures(k, t)
      BY <2>1, <2>3, <3>1, FreshUnheard
    <3>3. latched[t] = "new" /\ told[t] = "new"
      BY <2>1, <2>3 DEF ShapeInv, DeadAreNew
    <3>4. toplevel'[t].fullscreen = FALSE
      BY <2>1, <2>3
    <3> QED BY <2>2, <3>2, <3>3, <3>4 DEF LastIsStored, EndFollows, Configures
  <2>4. CASE t # u
    BY <1>2, <2>1, <2>2, <2>4
  <2> QED BY <2>3, <2>4
<1>5. ASSUME NEW x \in XdgIds, NEW u \in ToplevelIds, GetPopup(x, u)
      PROVE  LastIsStored(t)' /\ EndFollows(t)'
  <2>1. LiveToplevels' = LiveToplevels /\ toplevel' = toplevel
    BY <1>5, PopupMade
  <2>2. game' = game /\ latched' = latched /\ told' = told /\ out' = out
    BY <1>5 DEF GetPopup, TakeRole, clientVars
  <2> QED BY <1>2, <2>1, <2>2
<1>6. ASSUME NEW u \in ToplevelIds, DestroyToplevel(u)
      PROVE  LastIsStored(t)' /\ EndFollows(t)'
  <2>1. t \in LiveToplevels \ {u} /\ toplevel'[t] = toplevel[t]
    BY <1>0, <1>6, WindowGone
  <2>2. /\ game' = game /\ latched'[t] = latched[t] /\ told'[t] = told[t]
        /\ \E i \in Ids : out' = Append(out, DeleteId(i))
    BY <1>0, <1>6, <2>1 DEF DestroyToplevel, Destroy, TypeOK, Ids
  <2> QED BY <1>2, <2>1, <2>2
<1>7. ASSUME NEW u \in ToplevelIds, NEW kind \in RequestKinds, Push(u, kind)
      PROVE  LastIsStored(t)' /\ EndFollows(t)'
  <2>1. game' = game /\ toplevel' = toplevel /\ latched' = latched /\ told' = told /\ out' = out
    BY <1>7 DEF Push, loopVars
  <2> QED BY <1>2, <2>1 DEF LiveToplevels
<1>8. CASE Update
  <2>1. LiveToplevels' = LiveToplevels /\ t \in LiveToplevels
    BY <1>8, WindowsStay, KeptWindows
  <2>2. latched' = latched /\ told' = told /\ toplevel'[t].xdg = toplevel[t].xdg
    <3>1. latched' = latched /\ told' = told
      BY <1>8 DEF Update, Drain, HandleMinimize, HandleGrab, HandleMaximize, HandleFullscreen,
                  SendConfigure, FinishConfigure, SyncDisplays, clientVars
    <3>2. toplevel'[t].xdg = toplevel[t].xdg
      BY <1>0, <1>8, WindowsStay DEF KeepsWindows
    <3> QED BY <3>1, <3>2
  <2>3. ASSUME game.at \in {"idle", "handling"}, out' = out,
               toplevel'[t].fullscreen = toplevel[t].fullscreen \/ Configuring(t)'
        PROVE  LastIsStored(t)' /\ EndFollows(t)'
    <3>1. ~Configuring(t) /\ ~Finishing(toplevel[t].xdg)
      BY <2>3 DEF Configuring, Finishing
    <3>2. EndFollows(t)'
      BY <1>0, <1>1, <2>1, <2>2, <2>3, <3>1, EndKept
    <3>3. LastIsStored(t)'
      <4>1. CASE Configuring(t)'
        BY <4>1 DEF LastIsStored
      <4>2. CASE toplevel'[t].fullscreen = toplevel[t].fullscreen
        BY <1>0, <1>1, <2>1, <2>2, <2>3, <3>1, <4>2, LastKept
      <4> QED BY <2>3, <4>1, <4>2
    <3> QED BY <3>2, <3>3
  <2>4. CASE Drain \/ HandleMinimize \/ HandleGrab \/ HandleMaximize \/ SyncDisplays
    <3>1. game.at \in {"idle", "handling"}
      <4>1. Drain => game.at = "idle"
        BY DEF Drain, Idle
      <4>2. HandleMinimize \/ HandleGrab \/ HandleMaximize \/ SyncDisplays =>
              game.at = "handling"
        BY DEF HandleMinimize, HandleGrab, HandleMaximize, SyncDisplays, Handling
      <4> QED BY <2>4, <4>1, <4>2
    <3>2. out' = out /\ toplevel' = toplevel
      BY <2>4 DEF Drain, HandleMinimize, HandleGrab, HandleMaximize, SyncDisplays, loopVars
    <3> QED BY <2>3, <3>1, <3>2
  <2>5. ASSUME NEW fullscreen \in BOOLEAN, HandleFullscreen(fullscreen)
        PROVE  LastIsStored(t)' /\ EndFollows(t)'
    <3>1. game.at = "handling" /\ out' = out
      BY <2>5 DEF HandleFullscreen, Handling
    <3>2. CASE toplevel' = toplevel
      BY <2>3, <3>1, <3>2
    <3>3. ASSUME NEW u \in ToplevelIds,
                 game' = [Handled EXCEPT !.at = "configuring", !.id = u,
                                         !.fullscreen = fullscreen],
                 toplevel' = [toplevel EXCEPT ![u].fullscreen = fullscreen]
          PROVE  toplevel'[t].fullscreen = toplevel[t].fullscreen \/ Configuring(t)'
      <4>1. game'.at = "configuring" /\ game'.id = u
        BY <1>0, <3>3, GameFields DEF Handled
      <4>2. u # t => toplevel'[t] = toplevel[t]
        BY <1>0, <3>3 DEF TypeOK
      <4> QED BY <4>1, <4>2 DEF Configuring
    <3> QED BY <1>0, <2>3, <2>5, <3>1, <3>2, <3>3 DEF HandleFullscreen, ToplevelsFor
  <2>6. CASE SendConfigure
    <3> PICK g : g = game.id
      OBVIOUS
    <3>1. game.at = "configuring" /\ ~Finishing(toplevel[t].xdg)
      BY <2>6 DEF SendConfigure, Finishing
    <3>2. CASE g \notin LiveToplevels
      <4>1. out' = out /\ toplevel' = toplevel /\ ~Configuring(t)
        BY <2>1, <2>6, <3>2 DEF SendConfigure, Configuring
      <4> QED BY <1>0, <1>1, <2>1, <2>2, <3>1, <4>1, LastKept, EndKept
    <3>3. CASE g \in LiveToplevels
      <4>1. /\ out' = Append(out, Configure(g, ShapeOf(game.fullscreen)))
            /\ toplevel' = [toplevel EXCEPT ![g].fullscreen = game.fullscreen]
            /\ game' = [game EXCEPT !.at = "finishing", !.id = toplevel[g].xdg]
        BY <2>6, <3>3 DEF SendConfigure, Send
      <4>2. game'.at = "finishing" /\ game'.id = toplevel[g].xdg
        BY <1>0, <4>1, GameFields
      <4>3. CASE t = g
        <5>1. toplevel'[t].fullscreen = game.fullscreen
          BY <1>0, <4>1, <4>3 DEF TypeOK
        <5>2. LastIsStored(t)'
          BY <1>0, <4>1, <4>3, <5>1, LastSent
        <5>3. EndFollows(t)'
          BY <2>2, <4>2, <4>3 DEF EndFollows, Finishing
        <5> QED BY <5>2, <5>3
      <4>4. CASE t # g
        <5>1. toplevel'[t] = toplevel[t] /\ ~Configuring(t)
          BY <1>0, <4>1, <4>4 DEF TypeOK, Configuring
        <5>2. \E e : out' = Append(out, e) /\ ~(e.type = "configure" /\ e.id = t)
          BY <4>1, <4>4, EventKinds
        <5> QED BY <1>0, <1>1, <2>1, <2>2, <3>1, <5>1, <5>2, LastKept, EndKept
      <4> QED BY <4>3, <4>4
    <3> QED BY <3>2, <3>3
  <2>7. CASE FinishConfigure
    <3>1. /\ toplevel' = toplevel /\ ~Configuring(t)
          /\ out' = Append(out, Configured(game.id))
      BY <2>7 DEF FinishConfigure, Send, Configuring, loopVars
    <3>2. \E e : out' = Append(out, e) /\ ~(e.type = "configure" /\ e.id = t)
      BY <3>1, EventKinds
    <3>3. LastIsStored(t)'
      BY <1>0, <1>1, <2>1, <2>2, <3>1, <3>2, LastKept
    <3>4. EndFollows(t)'
      BY <1>0, <1>1, <2>1, <2>7, EndSent
    <3> QED BY <3>3, <3>4
  <2> QED BY <1>8, <2>4, <2>5, <2>6, <2>7 DEF Update
<1>9. CASE Receive
  <2>1. t \in LiveToplevels
    BY <1>9 DEF Receive, loopVars, LiveToplevels
  <2> QED BY <1>1, <1>9, <2>1, LastRead, EndRead
<1>10. CASE UNCHANGED vars
  <2>1. game' = game /\ toplevel' = toplevel /\ latched' = latched /\ told' = told /\ out' = out
    BY <1>10 DEF vars, loopVars, clientVars
  <2> QED BY <1>2, <2>1 DEF LiveToplevels
<1> QED BY <1>3, <1>4, <1>5, <1>6, <1>7, <1>8, <1>9, <1>10, StepKinds, AskPushes

LEMMA ShapeStep == RolesInv /\ ShapeInv /\ [Next]_vars => ShapeInv'
<1> SUFFICES ASSUME RolesInv, ShapeInv, [Next]_vars
             PROVE  ShapeInv'
  OBVIOUS
<1>1. TypeOK'
  BY TypeStep
<1>2. ConfiguresLive' /\ DeletesDead' /\ DeadAreNew'
  BY ConfiguresStep, DeletesStep, DeadStep
<1>3. ASSUME NEW t \in LiveToplevels'
      PROVE  /\ LastAskIsWanted(t)' /\ FormerFirst(t)'
             /\ SendsWhatIsStored(t)' /\ AnsweredIsTold(t)'
             /\ LastIsStored(t)' /\ EndFollows(t)'
  BY <1>1, LastAskStep, FormerStep, SendsStep, ToldStep, TellStep
<1> QED BY <1>2, <1>3 DEF ShapeInv

LEMMA ShapeInit == Init => ShapeInv
<1> SUFFICES ASSUME Init
             PROVE  ShapeInv
  OBVIOUS
<1>1. LiveToplevels = {} /\ out = <<>> /\ requests = <<>>
      /\ game.at = "idle" /\ game.drained = <<>>
  BY DEF Init, LiveToplevels, Idle
<1>3. DeadAreNew
  BY DEF Init, DeadAreNew
<1>4. ConfiguresLive /\ DeletesDead
  BY <1>1 DEF ConfiguresLive, DeletesDead, Range
<1> QED BY <1>1, <1>3, <1>4 DEF ShapeInv

\* The last request, the stored size and the last configure of each window
\* follow one another in the order the client asked.
THEOREM ShapesHold == Spec => [](RolesInv /\ ShapeInv)
<1>1. Init => RolesInv /\ ShapeInv
  BY RolesInit, ShapeInit
<1>2. RolesInv /\ ShapeInv /\ [Next]_vars => (RolesInv /\ ShapeInv)'
  BY RolesStep, ShapeStep
<1> QED BY <1>1, <1>2, PTL DEF Spec

\* Once the game has answered everything and the client has read it all, each
\* window that asked for a shape was last told to have the one it asked for
\* last: surfaces, xdg_surfaces and windows may go and their ids be taken
\* again while the game still holds what the former ones asked.
THEOREM QuietAsAsked == Spec => []QuietIsAsAsked
<1>1. RolesInv /\ ShapeInv => QuietIsAsAsked
  <2> SUFFICES ASSUME RolesInv, ShapeInv,
                      requests = <<>>, game = Idle, out = <<>>,
                      NEW t \in LiveToplevels, wants[t] # "new"
               PROVE  told[t] = wants[t]
    BY DEF QuietIsAsAsked
  <2>1. /\ game.drained = <<>> /\ ~Configuring(t)
        /\ LastAskIsWanted(t) /\ AnsweredIsTold(t) /\ LastIsStored(t) /\ EndFollows(t)
    BY DEF Idle, Configuring, ShapeInv
  <2>2. ShapeOf(toplevel[t].fullscreen) = wants[t] /\ Told(t)
    BY <2>1 DEF LastAskIsWanted, AnsweredIsTold, AsksNone
  <2>3. latched[t] = "new"
    BY <2>1 DEF EndFollows, Finishing, Idle
  <2>4. told[t] # "new" /\ \A k \in DOMAIN out : ~Configures(k, t)
    BY <2>1, <2>2, <2>3 DEF Told
  <2>5. told[t] = ShapeOf(toplevel[t].fullscreen)
    BY <2>1, <2>3, <2>4 DEF LastIsStored, ShapeOf
  <2> QED BY <2>2, <2>5
<1> QED BY <1>1, ShapesHold, PTL
=============================================================================
