----------------------------- MODULE MCLifetime -----------------------------
(* Instance of Lifetime: clients that leave as they like and a mod that is  *)
(* enabled once, clients that stay while a pointer to them is kept and a mod*)
(* that is enabled again, and all promises.                                 *)
EXTENDS Lifetime

CONSTANTS c1, c2, unix

MCConns == {c1, c2}
MCListeners == {unix}
MCWorlds == {{"once"}, {"stays"}, Promises}
=============================================================================
