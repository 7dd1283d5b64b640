---------------------------- MODULE MCAccountCache ----------------------------
(* A small instance of AccountCache for TLC. *)
EXTENDS AccountCache, MCPoolFiles

Subscribed == SubscribedOf(Accounts)
WarmUp == WarmUpOf(Accounts)
=============================================================================
