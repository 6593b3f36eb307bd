------------------------- MODULE MCSessionRegistry -------------------------
(* A small instance of the session registry: two tabs of one profile, for  *)
(* one kind of each policy.                                                *)
EXTENDS SessionRegistry

MCPolicy == [
    ssh     |-> [sharing |-> "per_tab", closeOnRelease |-> TRUE, slow |-> FALSE],
    sqlite  |-> [sharing |-> "per_profile", closeOnRelease |-> FALSE, slow |-> FALSE],
    mongodb |-> [sharing |-> "per_profile", closeOnRelease |-> FALSE, slow |-> TRUE],
    redis   |-> [sharing |-> "scoped", closeOnRelease |-> FALSE, slow |-> FALSE]]
MCKinds == DOMAIN MCPolicy

MCDatabase == [t \in Tabs |-> t]
=============================================================================
