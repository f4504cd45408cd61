------------------------------- MODULE MCTree -------------------------------
(* A game in the small for the build-order search: Terran up to the tank.     *)
EXTENDS Integers, Sequences

CONSTANT None

Thing(kind, m, g, time, need, gives, from, req) ==
    [kind |-> kind, m |-> m, g |-> g, time |-> time, need |-> need, gives |-> gives,
     from |-> from, req |-> req, after |-> None, hall |-> kind = "building" /\ need = 0 /\ gives = 20]
Tree ==
    [scv   |-> Thing("worker", 50, 0, 4, 2, 0, "cc", <<"scv", "cc">>),
     cc    |-> Thing("building", 400, 0, 12, 0, 20, "scv", <<"scv">>),
     depot |-> Thing("building", 100, 0, 5, 0, 16, "scv", <<"scv">>),
     ref   |-> Thing("building", 100, 0, 5, 0, 0, "scv", <<"scv">>),
     fact  |-> Thing("building", 200, 40, 8, 0, 0, "scv", <<"scv", "depot">>),
     shop  |-> Thing("addon", 50, 20, 5, 0, 0, "fact", <<"fact">>),
     tank  |-> Thing("unit", 150, 40, 7, 4, 0, "fact", <<"shop", "fact">>),
     hover |-> Thing("unit", 50, 0, 12, 4, 0, "fact", <<"fact">>),
     siege |-> Thing("tech", 100, 40, 6, 0, 0, "shop", <<"shop">>)]
Man == [type |-> "scv", left |-> 0, trains |-> None, trainLeft |-> 0, researchLeft |-> 0, job |-> "mines"]
FirstFrame ==
    [m |-> 50, g |-> 0, frame |-> 0, used |-> 10, total |-> 20, techs |-> {},
     units |-> <<[Man EXCEPT !.type = "cc"], Man, Man, Man, Man, Man>>]
Army == <<[t |-> "tank", n |-> 1]>>
Techs == <<"siege">>
Buildings == <<[t |-> "ref", n |-> 2], [t |-> "depot", n |-> 1]>>

\* Two factories, one of which is training a tank.
Fact == [Man EXCEPT !.type = "fact"]
TwoFactories ==
    [FirstFrame EXCEPT !.m = 1000, !.g = 1000, !.used = 14, !.total = 100,
                       !.units = <<[Man EXCEPT !.type = "cc"], [Man EXCEPT !.type = "depot"], Man, Man,
                                   Fact, [Fact EXCEPT !.trains = "hover", !.trainLeft = 9]>>]
Hovers == <<[t |-> "hover", n |-> 4]>>
OneShop == <<[t |-> "shop", n |-> 1]>>
=============================================================================
