------------------------------ MODULE MCSearch ------------------------------
(* The build-order search from two factories, one of which is training.       *)
EXTENDS BuildSearch

T == INSTANCE MCTree
Tree == T!Tree
TwoFactories == T!TwoFactories
Hovers == T!Hovers
OneShop == T!OneShop
NoTechs == <<>>
=============================================================================
