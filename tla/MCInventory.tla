---------------------------- MODULE MCInventory ----------------------------
(***************************************************************************)
(* An instance of Inventory: mariadb is found by itself, and its other     *)
(* name mysql is configured; a private app is only configured.             *)
(***************************************************************************)
EXTENDS Inventory

SomeNames == {"mariadb", "mysql", "app"}
SomeOwn == [n \in SomeNames |-> IF n = "mysql" THEN "mariadb" ELSE n]
SomeClassified == {"mariadb"}
SomeExtra == <<"mysql", "app">>
=============================================================================
