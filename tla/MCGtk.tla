--------------------------------- MODULE MCGtk ---------------------------------
(* A start menu with two menus in it, and nothing in those. *)
EXTENDS Gtk

MCMenus == {"start", "a", "b"}
MCChildren == [m \in MCMenus |-> IF m = "start" THEN {"a", "b"} ELSE {}]
=============================================================================
