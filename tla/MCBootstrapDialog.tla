------------------------ MODULE MCBootstrapDialog ------------------------
(* The dialog over the archives of MCBootstrap. *)
EXTENDS BootstrapDialog, MCBootstrap

====
