------------------------------ MODULE MCServer ------------------------------
(* Three client connections and two tickets: a connection can wait for     *)
(* the tickets the others hold while a shutdown kicks, kills or times out. *)
EXTENDS Server

CONSTANTS c1, c2, c3

MCConns == {c1, c2, c3}
====
