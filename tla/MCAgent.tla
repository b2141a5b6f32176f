------------------------------ MODULE MCAgent ------------------------------
(* A device as "suderra-agent --init" leaves it, with or without a tenant  *)
(* and a CA certificate put in.                                            *)
EXTENDS Agent

MCShipped ==
  {[Template EXCEPT !.tenant = t, !.trusted = c] : t, c \in BOOLEAN}
=============================================================================
