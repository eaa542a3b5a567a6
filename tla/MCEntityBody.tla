---------------------------- MODULE MCEntityBody ----------------------------
(* EntityBody with bodies of a few bytes and buffers smaller than them.    *)
EXTENDS EntityBody
=============================================================================
