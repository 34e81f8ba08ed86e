----------------------------- MODULE MCSessions -----------------------------
(* Sessions on small sets, for TLC. *)
EXTENDS Sessions

MCAllModes == Backends
MCMysql == {"mysql-os-redis"}
=============================================================================
