------------------------ MODULE MCServiceSupervisor ------------------------
(* Instances of ServiceSupervisor for TLC: up to three services, two tick    *)
(* identities (a fresh tick and the last abandoned one).                     *)
EXTENDS ServiceSupervisor

CONSTANTS a, b, c, t1, t2

OrderA == <<a>>
OrderB == <<b>>
OrderABC == <<a, b, c>>
=============================================================================
