----------------------------- MODULE MCScanner -----------------------------
(* Scanner with one ticket, for the first of the events; a scan of it at a  *)
(* gate of the other event is one for a wrong event.                        *)
EXTENDS Scanner

CONSTANTS e1, t1

MCEventOf == [t \in {t1} |-> e1]
=============================================================================
