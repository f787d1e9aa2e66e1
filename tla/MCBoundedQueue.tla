--------------------------- MODULE MCBoundedQueue ---------------------------
(* Model values for BoundedQueue, on the pattern of in_queue: the main     *)
(* task sends, without a timeout when the console is behind it, and        *)
(* receives; the HTTP server's task sends with a timeout.  A third         *)
(* producer and a second consumer, more than any queue of the firmware     *)
(* has, let calls of one side overlap while another waits.                 *)
EXTENDS BoundedQueue

CONSTANTS main, httpd, other, worker, m1, m2

MCProducers == {main, httpd, other}
MCConsumers == {main, worker}
MCPatient == {main}
MCMsg == {m1, m2}
=============================================================================
