-------------------------------- MODULE Store --------------------------------
(***************************************************************************)
(* What the cluster promises to its clients, without nodes, fragments or   *)
(* tables.  A file is given a number that no stored file has, the service  *)
(* is closed while it is distributed, and then the file is stored for      *)
(* good.  Whenever the service is open every stored file can be read; a    *)
(* file whose creation was cut off may turn out to be readable or not.     *)
(***************************************************************************)
CONSTANT File

VARIABLES
    stored,     \* files whose creation has ended
    pending,    \* the file being distributed, if any
    open,       \* the service answers
    readable    \* files a read would return

vars == <<stored, pending, open, readable>>

\* An open service returns every stored file, a closed one returns nothing.
Served ==
    IF open THEN stored \subseteq readable /\ readable \subseteq File
    ELSE readable = {}

Init == stored = {} /\ pending = {} /\ open = TRUE /\ readable = {}

\* A file gets a number of its own, and the service closes.
Begin(f) ==
    /\ pending = {} /\ f \notin stored
    /\ pending' = {f} /\ open' = FALSE
    /\ UNCHANGED stored

\* The creation ends; the service opens if nothing else keeps it closed.
End ==
    /\ pending # {}
    /\ stored' = stored \cup pending /\ pending' = {}
    /\ open' \in BOOLEAN

\* Whoever distributed the file died.
Abort ==
    /\ pending # {}
    /\ pending' = {} /\ open' = FALSE
    /\ UNCHANGED stored

\* Nothing is distributed; a death closes the service, its repair opens it.
Toggle ==
    /\ pending = {}
    /\ open' = ~open
    /\ UNCHANGED <<stored, pending>>

Next == ((\E f \in File : Begin(f)) \/ End \/ Abort \/ Toggle) /\ Served'

Spec == Init /\ [][Next]_vars
=============================================================================
