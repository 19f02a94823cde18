----------------------------- MODULE MCRequests -----------------------------
(* An instance of Requests: one file that is stored, one that is not.  A creation of
   the second does not fit in one recv with its contents. *)
EXTENDS Requests
MCSize == [old |-> 4, new |-> 6]
=============================================================================
