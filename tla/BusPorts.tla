------------------------------ MODULE BusPorts ------------------------------
(***************************************************************************)
(* What the processor's bus promises to the two ports of the CPU: a request *)
(* is put on the bus once, answered once, and the answer is the one of that *)
(* request: its data, or an error when the address is one that can fail.    *)
(* The ports work at the same time; the bus takes one request in a cycle.   *)
(***************************************************************************)
CONSTANTS
  Ports,
  Requests,   (* Requests[p]: what port p may ask for: [adr, we].          *)
  NoReq,      (* Stands for "no request".                                  *)
  MayFail,    (* Requests that can end with an error,                      *)
  MustFail    (* and those that always do.                                 *)

VARIABLES
  pend,       (* pend[p]: the request of port p, or NoReq.                 *)
  times,      (* times[p]: how often it was put on the bus.                *)
  got         (* got[p]: the answer of this step: the address whose data   *)
              (* came, "error", or NoReq.                                  *)

portVars == <<pend, times, got>>

Init ==
  /\ pend = [p \in Ports |-> NoReq]
  /\ times = [p \in Ports |-> 0]
  /\ got = [p \in Ports |-> NoReq]

Stay(p) == pend'[p] = pend[p] /\ times'[p] = times[p] /\ got'[p] = NoReq

Ask(p) ==
  /\ pend[p] = NoReq
  /\ pend'[p] \in Requests[p]
  /\ times'[p] = 0
  /\ got'[p] = NoReq

Serve(p) ==
  /\ pend[p] # NoReq /\ times[p] = 0
  /\ times'[p] = 1
  /\ pend'[p] = pend[p] /\ got'[p] = NoReq

(* The port may have its next request ready. *)
Answer(p) ==
  /\ pend[p] # NoReq /\ times[p] = 1
  /\ \/ pend[p] \notin MustFail /\ got'[p] = pend[p].adr
     \/ pend[p] \in MayFail /\ got'[p] = "error"
  /\ pend'[p] \in Requests[p] \union {NoReq}
  /\ times'[p] = 0

Next ==
  /\ \A p \in Ports : Stay(p) \/ Ask(p) \/ Serve(p) \/ Answer(p)
  /\ \A p, r \in Ports : Serve(p) /\ Serve(r) => p = r

Spec == Init /\ [][Next]_portVars
=============================================================================
