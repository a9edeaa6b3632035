-------------------------------- MODULE Call --------------------------------
(***************************************************************************)
(* What UdpServer promises to who calls sendRequest(): the callback comes  *)
(* once, and when it has no error the request has been handled.  How often *)
(* it has been handled it does not promise.                                *)
(***************************************************************************)
EXTENDS Naturals

VARIABLES
    call,    \* "none", "waiting", "replied", "failed"
    handled  \* how often the handler has been called

Init == call = "none" /\ handled = 0

Ask == /\ call = "none"
       /\ call' = "waiting"
       /\ UNCHANGED handled

\* Also a request that has been given up, and once more than the caller knows.
Handle == /\ call # "none"
          /\ handled' = handled + 1
          /\ UNCHANGED call

Answer == /\ call = "waiting" /\ handled > 0
          /\ call' = "replied"
          /\ UNCHANGED handled

GiveUp == /\ call = "waiting"
          /\ call' = "failed"
          /\ UNCHANGED handled

Next == Ask \/ Handle \/ Answer \/ GiveUp

Spec == Init /\ [][Next]_<<call, handled>>
=============================================================================
