----------------------------- MODULE HandleServer -----------------------------
(***************************************************************************)
(* What the event loop promises an application: a set of handles per kind, *)
(* served in rounds.  A round visits every tx handle and then every timer  *)
(* that is registered, each at most once, in some order.  A visit to a tx  *)
(* handle calls it; a visit to a timer may.  A handle registered during a  *)
(* round over its kind is visited in the same round, one unregistered is   *)
(* not visited any more.  EventLoop implements this with linked lists in   *)
(* recycled memory.                                                        *)
(***************************************************************************)
CONSTANTS Handle, None

VARIABLES
  registered,   \* registered[k]: the handles of kind k
  phase,        \* the kind whose handles are visited, or "idle"
  ahead,        \* those this round has yet to visit
  current       \* the handle whose callback runs, or None

served == <<registered, phase, ahead, current>>

Init ==
  /\ registered = [k \in {"rx", "tx", "timer"} |-> {}]
  /\ phase = "idle"
  /\ ahead = {}
  /\ current = None

(* The application's code runs outside a round or in a callback. *)
Application == phase = "idle" \/ current # None

Register(k, h) ==
  /\ Application
  /\ \A j \in DOMAIN registered : h \notin registered[j]
  /\ registered' = [registered EXCEPT ![k] = @ \cup {h}]
  /\ ahead' = IF phase = k THEN ahead \cup {h} ELSE ahead
  /\ UNCHANGED <<phase, current>>

Unregister(k, h) ==
  /\ Application
  /\ h \in registered[k] /\ h # current
  /\ registered' = [registered EXCEPT ![k] = @ \ {h}]
  /\ ahead' = ahead \ {h}
  /\ UNCHANGED <<phase, current>>

Start(from, k) ==
  /\ phase = from /\ current = None /\ ahead = {}
  /\ phase' = k
  /\ ahead' = registered[k]
  /\ UNCHANGED <<registered, current>>

Visit(h) ==
  /\ h \in ahead /\ current = None
  /\ ahead' = ahead \ {h}
  /\ current' = h \/ (phase = "timer" /\ current' = None)
  /\ UNCHANGED <<registered, phase>>

Return ==
  /\ current # None
  /\ current' = None
  /\ UNCHANGED <<registered, phase, ahead>>

Finish ==
  /\ phase = "timer" /\ current = None /\ ahead = {}
  /\ phase' = "idle"
  /\ UNCHANGED <<registered, ahead, current>>

Next ==
  \/ \E h \in Handle :
       \/ \E k \in {"rx", "tx", "timer"} : Register(k, h) \/ Unregister(k, h)
       \/ Visit(h)
  \/ Start("idle", "tx") \/ Start("tx", "timer")
  \/ Return \/ Finish

Spec == Init /\ [][Next]_served
=============================================================================
