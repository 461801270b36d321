--------------------------- MODULE MCEventDelivery ---------------------------
(* Instances of EventDelivery for TLC: gl publishes; notification can never    *)
(* handle the first event, and schedule, which does not retry, may fail on it. *)
EXTENDS EventDelivery

CONSTANTS gl, notification, schedule

NotificationFailsOnFirst == {<<1, notification>>}
ScheduleMayFailOnFirst == {<<1, schedule>>}
=============================================================================
