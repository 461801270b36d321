SPECIFICATION FairDeliverySpec
CONSTANTS
  gl = gl
  notification = notification
  schedule = schedule
  MaxEvents = 1
  Batches = {b1, b2}
  Publisher = gl
  Services = {notification, schedule}
  NackOnly = {schedule}
  Failing <- NotificationFailsOnFirst
  Flaky <- ScheduleMayFailOnFirst
  Channels = {"open", "none"}
  Limit = 1
  MaxRetries = 2
  MaxAttempts = 2
  MaxFaults = 2
  MaxLosses = 1
INVARIANT
  DurableWithBroker
PROPERTIES
  EventSettles
  QueuesDrain
  PoisonIsDeadLettered
CHECK_DEADLOCK FALSE
