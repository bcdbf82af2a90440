\* A session of three, with a third process that dials too.  Two broadcasts in
\* all and inboxes that hold one, so that an inbox fills.
CONSTANTS
  Dialler = {1, 2, 3}
  Size = 3
  Policies = {"End", "Drop"}
  MaxInbox = 1
  MaxSaid = 2
  Garblers = {3}
  Slow = {1}
  Listener = listening
  None = none
SPECIFICATION Spec
PROPERTIES ImplementsRelay LostIsSilent LossIsNoticed
CHECK_DEADLOCK FALSE
