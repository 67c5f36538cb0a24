\* Three requests of the owner, every reply and every session.
SPECIFICATION FairBootstrap
CONSTANTS
  q1 = q1
  q2 = q2
  q3 = q3
  Request = {q1, q2, q3}
  NoReply = NoReply
CHECK_DEADLOCK FALSE
INVARIANTS BootstrapTypeOK MutuallyAuthenticated
PROPERTIES RefusedIsOver Concludes
