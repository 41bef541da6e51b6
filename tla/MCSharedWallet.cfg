\* A wallet, its owner and two other users, two invitations and two calls in
\* flight: enough for two accepts of one code, an accept against a
\* cancellation, and a removal against a removal or an accept.
CONSTANTS
  None = None
  Users = {o, a, b}
  Owner = o
  Invitations = {i1, i2}
  Calls = {c1, c2}
SPECIFICATION Spec
INVARIANTS TypeOK AdmissionsAreSound SharedUnlessOverlapped
PROPERTIES JoinsByInvitation
