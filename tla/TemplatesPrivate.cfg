CONSTANTS
  User = {ann, bob}
  Admin = {ann}
  Request = {1, 2}
  Id = {1, 2, 3}
  Name = {"Pick_fork"}
  First <- MCFirst
  ForkName <- MCForkName
  Submitted <- MCSubmitted
  Registered = {"scan"}
  NoImpl = "none"
  MaxLines = 1
  Blocklist = {"ignore"}
  Global = nobody
  CacheSize = 1
  Asked = {0}
  MaxVersions = 2
SPECIFICATION Spec
INVARIANT PrivateIsLlm
CHECK_DEADLOCK FALSE
