\* Two packets may be in front of a prompt broker's answer, and each may come in two parts:
\* the keep-alive time is the least the assumption allows.
SPECIFICATION Spec
CONSTANTS
  KeepAlive = 7
  Pool = 1
  SocketTimeout = 2
  MaxGap = 1
  Prompt = 1
  Pause = 1
  MaxInbox = 2
INVARIANTS
  SilentBrokerNoticed
PROPERTIES
  PromptBrokerKept
CHECK_DEADLOCK TRUE
