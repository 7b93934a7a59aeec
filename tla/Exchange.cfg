SPECIFICATION Spec
CONSTANTS
  Commands <- MCCommands
  AllEvents <- MCEvents
  RawCommands <- MCRawCommands
  RawEvents <- MCRawEvents
  RawNotifications <- MCRawNotifications
INVARIANTS
  TypeOK
  ArrivesAsSent
  AcceptedIsReadable
  RelayIsAccepted
